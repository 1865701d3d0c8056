----------------------------- MODULE QueueProofs ----------------------------
(***************************************************************************)
(* Proofs about Queue, for any set of threads and items and any number of  *)
(* slots.                                                                  *)
(***************************************************************************)
EXTENDS Queue, TLAPS, SequenceTheorems

USE SlotsAssumption, NullAssumption

(* What a thread's call must look like for the rest to be preserved: a     *)
(* push always carries an item.                                            *)
CallOK == \A t \in Threads : call[t].op = "push" => call[t].item \in Items

(* The inductive invariant. *)
IInv == TypeOK /\ LockOK /\ CallOK /\ RingOK /\ NoLostWakeup /\ BlockingCallsDeliver

-----------------------------------------------------------------------------
(* Facts about the arithmetic of the ring.  The next slot is a slot. *)
LEMMA SuccType == ASSUME NEW i \in Index PROVE Succ(i) \in Index
  BY DEF Succ, Index

(* So is the slot k places on. *)
LEMMA PlusType ==
  ASSUME NEW i \in Index, NEW k \in 0 .. Slots PROVE Plus(i, k) \in Index
  BY DEF Plus, Index

(* Going one slot on and then k is going k + 1. *)
LEMMA PlusSucc ==
  ASSUME NEW i \in Index, NEW k \in 0 .. Slots - 1
  PROVE  Plus(Succ(i), k) = Plus(i, k + 1) /\ Succ(Plus(i, k)) = Plus(i, k + 1)
  BY DEF Plus, Succ, Index

(* Fewer than Slots steps never come back to the same slot. *)
LEMMA PlusInjective ==
  ASSUME NEW i \in Index, NEW j \in 0 .. Slots - 1, NEW k \in 0 .. Slots - 1,
         Plus(i, j) = Plus(i, k)
  PROVE  j = k
  BY DEF Plus, Index

(* No place on is the slot itself. *)
LEMMA PlusZero == ASSUME NEW i \in Index PROVE Plus(i, 0) = i
  BY DEF Plus, Index

(* The second test of each operation agrees with the counter: the ring has *)
(* room exactly when fewer than mMaxItems are queued, and is empty exactly *)
(* when none is.                                                           *)
LEMMA CounterAgrees ==
  ASSUME TypeOK, head = Plus(tail, mNumItems)
  PROVE  /\ mNumItems < mMaxItems => Succ(head) # tail
         /\ mNumItems > 0 => tail # head
  BY DEF TypeOK, mMaxItems, Plus, Succ, Index

-----------------------------------------------------------------------------
(* Queue keeps its types. *)
THEOREM TypeCorrect == Spec => []TypeOK
<1>1. Init => TypeOK
  BY DEF Init, TypeOK, Index, mMaxItems, PopCall, Calls
<1>2. TypeOK /\ [Next]_queueVars => TypeOK'
  <2> SUFFICES ASSUME TypeOK, [Next]_queueVars PROVE TypeOK'
    OBVIOUS
  <2> USE DEF TypeOK
  <2>1. ASSUME NEW t \in Threads, NEW i \in Items, NEW b \in BOOLEAN, CallPush(t, i, b)
        PROVE  TypeOK'
    BY <2>1 DEF CallPush, Enter, PushCall, Calls
  <2>2. ASSUME NEW t \in Threads, NEW b \in BOOLEAN, CallPop(t, b)
        PROVE  TypeOK'
    BY <2>2 DEF CallPop, Enter, PopCall, Calls
  <2>3. ASSUME NEW t \in Threads, Lock(t) PROVE TypeOK'
    BY <2>3 DEF Lock
  <2>4. ASSUME NEW t \in Threads, Wait(t) PROVE TypeOK'
    BY <2>4 DEF Wait
  <2>5. ASSUME NEW t \in Threads, Push(t) PROVE TypeOK'
    <3>1. call[t] \in Calls /\ call[t].item \in Items \cup {NULL}
      BY DEF Calls
    <3>2. call' \in [Threads -> Calls]
      BY <2>5 DEF Push, Calls
    <3>3. qpc' \in [Threads -> {"outside", "locking", "locked", "waiting"}]
      BY <2>5 DEF Push, Broadcast
    <3>4. mNumItems' \in 0 .. mMaxItems
      BY <2>5 DEF Push, mMaxItems
    <3>5. QED
      BY <2>5, <3>1, <3>2, <3>3, <3>4, SuccType DEF Push
  <2>6. ASSUME NEW t \in Threads, Pop(t) PROVE TypeOK'
    <3>1. call' \in [Threads -> Calls]
      BY <2>6 DEF Pop, Calls
    <3>2. qpc' \in [Threads -> {"outside", "locking", "locked", "waiting"}]
      BY <2>6 DEF Pop, Broadcast
    <3>3. mNumItems' \in 0 .. mMaxItems
      BY <2>6 DEF Pop, mMaxItems
    <3>4. QED
      BY <2>6, <3>1, <3>2, <3>3, SuccType DEF Pop
  <2>7. ASSUME NEW t \in Threads, SpuriousWakeup(t) PROVE TypeOK'
    BY <2>7 DEF SpuriousWakeup
  <2>8. CASE UNCHANGED queueVars
    BY <2>8 DEF queueVars
  <2>9. QED
    BY <2>1, <2>2, <2>3, <2>4, <2>5, <2>6, <2>7, <2>8 DEF Next, Inside
<1>3. QED
  BY <1>1, <1>2, PTL DEF Spec

-----------------------------------------------------------------------------
(* The inductive invariant, one lemma per action.  It holds of a new queue. *)
LEMMA InitIInv == Init => IInv
  BY DEF Init, IInv, TypeOK, LockOK, CallOK, RingOK, NoLostWakeup,
         BlockingCallsDeliver, Index, mMaxItems, PopCall, Calls, Plus, MustWait

(* Entering a call touches neither the ring nor the mutex, and the caller  *)
(* is neither asleep nor returned any more.                                *)
LEMMA EnterIInv ==
  ASSUME IInv, TypeOK', NEW t \in Threads,
         NEW c \in Calls, c.op = "push" => c.item \in Items, Enter(t, c)
  PROVE  IInv'
<1> USE DEF IInv, Enter
<1>1. LockOK'
  BY DEF TypeOK, LockOK
<1>2. CallOK'
  BY DEF TypeOK, CallOK
<1>3. RingOK'
  BY DEF RingOK, Plus
<1>4. NoLostWakeup'
  BY DEF TypeOK, NoLostWakeup, MustWait, mMaxItems
<1>5. BlockingCallsDeliver'
  BY DEF TypeOK, BlockingCallsDeliver
<1>6. QED
  BY <1>1, <1>2, <1>3, <1>4, <1>5

(* Steps that only move a thread between locking, locked and waiting. *)
LEMMA LockingIInv ==
  ASSUME IInv, TypeOK', NEW t \in Threads, Lock(t) \/ Wait(t) \/ SpuriousWakeup(t)
  PROVE  IInv'
<1> USE DEF IInv, Lock, Wait, SpuriousWakeup
<1>1. LockOK'
  BY DEF TypeOK, LockOK
<1>2. CallOK' /\ RingOK'
  BY DEF CallOK, RingOK, Plus
<1>3. NoLostWakeup'
  BY DEF TypeOK, NoLostWakeup, MustWait
<1>4. BlockingCallsDeliver'
  BY DEF TypeOK, BlockingCallsDeliver
<1>5. QED
  BY <1>1, <1>2, <1>3, <1>4

(* A push: with room it writes the slot after the last item, without room  *)
(* it cannot have been a blocking call.                                    *)
LEMMA PushIInv ==
  ASSUME IInv, TypeOK', NEW t \in Threads, Push(t)
  PROVE  IInv'
<1> USE DEF IInv
<1>1. call[t].op = "push" /\ call[t].item \in Items /\ qpc[t] = "locked" /\ qpc'[t] = "outside"
  BY DEF Push, CallOK, TypeOK, Broadcast
<1>2. \A u \in Threads \ {t} : call'[u] = call[u] /\ qpc'[u] # "locked"
  BY DEF Push, TypeOK, Broadcast, LockOK
<1>3. call'[t].op = "push" /\ call'[t].item = call[t].item /\ call'[t].blocking = call[t].blocking
  BY DEF Push, TypeOK, Calls
<1>4. LockOK'
  BY <1>1, <1>2 DEF Push, LockOK
<1>5. CallOK'
  BY <1>1, <1>2, <1>3 DEF CallOK
<1>6. CASE mNumItems < mMaxItems /\ Succ(head) # tail
  <2>1. /\ buf' = [buf EXCEPT ![head] = call[t].item]
        /\ head' = Succ(head)
        /\ tail' = tail
        /\ mNumItems' = mNumItems + 1
        /\ Broadcast(t)
        /\ call' = [call EXCEPT ![t].ret = "success"]
    BY <1>6 DEF Push
  <2>2. RingOK'
    <3>1. mNumItems \in 0 .. Slots - 1 /\ mNumItems + 1 \in 0 .. Slots - 1
      BY <1>6 DEF TypeOK, mMaxItems
    <3>2. head' = Plus(tail', mNumItems')
      BY <2>1, <3>1, PlusSucc DEF RingOK, TypeOK
    <3>3. ASSUME NEW k \in 0 .. mNumItems' - 1 PROVE buf'[Plus(tail', k)] \in Items
      <4>1. k \in 0 .. mNumItems /\ k \in 0 .. Slots - 1 /\ Plus(tail, k) \in Index
        BY <2>1, <3>1, PlusType DEF TypeOK
      <4>2. CASE k = mNumItems
        BY <4>2, <2>1, <1>1 DEF RingOK, TypeOK
      <4>3. CASE k < mNumItems
        <5>1. Plus(tail, k) # head
          BY <4>1, <4>3, <3>1, PlusInjective DEF RingOK, TypeOK
        <5>2. buf'[Plus(tail, k)] = buf[Plus(tail, k)]
          BY <5>1, <4>1, <2>1 DEF TypeOK
        <5>3. QED
          BY <5>2, <4>1, <4>3, <2>1, <3>1 DEF RingOK
      <4>4. QED
        BY <4>1, <4>2, <4>3, <3>1
    <3>4. QED
      BY <3>2, <3>3, <2>1 DEF RingOK, Plus
  <2>3. NoLostWakeup'
    BY <2>1 DEF Broadcast, NoLostWakeup
  <2>4. BlockingCallsDeliver'
    <3>1. call'[t].ret = "success" /\ call'[t].item # NULL
      BY <2>1, <1>1, <1>3 DEF TypeOK, Calls
    <3>2. \A u \in Threads \ {t} : qpc'[u] = "outside" => qpc[u] = "outside"
      BY <2>1 DEF Broadcast
    <3>3. QED
      BY <3>1, <3>2, <1>2 DEF BlockingCallsDeliver
  <2>5. QED
    BY <1>4, <1>5, <2>2, <2>3, <2>4
<1>7. CASE ~(mNumItems < mMaxItems /\ Succ(head) # tail)
  <2>1. /\ UNCHANGED <<buf, head, tail, mNumItems>>
        /\ qpc' = [qpc EXCEPT ![t] = "outside"]
        /\ call' = [call EXCEPT ![t].ret = "EAGAIN"]
    BY <1>7 DEF Push
  <2>2. ~call[t].blocking
    BY <1>7, <1>1, CounterAgrees DEF Push, MustWait, RingOK, TypeOK, mMaxItems
  <2>3. RingOK'
    BY <2>1 DEF RingOK, Plus
  <2>4. NoLostWakeup'
    BY <2>1, <1>2 DEF NoLostWakeup, TypeOK, MustWait, mMaxItems
  <2>5. BlockingCallsDeliver'
    BY <2>1, <2>2, <1>2, <1>3 DEF BlockingCallsDeliver, TypeOK
  <2>6. QED
    BY <1>4, <1>5, <2>3, <2>4, <2>5
<1>8. QED
  BY <1>6, <1>7

(* A pop: it hands over the item at the tail and the rest keeps its order; *)
(* without an item it cannot have been a blocking call.                    *)
LEMMA PopIInv ==
  ASSUME IInv, TypeOK', NEW t \in Threads, Pop(t)
  PROVE  IInv'
<1> USE DEF IInv
<1>1. call[t].op = "pop" /\ qpc[t] = "locked" /\ qpc'[t] = "outside"
  BY DEF Pop, TypeOK, Broadcast
<1>2. \A u \in Threads \ {t} : call'[u] = call[u] /\ qpc'[u] # "locked"
  BY DEF Pop, TypeOK, Broadcast, LockOK
<1>3. call'[t].op = "pop" /\ call'[t].blocking = call[t].blocking
  BY <1>1 DEF Pop, TypeOK, Calls
<1>4. LockOK'
  BY <1>1, <1>2 DEF Pop, LockOK
<1>5. CallOK'
  BY <1>2, <1>3 DEF CallOK
<1>6. CASE mNumItems > 0 /\ tail # head
  <2>1. /\ UNCHANGED <<buf, head>>
        /\ tail' = Succ(tail)
        /\ mNumItems' = mNumItems - 1
        /\ Broadcast(t)
        /\ call' = [call EXCEPT ![t].ret = "success", ![t].item = buf[tail]]
    BY <1>6 DEF Pop
  <2>2. /\ mNumItems \in 0 .. Slots - 1
        /\ mNumItems - 1 \in 0 .. Slots - 1
        /\ \A k \in 0 .. mNumItems' - 1 : k \in 0 .. Slots - 1 /\ k + 1 \in 0 .. mNumItems - 1
    BY <1>6, <2>1 DEF TypeOK, mMaxItems
  <2>3. RingOK'
    <3>1. head' = Plus(tail', mNumItems')
      BY <2>1, <2>2, PlusSucc DEF RingOK, TypeOK
    <3>2. ASSUME NEW k \in 0 .. mNumItems' - 1 PROVE buf'[Plus(tail', k)] \in Items
      <4>1. Plus(tail', k) = Plus(tail, k + 1)
        BY <2>1, <2>2, PlusSucc DEF TypeOK
      <4>2. QED
        BY <4>1, <2>1, <2>2 DEF RingOK
    <3>3. QED
      BY <3>1, <3>2 DEF RingOK, Plus
  <2>4. NoLostWakeup'
    BY <2>1 DEF Broadcast, NoLostWakeup
  <2>5. BlockingCallsDeliver'
    <3>1. buf[tail] \in Items
      BY <1>6, <2>2, PlusZero DEF RingOK, TypeOK
    <3>2. call'[t].ret = "success" /\ call'[t].item # NULL
      BY <2>1, <3>1 DEF TypeOK, Calls
    <3>3. \A u \in Threads \ {t} : qpc'[u] = "outside" => qpc[u] = "outside"
      BY <2>1 DEF Broadcast
    <3>4. QED
      BY <3>2, <3>3, <1>2 DEF BlockingCallsDeliver
  <2>6. QED
    BY <1>4, <1>5, <2>3, <2>4, <2>5
<1>7. CASE ~(mNumItems > 0 /\ tail # head)
  <2>1. /\ UNCHANGED <<buf, head, tail, mNumItems>>
        /\ qpc' = [qpc EXCEPT ![t] = "outside"]
        /\ call' = [call EXCEPT ![t].ret = "success"]
    BY <1>7 DEF Pop
  <2>2. ~call[t].blocking
    BY <1>7, <1>1, CounterAgrees DEF Pop, MustWait, RingOK, TypeOK, mMaxItems
  <2>3. RingOK'
    BY <2>1 DEF RingOK, Plus
  <2>4. NoLostWakeup'
    BY <2>1, <1>2 DEF NoLostWakeup, TypeOK, MustWait, mMaxItems
  <2>5. BlockingCallsDeliver'
    BY <2>1, <2>2, <1>2, <1>3 DEF BlockingCallsDeliver, TypeOK
  <2>6. QED
    BY <1>4, <1>5, <2>3, <2>4, <2>5
<1>8. QED
  BY <1>6, <1>7

(* Every step keeps the inductive invariant. *)
LEMMA NextIInv == IInv /\ TypeOK' /\ [Next]_queueVars => IInv'
<1> SUFFICES ASSUME IInv, TypeOK', [Next]_queueVars PROVE IInv'
  OBVIOUS
<1>1. ASSUME NEW t \in Threads, NEW i \in Items, NEW b \in BOOLEAN, CallPush(t, i, b)
      PROVE  IInv'
  <2>1. PushCall(i, b) \in Calls /\ PushCall(i, b).item \in Items
    BY DEF PushCall, Calls
  <2>2. QED
    BY <1>1, <2>1, EnterIInv DEF CallPush
<1>2. ASSUME NEW t \in Threads, NEW b \in BOOLEAN, CallPop(t, b)
      PROVE  IInv'
  <2>1. PopCall(b) \in Calls /\ PopCall(b).op # "push"
    BY DEF PopCall, Calls
  <2>2. QED
    BY <1>2, <2>1, EnterIInv DEF CallPop
<1>3. ASSUME NEW t \in Threads, Inside(t) \/ SpuriousWakeup(t) PROVE IInv'
  BY <1>3, LockingIInv, PushIInv, PopIInv DEF Inside
<1>4. CASE UNCHANGED queueVars
  <2>1. TypeOK /\ LockOK /\ CallOK /\ RingOK /\ NoLostWakeup /\ BlockingCallsDeliver
    BY DEF IInv
  <2>2. LockOK' /\ CallOK' /\ BlockingCallsDeliver'
    BY <1>4, <2>1 DEF queueVars, LockOK, CallOK, BlockingCallsDeliver
  <2>3. RingOK' /\ NoLostWakeup'
    BY <1>4, <2>1 DEF queueVars, RingOK, Plus, NoLostWakeup, MustWait, mMaxItems
  <2>4. QED
    BY <2>1, <2>2, <2>3 DEF IInv
<1>5. QED
  BY <1>1, <1>2, <1>3, <1>4 DEF Next

(* The inductive invariant holds of every behaviour. *)
THEOREM Invariance == Spec => []IInv
<1>1. IInv /\ TypeOK' /\ [Next]_queueVars => IInv'
  BY NextIInv
<1>2. QED
  BY <1>1, InitIInv, TypeCorrect, PTL DEF Spec

(* The counter, the two indices and the slots between them always agree:   *)
(* the bookkeeping of queue.c:24-33 and queue.c:58-66.                     *)
THEOREM RingCorrect == Spec => []RingOK
<1>1. IInv => RingOK
  BY DEF IInv
<1>2. QED
  BY <1>1, Invariance, PTL

(* No thread is asleep in pthread_cond_wait (queue.c:22, queue.c:56) while *)
(* the condition it waits for already holds.                               *)
THEOREM NoLostWakeupCorrect == Spec => []NoLostWakeup
<1>1. IInv => NoLostWakeup
  BY DEF IInv
<1>2. QED
  BY <1>1, Invariance, PTL

(* A blocking push always succeeds and a blocking pop always returns an    *)
(* item (queue.c:29, queue.c:58).                                          *)
THEOREM BlockingCallsDeliverCorrect == Spec => []BlockingCallsDeliver
<1>1. IInv => BlockingCallsDeliver
  BY DEF IInv
<1>2. QED
  BY <1>1, Invariance, PTL

-----------------------------------------------------------------------------
(* The ring implements the bounded queue of module Fifo. *)

Pendings == {t \in Threads : qpc[t] # "outside"}

(* A function on 1 .. n is a sequence of length n. *)
LEMMA FunctionIsSeq ==
  ASSUME NEW n \in Nat, NEW f \in [1 .. n -> Items]
  PROVE  f \in Seq(Items) /\ Len(f) = n
  BY SeqDef

(* The places of a sequence, counted from 0. *)
LEMMA OneLess == ASSUME NEW n \in Nat PROVE \A k \in 1 .. n : k - 1 \in 0 .. n - 1
  OBVIOUS

(* What lies between tail and head is a sequence of mNumItems items. *)
LEMMA ContentsType ==
  ASSUME IInv PROVE Contents \in Seq(Items) /\ Len(Contents) = mNumItems
<1>1. mNumItems \in Nat /\ \A k \in 1 .. mNumItems : k - 1 \in 0 .. mNumItems - 1
  BY OneLess DEF IInv, TypeOK, mMaxItems
<1>2. Contents \in [1 .. mNumItems -> Items]
  BY <1>1 DEF Contents, IInv, RingOK
<1>3. QED
  BY <1>1, <1>2, FunctionIsSeq

(* The same of the next state. *)
LEMMA ContentsTypeNext ==
  ASSUME IInv' PROVE Contents' \in Seq(Items) /\ Len(Contents') = mNumItems'
<1>1. mNumItems' \in Nat /\ \A k \in 1 .. mNumItems' : k - 1 \in 0 .. mNumItems' - 1
  <2>1. mNumItems' \in Nat
    BY DEF IInv, TypeOK, mMaxItems
  <2>2. QED
    BY <2>1, OneLess
<1>2. Contents' \in [1 .. mNumItems' -> Items]
  BY <1>1 DEF Contents, IInv, RingOK
<1>3. QED
  BY <1>1, <1>2, FunctionIsSeq

(* Writing at the head and counting one more appends. *)
LEMMA PushAppends ==
  ASSUME IInv, IInv', NEW t \in Threads, Push(t), mNumItems' = mNumItems + 1
  PROVE  Contents' = Append(Contents, call[t].item)
<1>1. call[t].item \in Items /\ call[t].op = "push"
  BY DEF Push, IInv, CallOK
<1>2. mNumItems \in 0 .. mMaxItems /\ mNumItems + 1 \in 0 .. mMaxItems /\ tail \in Index
  BY DEF IInv, TypeOK
<1>3. /\ buf' = [buf EXCEPT ![head] = call[t].item]
      /\ tail' = tail
  BY <1>2 DEF Push, mMaxItems
<1>4. /\ Append(Contents, call[t].item) \in Seq(Items)
      /\ Len(Append(Contents, call[t].item)) = mNumItems + 1
      /\ \A k \in 1 .. mNumItems : Append(Contents, call[t].item)[k] = Contents[k]
      /\ Append(Contents, call[t].item)[mNumItems + 1] = call[t].item
  BY <1>1, ContentsType, AppendProperties
<1>5. Contents' \in Seq(Items) /\ Len(Contents') = mNumItems + 1
  BY ContentsTypeNext
<1>6. ASSUME NEW k \in 1 .. mNumItems + 1
      PROVE  Contents'[k] = Append(Contents, call[t].item)[k]
  <2>1. k - 1 \in 0 .. Slots - 1 /\ mNumItems \in 0 .. Slots - 1 /\ Plus(tail, k - 1) \in Index
    BY <1>2, PlusType DEF mMaxItems
  <2>2. Contents'[k] = buf'[Plus(tail, k - 1)]
    BY <1>3 DEF Contents, Plus
  <2>3. CASE k = mNumItems + 1
    BY <2>1, <2>2, <2>3, <1>3, <1>4 DEF IInv, RingOK, TypeOK
  <2>4. CASE k <= mNumItems
    <3>1. Plus(tail, k - 1) # head
      BY <2>1, <2>4, <1>2, PlusInjective DEF IInv, RingOK
    <3>2. Contents[k] = buf[Plus(tail, k - 1)]
      BY <2>4 DEF Contents
    <3>3. QED
      BY <3>1, <3>2, <2>1, <2>2, <2>4, <1>3, <1>4 DEF IInv, TypeOK
  <2>5. k = mNumItems + 1 \/ k <= mNumItems
    BY <1>2 DEF mMaxItems
  <2>6. QED
    BY <2>3, <2>4, <2>5
<1>7. QED
  BY <1>4, <1>5, <1>6, SeqEqual

(* Reading at the tail and counting one less takes the head of the queue. *)
LEMMA PopTakesHead ==
  ASSUME IInv, IInv', NEW t \in Threads, Pop(t), mNumItems' = mNumItems - 1
  PROVE  Contents # <<>> /\ Contents' = Tail(Contents) /\ Head(Contents) = buf[tail]
<1>1. mNumItems \in 0 .. mMaxItems /\ mNumItems - 1 \in 0 .. mMaxItems /\ tail \in Index
  BY DEF IInv, TypeOK
<1>2. buf' = buf /\ tail' = Succ(tail)
  BY <1>1 DEF Pop, mMaxItems
<1>3. Contents # <<>>
  BY ContentsType, <1>1, EmptySeq
<1>4. /\ Head(Contents) = Contents[1]
      /\ Tail(Contents) \in Seq(Items)
      /\ Len(Tail(Contents)) = mNumItems - 1
      /\ \A k \in 1 .. mNumItems - 1 : Tail(Contents)[k] = Contents[k + 1]
  BY <1>3, ContentsType, HeadTailProperties
<1>5. Head(Contents) = buf[tail]
  BY <1>1, <1>4, PlusZero DEF Contents
<1>6. Contents' \in Seq(Items) /\ Len(Contents') = mNumItems - 1
  BY ContentsTypeNext
<1>7. ASSUME NEW k \in 1 .. mNumItems - 1 PROVE Contents'[k] = Tail(Contents)[k]
  <2>1. Contents'[k] = buf[Plus(Succ(tail), k - 1)]
    BY <1>2 DEF Contents, Plus
  <2>2. Plus(Succ(tail), k - 1) = Plus(tail, k)
    BY <1>1, PlusSucc DEF mMaxItems
  <2>3. Contents[k + 1] = buf[Plus(tail, k)]
    BY <1>1 DEF Contents
  <2>4. QED
    BY <2>1, <2>2, <2>3, <1>4
<1>8. QED
  BY <1>3, <1>4, <1>5, <1>6, <1>7, SeqEqual

(* Every step of the ring is a step of the abstract queue by the same     *)
(* thread.  A call begins.                                                 *)
LEMMA EnterSimulation ==
  ASSUME IInv, NEW t \in Threads, NEW c \in F!PushCalls \cup F!PopCalls, Enter(t, c)
  PROVE  F!Invoke(t)
<1> USE DEF IInv
<1>1. Contents' = Contents
  BY DEF Enter, Contents, Plus
<1>2. Pendings' = Pendings \cup {t} /\ t \notin Pendings
  BY DEF Enter, Pendings, TypeOK
<1>3. QED
  BY <1>1, <1>2 DEF Enter, F!Invoke, Pendings

(* Taking the lock, going to sleep and waking up change nothing there.     *)
LEMMA QuietSimulation ==
  ASSUME IInv, NEW t \in Threads, Lock(t) \/ Wait(t) \/ SpuriousWakeup(t)
  PROVE  UNCHANGED F!vars
<1> USE DEF IInv
<1>1. Contents' = Contents
  BY DEF Lock, Wait, SpuriousWakeup, Contents, Plus
<1>2. Pendings' = Pendings
  BY DEF Lock, Wait, SpuriousWakeup, Pendings, TypeOK
<1>3. call' = call
  BY DEF Lock, Wait, SpuriousWakeup
<1>4. QED
  BY <1>1, <1>2, <1>3 DEF F!vars, Pendings

(* Only the result of a call changes. *)
LEMMA SameItem ==
  ASSUME NEW f \in [Threads -> Calls], NEW t \in Threads, NEW r
  PROVE  [f EXCEPT ![t].ret = r] = [f EXCEPT ![t].ret = r, ![t].item = f[t].item]
<1>1. [f[t] EXCEPT !.ret = r] = [[f[t] EXCEPT !.ret = r] EXCEPT !.item = f[t].item]
  BY DEF Calls
<1>2. QED
  BY <1>1

(* A push finds room or, if it does not block, is refused.                 *)
LEMMA PushSimulation ==
  ASSUME IInv, IInv', NEW t \in Threads, Push(t)
  PROVE  F!Push(t) \/ F!Refuse(t)
<1> USE DEF IInv
<1>0. call \in [Threads -> Calls]
  BY DEF TypeOK
<1>a. [call EXCEPT ![t].ret = "EAGAIN"]
        = [call EXCEPT ![t].ret = "EAGAIN", ![t].item = call[t].item]
  BY ONLY <1>0, t \in Threads, SameItem
<1>1. /\ t \in Pendings
      /\ Pendings' = Pendings \ {t}
      /\ call[t].op = "push"
  BY DEF Push, Broadcast, Pendings, TypeOK
<1>2. CASE mNumItems < mMaxItems /\ Succ(head) # tail
  <2>1. mNumItems' = mNumItems + 1
    BY <1>2 DEF Push
  <2>2. Contents' = Append(Contents, call[t].item)
    BY <2>1, PushAppends
  <2>3. Len(Contents) < mMaxItems
    BY <1>2, ContentsType
  <2>a. call' = [call EXCEPT ![t].ret = "success"]
    BY <1>2 DEF Push
  <2>4. call' = [call EXCEPT ![t].ret = "success", ![t].item = call[t].item]
    BY ONLY <1>0, <2>a, t \in Threads, SameItem
  <2>5. F!Push(t)
    BY <1>1, <2>2, <2>3, <2>4 DEF F!Push, F!Pending, F!Answer, Pendings
  <2>6. QED
    BY <2>5
<1>3. CASE ~(mNumItems < mMaxItems /\ Succ(head) # tail)
  <2>1. /\ UNCHANGED <<buf, tail, mNumItems>>
        /\ call' = [call EXCEPT ![t].ret = "EAGAIN"]
    BY <1>3 DEF Push
  <2>2. Contents' = Contents
    BY <2>1 DEF Contents, Plus
  <2>3. mNumItems = mMaxItems /\ ~call[t].blocking
    BY <1>1, <1>3, CounterAgrees DEF Push, MustWait, RingOK, TypeOK, mMaxItems
  <2>4. call' = [call EXCEPT ![t].ret = "EAGAIN", ![t].item = call[t].item]
    BY <2>1, <1>a
  <2>5. F!Refuse(t)
    BY <1>1, <2>2, <2>3, <2>4, ContentsType DEF F!Refuse, F!Pending, F!Answer, Pendings
  <2>6. QED
    BY <2>5
<1>4. QED
  BY <1>2, <1>3

(* A pop takes the oldest item or, if it does not block, nothing.          *)
LEMMA PopSimulation ==
  ASSUME IInv, IInv', NEW t \in Threads, Pop(t)
  PROVE  F!Pop(t) \/ F!PopNothing(t)
<1> USE DEF IInv
<1>0. call \in [Threads -> Calls]
  BY DEF TypeOK
<1>a. [call EXCEPT ![t].ret = "success"]
        = [call EXCEPT ![t].ret = "success", ![t].item = call[t].item]
  BY ONLY <1>0, t \in Threads, SameItem
<1>1. /\ t \in Pendings
      /\ Pendings' = Pendings \ {t}
      /\ call[t].op = "pop"
  BY DEF Pop, Broadcast, Pendings, TypeOK
<1>2. CASE mNumItems > 0 /\ tail # head
  <2>1. /\ mNumItems' = mNumItems - 1
        /\ call' = [call EXCEPT ![t].ret = "success", ![t].item = buf[tail]]
    BY <1>2 DEF Pop
  <2>2. Contents # <<>> /\ Contents' = Tail(Contents) /\ Head(Contents) = buf[tail]
    BY <2>1, PopTakesHead
  <2>3. F!Pop(t)
    BY <1>1, <2>1, <2>2 DEF F!Pop, F!Pending, F!Answer, Pendings
  <2>4. QED
    BY <2>3
<1>3. CASE ~(mNumItems > 0 /\ tail # head)
  <2>1. /\ UNCHANGED <<buf, tail, mNumItems>>
        /\ call' = [call EXCEPT ![t].ret = "success"]
    BY <1>3 DEF Pop
  <2>2. Contents' = Contents
    BY <2>1 DEF Contents, Plus
  <2>3. mNumItems = 0 /\ ~call[t].blocking
    BY <1>1, <1>3, CounterAgrees DEF Pop, MustWait, RingOK, TypeOK, mMaxItems
  <2>4. Contents = <<>>
    BY <2>3, ContentsType, EmptySeq
  <2>5. call' = [call EXCEPT ![t].ret = "success", ![t].item = call[t].item]
    BY <2>1, <1>a
  <2>6. F!PopNothing(t)
    BY <1>1, <2>2, <2>3, <2>4, <2>5 DEF F!PopNothing, F!Pending, F!Answer, Pendings
  <2>7. QED
    BY <2>6
<1>4. QED
  BY <1>2, <1>3

(* Every step of the ring is a step of the abstract queue, or leaves it    *)
(* unchanged.                                                              *)
LEMMA StepSimulation ==
  ASSUME IInv, IInv', [Next]_queueVars PROVE [F!Next]_F!vars
<1>1. ASSUME UNCHANGED queueVars PROVE UNCHANGED F!vars
  BY <1>1 DEF queueVars, F!vars, Contents, Plus
<1>2. \A i \in Items, b \in BOOLEAN : PushCall(i, b) \in F!PushCalls
  BY DEF PushCall, F!PushCalls
<1>3. \A b \in BOOLEAN : PopCall(b) \in F!PopCalls
  BY DEF PopCall, F!PopCalls
<1>4. QED
  BY <1>1, <1>2, <1>3, EnterSimulation, QuietSimulation, PushSimulation, PopSimulation
  DEF Next, Inside, CallPush, CallPop, F!Next

(* The ring buffer, its lock and its condition variable implement the      *)
(* bounded first-in first-out queue of module Fifo, for any capacity.      *)
THEOREM Refinement == Spec => FifoSpec
<1>1. Init => F!Init
  <2> SUFFICES ASSUME Init PROVE F!Init
    OBVIOUS
  <2>1. Contents = <<>>
    BY InitIInv, ContentsType, EmptySeq DEF Init
  <2>2. {t \in Threads : qpc[t] # "outside"} = {}
    BY DEF Init
  <2>3. QED
    BY <2>1, <2>2 DEF Init, F!Init, F!NoCall, PopCall
<1>2. IInv /\ IInv' /\ [Next]_queueVars => [F!Next]_F!vars
  BY StepSimulation
<1>3. QED
  BY <1>1, <1>2, Invariance, PTL DEF Spec, FifoSpec, F!Spec
=============================================================================
