-------------------------------- MODULE Queue -------------------------------
(***************************************************************************)
(* src/queue.c: a ring buffer shared by several threads under one mutex    *)
(* (lock_queue) and one condition variable (size_cond), on which the       *)
(* pushers wait for room and the poppers for an item.                      *)
(*                                                                         *)
(* A slot is one aligned item of the backing buffer: head and tail are     *)
(* slot numbers, the code's pointers less q->start over q->item_size.      *)
(* Slots is q->buf_len / q->item_size, at least 1 by queue_init's last     *)
(* assertion.  The calls of pthread never fail.                            *)
(***************************************************************************)
EXTENDS Naturals

CONSTANTS
  Threads,   \* the threads that use the queue
  Items,     \* the items they push
  Slots,     \* how many whole items fit in the aligned buffer
  Spurious,  \* whether pthread_cond_wait may return without a wake-up
  NULL       \* nobody, and a memory cell that holds no pushed item

ASSUME SlotsAssumption == Slots \in Nat \ {0}
ASSUME NullAssumption == NULL \notin Items /\ NULL \notin Threads

VARIABLES
  buf,         \* slot |-> the item last copied into it
  head,        \* the slot the next push writes
  tail,        \* the slot the next pop reads
  mNumItems,   \* how many items are queued
  lock_queue,  \* the thread that holds the mutex, or NULL
  qpc,         \* thread |-> where it is in push or pop
  call         \* thread |-> the arguments and result of its call

queueVars == <<buf, head, tail, mNumItems, lock_queue, qpc, call>>

Index == 0 .. Slots - 1

-----------------------------------------------------------------------------
(* Plausible slips of this code, named so that every property can be shown *)
(* to notice one: the ring used to its last slot, an index that does not   *)
(* wrap, one waiter woken instead of all.                                  *)

SlipAllSlots == Slots

SlipNoWrap(i) == i + 1

SlipSignal(t) ==
  LET waiting == {u \in Threads : qpc[u] = "waiting"}
      wake(S) == qpc' = [u \in Threads |-> IF u = t THEN "outside"
                                           ELSE IF u \in S THEN "locking" ELSE qpc[u]]
  IN IF waiting = {} THEN wake({}) ELSE \E u \in waiting : wake({u})

-----------------------------------------------------------------------------
(* One slot is never used: a full ring must not look like an empty one. *)
mMaxItems == Slots - 1

(* The slot after i: back to the start when no whole item fits behind it. *)
Succ(i) == IF i + 1 >= Slots THEN 0 ELSE i + 1

(* The condition of the while loop around pthread_cond_wait. *)
MustWait(t) ==
  /\ call[t].blocking
  /\ \/ call[t].op = "push" /\ mNumItems >= mMaxItems
     \/ call[t].op = "pop" /\ mNumItems <= 0

PushCall(i, b) == [op |-> "push", item |-> i, blocking |-> b, ret |-> "none"]
PopCall(b) == [op |-> "pop", item |-> NULL, blocking |-> b, ret |-> "none"]
Calls == [op : {"push", "pop"}, item : Items \cup {NULL},
          blocking : BOOLEAN, ret : {"none", "success", "EAGAIN"}]

Init ==
  /\ buf = [i \in Index |-> NULL]
  /\ head = 0
  /\ tail = 0
  /\ mNumItems = 0
  /\ lock_queue = NULL
  /\ qpc = [t \in Threads |-> "outside"]
  /\ call = [t \in Threads |-> PopCall(FALSE)]

(* Thread t enters push or pop with the arguments c. *)
Enter(t, c) ==
  /\ qpc[t] = "outside"
  /\ qpc' = [qpc EXCEPT ![t] = "locking"]
  /\ call' = [call EXCEPT ![t] = c]
  /\ UNCHANGED <<buf, head, tail, mNumItems, lock_queue>>

CallPush(t, i, b) == Enter(t, PushCall(i, b))
CallPop(t, b) == Enter(t, PopCall(b))

(* pthread_mutex_lock, on entry or on the way out of pthread_cond_wait. *)
Lock(t) ==
  /\ qpc[t] = "locking"
  /\ lock_queue = NULL
  /\ lock_queue' = t
  /\ qpc' = [qpc EXCEPT ![t] = "locked"]
  /\ UNCHANGED <<buf, head, tail, mNumItems, call>>

(* pthread_cond_wait releases the mutex and sleeps, in one step. *)
Wait(t) ==
  /\ qpc[t] = "locked"
  /\ MustWait(t)
  /\ lock_queue' = NULL
  /\ qpc' = [qpc EXCEPT ![t] = "waiting"]
  /\ UNCHANGED <<buf, head, tail, mNumItems, call>>

(* POSIX lets pthread_cond_wait return without a wake-up. *)
SpuriousWakeup(t) ==
  /\ Spurious
  /\ qpc[t] = "waiting"
  /\ qpc' = [qpc EXCEPT ![t] = "locking"]
  /\ UNCHANGED <<buf, head, tail, mNumItems, lock_queue, call>>

(* pthread_cond_broadcast by t, which then leaves: every waiter wakes up   *)
(* and competes for the mutex.                                             *)
Broadcast(t) ==
  qpc' = [u \in Threads |-> IF u = t THEN "outside"
                            ELSE IF qpc[u] = "waiting" THEN "locking" ELSE qpc[u]]

(* The rest of __queue_push, from the end of its loop to its return. *)
Push(t) ==
  /\ qpc[t] = "locked"
  /\ call[t].op = "push"
  /\ ~MustWait(t)
  /\ lock_queue' = NULL
  /\ UNCHANGED tail
  /\ LET new_head == Succ(head)
         room == mNumItems < mMaxItems /\ new_head # tail
     IN \/ /\ room
           /\ buf' = [buf EXCEPT ![head] = call[t].item]
           /\ head' = new_head
           /\ mNumItems' = mNumItems + 1
           /\ Broadcast(t)
           /\ call' = [call EXCEPT ![t].ret = "success"]
        \/ /\ ~room
           /\ UNCHANGED <<buf, head, mNumItems>>
           /\ qpc' = [qpc EXCEPT ![t] = "outside"]
           /\ call' = [call EXCEPT ![t].ret = "EAGAIN"]

(* The rest of __queue_pop.  Without an item it leaves the caller's        *)
(* variable alone, and reports success all the same.                       *)
Pop(t) ==
  /\ qpc[t] = "locked"
  /\ call[t].op = "pop"
  /\ ~MustWait(t)
  /\ lock_queue' = NULL
  /\ UNCHANGED <<buf, head>>
  /\ \/ /\ mNumItems > 0 /\ tail # head
        /\ tail' = Succ(tail)
        /\ mNumItems' = mNumItems - 1
        /\ Broadcast(t)
        /\ call' = [call EXCEPT ![t].ret = "success", ![t].item = buf[tail]]
     \/ /\ ~(mNumItems > 0 /\ tail # head)
        /\ UNCHANGED <<tail, mNumItems>>
        /\ qpc' = [qpc EXCEPT ![t] = "outside"]
        /\ call' = [call EXCEPT ![t].ret = "success"]

(* What t does once it is inside push or pop. *)
Inside(t) == Lock(t) \/ Wait(t) \/ Push(t) \/ Pop(t)

Next ==
  \E t \in Threads :
    \/ \E i \in Items, b \in BOOLEAN : CallPush(t, i, b)
    \/ \E b \in BOOLEAN : CallPop(t, b)
    \/ Inside(t)
    \/ SpuriousWakeup(t)

Spec == Init /\ [][Next]_queueVars

-----------------------------------------------------------------------------
(* Every variable keeps its type; the indices stay inside the ring. *)
TypeOK ==
  /\ buf \in [Index -> Items \cup {NULL}]
  /\ head \in Index
  /\ tail \in Index
  /\ mNumItems \in 0 .. mMaxItems
  /\ lock_queue \in Threads \cup {NULL}
  /\ qpc \in [Threads -> {"outside", "locking", "locked", "waiting"}]
  /\ call \in [Threads -> Calls]

(* The mutex is held by exactly the thread between lock and unlock. *)
LockOK == \A t \in Threads : qpc[t] = "locked" <=> lock_queue = t

(* The slot k places after i. *)
Plus(i, k) == IF i + k < Slots THEN i + k ELSE i + k - Slots

(* The counter and the two indices of the ring, which the code keeps       *)
(* apart, always tell the same story, and every slot between tail and      *)
(* head holds an item that was pushed.                                     *)
RingOK ==
  /\ head = Plus(tail, mNumItems)
  /\ \A k \in 0 .. mNumItems - 1 : buf[Plus(tail, k)] \in Items

(* Nobody sleeps through its wake-up: with one condition variable for both *)
(* sides, a thread asleep in push faces a full queue and one asleep in pop *)
(* an empty one, whatever the interleaving.                                *)
NoLostWakeup == \A t \in Threads : qpc[t] = "waiting" => MustWait(t)

(* A blocking push is never turned away and a blocking pop never comes     *)
(* back without an item: the second test of push (new_head != tail) and of *)
(* pop (tail != head) can not contradict the counter.                      *)
BlockingCallsDeliver ==
  \A t \in Threads :
    qpc[t] = "outside" /\ call[t].blocking /\ call[t].ret # "none"
      => call[t].ret = "success" /\ call[t].item # NULL

(* The queue's contents, oldest first. *)
Contents == [k \in 1 .. mNumItems |-> buf[Plus(tail, k - 1)]]

(* The ring implements the bounded first-in first-out queue. *)
F == INSTANCE Fifo WITH
       Capacity <- mMaxItems,
       items    <- Contents,
       pending  <- {t \in Threads : qpc[t] # "outside"}
FifoSpec == F!Spec
=============================================================================
