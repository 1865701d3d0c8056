--------------------------- MODULE TaskQueueProofs --------------------------
(***************************************************************************)
(* Proofs about TaskQueue, for any number of workers, any tasks and any    *)
(* batches, nested to any depth.  What is proved of the queue in           *)
(* QueueProofs is used here of the pool's queue: a step inside push or pop *)
(* is read as the step of the abstract Fifo that it implements.            *)
(***************************************************************************)
EXTENDS TaskQueue, TLAPS, FiniteSetTheorems, SequenceTheorems

P == INSTANCE QueueProofs WITH Items <- Tasks \cup {STOP}

(* The queue's contents and the threads inside push or pop. *)
Queued == P!Contents
Busy == {t \in Threads : qpc[t] # "outside"}

(* The queue's own invariant. *)
QInv == P!IInv

-----------------------------------------------------------------------------
(* What Queue assumes holds of the pool's threads and items. *)
LEMMA QueueFacts ==
  /\ Slots \in Nat \ {0}
  /\ NULL \notin Tasks \cup {STOP} /\ NULL \notin Threads
  BY QueueAssumption DEF Threads

(* A batch is a sequence of tasks. *)
LEMMA BatchFacts ==
  ASSUME NEW x \in Submitters
  PROVE  /\ Batch[x] \in Seq(Tasks)
         /\ Len(Batch[x]) \in Nat
         /\ DOMAIN Batch[x] = 1 .. Len(Batch[x])
         /\ \A i \in DOMAIN Batch[x] : Batch[x][i] \in Tasks
  BY TaskAssumption, LenProperties, ElementOfSeq

-----------------------------------------------------------------------------
(* Types, and where each thread can be.  Main is the thread of             *)
(* task_queue_init and task_queue_close, a worker that of its loop.        *)
Shape ==
  /\ pc[Main] \in {"spawn", "submit", "await", "stop", "closed"}
  /\ job[Main] = Main
  /\ \A w \in Workers :
       /\ pc[w] \in {"unborn", "loop", "popping", "submit", "await", "exited"}
       /\ pc[w] \in {"submit", "await"} => job[w] \in Tasks

(* The pool's part of the type invariant. *)
PoolTypeOK ==
  /\ run \in BOOLEAN
  /\ pc \in [Threads -> {"spawn", "unborn", "loop", "popping", "submit", "await",
                         "exited", "stop", "closed"}]
  /\ job \in [Threads -> Submitters]
  /\ idx \in [Threads -> Nat \ {0}]
  /\ ran \in [Tasks -> Nat]
  /\ done \subseteq Tasks

Typed == PoolTypeOK /\ Shape

(* A new pool. *)
LEMMA TypedInit == Init => Typed
  BY TaskAssumption DEF Init, Typed, PoolTypeOK, Shape, Threads, Submitters

(* Main is one thread and the workers are the others. *)
LEMMA ThreadFacts ==
  /\ Main \in Threads /\ Main \notin Workers
  /\ \A t \in Threads : t = Main \/ t \in Workers
  /\ \A w \in Workers : w \in Threads
  BY TaskAssumption DEF Threads

(* The turn of a loop that the code of Submit and Await is. *)
LEMMA TurnTyped ==
  ASSUME Typed, NEW t \in Threads, Submit(t) \/ Submitted(t) \/ Await(t)
  PROVE  Typed'
<1> USE DEF Typed, PoolTypeOK
<1>1. UNCHANGED <<run, job, ran, done>> /\ idx' \in [Threads -> Nat \ {0}]
  <2>1. idx[t] + 1 \in Nat \ {0} /\ 1 \in Nat \ {0}
    OBVIOUS
  <2>2. QED
    BY <2>1 DEF Submit, Submitted, Await
<1>2. pc' = pc \/ (pc[t] = "submit" /\ pc' = [pc EXCEPT ![t] = "await"])
  BY DEF Submit, Submitted, Await, Ready, Goto
<1>3. PoolTypeOK'
  BY <1>1, <1>2
<1>4. Shape'
  BY <1>1, <1>2, ThreadFacts DEF Shape
<1>5. QED
  BY <1>3, <1>4

(* The pool keeps its types, whatever the queue holds. *)
LEMMA TypedNext == Typed /\ [Next]_vars => Typed'
<1> SUFFICES ASSUME Typed, [Next]_vars PROVE Typed'
  OBVIOUS
<1> USE ThreadFacts DEF Typed, PoolTypeOK
<1>1. CASE Spawn
  BY <1>1 DEF Spawn, Goto, Shape
<1>2. CASE Spawned \/ Join
  BY <1>2 DEF Spawned, Join, Ready, Goto, Shape
<1>3. CASE Close \/ PushStop
  <2>1. UNCHANGED <<job, ran, done>> /\ run' \in BOOLEAN
    BY <1>3 DEF Close, PushStop
  <2>2. idx[Main] + 1 \in Nat \ {0} /\ 1 \in Nat \ {0}
    OBVIOUS
  <2>3. idx' \in [Threads -> Nat \ {0}]
    BY <1>3, <2>2 DEF Close, PushStop
  <2>4. pc' = pc \/ pc' = [pc EXCEPT ![Main] = "stop"]
    BY <1>3 DEF Close, PushStop, Goto
  <2>5. QED
    BY <2>1, <2>3, <2>4 DEF Shape
<1>4. ASSUME NEW w \in Workers, TestRun(w) \/ Return(w) PROVE Typed'
  <2>1. UNCHANGED <<run, job, idx, ran>> /\ done' \subseteq Tasks
    BY <1>4 DEF TestRun, Return, Shape
  <2>2. \E at \in {"loop", "popping", "exited"} : pc' = [pc EXCEPT ![w] = at]
    BY <1>4 DEF TestRun, Return, Goto
  <2>3. QED
    BY <2>1, <2>2 DEF Shape
<1>5. ASSUME NEW w \in Workers, GotTask(w) PROVE Typed'
  <2>1. CASE call[w].item \in Tasks
    <3>1. /\ pc' = [pc EXCEPT ![w] = "submit"]
          /\ job' = [job EXCEPT ![w] = call[w].item]
          /\ ran' = [ran EXCEPT ![call[w].item] = ran[call[w].item] + 1]
          /\ idx' = [idx EXCEPT ![w] = 1]
          /\ UNCHANGED <<run, done>>
      BY <1>5, <2>1 DEF GotTask, Popped, Goto
    <3>2. call[w].item \in Submitters /\ ran[call[w].item] + 1 \in Nat /\ 1 \in Nat \ {0}
      BY <2>1 DEF Submitters
    <3>3. PoolTypeOK'
      BY <2>1, <3>1, <3>2
    <3>4. Shape'
      BY <2>1, <3>1 DEF Shape
    <3>5. QED
      BY <3>3, <3>4
  <2>2. CASE call[w].item \notin Tasks
    <3>1. pc' = [pc EXCEPT ![w] = "loop"] /\ UNCHANGED <<run, job, idx, ran, done>>
      BY <1>5, <2>2 DEF GotTask, Popped, Goto
    <3>2. QED
      BY <3>1 DEF Shape
  <2>3. QED
    BY <2>1, <2>2
<1>6. CASE UNCHANGED poolVars
  BY <1>6 DEF poolVars, Shape
<1>7. QED
  BY <1>1, <1>2, <1>3, <1>4, <1>5, <1>6, TurnTyped
  DEF Next, MainStep, WorkerStep, InQueue, vars

-----------------------------------------------------------------------------
(* The pool uses its queue as Queue allows: only one call at a time by     *)
(* each thread, with an item to push.                                      *)

LEMMA QueueInit == Init => P!Init
  BY DEF Init, Q!Init, P!Init, Q!Index, P!Index, Q!PopCall, P!PopCall

(* A push or pop by a thread of the pool is one of the queue. *)
LEMMA QueueNext == Typed /\ [Next]_vars => [P!Next]_P!queueVars
<1> SUFFICES ASSUME Typed, [Next]_vars PROVE [P!Next]_P!queueVars
  OBVIOUS
<1>1. ASSUME NEW t \in Threads, Submit(t) PROVE P!Next
  <2>1. job[t] \in Submitters /\ idx[t] \in DOMAIN Batch[job[t]]
    BY <1>1, BatchFacts DEF Submit, Typed, PoolTypeOK
  <2>2. Batch[job[t]][idx[t]] \in Tasks \cup {STOP}
    BY <2>1, BatchFacts
  <2>3. P!CallPush(t, Batch[job[t]][idx[t]], TRUE)
    BY <1>1 DEF Submit, Q!CallPush, P!CallPush, Q!Enter, P!Enter, Q!PushCall, P!PushCall
  <2>4. QED
    BY <2>2, <2>3 DEF P!Next, Threads
<1>2. CASE PushStop
  <2>1. P!CallPush(Main, STOP, TRUE)
    BY <1>2 DEF PushStop, Q!CallPush, P!CallPush, Q!Enter, P!Enter, Q!PushCall, P!PushCall
  <2>2. QED
    BY <2>1 DEF P!Next, Threads
<1>3. ASSUME NEW w \in Workers, TestRun(w) PROVE [P!Next]_P!queueVars
  <2>1. CASE Q!CallPop(w, TRUE)
    <3>1. P!CallPop(w, TRUE)
      BY <2>1 DEF Q!CallPop, P!CallPop, Q!Enter, P!Enter, Q!PopCall, P!PopCall
    <3>2. QED
      BY <3>1 DEF P!Next, Threads
  <2>2. CASE UNCHANGED queueVars
    BY <2>2 DEF queueVars, P!queueVars
  <2>3. QED
    BY <1>3, <2>1, <2>2 DEF TestRun
<1>4. ASSUME NEW t \in Threads, Q!Inside(t) \/ Q!SpuriousWakeup(t) PROVE P!Next
  <2>1. P!Inside(t) \/ P!SpuriousWakeup(t)
    BY <1>4 DEF Q!Inside, P!Inside, Q!Lock, P!Lock, Q!Wait, P!Wait, Q!Push, P!Push,
                Q!Pop, P!Pop, Q!MustWait, P!MustWait, Q!Succ, P!Succ, Q!mMaxItems,
                P!mMaxItems, Q!Broadcast, P!Broadcast, Q!SpuriousWakeup, P!SpuriousWakeup
  <2>2. QED
    BY <2>1 DEF P!Next
<1>5. ASSUME UNCHANGED queueVars PROVE [P!Next]_P!queueVars
  BY <1>5 DEF queueVars, P!queueVars
<1>6. QED
  BY <1>1, <1>2, <1>3, <1>4, <1>5
  DEF Next, vars, Threads, InQueue, MainStep, WorkerStep, Spawn, Spawned, Submitted, Await,
      Close, Join, GotTask, Return

(* Every thread is where the code can be, in every behaviour. *)
LEMMA TypedCorrect == Spec => []Typed
<1>1. QED
  BY TypedInit, TypedNext, PTL DEF Spec

(* Whatever the pool and its clients do to the queue, the queue could do   *)
(* by itself: all that is proved of queue.c holds of the pool's queue.     *)
LEMMA QueueUsed == Spec => P!Spec
  BY QueueInit, QueueNext, TypedCorrect, PTL DEF Spec, P!Spec

LEMMA QueueCorrect == Spec => []QInv
<1>1. P!Spec => []P!IInv
  BY QueueFacts, P!Invariance
<1>2. QED
  BY <1>1, QueueUsed, PTL DEF QInv

(* In particular the pool's queue is first in, first out: the pool         *)
(* implements the abstract queue of module Fifo.                           *)
THEOREM PoolFifo == Spec => P!FifoSpec
<1>1. P!Spec => P!FifoSpec
  BY QueueFacts, P!Refinement
<1>2. QED
  BY <1>1, QueueUsed, PTL

(* Every variable keeps its type, the queue's and the pool's.              *)
THEOREM TypeCorrect == Spec => []TypeOK
<1>1. QInv /\ Typed => TypeOK
  BY DEF QInv, P!IInv, P!TypeOK, Q!TypeOK, P!Index, Q!Index, P!mMaxItems, Q!mMaxItems,
         P!Calls, Q!Calls, Typed, PoolTypeOK, TypeOK
<1>2. QED
  BY <1>1, QueueCorrect, TypedCorrect, PTL

-----------------------------------------------------------------------------
(* What one step of thread t inside push or pop does, seen from outside:   *)
(* nothing, or it ends the call.  A push then has appended its item, a pop *)
(* has taken the oldest.                                                   *)
Returned(t, ret, item) ==
  /\ t \in Busy
  /\ Busy' = Busy \ {t}
  /\ call' = [call EXCEPT ![t].ret = ret, ![t].item = item]

Quiet == UNCHANGED <<Queued, Busy, call>>

Pushes(t) ==
  /\ call[t].op = "push"
  /\ Queued' = Append(Queued, call[t].item)
  /\ Returned(t, "success", call[t].item)

Pops(t) ==
  /\ call[t].op = "pop"
  /\ Queued # <<>>
  /\ Queued' = Tail(Queued)
  /\ Returned(t, "success", Head(Queued))

(* Only a call that does not block ends without an item. *)
ComesBackEmpty(t) == t \in Busy /\ ~call[t].blocking

LEMMA InsideEffect ==
  ASSUME QInv, QInv', NEW t \in Threads, Q!Inside(t) \/ Q!SpuriousWakeup(t)
  PROVE  Quiet \/ Pushes(t) \/ Pops(t) \/ ComesBackEmpty(t)
<1>1. CASE Q!Lock(t) \/ Q!Wait(t) \/ Q!SpuriousWakeup(t)
  <2>1. P!Lock(t) \/ P!Wait(t) \/ P!SpuriousWakeup(t)
    BY <1>1 DEF Q!Lock, P!Lock, Q!Wait, P!Wait, Q!MustWait, P!MustWait, Q!mMaxItems,
                P!mMaxItems, Q!SpuriousWakeup, P!SpuriousWakeup
  <2>2. UNCHANGED P!F!vars
    BY <2>1, QueueFacts, P!QuietSimulation DEF QInv
  <2>3. QED
    BY <2>2 DEF P!F!vars, Quiet, Queued, Busy
<1>2. CASE Q!Push(t)
  <2>1. P!Push(t)
    BY <1>2 DEF Q!Push, P!Push, Q!MustWait, P!MustWait, Q!Succ, P!Succ, Q!mMaxItems,
                P!mMaxItems, Q!Broadcast, P!Broadcast
  <2>2. P!F!Push(t) \/ P!F!Refuse(t)
    BY <2>1, QueueFacts, P!PushSimulation DEF QInv
  <2>3. QED
    BY <2>2 DEF P!F!Push, P!F!Refuse, P!F!Pending, P!F!Answer, Pushes, ComesBackEmpty,
                Returned, Queued, Busy
<1>3. CASE Q!Pop(t)
  <2>1. P!Pop(t)
    BY <1>3 DEF Q!Pop, P!Pop, Q!MustWait, P!MustWait, Q!Succ, P!Succ, Q!mMaxItems,
                P!mMaxItems, Q!Broadcast, P!Broadcast
  <2>2. P!F!Pop(t) \/ P!F!PopNothing(t)
    BY <2>1, QueueFacts, P!PopSimulation DEF QInv
  <2>3. QED
    BY <2>2 DEF P!F!Pop, P!F!PopNothing, P!F!Pending, P!F!Answer, Pops, ComesBackEmpty,
                Returned, Queued, Busy
<1>4. QED
  BY <1>1, <1>2, <1>3 DEF Q!Inside

(* A call of push or pop begins. *)
Enters(t, c) ==
  /\ t \notin Busy
  /\ Busy' = Busy \cup {t}
  /\ UNCHANGED Queued
  /\ call' = [call EXCEPT ![t] = c]

LEMMA EnterEffect ==
  ASSUME QInv, NEW t \in Threads, NEW c, Q!Enter(t, c)
  PROVE  Enters(t, c)
<1>1. qpc \in [Threads -> {"outside", "locking", "locked", "waiting"}]
  BY DEF QInv, P!IInv, P!TypeOK
<1>2. Queued' = Queued
  BY DEF Q!Enter, Queued, P!Contents, P!Plus
<1>3. QED
  BY <1>1, <1>2 DEF Q!Enter, Enters, Busy

(* A step that leaves the queue alone. *)
LEMMA QuietEffect == ASSUME UNCHANGED queueVars PROVE Quiet
  BY DEF queueVars, Quiet, Queued, Busy, P!Contents, P!Plus

(* The contents are a sequence of items, as long as the counter says. *)
LEMMA QueuedType ==
  /\ QInv => Queued \in Seq(Tasks \cup {STOP}) /\ Len(Queued) = mNumItems /\ mNumItems \in Nat
  /\ QInv' => Len(Queued') = mNumItems' /\ mNumItems' \in Nat
<1>1. QInv => mNumItems \in Nat
  BY QueueFacts DEF QInv, P!IInv, P!TypeOK, P!mMaxItems
<1>2. QInv' => mNumItems' \in Nat
  BY QueueFacts DEF QInv, P!IInv, P!TypeOK, P!mMaxItems
<1>3. QED
  BY <1>1, <1>2, QueueFacts, P!ContentsType, P!ContentsTypeNext DEF QInv, Queued

-----------------------------------------------------------------------------
(* A thread is inside push or pop only where the code calls them, and      *)
(* every call blocks.                                                      *)
InCall ==
  \A t \in Busy :
    /\ call[t].blocking
    /\ \/ call[t].op = "pop" /\ call[t].item = NULL /\ pc[t] = "popping"
       \/ call[t].op = "push" /\ pc[t] \in {"submit", "stop"}

(* So no call of the pool ever comes back empty. *)
LEMMA CallsDeliver ==
  ASSUME QInv, QInv', InCall, NEW t \in Threads, Q!Inside(t) \/ Q!SpuriousWakeup(t)
  PROVE  Quiet \/ Pushes(t) \/ Pops(t)
  BY InsideEffect DEF InCall, ComesBackEmpty

(* The calls that the pool makes. *)
LEMMA CallShapes ==
  /\ Q!PopCall(TRUE).blocking /\ Q!PopCall(TRUE).op = "pop" /\ Q!PopCall(TRUE).item = NULL
  /\ \A i : /\ Q!PushCall(i, TRUE).blocking /\ Q!PushCall(i, TRUE).op = "push"
            /\ Q!PushCall(i, TRUE).item = i
  BY DEF Q!PopCall, Q!PushCall

LEMMA CallType == QInv => call \in [Threads -> Q!Calls]
  BY DEF QInv, P!IInv, P!TypeOK, P!Calls, Q!Calls

LEMMA InCallInit == Init => InCall
  BY DEF Init, Q!Init, InCall, Busy, Threads

LEMMA InCallNext == QInv /\ QInv' /\ Typed /\ InCall /\ [Next]_vars => InCall'
<1> SUFFICES ASSUME QInv, QInv', Typed, InCall, [Next]_vars PROVE InCall'
  OBVIOUS
<1> USE ThreadFacts
<1>1. pc \in [Threads -> {"spawn", "unborn", "loop", "popping", "submit", "await",
                          "exited", "stop", "closed"}]
  BY DEF Typed, PoolTypeOK
<1>2. call \in [Threads -> Q!Calls]
  BY CallType
<1>3. ASSUME NEW t \in Threads, Q!Inside(t) \/ Q!SpuriousWakeup(t), UNCHANGED poolVars
      PROVE  InCall'
  <2>1. Quiet \/ (Busy' = Busy \ {t} /\ \A u \in Busy \ {t} : call'[u] = call[u])
    BY <1>2, <1>3, CallsDeliver DEF Pushes, Pops, Returned, Busy
  <2>2. pc' = pc
    BY <1>3 DEF poolVars
  <2>3. QED
    BY <2>1, <2>2 DEF Quiet, InCall
<1>4. ASSUME NEW t \in Threads, NEW c, Q!Enter(t, c), c.blocking,
             \/ c.op = "pop" /\ c.item = NULL /\ pc'[t] = "popping"
             \/ c.op = "push" /\ pc'[t] \in {"submit", "stop"},
             \A u \in Threads \ {t} : pc'[u] = pc[u]
      PROVE  InCall'
  <2>1. Busy' = Busy \cup {t} /\ call'[t] = c /\ \A u \in Busy \ {t} : call'[u] = call[u]
    BY <1>2, <1>4, EnterEffect DEF Enters, Busy
  <2>2. \A u \in Busy \ {t} : pc'[u] = pc[u]
    BY <1>4 DEF Busy
  <2>3. QED
    BY <1>4, <2>1, <2>2 DEF InCall
<1>5. ASSUME Quiet, \A u \in Busy : pc'[u] = pc[u] PROVE InCall'
  BY <1>5 DEF Quiet, InCall
<1>6. ASSUME NEW w \in Workers, TestRun(w) PROVE InCall'
  <2>1. CASE Q!CallPop(w, TRUE) /\ Goto(w, "popping")
    BY <2>1, <1>1, <1>4, CallShapes DEF Q!CallPop, Goto
  <2>2. CASE UNCHANGED queueVars /\ Goto(w, "exited")
    <3>1. w \notin Busy
      BY <1>6 DEF TestRun, InCall
    <3>2. QED
      BY <2>2, <3>1, <1>1, <1>5, QuietEffect DEF Goto, Busy
  <2>3. QED
    BY <1>6, <2>1, <2>2 DEF TestRun
<1>7. ASSUME NEW t \in Threads, Submit(t) PROVE InCall'
  BY <1>7, <1>4, CallShapes DEF Submit, Ready, Q!CallPush
<1>8. CASE PushStop
  BY <1>8, <1>4, CallShapes DEF PushStop, Ready, Q!CallPush
<1>9. ASSUME NEW t \in Threads, UNCHANGED queueVars, t \notin Busy,
             \A u \in Threads \ {t} : pc'[u] = pc[u]
      PROVE  InCall'
  BY <1>9, <1>5, QuietEffect DEF Busy
<1>10. CASE Spawn
  <2>1. PICK w \in Workers : pc[w] = "unborn" /\ Goto(w, "loop")
    BY <1>10 DEF Spawn
  <2>2. w \notin Busy
    BY <2>1 DEF InCall
  <2>3. QED
    BY <1>1, <1>9, <1>10, <2>1, <2>2 DEF Spawn, Goto
<1>11. CASE Spawned \/ Close \/ Join
  <2>1. Main \notin Busy
    BY <1>11 DEF Spawned, Close, Join, Ready, InCall, Busy
  <2>2. QED
    BY <1>1, <1>9, <1>11, <2>1 DEF Spawned, Close, Join, Goto
<1>12. ASSUME NEW t \in Threads, Submitted(t) \/ Await(t) \/ GotTask(t) \/ Return(t)
       PROVE  InCall'
  <2>1. t \notin Busy
    BY <1>12 DEF Submitted, Await, GotTask, Return, Ready, InCall, Busy
  <2>2. QED
    BY <1>1, <1>9, <1>12, <2>1 DEF Submitted, Await, GotTask, Return, Goto
<1>13. CASE UNCHANGED vars
  BY <1>13, <1>5, QuietEffect DEF vars, poolVars
<1>14. QED
  BY <1>3, <1>6, <1>7, <1>8, <1>10, <1>11, <1>12, <1>13
  DEF Next, MainStep, WorkerStep, InQueue

(* What the steps below preserve. *)
BaseInv == QInv /\ Typed /\ InCall

LEMMA BaseCorrect == Spec => []BaseInv
<1>1. Init => InCall
  BY InCallInit
<1>2. QInv /\ QInv' /\ Typed /\ InCall /\ [Next]_vars => InCall'
  BY InCallNext
<1>3. QED
  BY <1>1, <1>2, QueueCorrect, TypedCorrect, PTL DEF Spec, BaseInv

(* Every step is one of these, seen from outside the queue. *)
LEMMA Steps ==
  ASSUME BaseInv, BaseInv', [Next]_vars
  PROVE  \/ \E t \in Threads : (Quiet \/ Pushes(t) \/ Pops(t)) /\ UNCHANGED poolVars
         \/ Quiet /\ (Spawn \/ Spawned \/ Close \/ Join)
         \/ \E t \in Threads : Quiet /\ (Submitted(t) \/ Await(t))
         \/ \E t \in Threads : Enters(t, Q!PushCall(Batch[job[t]][idx[t]], TRUE)) /\ Submit(t)
         \/ Enters(Main, Q!PushCall(STOP, TRUE)) /\ PushStop
         \/ \E w \in Workers : \/ Enters(w, Q!PopCall(TRUE)) /\ TestRun(w) /\ Goto(w, "popping")
                               \/ Quiet /\ TestRun(w) /\ Goto(w, "exited")
                               \/ Quiet /\ (GotTask(w) \/ Return(w))
<1> USE ThreadFacts DEF BaseInv
<1>1. ASSUME NEW t \in Threads, InQueue(t) \/ (Q!SpuriousWakeup(t) /\ UNCHANGED poolVars)
      PROVE  (Quiet \/ Pushes(t) \/ Pops(t)) /\ UNCHANGED poolVars
  BY <1>1, CallsDeliver DEF InQueue
<1>2. Spawn \/ Spawned \/ Close \/ Join => Quiet
  BY QuietEffect DEF Spawn, Spawned, Close, Join
<1>3. \A t : Submitted(t) \/ Await(t) \/ GotTask(t) \/ Return(t) => Quiet
  BY QuietEffect DEF Submitted, Await, GotTask, Return
<1>4. ASSUME NEW t \in Threads, Submit(t)
      PROVE  Enters(t, Q!PushCall(Batch[job[t]][idx[t]], TRUE))
  BY <1>4, EnterEffect DEF Submit, Q!CallPush
<1>5. PushStop => Enters(Main, Q!PushCall(STOP, TRUE))
  BY EnterEffect DEF PushStop, Q!CallPush
<1>6. ASSUME NEW w \in Workers, TestRun(w)
      PROVE  \/ Enters(w, Q!PopCall(TRUE)) /\ Goto(w, "popping")
             \/ Quiet /\ Goto(w, "exited")
  BY <1>6, EnterEffect, QuietEffect DEF TestRun, Q!CallPop
<1>7. UNCHANGED vars => Quiet /\ UNCHANGED poolVars
  BY QuietEffect DEF vars
<1>8. QED
  BY <1>1, <1>2, <1>3, <1>4, <1>5, <1>6, <1>7 DEF Next, MainStep, WorkerStep

-----------------------------------------------------------------------------
(* The places of a task, one predicate for each kind. *)
AtPush(k, t) == t \in Busy /\ call[t].op = "push" /\ call[t].item = k
AtQueue(k, i) == i \in 1 .. Len(Queued) /\ Queued[i] = k
AtPop(k, w) == w \in Workers /\ w \notin Busy /\ pc[w] = "popping" /\ call[w].item = k
AtRun(k, w) == w \in Workers /\ pc[w] \in {"submit", "await"} /\ job[w] = k

IsPlace(k, p) ==
  \/ \E t \in Threads : p = <<"pushing", t>> /\ AtPush(k, t)
  \/ \E i \in Nat : p = <<"queued", i>> /\ AtQueue(k, i)
  \/ \E w \in Threads : p = <<"popped", w>> /\ AtPop(k, w)
  \/ \E w \in Threads : p = <<"running", w>> /\ AtRun(k, w)
  \/ p = <<"done", k>> /\ k \in done

(* The places are that set, now and in the next state. *)
LEMMA PlacesDef ==
  ASSUME NEW k
  PROVE  /\ QInv => \A p : p \in Places(k) <=> IsPlace(k, p)
         /\ QInv' => \A p : p \in Places(k)' <=> IsPlace(k, p)'
<1>1. QInv => \A p : p \in Places(k) <=> IsPlace(k, p)
  <2> SUFFICES ASSUME QInv, NEW p PROVE p \in Places(k) <=> IsPlace(k, p)
    OBVIOUS
  <2>1. Len(Queued) = mNumItems /\ mNumItems \in Nat /\ Queued = Q!Contents
    BY QueuedType DEF Queued, P!Contents, Q!Contents, P!Plus, Q!Plus
  <2>2. QED
    BY <2>1, ThreadFacts
    DEF Places, IsPlace, AtPush, AtQueue, AtPop, AtRun, Busy, Ready
<1>2. QInv' => \A p : p \in Places(k)' <=> IsPlace(k, p)'
  <2> SUFFICES ASSUME QInv', NEW p PROVE p \in Places(k)' <=> IsPlace(k, p)'
    OBVIOUS
  <2>1. Len(Queued') = mNumItems' /\ mNumItems' \in Nat /\ Queued' = Q!Contents'
    BY QueuedType DEF Queued, P!Contents, Q!Contents, P!Plus, Q!Plus
  <2>2. QED
    BY <2>1, ThreadFacts
    DEF Places, IsPlace, AtPush, AtQueue, AtPop, AtRun, Busy, Ready
<1>3. QED
  BY <1>1, <1>2

(* What a step can do to task k: leave it, move it or bring it in. *)
Stays(k) == \A p : IsPlace(k, p)' <=> IsPlace(k, p)

Moves(k) ==
  \E p, q : /\ IsPlace(k, p) /\ IsPlace(k, q)'
            /\ \A r : IsPlace(k, r)' => r = q \/ (r # p /\ IsPlace(k, r))

Appears(k) ==
  /\ \A p : ~IsPlace(k, p)
  /\ \E q : IsPlace(k, q)' /\ \A r : IsPlace(k, r)' => r = q

(* No task is in two places. *)
OnePlace == \A k \in Tasks : \A p, q \in Places(k) : p = q

LEMMA OnePlaceFact ==
  ASSUME QInv, OnePlace, NEW k \in Tasks, NEW p, NEW q, IsPlace(k, p), IsPlace(k, q)
  PROVE  p = q
  BY PlacesDef DEF OnePlace

(* A step that changes none of the five predicates. *)
LEMMA StaysIf ==
  ASSUME NEW k,
         \A t \in Threads : AtPush(k, t)' <=> AtPush(k, t),
         \A i \in Nat : AtQueue(k, i)' <=> AtQueue(k, i),
         \A w \in Threads : AtPop(k, w)' <=> AtPop(k, w),
         \A w \in Threads : AtRun(k, w)' <=> AtRun(k, w),
         k \in done' <=> k \in done
  PROVE  Stays(k)
  BY DEF Stays, IsPlace

(* A push puts its task at the end of the queue. *)
LEMMA PushMoves ==
  ASSUME BaseInv, NEW k \in Tasks, NEW t \in Threads, Pushes(t), UNCHANGED poolVars
  PROVE  Stays(k) \/ Moves(k)
<1>1. /\ t \in Busy /\ Busy' = Busy \ {t} /\ call[t].op = "push"
      /\ \A u \in Threads \ {t} : call'[u] = call[u]
  BY CallType DEF BaseInv, Pushes, Returned
<1>2. UNCHANGED <<pc, job, done>>
  BY DEF poolVars
<1>3. pc[t] \in {"submit", "stop"}
  BY <1>1 DEF BaseInv, InCall
<1>4. Queued \in Seq(Tasks \cup {STOP}) /\ call[t].item \in Tasks \cup {STOP}
  BY <1>1, QueuedType DEF BaseInv, QInv, P!IInv, P!CallOK, Busy
<1>5. PICK n \in Nat : /\ n = Len(Queued') /\ n > 0 /\ n - 1 = Len(Queued)
                       /\ Queued'[n] = call[t].item
                       /\ \A i \in 1 .. n - 1 : Queued'[i] = Queued[i]
  BY <1>4, AppendProperties, LenProperties DEF Pushes
<1>6. \A w \in Threads : AtPop(k, w)' <=> AtPop(k, w)
  BY <1>1, <1>2, <1>3 DEF AtPop
<1>7. \A w \in Threads : AtRun(k, w)' <=> AtRun(k, w)
  BY <1>2 DEF AtRun
<1>8. \A u \in Threads : AtPush(k, u)' <=> AtPush(k, u) /\ u # t
  BY <1>1 DEF AtPush, Busy
<1>9. \A i \in Nat : AtQueue(k, i)' <=> AtQueue(k, i) \/ (i = n /\ call[t].item = k)
  BY <1>5 DEF AtQueue
<1>10. CASE call[t].item = k
  <2>1. IsPlace(k, <<"pushing", t>>)
    BY <1>1, <1>10 DEF IsPlace, AtPush
  <2>2. IsPlace(k, <<"queued", n>>)'
    BY <1>5, <1>9, <1>10 DEF IsPlace
  <2>3. \A r : IsPlace(k, r)' => r = <<"queued", n>> \/ (r # <<"pushing", t>> /\ IsPlace(k, r))
    BY <1>2, <1>6, <1>7, <1>8, <1>9 DEF IsPlace
  <2>4. QED
    BY <2>1, <2>2, <2>3 DEF Moves
<1>11. CASE call[t].item # k
  <2>1. ~AtPush(k, t)
    BY <1>11 DEF AtPush
  <2>2. QED
    BY <1>2, <1>6, <1>7, <1>8, <1>9, <1>11, <2>1, StaysIf
<1>12. QED
  BY <1>10, <1>11

(* A pop takes the first task of the queue to its worker and moves the     *)
(* others up.                                                              *)
LEMMA PopMoves ==
  ASSUME BaseInv, OnePlace, NEW k \in Tasks, NEW t \in Threads, Pops(t), UNCHANGED poolVars
  PROVE  Stays(k) \/ Moves(k)
<1> DEFINE n == Len(Queued)
<1>1. /\ t \in Busy /\ Busy' = Busy \ {t} /\ call[t].op = "pop"
      /\ \A u \in Threads \ {t} : call'[u] = call[u]
      /\ call'[t].item = Head(Queued) /\ call'[t].op = "pop"
  BY CallType DEF BaseInv, Pops, Returned, Q!Calls
<1>2. UNCHANGED <<pc, job, done>>
  BY DEF poolVars
<1>3. pc[t] = "popping" /\ t \in Workers
  BY <1>1, ThreadFacts DEF BaseInv, InCall, Typed, Shape, Busy
<1>4. /\ n \in Nat /\ n > 0 /\ Len(Queued') = n - 1 /\ Head(Queued) = Queued[1]
      /\ \A i \in 1 .. n - 1 : Queued'[i] = Queued[i + 1]
  BY QueuedType, HeadTailProperties, EmptySeq DEF BaseInv, Pops
<1> HIDE DEF n
<1>5. \A w \in Threads : AtPop(k, w)' <=> AtPop(k, w) \/ (w = t /\ Queued[1] = k)
  BY <1>1, <1>2, <1>3, <1>4 DEF AtPop, Busy
<1>6. \A w \in Threads : AtRun(k, w)' <=> AtRun(k, w)
  BY <1>2 DEF AtRun
<1>7. \A u \in Threads : AtPush(k, u)' <=> AtPush(k, u)
  BY <1>1 DEF AtPush, Busy
<1>8. \A i \in Nat : AtQueue(k, i)' <=> i # 0 /\ AtQueue(k, i + 1)
  BY <1>4 DEF AtQueue, n
<1>9. CASE \E i \in Nat : AtQueue(k, i)
  <2>1. PICK i \in Nat : AtQueue(k, i)
    BY <1>9
  <2>2. i \in 1 .. n /\ Queued[i] = k
    BY <2>1 DEF AtQueue, n
  <2>3. \A j \in Nat : AtQueue(k, j) => j = i
    <3>1. ASSUME NEW j \in Nat, AtQueue(k, j) PROVE j = i
      <4>1. <<"queued", j>> = <<"queued", i>>
        BY <2>1, <3>1, OnePlaceFact DEF IsPlace, BaseInv
      <4>2. QED
        BY <4>1
    <3>2. QED
      BY <3>1
  <2>4. IsPlace(k, <<"queued", i>>)
    BY <2>1 DEF IsPlace
  <2>5. CASE i = 1
    <3>1. IsPlace(k, <<"popped", t>>)'
      BY <1>3, <1>5, <2>2, <2>5, ThreadFacts DEF IsPlace
    <3>2. \A j \in Nat : ~AtQueue(k, j)'
      BY <1>8, <2>3, <2>5
    <3>3. \A r : IsPlace(k, r)' => r = <<"popped", t>> \/ (r # <<"queued", i>> /\ IsPlace(k, r))
      BY <1>2, <1>5, <1>6, <1>7, <3>2 DEF IsPlace
    <3>4. QED
      BY <2>4, <3>1, <3>3 DEF Moves
  <2>6. CASE i # 1
    <3>1. i - 1 \in Nat /\ i - 1 # 0 /\ (i - 1) + 1 = i
      BY <1>4, <2>2, <2>6
    <3>2. Queued[1] # k
      BY <1>4, <2>3, <2>6 DEF AtQueue, n
    <3>3. IsPlace(k, <<"queued", i - 1>>)'
      BY <1>8, <2>1, <3>1 DEF IsPlace
    <3>4. \A j \in Nat : AtQueue(k, j)' => j = i - 1
      BY <1>8, <2>3, <3>1
    <3>5. \A r : IsPlace(k, r)' => r = <<"queued", i - 1>> \/ (r # <<"queued", i>> /\ IsPlace(k, r))
      BY <1>2, <1>5, <1>6, <1>7, <3>2, <3>4 DEF IsPlace
    <3>6. QED
      BY <2>4, <3>3, <3>5 DEF Moves
  <2>7. QED
    BY <2>5, <2>6
<1>10. CASE ~\E i \in Nat : AtQueue(k, i)
  <2>1. Queued[1] # k
    BY <1>4, <1>10 DEF AtQueue, n
  <2>2. \A i \in Nat : i + 1 \in Nat
    OBVIOUS
  <2>3. QED
    BY <1>2, <1>5, <1>6, <1>7, <1>8, <1>10, <2>1, <2>2, StaysIf
<1>11. QED
  BY <1>9, <1>10

(* A worker starts on the task it popped. *)
LEMMA GotMoves ==
  ASSUME BaseInv, NEW k \in Tasks, NEW w \in Workers, GotTask(w), Quiet
  PROVE  Stays(k) \/ Moves(k)
<1> USE ThreadFacts
<1>1. UNCHANGED <<Queued, Busy, call, done>> /\ w \notin Busy /\ pc[w] = "popping"
  BY DEF Quiet, GotTask, Ready, Busy
<1>2. \A u \in Threads \ {w} : pc'[u] = pc[u] /\ job'[u] = job[u]
  BY DEF GotTask, Goto, BaseInv, Typed, PoolTypeOK
<1>3. pc'[w] = Popped(w) /\ (Popped(w) = "submit" => job'[w] = call[w].item)
  BY DEF GotTask, Goto, BaseInv, Typed, PoolTypeOK
<1>4. Popped(w) = "submit" <=> call[w].item \in Tasks
  BY DEF Popped
<1>5. Popped(w) \in {"submit", "loop"}
  BY DEF Popped
<1>6. \A u \in Threads : AtPop(k, u)' <=> AtPop(k, u) /\ u # w
  BY <1>1, <1>2, <1>3, <1>5 DEF AtPop
<1>7. \A u \in Threads : AtRun(k, u)' <=> AtRun(k, u) \/ (u = w /\ call[w].item = k)
  BY <1>1, <1>2, <1>3, <1>4, <1>5 DEF AtRun
<1>8. \A u \in Threads : AtPush(k, u)' <=> AtPush(k, u)
  BY <1>1 DEF AtPush
<1>9. \A i \in Nat : AtQueue(k, i)' <=> AtQueue(k, i)
  BY <1>1 DEF AtQueue
<1>10. CASE call[w].item = k
  <2>1. IsPlace(k, <<"popped", w>>)
    BY <1>1, <1>10 DEF IsPlace, AtPop
  <2>2. IsPlace(k, <<"running", w>>)'
    BY <1>7, <1>10 DEF IsPlace
  <2>3. \A r : IsPlace(k, r)' => r = <<"running", w>> \/ (r # <<"popped", w>> /\ IsPlace(k, r))
    BY <1>1, <1>6, <1>7, <1>8, <1>9 DEF IsPlace
  <2>4. QED
    BY <2>1, <2>2, <2>3 DEF Moves
<1>11. CASE call[w].item # k
  <2>1. ~AtPop(k, w)
    BY <1>11 DEF AtPop
  <2>2. QED
    BY <1>1, <1>6, <1>7, <1>8, <1>9, <1>11, <2>1, StaysIf
<1>12. QED
  BY <1>10, <1>11

(* A task returns. *)
LEMMA ReturnMoves ==
  ASSUME BaseInv, NEW k \in Tasks, NEW w \in Workers, Return(w), Quiet
  PROVE  Stays(k) \/ Moves(k)
<1> USE ThreadFacts
<1>1. UNCHANGED <<Queued, Busy, call, job>> /\ pc[w] = "await" /\ done' = done \cup {job[w]}
  BY DEF Quiet, Return
<1>2. pc'[w] = "loop" /\ \A u \in Threads \ {w} : pc'[u] = pc[u]
  BY DEF Return, Goto, BaseInv, Typed, PoolTypeOK
<1>3. \A u \in Threads : AtRun(k, u)' <=> AtRun(k, u) /\ u # w
  BY <1>1, <1>2 DEF AtRun
<1>4. \A u \in Threads : AtPop(k, u)' <=> AtPop(k, u)
  BY <1>1, <1>2 DEF AtPop
<1>5. \A u \in Threads : AtPush(k, u)' <=> AtPush(k, u)
  BY <1>1 DEF AtPush
<1>6. \A i \in Nat : AtQueue(k, i)' <=> AtQueue(k, i)
  BY <1>1 DEF AtQueue
<1>7. CASE job[w] = k
  <2>1. IsPlace(k, <<"running", w>>)
    BY <1>1, <1>7 DEF IsPlace, AtRun
  <2>2. IsPlace(k, <<"done", k>>)'
    BY <1>1, <1>7 DEF IsPlace
  <2>3. \A r : IsPlace(k, r)' => r = <<"done", k>> \/ (r # <<"running", w>> /\ IsPlace(k, r))
    BY <1>3, <1>4, <1>5, <1>6 DEF IsPlace
  <2>4. QED
    BY <2>1, <2>2, <2>3 DEF Moves
<1>8. CASE job[w] # k
  <2>1. ~AtRun(k, w) /\ (k \in done' <=> k \in done)
    BY <1>1, <1>8 DEF AtRun
  <2>2. QED
    BY <1>3, <1>4, <1>5, <1>6, <1>8, <2>1, StaysIf
<1>9. QED
  BY <1>7, <1>8

(* A push begins: its task, which is nowhere yet, appears. *)
LEMMA EnterPushMoves ==
  ASSUME BaseInv, NEW k \in Tasks, NEW t \in Threads, NEW i, Enters(t, Q!PushCall(i, TRUE)),
         UNCHANGED <<pc, job, done>>, pc[t] \in {"submit", "stop"},
         i = k => \A p : ~IsPlace(k, p)
  PROVE  Stays(k) \/ (i = k /\ Appears(k))
<1>1. /\ t \notin Busy /\ Busy' = Busy \cup {t} /\ UNCHANGED Queued
      /\ call'[t].op = "push" /\ call'[t].item = i
      /\ \A u \in Threads \ {t} : call'[u] = call[u]
  BY CallType, CallShapes DEF BaseInv, Enters
<1>2. \A u \in Threads : AtPush(k, u)' <=> AtPush(k, u) \/ (u = t /\ i = k)
  BY <1>1 DEF AtPush
<1>3. \A u \in Threads : AtPop(k, u)' <=> AtPop(k, u)
  BY <1>1 DEF AtPop
<1>4. \A u \in Threads : AtRun(k, u)' <=> AtRun(k, u)
  BY DEF AtRun
<1>5. \A j \in Nat : AtQueue(k, j)' <=> AtQueue(k, j)
  BY <1>1 DEF AtQueue
<1>6. CASE i = k
  <2>1. IsPlace(k, <<"pushing", t>>)'
    BY <1>2, <1>6 DEF IsPlace
  <2>2. \A r : IsPlace(k, r)' => r = <<"pushing", t>> \/ IsPlace(k, r)
    BY <1>2, <1>3, <1>4, <1>5 DEF IsPlace
  <2>3. QED
    BY <1>6, <2>1, <2>2 DEF Appears
<1>7. CASE i # k
  BY <1>2, <1>3, <1>4, <1>5, <1>7, StaysIf
<1>8. QED
  BY <1>6, <1>7

(* Every other step leaves the tasks where they are: a worker that is born *)
(* or leaves its loop holds none, and neither does one that starts to pop. *)
LEMMA OtherStays ==
  ASSUME BaseInv, BaseInv', NEW k \in Tasks, UNCHANGED done, UNCHANGED Queued,
         \A u \in Busy : u \in Busy' /\ call'[u] = call[u],
         \A u \in Busy' \ Busy : call'[u].op = "pop" /\ pc[u] = "loop" /\ pc'[u] = "popping",
         \A u \in Threads : \/ pc'[u] = pc[u] /\ job'[u] = job[u] /\ call'[u] = call[u]
                            \/ /\ pc[u] \notin {"popping", "submit", "await"}
                               /\ pc'[u] \notin {"submit", "await"}
                               /\ pc'[u] = "popping" => u \in Busy'
                            \/ /\ pc[u] = "submit" /\ pc'[u] = "await"
                               /\ job'[u] = job[u] /\ call'[u] = call[u]
                            \/ u = Main
  PROVE  Stays(k)
<1> USE ThreadFacts
<1>1. pc[Main] # "popping" /\ pc'[Main] # "popping"
  BY DEF BaseInv, Typed, Shape
<1>2. \A u \in Threads : AtPush(k, u)' <=> AtPush(k, u)
  BY DEF AtPush
<1>3. \A u \in Threads : AtPop(k, u)' <=> AtPop(k, u)
  BY <1>1 DEF AtPop, Busy
<1>4. \A u \in Threads : AtRun(k, u)' <=> AtRun(k, u)
  BY DEF AtRun
<1>5. \A j \in Nat : AtQueue(k, j)' <=> AtQueue(k, j)
  BY DEF AtQueue
<1>6. QED
  BY <1>2, <1>3, <1>4, <1>5, StaysIf

-----------------------------------------------------------------------------
(* Whose batch a task is in decides when it is submitted: x is past turn i *)
(* of its submission loop.                                                 *)
Past(x, i) ==
  \/ x \in done
  \/ \E t \in Threads :
       /\ job[t] = x
       /\ \/ pc[t] = "submit" /\ i < idx[t]
          \/ pc[t] \in {"await", "stop", "closed"}

HasTurn(k) ==
  \E x \in Submitters : \E i \in DOMAIN Batch[x] : Batch[x][i] = k /\ Past(x, i)

(* A task is nowhere before its turn. *)
NowhereBefore == \A k \in Tasks : ~HasTurn(k) => Places(k) = {}

(* A turn that was taken stays taken. *)
LEMMA PastStays ==
  ASSUME BaseInv, BaseInv', [Next]_vars, NEW x \in Submitters, NEW i \in Nat, Past(x, i)
  PROVE  Past(x, i)'
<1> USE ThreadFacts DEF BaseInv, Typed, PoolTypeOK
<1>1. done \subseteq done'
  BY Steps DEF Spawn, Spawned, Close, Join, Submitted, Await, Submit, PushStop, TestRun,
               GotTask, Return, poolVars
<1>2. CASE x \in done
  BY <1>1, <1>2 DEF Past
<1>3. ASSUME NEW t \in Threads, job[t] = x,
             \/ pc[t] = "submit" /\ i < idx[t]
             \/ pc[t] \in {"await", "stop", "closed"}
      PROVE  Past(x, i)'
  <2>1. ASSUME job'[t] = job[t], pc'[t] = pc[t], idx'[t] = idx[t] PROVE Past(x, i)'
    BY <1>3, <2>1 DEF Past
  <2>2. ASSUME UNCHANGED <<pc, job>>, idx' = [idx EXCEPT ![t] = idx[t] + 1]
        PROVE  Past(x, i)'
    BY <1>3, <2>2 DEF Past
  <2>3. ASSUME job'[t] = job[t], pc'[t] \in {"await", "stop", "closed"} PROVE Past(x, i)'
    BY <1>3, <2>3 DEF Past
  <2>4. CASE UNCHANGED poolVars
    BY <2>4, <2>1 DEF poolVars
  <2>5. CASE Spawn
    <3>1. PICK w \in Workers : pc[w] = "unborn" /\ Goto(w, "loop")
      BY <2>5 DEF Spawn
    <3>2. t # w
      BY <1>3, <3>1
    <3>3. QED
      BY <2>1, <2>5, <3>1, <3>2 DEF Spawn, Goto
  <2>6. CASE Spawned \/ Close \/ Join
    <3>1. CASE t = Main
      BY <2>3, <2>6, <1>3, <3>1 DEF Spawned, Close, Join, Goto, Ready
    <3>2. CASE t # Main
      BY <2>1, <2>6, <3>2 DEF Spawned, Close, Join, Goto
    <3>3. QED
      BY <3>1, <3>2
  <2>7. ASSUME NEW u \in Threads, Submitted(u) \/ Await(u) \/ Submit(u) PROVE Past(x, i)'
    <3>1. CASE u = t
      BY <2>2, <2>3, <2>7, <3>1 DEF Submitted, Await, Submit, Goto, Ready
    <3>2. CASE u # t
      BY <2>1, <2>7, <3>2 DEF Submitted, Await, Submit, Goto
    <3>3. QED
      BY <3>1, <3>2
  <2>8. CASE PushStop
    <3>1. CASE t = Main
      BY <2>2, <2>8, <3>1 DEF PushStop
    <3>2. CASE t # Main
      BY <2>1, <2>8, <3>2 DEF PushStop
    <3>3. QED
      BY <3>1, <3>2
  <2>9. ASSUME NEW w \in Workers, TestRun(w) \/ GotTask(w) PROVE Past(x, i)'
    <3>1. t # w
      BY <1>3, <2>9 DEF TestRun, GotTask, Ready
    <3>2. job'[t] = job[t] /\ idx'[t] = idx[t] /\ pc'[t] = pc[t]
      BY <2>9, <3>1 DEF TestRun, GotTask, Goto
    <3>3. QED
      BY <2>1, <3>2
  <2>10. ASSUME NEW w \in Workers, Return(w) PROVE Past(x, i)'
    <3>1. CASE t = w
      BY <2>10, <1>3, <3>1 DEF Return, Past
    <3>2. CASE t # w
      BY <2>1, <2>10, <3>2 DEF Return, Goto
    <3>3. QED
      BY <3>1, <3>2
  <2>11. QED
    BY <2>4, <2>5, <2>6, <2>7, <2>8, <2>9, <2>10, Steps
<1>4. QED
  BY <1>2, <1>3 DEF Past

(* A submission loop comes to each turn once: two of them would be the     *)
(* batch of one task, and that task would be in two places.                *)
LEMMA TurnIsNew ==
  ASSUME BaseInv, OnePlace, NEW t \in Threads, Submit(t)
  PROVE  /\ Batch[job[t]][idx[t]] \in Tasks
         /\ ~HasTurn(Batch[job[t]][idx[t]])
<1> USE ThreadFacts DEF BaseInv, Typed, PoolTypeOK
<1>1. /\ pc[t] = "submit" /\ job[t] \in Submitters /\ idx[t] \in Nat
      /\ idx[t] \in DOMAIN Batch[job[t]]
  BY BatchFacts DEF Submit, Ready
<1>2. SUFFICES ASSUME HasTurn(Batch[job[t]][idx[t]]) PROVE FALSE
  BY <1>1, BatchFacts
<1>3. PICK x \in Submitters : \E i \in DOMAIN Batch[x] :
                                Batch[x][i] = Batch[job[t]][idx[t]] /\ Past(x, i)
  BY <1>2 DEF HasTurn
<1>4. x = job[t] /\ Past(x, idx[t])
  BY <1>1, <1>3, BatchAssumption
<1>5. PICK u \in Threads \cup {Main} : \/ x \in done
                                       \/ u # t /\ u \in Threads /\ job[u] = x
                                          /\ pc[u] \in {"submit", "await", "stop", "closed"}
  BY <1>1, <1>4 DEF Past
<1>6. CASE x = Main
  <2>1. t = Main
    BY <1>1, <1>4, <1>6, TaskAssumption DEF Shape
  <2>2. Main \notin done
    BY TaskAssumption
  <2>3. u \in Workers /\ job[u] = Main /\ pc[u] \in {"submit", "await"}
    BY <1>5, <1>6, <2>1, <2>2 DEF Shape
  <2>4. QED
    BY <2>3, TaskAssumption DEF Shape
<1>7. CASE x # Main
  <2>1. x \in Tasks /\ t \in Workers
    BY <1>4, <1>7 DEF Submitters, Shape
  <2>2. IsPlace(x, <<"running", t>>)
    BY <1>1, <1>4, <2>1 DEF IsPlace, AtRun
  <2>3. CASE x \in done
    BY <2>1, <2>2, <2>3, OnePlaceFact DEF IsPlace
  <2>4. CASE u # t /\ job[u] = x /\ pc[u] \in {"submit", "await", "stop", "closed"} /\ u \in Threads
    <3>1. u \in Workers /\ pc[u] \in {"submit", "await"}
      BY <1>7, <2>4 DEF Shape
    <3>2. IsPlace(x, <<"running", u>>)
      BY <2>4, <3>1 DEF IsPlace, AtRun
    <3>3. QED
      BY <2>1, <2>2, <2>4, <3>2, OnePlaceFact
  <2>5. QED
    BY <1>5, <2>3, <2>4
<1>8. QED
  BY <1>6, <1>7

(* A task appears only at its turn of a submission loop. *)
LEMMA StepMoves ==
  ASSUME BaseInv, BaseInv', OnePlace, NowhereBefore, [Next]_vars, NEW k \in Tasks
  PROVE  Stays(k) \/ Moves(k) \/ (Appears(k) /\ HasTurn(k)')
<1> USE ThreadFacts
<1>1. ASSUME NEW t \in Threads, Quiet \/ Pushes(t) \/ Pops(t), UNCHANGED poolVars
      PROVE  Stays(k) \/ Moves(k)
  <2>1. CASE Quiet
    <3>1. UNCHANGED <<Queued, Busy, call, pc, job, done>>
      BY <1>1, <2>1 DEF Quiet, poolVars
    <3>2. QED
      BY <3>1, OtherStays
  <2>2. QED
    BY <1>1, <2>1, PushMoves, PopMoves
<1>2. ASSUME Quiet, Spawn \/ Spawned \/ Close \/ Join PROVE Stays(k)
  <2>1. UNCHANGED <<Queued, Busy, call, job, done>>
    BY <1>2 DEF Quiet, Spawn, Spawned, Close, Join
  <2>2. \A u \in Threads : \/ pc'[u] = pc[u] \/ u = Main
                           \/ pc[u] = "unborn" /\ pc'[u] = "loop"
    BY <1>2 DEF Spawn, Spawned, Close, Join, Goto, BaseInv, Typed, PoolTypeOK
  <2>3. QED
    BY <2>1, <2>2, OtherStays
<1>3. ASSUME NEW t \in Threads, Quiet, Submitted(t) \/ Await(t) PROVE Stays(k)
  <2>1. UNCHANGED <<Queued, Busy, call, job, done>>
    BY <1>3 DEF Quiet, Submitted, Await
  <2>2. \A u \in Threads : pc'[u] = pc[u] \/ (pc[u] = "submit" /\ pc'[u] = "await")
    BY <1>3 DEF Submitted, Await, Ready, Goto, BaseInv, Typed, PoolTypeOK
  <2>3. QED
    BY <2>1, <2>2, OtherStays
<1>4. ASSUME NEW t \in Threads, Enters(t, Q!PushCall(Batch[job[t]][idx[t]], TRUE)), Submit(t)
      PROVE  Stays(k) \/ (Appears(k) /\ HasTurn(k)')
  <2>1. UNCHANGED <<pc, job, done>> /\ pc[t] = "submit"
    BY <1>4 DEF Submit, Ready
  <2>2. Batch[job[t]][idx[t]] = k => \A p : ~IsPlace(k, p)
    BY <1>4, TurnIsNew, PlacesDef DEF NowhereBefore, BaseInv
  <2>3. Stays(k) \/ (Batch[job[t]][idx[t]] = k /\ Appears(k))
    BY <1>4, <2>1, <2>2, EnterPushMoves
  <2>4. ASSUME Batch[job[t]][idx[t]] = k PROVE HasTurn(k)'
    <3>1. /\ job[t] \in Submitters /\ idx[t] \in Nat /\ idx'[t] = idx[t] + 1
          /\ idx[t] \in DOMAIN Batch[job[t]]
      BY <1>4, BatchFacts DEF Submit, BaseInv, Typed, PoolTypeOK
    <3>2. PICK x \in Submitters, j \in Nat : x = job[t] /\ j = idx[t]
      BY <3>1
    <3>3. Past(x, j)'
      BY <2>1, <3>1, <3>2 DEF Past
    <3>4. j \in DOMAIN Batch[x] /\ Batch[x][j] = k
      BY <2>4, <3>1, <3>2
    <3>5. QED
      BY <3>3, <3>4 DEF HasTurn
  <2>5. QED
    BY <2>3, <2>4
<1>5. ASSUME Enters(Main, Q!PushCall(STOP, TRUE)), PushStop PROVE Stays(k)
  <2>1. UNCHANGED <<pc, job, done>> /\ pc[Main] = "stop"
    BY <1>5 DEF PushStop, Ready
  <2>2. STOP # k
    BY TaskAssumption
  <2>3. QED
    BY <1>5, <2>1, <2>2, EnterPushMoves
<1>6. ASSUME NEW w \in Workers, TestRun(w),
             \/ Enters(w, Q!PopCall(TRUE)) /\ Goto(w, "popping")
             \/ Quiet /\ Goto(w, "exited")
      PROVE  Stays(k)
  <2>1. UNCHANGED <<job, done>> /\ pc[w] = "loop"
    BY <1>6 DEF TestRun
  <2>2. /\ \A u \in Threads \ {w} : pc'[u] = pc[u]
        /\ pc'[w] = "exited" \/ (pc'[w] = "popping" /\ w \in Busy')
    BY <1>6 DEF Goto, Enters, BaseInv, Typed, PoolTypeOK
  <2>3. /\ UNCHANGED Queued
        /\ \A u \in Threads \ {w} : call'[u] = call[u]
        /\ \A u \in Busy : u \in Busy' /\ call'[u] = call[u]
        /\ \A u \in Busy' \ Busy : u = w /\ pc'[w] = "popping" /\ call'[w].op = "pop"
    <3>1. CASE Enters(w, Q!PopCall(TRUE)) /\ Goto(w, "popping")
      <4>1. /\ UNCHANGED Queued /\ Busy' = Busy \cup {w} /\ w \notin Busy
            /\ \A u \in Threads \ {w} : call'[u] = call[u]
            /\ call'[w] = Q!PopCall(TRUE)
        BY <3>1, CallType DEF Enters, BaseInv
      <4>2. pc'[w] = "popping"
        BY <3>1 DEF Goto, BaseInv, Typed, PoolTypeOK
      <4>3. \A u \in Busy : u \in Threads \ {w}
        BY <4>1 DEF Busy
      <4>4. QED
        BY <4>1, <4>2, <4>3, CallShapes
    <3>2. CASE Quiet
      BY <3>2 DEF Quiet
    <3>3. QED
      BY <1>6, <3>1, <3>2
  <2>4. QED
    BY <2>1, <2>2, <2>3, OtherStays
<1>7. QED
  BY <1>1, <1>2, <1>3, <1>4, <1>5, <1>6, Steps, GotMoves, ReturnMoves

(* The two invariants about places, together. *)
LEMMA PlacesInit == Init => OnePlace /\ NowhereBefore
<1> SUFFICES ASSUME Init, NEW k \in Tasks PROVE Places(k) = {}
  BY DEF OnePlace, NowhereBefore
<1> USE ThreadFacts
<1>1. BaseInv /\ Busy = {} /\ Queued = <<>> /\ done = {}
  <2>1. QInv
    BY QueueInit, QueueFacts, P!InitIInv DEF QInv
  <2>2. Len(Queued) = 0 /\ Queued \in Seq(Tasks \cup {STOP})
    BY <2>1, QueuedType DEF Init, Q!Init
  <2>3. QED
    BY <2>1, <2>2, TypedInit, InCallInit, EmptySeq DEF BaseInv, Init, Q!Init, Busy, Threads
<1>2. \A w \in Workers : pc[w] = "unborn"
  BY DEF Init
<1>3. \A p : ~IsPlace(k, p)
  BY <1>1, <1>2 DEF IsPlace, AtPush, AtQueue, AtPop, AtRun
<1>4. QED
  BY <1>1, <1>3, PlacesDef DEF BaseInv

LEMMA PlacesNext ==
  ASSUME BaseInv, BaseInv', OnePlace, NowhereBefore, [Next]_vars
  PROVE  OnePlace' /\ NowhereBefore'
<1>1. ASSUME NEW k \in Tasks PROVE \A p, q \in Places(k)' : p = q
  <2>1. \A p, q : IsPlace(k, p) /\ IsPlace(k, q) => p = q
    BY OnePlaceFact DEF BaseInv
  <2>2. \A p, q : IsPlace(k, p)' /\ IsPlace(k, q)' => p = q
    BY <2>1, StepMoves DEF Stays, Moves, Appears
  <2>3. QED
    BY <2>2, PlacesDef DEF BaseInv
<1>2. ASSUME NEW k \in Tasks, ~HasTurn(k)' PROVE Places(k)' = {}
  <2>1. ~HasTurn(k)
    <3>1. HasTurn(k) => HasTurn(k)'
      BY PastStays, BatchFacts DEF HasTurn
    <3>2. QED
      BY <1>2, <3>1
  <2>2. \A p : ~IsPlace(k, p)
    BY <2>1, PlacesDef DEF NowhereBefore, BaseInv
  <2>3. \A p : ~IsPlace(k, p)'
    BY <1>2, <2>2, StepMoves DEF Stays, Moves
  <2>4. QED
    BY <2>3, PlacesDef DEF BaseInv
<1>3. QED
  BY <1>1, <1>2 DEF OnePlace, NowhereBefore

(* Only a task that is running or done has been called, and that once. *)
Begun(k) == k \in done \/ \E w \in Workers : AtRun(k, w)

RanOK == \A k \in Tasks : ran[k] = 0 \/ (ran[k] = 1 /\ Begun(k))

LEMMA BegunStays ==
  ASSUME BaseInv, BaseInv', [Next]_vars, NEW k \in Tasks, Begun(k)
  PROVE  Begun(k)'
<1> USE ThreadFacts DEF BaseInv, Typed, PoolTypeOK
<1>1. CASE k \in done
  BY <1>1, Steps DEF Begun, Spawn, Spawned, Close, Join, Submitted, Await, Submit, PushStop,
                     TestRun, GotTask, Return, poolVars
<1>2. ASSUME NEW w \in Workers, AtRun(k, w) PROVE Begun(k)'
  <2>1. ASSUME job'[w] = job[w], pc'[w] \in {"submit", "await"} PROVE Begun(k)'
    BY <1>2, <2>1 DEF Begun, AtRun
  <2>2. pc[w] \in {"submit", "await"} /\ job[w] = k
    BY <1>2 DEF AtRun
  <2>3. CASE UNCHANGED poolVars
    BY <2>1, <2>2, <2>3 DEF poolVars
  <2>4. CASE Spawn
    BY <2>1, <2>2, <2>4 DEF Spawn, Goto
  <2>5. CASE Spawned \/ Close \/ Join \/ PushStop
    BY <2>1, <2>2, <2>5 DEF Spawned, Close, Join, PushStop, Goto
  <2>6. ASSUME NEW u \in Threads, Submitted(u) \/ Await(u) \/ Submit(u) PROVE Begun(k)'
    BY <2>1, <2>2, <2>6 DEF Submitted, Await, Submit, Goto
  <2>7. ASSUME NEW u \in Workers, TestRun(u) \/ GotTask(u) PROVE Begun(k)'
    <3>1. u # w
      BY <2>2, <2>7 DEF TestRun, GotTask, Ready
    <3>2. job'[w] = job[w] /\ pc'[w] = pc[w]
      BY <2>7, <3>1 DEF TestRun, GotTask, Goto
    <3>3. QED
      BY <2>1, <2>2, <3>2
  <2>8. ASSUME NEW u \in Workers, Return(u) PROVE Begun(k)'
    <3>1. CASE u = w
      BY <2>2, <2>8, <3>1 DEF Return, Begun
    <3>2. CASE u # w
      BY <2>1, <2>2, <2>8, <3>2 DEF Return, Goto
    <3>3. QED
      BY <3>1, <3>2
  <2>9. QED
    BY <2>3, <2>4, <2>5, <2>6, <2>7, <2>8, Steps
<1>3. QED
  BY <1>1, <1>2 DEF Begun

LEMMA RanNext ==
  ASSUME BaseInv, BaseInv', OnePlace, RanOK, [Next]_vars
  PROVE  RanOK'
<1> USE ThreadFacts
<1>1. CASE UNCHANGED ran
  BY <1>1, BegunStays DEF RanOK
<1>2. ASSUME NEW w \in Workers, GotTask(w), call[w].item \in Tasks PROVE RanOK'
  <2>1. PICK k \in Tasks : k = call[w].item
    BY <1>2
  <2>2. ran' = [ran EXCEPT ![k] = ran[k] + 1] /\ ran \in [Tasks -> Nat]
    BY <1>2, <2>1 DEF GotTask, Popped, BaseInv, Typed, PoolTypeOK
  <2>3. IsPlace(k, <<"popped", w>>)
    BY <1>2, <2>1 DEF GotTask, Ready, IsPlace, AtPop, Busy
  <2>4. ~Begun(k)
    BY <2>1, <2>3, OnePlaceFact DEF Begun, IsPlace, BaseInv
  <2>5. ran'[k] = 1
    BY <2>1, <2>2, <2>4 DEF RanOK
  <2>6. Begun(k)'
    BY <1>2, <2>1 DEF GotTask, Popped, Goto, Begun, AtRun, BaseInv, Typed, PoolTypeOK
  <2>7. QED
    BY <2>2, <2>5, <2>6, BegunStays DEF RanOK
<1>3. ASSUME NEW w \in Workers, GotTask(w), call[w].item \notin Tasks PROVE RanOK'
  <2>1. Popped(w) # "submit"
    BY <1>3 DEF Popped
  <2>2. QED
    BY <1>1, <1>3, <2>1 DEF GotTask
<1>4. \/ UNCHANGED ran
      \/ \E w \in Workers : GotTask(w)
  <2>1. Spawn \/ Spawned \/ Close \/ Join \/ PushStop \/ UNCHANGED poolVars => UNCHANGED ran
    BY DEF Spawn, Spawned, Close, Join, PushStop, poolVars
  <2>2. \A t : Submitted(t) \/ Await(t) \/ Submit(t) \/ TestRun(t) \/ Return(t) => UNCHANGED ran
    BY DEF Submitted, Await, Submit, TestRun, Return
  <2>3. QED
    BY <2>1, <2>2 DEF Next, MainStep, WorkerStep, InQueue, vars
<1>5. QED
  BY <1>1, <1>2, <1>3, <1>4

(* Invariants of the tasks. *)
TaskInv == OnePlace /\ NowhereBefore /\ RanOK

LEMMA TaskCorrect == Spec => []TaskInv
<1>1. Init => TaskInv
  BY PlacesInit DEF TaskInv, RanOK, Init
<1>2. BaseInv /\ BaseInv' /\ TaskInv /\ [Next]_vars => TaskInv'
  BY PlacesNext, RanNext DEF TaskInv
<1>3. QED
  BY <1>1, <1>2, BaseCorrect, PTL DEF Spec

(* However many workers there are and whatever tasks submit in turn, no    *)
(* task gets into two hands and none is called twice (async.c:16-26).      *)
THEOREM RunsOnceCorrect == Spec => []RunsOnce
<1>1. TaskInv => RunsOnce
  <2> SUFFICES ASSUME TaskInv, NEW k \in Tasks
               PROVE  Cardinality(Places(k)) <= 1 /\ ran[k] <= 1
    BY DEF RunsOnce
  <2>1. Places(k) = {} \/ \E p : Places(k) = {p}
    BY DEF TaskInv, OnePlace
  <2>2. Cardinality(Places(k)) \in {0, 1}
    <3>1. CASE Places(k) = {}
      BY <3>1, FS_EmptySet, Zenon
    <3>2. CASE \E p : Places(k) = {p}
      BY <3>2, FS_Singleton, Zenon
    <3>3. QED
      BY <2>1, <3>1, <3>2
  <2>3. QED
    BY <2>2 DEF TaskInv, RanOK
<1>2. QED
  BY <1>1, TaskCorrect, PTL

(* No step loses a task between its submission and its end.                *)
THEOREM NeverLostCorrect == Spec => NeverLost
<1>1. BaseInv /\ BaseInv' /\ TaskInv /\ [Next]_vars
        => [\A k \in Tasks : Places(k) # {} => Places(k)' # {}]_vars
  <2> SUFFICES ASSUME BaseInv, BaseInv', TaskInv, [Next]_vars,
                      NEW k \in Tasks, Places(k) # {}
               PROVE  Places(k)' # {}
    OBVIOUS
  <2>1. PICK p : IsPlace(k, p)
    BY PlacesDef DEF BaseInv
  <2>2. \E q : IsPlace(k, q)'
    BY <2>1, StepMoves DEF TaskInv, Stays, Moves, Appears
  <2>3. QED
    BY <2>2, PlacesDef DEF BaseInv
<1>2. QED
  BY <1>1, BaseCorrect, TaskCorrect, PTL DEF Spec, NeverLost

-----------------------------------------------------------------------------
(* The arithmetic of task_queue_close: the workers inside pop, and the     *)
(* STOPs that Main has still to push.                                      *)
Popping == {w \in Workers : pc[w] = "popping" /\ w \in Busy}
ToCome == NumWorkers + 1 - idx[Main] + IF Main \in Busy THEN 1 ELSE 0

(* Once the pool is closing its workers are told so. *)
StopsOK ==
  /\ pc[Main] \in {"stop", "closed"} => ~run
  /\ pc[Main] = "stop" => Cardinality(Popping) <= Len(Queued) + ToCome

LEMMA PoppingFinite ==
  /\ NumWorkers \in Nat
  /\ IsFiniteSet(Popping) /\ Cardinality(Popping) \in Nat /\ Cardinality(Popping) <= NumWorkers
  /\ IsFiniteSet(Popping') /\ Cardinality(Popping') \in Nat /\ Cardinality(Popping') <= NumWorkers
<1>1. IsFiniteSet(Workers) /\ NumWorkers \in Nat
  BY TaskAssumption, FS_CardinalityType DEF NumWorkers
<1>2. ASSUME NEW S \in SUBSET Workers
      PROVE  IsFiniteSet(S) /\ Cardinality(S) \in Nat /\ Cardinality(S) <= NumWorkers
  BY <1>1, FS_Subset, FS_CardinalityType DEF NumWorkers
<1>3. Popping \in SUBSET Workers /\ Popping' \in SUBSET Workers
  BY DEF Popping
<1>4. QED
  BY <1>1, <1>2, <1>3

(* One step of the pool: whoever it concerns, the items and the STOPs to   *)
(* come stay enough.                                                       *)
LEMMA StopsNext ==
  ASSUME BaseInv, BaseInv', StopsOK, [Next]_vars
  PROVE  StopsOK'
<1> USE ThreadFacts, PoppingFinite
<1>1. /\ pc[Main] \in {"spawn", "submit", "await", "stop", "closed"}
      /\ idx \in [Threads -> Nat \ {0}]
      /\ pc \in [Threads -> {"spawn", "unborn", "loop", "popping", "submit", "await",
                         "exited", "stop", "closed"}]
      /\ Len(Queued) \in Nat /\ Len(Queued') \in Nat
  BY QueuedType DEF BaseInv, Typed, PoolTypeOK, Shape
<1>2. ASSUME Popping' \subseteq Popping, UNCHANGED run, pc'[Main] = pc[Main], idx'[Main] = idx[Main],
             Len(Queued') = Len(Queued), Main \in Busy' <=> Main \in Busy
      PROVE  StopsOK'
  <2>1. Cardinality(Popping') <= Cardinality(Popping)
    BY <1>2, FS_Subset
  <2>2. ToCome' = ToCome /\ ToCome \in Int
    BY <1>1, <1>2 DEF ToCome
  <2>3. QED
    BY <1>1, <1>2, <2>1, <2>2 DEF StopsOK
<1>3. ASSUME NEW t \in Threads, Pushes(t), UNCHANGED poolVars PROVE StopsOK'
  <2>1. UNCHANGED <<run, pc, idx>> /\ t \in Busy /\ Busy' = Busy \ {t}
    BY <1>3 DEF Pushes, Returned, poolVars
  <2>2. pc[t] # "popping"
    BY <1>3, <2>1 DEF BaseInv, InCall, Pushes
  <2>3. Popping' = Popping
    BY <2>1, <2>2 DEF Popping
  <2>4. Len(Queued') = Len(Queued) + 1
    <3>1. call[t].item \in Tasks \cup {STOP}
      BY <1>3, <2>1 DEF BaseInv, QInv, P!IInv, P!CallOK, Pushes, Busy
    <3>2. QED
      BY <1>3, <3>1, QueuedType, AppendProperties DEF BaseInv, Pushes
  <2>5. /\ ToCome \in Int /\ ToCome' \in Int /\ ToCome' >= ToCome - 1
    BY <1>1, <2>1 DEF ToCome
  <2>6. QED
    BY <1>1, <2>1, <2>3, <2>4, <2>5 DEF StopsOK
<1>4. ASSUME NEW t \in Threads, Pops(t), UNCHANGED poolVars PROVE StopsOK'
  <2>1. UNCHANGED <<run, pc, idx>> /\ t \in Busy /\ Busy' = Busy \ {t}
    BY <1>4 DEF Pops, Returned, poolVars
  <2>2. pc[t] = "popping"
    BY <1>4, <2>1 DEF BaseInv, InCall, Pops
  <2>3. t \in Workers /\ t # Main
    BY <1>1, <2>2
  <2>4. t \in Popping /\ Popping' = Popping \ {t}
    BY <2>1, <2>2, <2>3 DEF Popping
  <2>5. Cardinality(Popping') = Cardinality(Popping) - 1
    BY <2>4, FS_RemoveElement
  <2>6. Len(Queued') = Len(Queued) - 1
    BY <1>4, QueuedType, HeadTailProperties DEF BaseInv, Pops
  <2>7. ToCome' = ToCome /\ ToCome \in Int
    BY <1>1, <2>1, <2>3 DEF ToCome
  <2>8. QED
    BY <1>1, <2>1, <2>5, <2>6, <2>7 DEF StopsOK
<1>5. CASE Close /\ Quiet
  <2>1. pc'[Main] = "stop" /\ run' = FALSE /\ idx'[Main] = 1
    BY <1>1, <1>5 DEF Close, Goto
  <2>2. ToCome' \in Int /\ ToCome' >= NumWorkers
    BY <2>1 DEF ToCome
  <2>3. QED
    BY <1>1, <2>1, <2>2 DEF StopsOK
<1>6. CASE PushStop /\ Enters(Main, Q!PushCall(STOP, TRUE))
  <2>1. /\ UNCHANGED <<run, pc, Queued>> /\ idx'[Main] = idx[Main] + 1
        /\ Main \notin Busy /\ Busy' = Busy \cup {Main}
    BY <1>1, <1>6 DEF PushStop, Enters
  <2>2. Popping' = Popping
    BY <2>1 DEF Popping
  <2>3. ToCome' = ToCome /\ ToCome \in Int
    BY <1>1, <2>1 DEF ToCome
  <2>4. QED
    BY <1>1, <2>1, <2>2, <2>3 DEF StopsOK
<1>7. ASSUME NEW t \in Threads, Submit(t), Enters(t, Q!PushCall(Batch[job[t]][idx[t]], TRUE))
      PROVE  StopsOK'
  <2>1. /\ UNCHANGED <<run, pc, Queued>> /\ Busy' = Busy \cup {t} /\ pc[t] = "submit"
        /\ \A u \in Threads \ {t} : idx'[u] = idx[u]
    BY <1>1, <1>7 DEF Submit, Ready, Enters
  <2>2. CASE t = Main
    BY <2>1, <2>2 DEF StopsOK
  <2>3. CASE t # Main
    <3>1. Popping' = Popping
      BY <2>1 DEF Popping
    <3>2. QED
      BY <1>2, <2>1, <2>3, <3>1
  <2>4. QED
    BY <2>2, <2>3
<1>8. ASSUME NEW w \in Workers, TestRun(w), Enters(w, Q!PopCall(TRUE)), Goto(w, "popping")
      PROVE  StopsOK'
  <2>1. run /\ run' = run
    <3>1. w \in Busy' /\ w \notin Busy
      BY <1>8 DEF Enters
    <3>2. ~UNCHANGED queueVars
      BY <3>1 DEF queueVars, Busy
    <3>3. QED
      BY <1>8, <3>2 DEF TestRun
  <2>2. pc'[Main] = pc[Main]
    BY <1>1, <1>8 DEF Goto
  <2>3. QED
    BY <2>1, <2>2 DEF StopsOK
<1>9. ASSUME Quiet, UNCHANGED run, idx'[Main] = idx[Main], pc'[Main] = pc[Main],
             \A u \in Busy : pc'[u] = pc[u]
      PROVE  StopsOK'
  <2>1. UNCHANGED <<Queued, Busy>> /\ Popping' = Popping
    BY <1>9 DEF Quiet, Popping
  <2>2. QED
    BY <1>2, <1>9, <2>1

<1>10. ASSUME NEW w \in Workers, Quiet,
              (TestRun(w) /\ Goto(w, "exited")) \/ GotTask(w) \/ Return(w)
                \/ Submitted(w) \/ Await(w)
       PROVE  StopsOK'
  <2>1. UNCHANGED run /\ idx'[Main] = idx[Main]
    BY <1>1, <1>10 DEF TestRun, GotTask, Return, Submitted, Await
  <2>2. \A u \in Threads \ {w} : pc'[u] = pc[u]
    BY <1>1, <1>10 DEF TestRun, GotTask, Return, Submitted, Await, Goto
  <2>3. pc'[w] = pc[w] \/ w \notin Busy
    BY <1>10 DEF TestRun, GotTask, Return, Submitted, Await, Ready, BaseInv, InCall, Busy
  <2>4. QED
    BY <1>9, <1>10, <2>1, <2>2, <2>3 DEF Busy
<1>11. CASE Spawned \/ Submitted(Main) \/ Await(Main)
  <2>1. pc'[Main] \in {"submit", "await"}
    BY <1>1, <1>11 DEF Spawned, Submitted, Await, Goto
  <2>2. QED
    BY <2>1 DEF StopsOK
<1>12. CASE Spawn
  <2>1. pc'[Main] = "spawn"
    BY <1>1, <1>12 DEF Spawn, Goto
  <2>2. QED
    BY <2>1 DEF StopsOK
<1>13. CASE Join
  <2>1. pc[Main] = "stop" /\ pc'[Main] = "closed" /\ UNCHANGED run
    BY <1>1, <1>13 DEF Join, Ready, Goto
  <2>2. QED
    BY <2>1 DEF StopsOK
<1>14. CASE Quiet /\ UNCHANGED poolVars
  BY <1>9, <1>14 DEF poolVars
<1>15. QED
  BY <1>3, <1>4, <1>5, <1>6, <1>7, <1>8, <1>10, <1>11, <1>12, <1>13, <1>14, Steps

LEMMA StopsCorrect == Spec => []StopsOK
<1>1. Init => StopsOK
  BY ThreadFacts DEF Init, StopsOK
<1>2. BaseInv /\ BaseInv' /\ StopsOK /\ [Next]_vars => StopsOK'
  BY StopsNext
<1>3. QED
  BY <1>1, <1>2, BaseCorrect, PTL DEF Spec

(* For any number of workers, task_queue_close pushes enough STOPs: the    *)
(* workers still inside pop are never more than the items queued and the   *)
(* STOPs to come (async.c:60-72), although tq->run is read without a lock. *)
THEOREM EnoughStopsCorrect == Spec => []EnoughStops
<1>1. BaseInv /\ StopsOK => EnoughStops
  <2> SUFFICES ASSUME BaseInv, StopsOK PROVE EnoughStops
    OBVIOUS
  <2>1. Popping = {w \in Workers : pc[w] = "popping" /\ qpc[w] # "outside"}
    BY ThreadFacts DEF Popping, Busy
  <2>2. ToCome = NumWorkers + 1 - idx[Main] + IF qpc[Main] # "outside" THEN 1 ELSE 0
    BY ThreadFacts DEF ToCome, Busy
  <2>3. Len(Queued) = mNumItems
    BY QueuedType DEF BaseInv
  <2>4. QED
    BY <2>1, <2>2, <2>3 DEF EnoughStops, StopsOK
<1>2. QED
  BY <1>1, BaseCorrect, StopsCorrect, PTL

-----------------------------------------------------------------------------
(* What the waiting loops have established, and what task_queue_close can  *)
(* rely on when it returns.                                                *)
WholeBatchDone(x) == \A i \in DOMAIN Batch[x] : Batch[x][i] \in done

WaitOK ==
  /\ \A x \in done : WholeBatchDone(x)
  /\ \A t \in Threads : pc[t] = "await" =>
       \A i \in DOMAIN Batch[job[t]] : i < idx[t] => Batch[job[t]][i] \in done
  /\ AwaitFirst /\ pc[Main] \in {"stop", "closed"} => WholeBatchDone(Main)
  /\ pc[Main] = "closed" => \A w \in Workers : pc[w] = "exited"

(* Once every worker has left its loop none comes back. *)
LEMMA ClosedNext ==
  ASSUME BaseInv, WaitOK, [Next]_vars, pc'[Main] = "closed"
  PROVE  \A w \in Workers : pc'[w] = "exited"
<1> USE ThreadFacts
<1>1. pc \in [Threads -> {"spawn", "unborn", "loop", "popping", "submit", "await",
                          "exited", "stop", "closed"}]
  BY DEF BaseInv, Typed, PoolTypeOK
<1>2. CASE Join
  BY <1>1, <1>2 DEF Join, Joined, Goto
<1>3. CASE ~Join
  <2>1. pc[Main] = "closed"
    <3>1. CASE Spawned \/ Submit(Main) \/ Submitted(Main) \/ Await(Main) \/ Close \/ PushStop
      BY <1>1, <3>1 DEF Spawned, Submit, Submitted, Await, Close, PushStop, Ready, Goto
    <3>2. CASE Spawn
      BY <1>1, <3>2 DEF Spawn, Goto
    <3>3. ASSUME NEW w \in Workers, WorkerStep(w) PROVE pc'[Main] = pc[Main]
      BY <1>1, <3>3 DEF WorkerStep, TestRun, GotTask, Submit, Submitted, Await, Return, Goto
    <3>4. CASE UNCHANGED pc
      BY <3>4
    <3>5. QED
      BY <1>3, <3>1, <3>2, <3>3, <3>4 DEF Next, MainStep, InQueue, vars, poolVars
  <2>2. \A w \in Workers : pc[w] = "exited"
    BY <2>1 DEF WaitOK
  <2>3. ~MainStep
    BY <1>3, <2>1 DEF MainStep, Spawn, Spawned, Submit, Submitted, Await, Close, PushStop, Ready
  <2>4. \A w \in Workers : ~WorkerStep(w)
    BY <2>2 DEF WorkerStep, TestRun, GotTask, Submit, Submitted, Await, Return, Ready
  <2>5. UNCHANGED pc
    BY <2>3, <2>4 DEF Next, InQueue, vars, poolVars
  <2>6. QED
    BY <2>2, <2>5
<1>4. QED
  BY <1>2, <1>3

LEMMA WaitNext ==
  ASSUME BaseInv, WaitOK, [Next]_vars
  PROVE  WaitOK'
<1> USE ThreadFacts
<1>1. /\ pc[Main] \in {"spawn", "submit", "await", "stop", "closed"} /\ job[Main] = Main
      /\ job \in [Threads -> Submitters] /\ idx \in [Threads -> Nat \ {0}]
      /\ pc \in [Threads -> {"spawn", "unborn", "loop", "popping", "submit", "await",
                         "exited", "stop", "closed"}]
      /\ \A w \in Workers : pc[w] \in {"submit", "await"} => job[w] \in Tasks
      /\ \A w \in Workers : pc[w] \notin {"stop", "closed"}
  BY DEF BaseInv, Typed, PoolTypeOK, Shape
<1>2. \A x \in Submitters : DOMAIN Batch[x] = 1 .. Len(Batch[x]) /\ Len(Batch[x]) \in Nat
  BY BatchFacts
<1>3. ASSUME NEW t \in Threads, done' = done,
             \A u \in Threads \ {t} : pc'[u] = pc[u] /\ job'[u] = job[u] /\ idx'[u] = idx[u],
             pc'[t] = "await" => /\ job'[t] = job[t]
                                 /\ idx'[t] = 1 \/ (pc[t] = "await" /\ idx'[t] = idx[t]),
             pc'[Main] \in {"stop", "closed"} =>
               pc[Main] \in {"stop", "closed"} \/ (AwaitFirst => WholeBatchDone(Main))
      PROVE  WaitOK'
  <2>1. \A x : WholeBatchDone(x)' <=> WholeBatchDone(x)
    BY <1>3 DEF WholeBatchDone
  <2>2. \A x \in done' : WholeBatchDone(x)'
    BY <1>3, <2>1 DEF WaitOK
  <2>3. ASSUME NEW u \in Threads, pc'[u] = "await", NEW i \in DOMAIN Batch[job'[u]], i < idx'[u]
        PROVE  Batch[job'[u]][i] \in done'
    <3>1. CASE pc[u] = "await" /\ job'[u] = job[u] /\ idx'[u] = idx[u]
      BY <1>3, <2>3, <3>1 DEF WaitOK
    <3>2. CASE idx'[u] = 1 /\ job'[u] = job[u]
      BY <1>1, <1>2, <2>3, <3>2
    <3>3. QED
      BY <1>3, <2>3, <3>1, <3>2
  <2>4. AwaitFirst /\ pc'[Main] \in {"stop", "closed"} => WholeBatchDone(Main)'
    BY <1>3, <2>1 DEF WaitOK
  <2>5. QED
    BY <2>2, <2>3, <2>4, ClosedNext DEF WaitOK
<1>4. CASE UNCHANGED poolVars
  BY <1>3, <1>4 DEF poolVars
<1>5. CASE Spawn
  <2>1. PICK w \in Workers : pc[w] = "unborn" /\ Goto(w, "loop")
    BY <1>5 DEF Spawn
  <2>2. pc'[w] = "loop" /\ pc'[Main] = pc[Main] /\ \A u \in Threads \ {w} : pc'[u] = pc[u]
    BY <1>1, <2>1 DEF Goto
  <2>3. QED
    BY <1>3, <1>5, <2>2 DEF Spawn
<1>6. CASE Spawned \/ PushStop \/ Join
  <2>1. /\ done' = done
        /\ \A u \in Threads \ {Main} : pc'[u] = pc[u] /\ job'[u] = job[u] /\ idx'[u] = idx[u]
        /\ pc'[Main] # "await"
        /\ pc'[Main] \in {"stop", "closed"} => pc[Main] \in {"stop", "closed"}
    BY <1>1, <1>6 DEF Spawned, PushStop, Join, Ready, Goto
  <2>2. QED
    BY <1>3, <2>1
<1>7. CASE Close
  <2>1. /\ done' = done /\ pc'[Main] = "stop"
        /\ \A u \in Threads \ {Main} : pc'[u] = pc[u] /\ job'[u] = job[u] /\ idx'[u] = idx[u]
    BY <1>1, <1>7 DEF Close, Goto
  <2>2. AwaitFirst => idx[Main] > Len(Batch[Main]) /\ pc[Main] = "await"
    BY <1>1, <1>7 DEF Close, Awaits
  <2>3. AwaitFirst => WholeBatchDone(Main)
    BY <1>1, <1>2, <2>2 DEF WaitOK, WholeBatchDone, Submitters
  <2>4. QED
    BY <1>3, <2>1, <2>3
<1>8. ASSUME NEW t \in Threads, Submit(t) \/ Submitted(t) PROVE WaitOK'
  <2>1. /\ done' = done
        /\ \A u \in Threads \ {t} : pc'[u] = pc[u] /\ job'[u] = job[u] /\ idx'[u] = idx[u]
        /\ pc'[t] \in {"submit", "await"}
        /\ pc'[t] = "await" => job'[t] = job[t] /\ idx'[t] = 1
    BY <1>1, <1>8 DEF Submit, Submitted, Ready, Goto
  <2>2. QED
    BY <1>3, <2>1
<1>9. ASSUME NEW t \in Threads, Await(t) PROVE WaitOK'
  <2>1. UNCHANGED <<pc, job, done>> /\ pc[t] = "await" /\ idx' = [idx EXCEPT ![t] = idx[t] + 1]
    BY <1>9 DEF Await
  <2>2. Batch[job[t]][idx[t]] \in done
    BY <1>9 DEF Await
  <2>3. ASSUME NEW u \in Threads, pc'[u] = "await", NEW i \in DOMAIN Batch[job'[u]], i < idx'[u]
        PROVE  Batch[job'[u]][i] \in done'
    <3>1. CASE u = t
      <4>1. i \in Nat /\ (i < idx[t] \/ i = idx[t])
        BY <1>1, <1>2, <2>1, <2>3, <3>1
      <4>2. QED
        BY <2>1, <2>2, <2>3, <3>1, <4>1 DEF WaitOK
    <3>2. CASE u # t
      BY <1>1, <2>1, <2>3, <3>2 DEF WaitOK
    <3>3. QED
      BY <3>1, <3>2
  <2>4. \A x : WholeBatchDone(x)' <=> WholeBatchDone(x)
    BY <2>1 DEF WholeBatchDone
  <2>5. QED
    BY <2>1, <2>3, <2>4, ClosedNext DEF WaitOK
<1>10. ASSUME NEW w \in Workers, TestRun(w) \/ GotTask(w) PROVE WaitOK'
  <2>1. /\ done' = done
        /\ \A u \in Threads \ {w} : pc'[u] = pc[u] /\ job'[u] = job[u] /\ idx'[u] = idx[u]
        /\ pc'[w] # "await"
    BY <1>1, <1>10 DEF TestRun, GotTask, Popped, Goto
  <2>2. QED
    BY <1>3, <2>1
<1>11. ASSUME NEW w \in Workers, Return(w) PROVE WaitOK'
  <2>1. /\ UNCHANGED <<job, idx>> /\ done' = done \cup {job[w]} /\ pc[w] = "await"
        /\ pc'[w] = "loop" /\ \A u \in Threads \ {w} : pc'[u] = pc[u]
    BY <1>1, <1>11 DEF Return, Goto
  <2>2. idx[w] > Len(Batch[job[w]])
    BY <1>11 DEF Return, Awaits
  <2>3. WholeBatchDone(job[w])
    BY <1>1, <1>2, <2>1, <2>2 DEF WaitOK, WholeBatchDone
  <2>4. \A x : WholeBatchDone(x) => WholeBatchDone(x)'
    BY <2>1 DEF WholeBatchDone
  <2>5. QED
    BY <2>1, <2>3, <2>4, ClosedNext DEF WaitOK
<1>12. QED
  BY <1>4, <1>5, <1>6, <1>7, <1>8, <1>9, <1>10, <1>11
  DEF Next, MainStep, WorkerStep, InQueue, vars

LEMMA WaitCorrect == Spec => []WaitOK
<1>1. Init => WaitOK
  BY ThreadFacts DEF Init, WaitOK, Threads
<1>2. BaseInv /\ WaitOK /\ [Next]_vars => WaitOK'
  BY WaitNext
<1>3. QED
  BY <1>1, <1>2, BaseCorrect, PTL DEF Spec

(* After task_queue_close no thread of the pool is left that could touch   *)
(* the queue or hold its mutex, and a pool that was drained before has     *)
(* done every task, those that tasks submitted included (async.c:60-78).   *)
THEOREM ClosedMeansIdleCorrect == Spec => []ClosedMeansIdle
<1>1. BaseInv /\ WaitOK => ClosedMeansIdle
  <2> SUFFICES ASSUME BaseInv, WaitOK, pc[Main] = "closed"
               PROVE  /\ \A w \in Workers : pc[w] = "exited" /\ qpc[w] = "outside"
                      /\ lock_queue = NULL
                      /\ AwaitFirst => done = Tasks
    BY DEF ClosedMeansIdle
  <2> USE ThreadFacts
  <2>1. \A w \in Workers : pc[w] = "exited"
    BY DEF WaitOK
  <2>2. \A t \in Threads : qpc[t] = "outside"
    BY <2>1 DEF BaseInv, InCall, Busy
  <2>3. lock_queue = NULL
    <3>1. lock_queue \in Threads \cup {NULL} /\ \A t \in Threads : qpc[t] = "locked" <=> lock_queue = t
      BY DEF BaseInv, QInv, P!IInv, P!TypeOK, P!LockOK
    <3>2. QED
      BY <2>2, <3>1
  <2>4. ASSUME AwaitFirst PROVE done = Tasks
    <3>1. done \in SUBSET Tasks
      BY DEF BaseInv, Typed, PoolTypeOK
    <3>2. \A x \in done \cup {Main} : \A i \in DOMAIN Batch[x] : Batch[x][i] \in done
      BY <2>4 DEF WaitOK, WholeBatchDone
    <3>3. QED
      BY <3>1, <3>2, TasksAssumption
  <2>5. QED
    BY <2>1, <2>2, <2>3, <2>4
<1>2. QED
  BY <1>1, BaseCorrect, WaitCorrect, PTL
=============================================================================
