------------------------------ MODULE TaskQueue -----------------------------
(***************************************************************************)
(* src/async.c: a pool of worker threads fed by one queue (module Queue),  *)
(* together with the clients of src/asyncTests.c: a main thread that       *)
(* submits tasks, waits for them and closes the pool, and tasks that       *)
(* submit tasks and wait for them in turn (async_async_test).              *)
(*                                                                         *)
(* The workers read tq->run without a lock while task_queue_close writes   *)
(* it; compiled as the Makefile does, each read is a load from memory, so  *)
(* it gives the value before or after that write.                          *)
(***************************************************************************)
EXTENDS Naturals, FiniteSets, Sequences

CONSTANTS
  Workers,     \* the threads of worker_array
  Main,        \* the thread that opens, uses and closes the pool
  Tasks,       \* the tasks that do something: func is not NULL
  Batch,       \* Main or a task |-> the tasks it submits, in order
  AwaitFirst,  \* whether Main waits for its batch before it closes the pool
  STOP,        \* the item task_queue_close pushes: func is NULL
  Slots,       \* as in Queue
  Spurious,
  NULL

Submitters == Tasks \cup {Main}

ASSUME TaskAssumption ==
  /\ IsFiniteSet(Workers) /\ Main \notin Workers
  /\ STOP \notin Tasks /\ Main \notin Tasks
  /\ Batch \in [Submitters -> Seq(Tasks)]
  /\ AwaitFirst \in BOOLEAN

(* What Queue assumes, of these threads and items. *)
ASSUME QueueAssumption ==
  /\ Slots \in Nat \ {0}
  /\ NULL \notin Tasks \cup {STOP} /\ NULL \notin Workers \cup {Main}

(* Each task is one turn of one submission loop: args[task_index] is a     *)
(* cell of its own.                                                        *)
ASSUME BatchAssumption ==
  \A x, y \in Submitters : \A i \in DOMAIN Batch[x], j \in DOMAIN Batch[y] :
    Batch[x][i] = Batch[y][j] => x = y /\ i = j

(* Tasks holds what Main submits, what that submits in turn, and no more.  *)
ASSUME TasksAssumption ==
  \A S \in SUBSET Tasks :
    (\A x \in S \cup {Main} : \A i \in DOMAIN Batch[x] : Batch[x][i] \in S) => S = Tasks

VARIABLES
  buf, head, tail, mNumItems, lock_queue, qpc, call,  \* tq->queue
  run,   \* tq->run
  pc,    \* thread |-> where it is outside the queue's code
  job,   \* thread |-> whose batch it is submitting or awaiting
  idx,   \* thread |-> the counter of its current loop
  ran,   \* task |-> how often a worker has called it (history)
  done   \* the tasks that have returned

poolVars == <<run, pc, job, idx, ran, done>>
queueVars == <<buf, head, tail, mNumItems, lock_queue, qpc, call>>
vars == <<queueVars, poolVars>>

Threads == Workers \cup {Main}

Q == INSTANCE Queue WITH Items <- Tasks \cup {STOP}

NumWorkers == Cardinality(Workers)

(* t is between two calls of the queue. *)
Ready(t, at) == pc[t] = at /\ qpc[t] = "outside"

Goto(t, at) == pc' = [pc EXCEPT ![t] = at]

-----------------------------------------------------------------------------
(* Plausible slips of this code, named so that every property can be shown *)
(* to notice one.                                                          *)

(* A worker tests run again before it calls what it popped. *)
SlipForgetTask(w) == IF call[w].item \in Tasks /\ run THEN "submit" ELSE "loop"

(* A worker returns to where it looks at its task, not to QUEUE_POP. *)
SlipRunAgain(w) ==
  /\ pc[w] = "await"
  /\ Goto(w, "popping")
  /\ done' = done \cup {job[w]}
  /\ UNCHANGED <<queueVars, run, job, idx, ran>>

(* task_queue_close leaves run alone, and relies on its STOPs. *)
SlipStillRunning ==
  /\ pc[Main] = "await"
  /\ idx[Main] > Len(Batch[Main])
  /\ Goto(Main, "stop")
  /\ idx' = [idx EXCEPT ![Main] = 1]
  /\ UNCHANGED <<queueVars, run, job, ran, done>>

(* It counts its STOPs from 0 to NumWorkers. *)
SlipStopsFromZero ==
  /\ pc[Main] = "await"
  /\ run' = FALSE
  /\ Goto(Main, "stop")
  /\ idx' = [idx EXCEPT ![Main] = 0]
  /\ UNCHANGED <<queueVars, job, ran, done>>

(* It counts its STOPs from one too far. *)
SlipStopShort ==
  /\ pc[Main] = "await"
  /\ idx[Main] > Len(Batch[Main]) \/ ~AwaitFirst
  /\ run' = FALSE
  /\ Goto(Main, "stop")
  /\ idx' = [idx EXCEPT ![Main] = 2]
  /\ UNCHANGED <<queueVars, job, ran, done>>

(* It does not wait for its workers. *)
SlipJoinNobody == TRUE

-----------------------------------------------------------------------------
(* task_queue_init: tq->run is 1 before the first worker starts. *)
Init ==
  /\ Q!Init
  /\ run = TRUE
  /\ pc = [t \in Threads |-> IF t = Main THEN "spawn" ELSE "unborn"]
  /\ job = [t \in Threads |-> Main]
  /\ idx = [t \in Threads |-> 1]
  /\ ran = [k \in Tasks |-> 0]
  /\ done = {}

(* One turn of its loop over pthread_create. *)
Spawn ==
  /\ pc[Main] = "spawn"
  /\ \E w \in Workers : pc[w] = "unborn" /\ Goto(w, "loop")
  /\ UNCHANGED <<queueVars, run, job, idx, ran, done>>

(* task_queue_init returns and Main starts on its batch. *)
Spawned ==
  /\ pc[Main] = "spawn"
  /\ \A w \in Workers : pc[w] # "unborn"
  /\ Goto(Main, "submit")
  /\ UNCHANGED <<queueVars, run, job, idx, ran, done>>

(* The while (tq->run) of a worker, and the call of QUEUE_POP behind it. *)
TestRun(w) ==
  /\ pc[w] = "loop"
  /\ \/ run /\ Goto(w, "popping") /\ Q!CallPop(w, TRUE)
     \/ ~run /\ Goto(w, "exited") /\ UNCHANGED queueVars
  /\ UNCHANGED <<run, job, idx, ran, done>>

(* What a worker does with the item in its task variable. *)
Popped(w) == IF call[w].item \in Tasks THEN "submit" ELSE "loop"

(* QUEUE_POP has returned: task.func(task.args), or the next turn. *)
GotTask(w) ==
  /\ Ready(w, "popping")
  /\ Goto(w, Popped(w))
  /\ IF Popped(w) = "submit"
     THEN LET k == call[w].item
          IN /\ job' = [job EXCEPT ![w] = k]
             /\ ran' = [ran EXCEPT ![k] = @ + 1]
             /\ idx' = [idx EXCEPT ![w] = 1]
     ELSE UNCHANGED <<job, ran, idx>>
  /\ UNCHANGED <<queueVars, run, done>>

(* The submission loop of async_test and async_async_test. *)
Submit(t) ==
  /\ Ready(t, "submit")
  /\ idx[t] <= Len(Batch[job[t]])
  /\ Q!CallPush(t, Batch[job[t]][idx[t]], TRUE)
  /\ idx' = [idx EXCEPT ![t] = @ + 1]
  /\ UNCHANGED <<run, pc, job, ran, done>>

Submitted(t) ==
  /\ Ready(t, "submit")
  /\ idx[t] > Len(Batch[job[t]])
  /\ Goto(t, "await")
  /\ idx' = [idx EXCEPT ![t] = 1]
  /\ UNCHANGED <<queueVars, run, job, ran, done>>

(* The waiting loop: done_cond is broadcast after done is set, under       *)
(* done_lock, so the wait is over once the task is done.                   *)
Awaits(t) == IF t = Main /\ ~AwaitFirst THEN 0 ELSE Len(Batch[job[t]])

Await(t) ==
  /\ pc[t] = "await"
  /\ idx[t] <= Awaits(t)
  /\ Batch[job[t]][idx[t]] \in done
  /\ idx' = [idx EXCEPT ![t] = @ + 1]
  /\ UNCHANGED <<queueVars, run, pc, job, ran, done>>

(* The task sets its done flag and returns, as worker_test does, and the   *)
(* worker goes back to the head of its loop.  async_async_test has no flag *)
(* and nobody awaits it; here a task that submits others has one as well.  *)
Return(w) ==
  /\ pc[w] = "await"
  /\ idx[w] > Awaits(w)
  /\ Goto(w, "loop")
  /\ done' = done \cup {job[w]}
  /\ UNCHANGED <<queueVars, run, job, idx, ran>>

(* task_queue_close starts. *)
Close ==
  /\ pc[Main] = "await"
  /\ idx[Main] > Awaits(Main)
  /\ run' = FALSE
  /\ Goto(Main, "stop")
  /\ idx' = [idx EXCEPT ![Main] = 1]
  /\ UNCHANGED <<queueVars, job, ran, done>>

(* Its loop over QUEUE_PUSH, one STOP for each worker. *)
PushStop ==
  /\ Ready(Main, "stop")
  /\ idx[Main] <= NumWorkers
  /\ Q!CallPush(Main, STOP, TRUE)
  /\ idx' = [idx EXCEPT ![Main] = @ + 1]
  /\ UNCHANGED <<run, pc, job, ran, done>>

(* Its loop over pthread_join: over once every worker has returned. *)
Joined == \A w \in Workers : pc[w] = "exited"

Join ==
  /\ Ready(Main, "stop")
  /\ idx[Main] > NumWorkers
  /\ Joined
  /\ Goto(Main, "closed")
  /\ UNCHANGED <<queueVars, run, job, idx, ran, done>>

MainStep == Spawn \/ Spawned \/ Submit(Main) \/ Submitted(Main) \/ Await(Main)
              \/ Close \/ PushStop \/ Join

WorkerStep(w) == TestRun(w) \/ GotTask(w) \/ Submit(w) \/ Submitted(w) \/ Await(w) \/ Return(w)

InQueue(t) == Q!Inside(t) /\ UNCHANGED poolVars

Next ==
  \/ MainStep
  \/ \E w \in Workers : WorkerStep(w)
  \/ \E t \in Threads : InQueue(t)
  \/ \E t \in Threads : Q!SpuriousWakeup(t) /\ UNCHANGED poolVars

Spec == Init /\ [][Next]_vars

(* Every thread that can run does, sooner or later. *)
FairSpec ==
  /\ Spec
  /\ WF_vars(MainStep)
  /\ \A w \in Workers : WF_vars(WorkerStep(w))
  /\ \A t \in Threads : WF_vars(InQueue(t))

-----------------------------------------------------------------------------
TypeOK ==
  /\ Q!TypeOK
  /\ run \in BOOLEAN
  /\ pc \in [Threads -> {"spawn", "unborn", "loop", "popping", "submit", "await",
                         "exited", "stop", "closed"}]
  /\ job \in [Threads -> Submitters]
  /\ idx \in [Threads -> Nat \ {0}]
  /\ ran \in [Tasks -> Nat]
  /\ done \subseteq Tasks

(* Where task k is: about to be pushed, in the ring, in a worker's hands,  *)
(* being executed or done.                                                 *)
Places(k) ==
  {<<"pushing", t>> : t \in {u \in Threads : /\ qpc[u] # "outside"
                                             /\ call[u].op = "push" /\ call[u].item = k}}
  \cup {<<"queued", i>> : i \in {j \in 1 .. mNumItems : Q!Contents[j] = k}}
  \cup {<<"popped", w>> : w \in {u \in Workers : Ready(u, "popping") /\ call[u].item = k}}
  \cup {<<"running", w>> : w \in {u \in Workers : /\ pc[u] \in {"submit", "await"}
                                                  /\ job[u] = k}}
  \cup {<<"done", k>> : x \in {k} \cap done}

(* A task is never in two places, so no two workers get hold of it, and it *)
(* runs at most once.                                                      *)
RunsOnce == \A k \in Tasks : Cardinality(Places(k)) <= 1 /\ ran[k] <= 1

(* A task that was submitted is never lost on its way. *)
NeverLost == [][\A k \in Tasks : Places(k) # {} => Places(k)' # {}]_vars

(* Once the pool is closing, each worker pops at most once more; the items *)
(* still queued and the STOPs still to come are enough for all the workers *)
(* inside pop, so none of them is left there for ever.                     *)
EnoughStops ==
  pc[Main] = "stop" =>
    LET popping == {w \in Workers : pc[w] = "popping" /\ qpc[w] # "outside"}
        toCome  == NumWorkers + 1 - idx[Main] + IF qpc[Main] # "outside" THEN 1 ELSE 0
    IN  Cardinality(popping) <= mNumItems + toCome

(* When task_queue_close has returned, no thread is left that could still  *)
(* touch the queue, and a pool that was drained first has done every task. *)
ClosedMeansIdle ==
  pc[Main] = "closed" =>
    /\ \A w \in Workers : pc[w] = "exited" /\ qpc[w] = "outside"
    /\ lock_queue = NULL
    /\ AwaitFirst => done = Tasks

(* task_queue_close returns: in the end everything that the clients wait   *)
(* for is done, the tasks of tasks included, and every worker has left     *)
(* its loop.                                                               *)
CloseReturns == <>(pc[Main] = "closed")
=============================================================================
