---------------------------- MODULE ProgramState ----------------------------
(***************************************************************************)
(* src/safeguards.c: the program's state, set and awaited by several       *)
(* threads under state_lock and state_cond, and the two calls that end the *)
(* program rather than allocate or free memory while it runs.  Between a   *)
(* lock and an unlock the code touches nothing else, so a critical section *)
(* is one step; get_current_state is part of the step of its caller.       *)
(***************************************************************************)
EXTENDS Naturals, FiniteSets

CONSTANTS
  Setters,   \* the threads that set the state
  Waiters,   \* the threads that wait for a state
  Allocators,  \* the threads that allocate and free memory
  MaxSets,   \* bound: how often the state is set
  Spurious   \* whether pthread_cond_wait may return without a wake-up

ASSUME SetsAssumption == MaxSets \in Nat

Threads == Setters \cup Waiters \cup Allocators

VARIABLES
  current_state,
  sets,     \* how often it was set
  pc,       \* thread |-> where it is
  awaited,  \* waiter |-> the state it waits for
  memory,   \* allocator |-> whether it holds memory
  late,     \* allocator |-> how often it has allocated or freed memory in RUN,
            \* since the state became RUN (history)
  aborted   \* an assertion has failed: no thread does anything any more

vars == <<current_state, sets, pc, awaited, memory, late, aborted>>

At(t, at) == ~aborted /\ pc[t] = at
Goto(t, at) == pc' = [pc EXCEPT ![t] = at]

Init ==
  /\ current_state = "INIT"
  /\ sets = 0
  /\ pc = [t \in Threads |-> "idle"]
  /\ awaited = [w \in Waiters |-> "INIT"]
  /\ memory = [a \in Allocators |-> FALSE]
  /\ late = [a \in Allocators |-> 0]
  /\ aborted = FALSE

-----------------------------------------------------------------------------
(* Plausible slips of this code: set_current_state wakes nobody up; it     *)
(* takes any number for a state; safe_alloc and safe_free do not look at   *)
(* the state.                                                              *)

SlipNoSignal == UNCHANGED pc

SlipAnyState ==
  {"INVALID_STATE", "INIT", "MENU", "RUN", "STOP", "MAX_PROGRAM_STATE"}

SlipUnchecked(a) ==
  /\ At(a, "idle")
  /\ Goto(a, "checked")
  /\ UNCHANGED <<current_state, sets, awaited, memory, late, aborted>>

-----------------------------------------------------------------------------
(* The states that pass the assertion state < MAX_PROGRAM_STATE. *)
Accepted == {"INVALID_STATE", "INIT", "MENU", "RUN", "STOP"}

Sleeping == {w \in Waiters : pc[w] = "sleeping"}

(* pthread_cond_signal: one sleeper, whichever, is woken up, if any. *)
Signal ==
  \/ Sleeping = {} /\ UNCHANGED pc
  \/ \E w \in Sleeping : Goto(w, "testing")

(* set_current_state(s), called by a thread that is doing nothing else. *)
Set(t, s) ==
  /\ At(t, "idle")
  /\ sets < MaxSets
  /\ current_state' = s
  /\ sets' = sets + 1
  /\ Signal
  /\ late' = IF s = "RUN" THEN late ELSE [a \in Allocators |-> 0]
  /\ UNCHANGED <<awaited, memory, aborted>>

(* wait_until_state(s) is called. *)
CallWait(w, s) ==
  /\ At(w, "idle")
  /\ awaited' = [awaited EXCEPT ![w] = s]
  /\ Goto(w, "testing")
  /\ UNCHANGED <<current_state, sets, memory, late, aborted>>

(* One turn of the loop, with the lock held: it returns or goes to sleep. *)
Test(w) ==
  /\ At(w, "testing")
  /\ Goto(w, IF current_state = awaited[w] THEN "idle" ELSE "sleeping")
  /\ UNCHANGED <<current_state, sets, awaited, memory, late, aborted>>

SpuriousWakeup(w) ==
  /\ Spurious
  /\ At(w, "sleeping")
  /\ Goto(w, "testing")
  /\ UNCHANGED <<current_state, sets, awaited, memory, late, aborted>>

(* safe_alloc and safe_free read the state, release state_lock, and assert *)
(* that it was not RUN.                                                    *)
Check(a) ==
  /\ At(a, "idle")
  /\ \/ current_state # "RUN" /\ Goto(a, "checked") /\ UNCHANGED aborted
     \/ current_state = "RUN" /\ aborted' = TRUE /\ UNCHANGED pc
  /\ UNCHANGED <<current_state, sets, awaited, memory, late>>

(* malloc, or free. *)
Allocate(a) ==
  /\ At(a, "checked")
  /\ memory' = [memory EXCEPT ![a] = ~@]
  /\ late' = IF current_state = "RUN" THEN [late EXCEPT ![a] = @ + 1] ELSE late
  /\ Goto(a, "idle")
  /\ UNCHANGED <<current_state, sets, awaited, aborted>>

Next ==
  \/ \E t \in Setters, s \in Accepted : Set(t, s)
  \/ \E w \in Waiters : (\E s \in Accepted : CallWait(w, s)) \/ Test(w) \/ SpuriousWakeup(w)
  \/ \E a \in Allocators : Check(a) \/ Allocate(a)

Spec == Init /\ [][Next]_vars

(* A waiter that can go on does. *)
FairSpec == Spec /\ \A w \in Waiters : WF_vars(Test(w))

-----------------------------------------------------------------------------
TypeOK ==
  /\ current_state \in {"INVALID_STATE", "INIT", "MENU", "RUN", "STOP"}
  /\ sets \in 0 .. MaxSets
  /\ pc \in [Threads -> {"idle", "testing", "sleeping", "checked"}]
  /\ awaited \in [Waiters -> Accepted]
  /\ memory \in [Allocators -> BOOLEAN]
  /\ late \in [Allocators -> Nat]
  /\ aborted \in BOOLEAN

(* A waiter returns once its state has come to stay, in a program that     *)
(* lives on.  set_current_state signals and does not broadcast, so this    *)
(* takes there being one waiter.                                           *)
WaiterArrives ==
  \A w \in Waiters :
    <>[](current_state = awaited[w] /\ ~aborted) => []<>(pc[w] = "idle")

(* Once the program runs, each thread allocates or frees memory at most    *)
(* once more before it stops running.  The assertions of safe_alloc and    *)
(* safe_free are for never, but they test the state under a lock that is   *)
(* released before malloc or free: a call that has passed its assertion is *)
(* let through, and only one.                                              *)
AtMostOneLate == \A a \in Allocators : late[a] <= 1
=============================================================================
