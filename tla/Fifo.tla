-------------------------------- MODULE Fifo --------------------------------
(***************************************************************************)
(* What include/queue.h promises: a bounded first-in first-out queue used  *)
(* by several threads, whose calls take effect one at a time, somewhere    *)
(* between the call and its return.  There is no buffer, no lock and no    *)
(* condition variable here; module Queue implements this one with them.    *)
(***************************************************************************)
EXTENDS Naturals, Sequences

CONSTANTS
  Threads,   \* the threads that call push and pop
  Items,     \* what they push
  Capacity,  \* how many items the queue holds
  NULL       \* the caller's output variable before pop has written to it

VARIABLES
  items,     \* the items queued, the oldest first
  pending,   \* the threads whose call has not returned
  call       \* thread |-> its current or last call, with its answer

vars == <<items, pending, call>>

PushCalls ==
  [op : {"push"}, item : Items, blocking : BOOLEAN, ret : {"none"}]

PopCalls ==
  [op : {"pop"}, item : {NULL}, blocking : BOOLEAN, ret : {"none"}]

NoCall == [op |-> "pop", item |-> NULL, blocking |-> FALSE, ret |-> "none"]

Init ==
  /\ items = <<>>
  /\ pending = {}
  /\ call = [t \in Threads |-> NoCall]

(* A thread calls push or pop. *)
Invoke(t) ==
  /\ t \notin pending
  /\ \E c \in PushCalls \cup PopCalls : call' = [call EXCEPT ![t] = c]
  /\ pending' = pending \cup {t}
  /\ UNCHANGED items

(* The call of t returns, with the answer ret and its item set to i. *)
Answer(t, ret, i) ==
  /\ pending' = pending \ {t}
  /\ call' = [call EXCEPT ![t].ret = ret, ![t].item = i]

Pending(t, op) == t \in pending /\ call[t].op = op

(* A push finds room. *)
Push(t) ==
  /\ Pending(t, "push")
  /\ Len(items) < Capacity
  /\ items' = Append(items, call[t].item)
  /\ Answer(t, "success", call[t].item)

(* Only a push that does not block is ever refused, and only for want of room. *)
Refuse(t) ==
  /\ Pending(t, "push")
  /\ ~call[t].blocking
  /\ Len(items) = Capacity
  /\ Answer(t, "EAGAIN", call[t].item)
  /\ UNCHANGED items

(* A pop takes the oldest item. *)
Pop(t) ==
  /\ Pending(t, "pop")
  /\ items # <<>>
  /\ items' = Tail(items)
  /\ Answer(t, "success", Head(items))

(* Only a pop that does not block comes back without an item: it reports   *)
(* success and leaves the caller's variable as it was.                     *)
PopNothing(t) ==
  /\ Pending(t, "pop")
  /\ ~call[t].blocking
  /\ items = <<>>
  /\ Answer(t, "success", call[t].item)
  /\ UNCHANGED items

Next ==
  \E t \in Threads :
    Invoke(t) \/ Push(t) \/ Refuse(t) \/ Pop(t) \/ PopNothing(t)

Spec == Init /\ [][Next]_vars
=============================================================================
