------------------------------ MODULE Allocator -----------------------------
(***************************************************************************)
(* What include/freelist.h promises: a fixed set of items that several     *)
(* users take and give back.  Module Freelist implements it with a list    *)
(* threaded through the free items.                                        *)
(***************************************************************************)
CONSTANTS
  Users,  \* who takes items
  Items,  \* the items
  NULL    \* the caller's output variable before get has written to it

VARIABLES
  held,   \* user |-> the items it holds
  answer  \* user |-> what its last get gave it, or NULL

vars == <<held, answer>>

Free == Items \ UNION {held[u] : u \in Users}

Init ==
  /\ held = [u \in Users |-> {}]
  /\ answer = [u \in Users |-> NULL]

(* A get takes any free item, one that nobody else has. *)
Get(u) ==
  \E i \in Free :
    /\ held' = [held EXCEPT ![u] = @ \cup {i}]
    /\ answer' = [answer EXCEPT ![u] = i]

(* It leaves empty-handed only when nothing is free. *)
GetNothing(u) ==
  /\ Free = {}
  /\ answer' = [answer EXCEPT ![u] = NULL]
  /\ UNCHANGED held

Rel(u, i) ==
  /\ i \in held[u]
  /\ held' = [held EXCEPT ![u] = @ \ {i}]
  /\ UNCHANGED answer

Next == \E u \in Users : Get(u) \/ GetNothing(u) \/ \E i \in Items : Rel(u, i)

Spec == Init /\ [][Next]_vars
=============================================================================
