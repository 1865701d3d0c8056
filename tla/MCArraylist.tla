----------------------------- MODULE MCArraylist ----------------------------
(* Arraylist, for TLC. *)
EXTENDS Arraylist, TLC

CONSTANTS a, b

(* Its source has fewer elements than the list may have. *)
In(op, indices) == [op : {op}, index : indices, count : {1, 2}, mem : {<<a, b>>}]

Out(op, indices) == [op : {op}, index : indices, count : {1, 2}, mem : {<<>>}]

(* Calls without memory, and about no items. *)
Odd == [op : {"push_back", "pop_back"}, index : {0}, count : {1}, mem : {NULL}]
         \cup [op : {"insert", "remove"}, index : {1}, count : {0, 1}, mem : {NULL}]

SomeCalls ==
  In("push_back", {0}) \cup Out("pop_back", {0}) \cup In("insert", 0 .. 2)
    \cup Out("remove", 0 .. 2) \cup Odd

Symmetry == Permutations(Threads)
=============================================================================
