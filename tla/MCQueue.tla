------------------------------- MODULE MCQueue ------------------------------
(* Queue, for TLC: threads and items are interchangeable. *)
EXTENDS Queue, TLC

Symmetry == Permutations(Threads) \cup Permutations(Items)
=============================================================================
