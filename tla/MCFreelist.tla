----------------------------- MODULE MCFreelist -----------------------------
(* Freelist, for TLC: users are interchangeable. *)
EXTENDS Freelist, TLC

Symmetry == Permutations(Users)
=============================================================================
