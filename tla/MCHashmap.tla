------------------------------ MODULE MCHashmap -----------------------------
(* Hashmap, for TLC: a hash function that does not scatter its keys. *)
EXTENDS Hashmap, TLC

CONSTANTS k1, k2, k3, k4

(* Three keys in one bucket. *)
Collide == k1 :> 0 @@ k2 :> 0 @@ k3 :> 0 @@ k4 :> 1

(* Values, and keys of one bucket, are interchangeable. *)
Symmetry == Permutations({k1, k2, k3}) \cup Permutations(Values)
=============================================================================
