----------------------------- MODULE MCTaskQueue ----------------------------
(* TaskQueue, for TLC: the batches and the symmetry of the workers. *)
EXTENDS TaskQueue, TLC

CONSTANTS k1, k2, k3, k4

(* async_async_test as a task: k1 submits k2 and k3 and waits for them. *)
NestedBatch == [x \in Submitters |-> IF x = Main THEN <<k1, k4>>
                                     ELSE IF x = k1 THEN <<k2, k3>> ELSE <<>>]

Symmetry == Permutations(Workers)
=============================================================================
