----------------------------- MODULE MCSwapchain ----------------------------
(* Swapchain, for TLC: readers, and writers, are interchangeable. *)
EXTENDS Swapchain, TLC

Symmetry == Permutations(Readers) \cup Permutations(Writers)

(* No step looks at a version, so where no property compares them either,  *)
(* they may be counted from the start again, and the writing never ends.   *)
CountAgain ==
  /\ writes = MaxWrites
  /\ writes' = 0
  /\ UNCHANGED <<chain, locks, first, second, readerVars, pc, link, published, crashed>>

EndlessSpec == Init /\ [][Next \/ CountAgain]_vars /\ Fairness
=============================================================================
