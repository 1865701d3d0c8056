------------------------------ MODULE MCLayout ------------------------------
(* Layout, for TLC: every buffer of a small address space. *)
EXTENDS Layout
=============================================================================
