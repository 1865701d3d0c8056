---------------------------- MODULE MCProgramState --------------------------
(* ProgramState, for TLC. *)
EXTENDS ProgramState
=============================================================================
