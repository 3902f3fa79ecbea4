---------------------------- MODULE MCToolCallCache ----------------------------
(* Small instances of ToolCallCache for TLC. No symmetry: the run checks       *)
(* liveness.                                                                   *)
EXTENDS ToolCallCache, TLC
=============================================================================
