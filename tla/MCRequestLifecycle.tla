-------------------------- MODULE MCRequestLifecycle --------------------------
(* A small instance of RequestLifecycle for TLC. No symmetry: the run checks *)
(* liveness.                                                                 *)
EXTENDS RequestLifecycle, TLC
=============================================================================
