-------------------------- MODULE MCRunOrchestrator --------------------------
(* All three modes; every step may fail. *)
EXTENDS RunOrchestrator
=============================================================================
