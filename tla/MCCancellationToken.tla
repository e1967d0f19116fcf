------------------------ MODULE MCCancellationToken ------------------------
(* The main thread and one worker share a token. *)
EXTENDS CancellationToken
=============================================================================
