---------------------------- MODULE MCGcpWatchdog ----------------------------
(* One caller and two runners, each of which may start, die and be late.   *)
EXTENDS GcpWatchdog
=============================================================================
