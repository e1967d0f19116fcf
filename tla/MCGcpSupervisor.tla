--------------------------- MODULE MCGcpSupervisor ---------------------------
(* The controller, one operator who recovers its lease, and one runner.    *)
EXTENDS GcpSupervisor
=============================================================================
