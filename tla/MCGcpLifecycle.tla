--------------------------- MODULE MCGcpLifecycle ---------------------------
(* Two controllers and two leases; a lease is like any other lease.        *)
EXTENDS GcpLifecycle, TLC

Symmetry == Permutations(Proc) \cup Permutations(Lease)

(* Two troubles in a behaviour: two faults, or a fault and a second that   *)
(* passes.                                                                 *)
MCNext == Next /\ faults' + clock' <= 2
MCSpec == Init /\ [][MCNext]_vars
=============================================================================
