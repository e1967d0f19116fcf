--------------------------- MODULE MCRunWorkspace ---------------------------
(* Two processes share one run directory, and their clocks agree.          *)
EXTENDS RunWorkspace, TLC

MCOneTime == {0}
Symmetry == Permutations(Proc)
=============================================================================
