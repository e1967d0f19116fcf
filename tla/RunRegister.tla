----------------------------- MODULE RunRegister -----------------------------
(***************************************************************************)
(* What a run workspace promises its readers: one register that is absent  *)
(* until the run is reserved and afterwards moves only along the frozen    *)
(* graph, one edge at a time.                                              *)
(***************************************************************************)
EXTENDS RunStates

VARIABLE state

Init == state = Absent

Reserve == state = Absent /\ state' = "CREATED"

Advance == /\ state \in RunState
           /\ state' \in AllowedTransitions[state]

Next == Reserve \/ Advance

Spec == Init /\ [][Next]_state
=============================================================================
