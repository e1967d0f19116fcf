------------------------------ MODULE RunStates ------------------------------
(***************************************************************************)
(* The frozen run-state graph of domain/states.py.                         *)
(***************************************************************************)
EXTENDS Naturals

RunState == {"CREATED", "PREFLIGHT", "WARMUP", "MEASURING", "FINALIZING",
             "COMPLETE", "FAILED", "INTERRUPTED"}

TerminalStates == {"COMPLETE", "FAILED", "INTERRUPTED"}

Absent == "ABSENT"

(* The one non-terminal successor, if any, of each state. *)
Forward == [s \in RunState |->
              CASE s = "CREATED"    -> {"PREFLIGHT"}
                [] s = "PREFLIGHT"  -> {"WARMUP"}
                [] s = "WARMUP"     -> {"MEASURING"}
                [] s = "MEASURING"  -> {"FINALIZING"}
                [] s = "FINALIZING" -> {"COMPLETE"}
                [] OTHER            -> {}]

AllowedTransitions ==
  [s \in RunState |->
     IF s \in TerminalStates THEN {} ELSE Forward[s] \cup {"FAILED", "INTERRUPTED"}]

(* validate_run_transition raises exactly when this is false. *)
ValidTransition(current, target) == target \in AllowedTransitions[current]

(* Steps from CREATED along the longest path of the graph. *)
Rank == [s \in RunState |->
           CASE s = "CREATED"    -> 0
             [] s = "PREFLIGHT"  -> 1
             [] s = "WARMUP"     -> 2
             [] s = "MEASURING"  -> 3
             [] s = "FINALIZING" -> 4
             [] OTHER            -> 5]

=============================================================================
