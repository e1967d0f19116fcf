----------------------- MODULE RunOrchestrator_proof -----------------------
(* Proofs about RunOrchestrator. *)
EXTENDS RunOrchestrator, TLAPS

-----------------------------------------------------------------------------
(* The inductive invariant. *)

(* Which state the workspace shows while a step is about to run. *)
StateFollowsStep ==
  /\ pc = "reserve" => state = Absent
  /\ pc \notin {"reserve", "raised", "crashed"} => state \in RunState
  /\ state = "COMPLETE" => pc \in {"mark", "raised", "returned", "crashed"}
  /\ state = "FAILED" => pc \in {"raised", "crashed"}
  /\ pc = "returned" => state = "COMPLETE" /\ journal = "whole"

(* The steps that only a run with an accepted measurement reaches. *)
Accepted == {"finalize", "seal", "verify", "freeze", "publish", "confirm",
             "commit", "returned"}

MeasurementAccepted ==
  /\ pc \in Accepted \/ state = "COMPLETE" => capture = "clean"
  /\ pc \in Accepted \cup {"judge"} \/ state = "COMPLETE" =>
       server = IF mode = "managed" THEN "cancelled" ELSE "absent"

BundleFollowsStep ==
  /\ pc \in {"verify", "freeze"} => bundle = "staging"
  /\ pc = "publish" => bundle = "frozen"
  /\ pc \in {"confirm", "commit", "returned"} \/ state = "COMPLETE" =>
       bundle = "final"
  /\ pc \in {"commit", "returned"} \/ state = "COMPLETE" => content = "good"

(* Where a server can run, and who could still stop it. *)
ServerAccounted ==
  /\ server # "absent" => mode = "managed"
  /\ pc \in {"reserve", "preflight", "launch"} =>
       server = "absent" /\ managed = "none"
  /\ pc = "keep" => managed = "none"
  /\ managed = "none" /\ server = "running" => pc \in {"keep", "crashed"}
  /\ managed = "held" /\ server = "running" =>
       pc \in Guarded \cup {"stop", "rescue", "crashed"}
  /\ managed = "lost" => pc \in {"mark", "raised", "crashed"}

CancelledByToken == capture = "cancelled" => token = "requested"

Marked ==
  pc = "raised" /\ hindered = "no" =>
    state \in TerminalStates \cup {Absent} \/ journal = "cut"

IInv == /\ TypeOK
        /\ StateFollowsStep
        /\ MeasurementAccepted
        /\ BundleFollowsStep
        /\ ServerAccounted
        /\ CancelledByToken
        /\ CancelledIsInterrupted
        /\ Marked

-----------------------------------------------------------------------------
LEMMA ForwardStates ==
  /\ \A s \in RunState : AllowedTransitions[s] \subseteq RunState
  /\ \A s \in TerminalStates : AllowedTransitions[s] = {}
  /\ \A s \in RunState \ TerminalStates :
       "FAILED" \in AllowedTransitions[s] /\ "INTERRUPTED" \in AllowedTransitions[s]
  BY DEF RunState, TerminalStates, AllowedTransitions, Forward

LEMMA InitEstablishes == Init => IInv
  BY DEF Init, IInv, TypeOK, StateFollowsStep, MeasurementAccepted, Accepted,
         BundleFollowsStep, ServerAccounted, CancelledByToken,
         CancelledIsInterrupted, Marked, Steps, Working, Guarded, Ended, Modes,
         RunState, TerminalStates, Absent

LEMMA StepPreserves == IInv /\ [Next]_vars => IInv'
<1> SUFFICES ASSUME IInv, [Next]_vars PROVE IInv'
  OBVIOUS
<1> USE DEF IInv, TypeOK, StateFollowsStep, MeasurementAccepted, Accepted,
            BundleFollowsStep, ServerAccounted, CancelledByToken,
            CancelledIsInterrupted, Marked, Steps, Working, Guarded, Ended,
            Modes, RunState, TerminalStates, Absent, Enter, Checked, Throw,
            workspace, servers, sealed
<1>1. CASE Cancel
  BY <1>1 DEF Cancel
<1>2. CASE Reserve
  BY <1>2 DEF Reserve
<1>3. CASE ToPreflight
  BY <1>3 DEF ToPreflight, Transition
<1>4. CASE Launch
  BY <1>4 DEF Launch
<1>5. CASE LaunchFails
  BY <1>5 DEF LaunchFails
<1>6. CASE Keep
  BY <1>6 DEF Keep
<1>7. CASE WaitReady
  BY <1>7 DEF WaitReady
<1>8. CASE Invoke
  BY <1>8 DEF Invoke
<1>9. CASE ToWarmup
  BY <1>9 DEF ToWarmup, Transition
<1>10. CASE ToMeasuring
  BY <1>10 DEF ToMeasuring, Transition
<1>11. CASE Measure
  BY <1>11 DEF Measure
<1>12. CASE RequestStop
  BY <1>12 DEF RequestStop
<1>13. CASE Stopped
  BY <1>13 DEF Stopped
<1>14. CASE Drain
  BY <1>14 DEF Drain
<1>15. CASE Judge
  BY <1>15 DEF Judge
<1>16. CASE ToFinalizing
  BY <1>16 DEF ToFinalizing, Transition
<1>17. CASE Stage
  BY <1>17 DEF Stage
<1>18. CASE VerifyStaging
  BY <1>18 DEF VerifyStaging
<1>19. CASE Freeze
  BY <1>19 DEF Freeze
<1>20. CASE Publish
  BY <1>20 DEF Publish
<1>21. CASE Confirm
  BY <1>21 DEF Confirm
<1>22. CASE Commit
  BY <1>22 DEF Commit, Transition
<1>23. CASE Break
  BY <1>23 DEF Break
<1>24. CASE Interrupt
  <2>1. CASE pc = "mark"
    BY <1>24, <2>1 DEF Interrupt
  <2>2. CASE pc \in {"keep", "stop", "rescue"}
    <3>1. pc' = "mark" /\ cause' = "interrupt" /\ managed' = "lost"
      BY <1>24, <2>2 DEF Interrupt
    <3>2. UNCHANGED <<mode, workspace, token, server, capture, sealed, hindered>>
      BY <1>24, <2>2 DEF Interrupt
    <3> QED
      BY <2>2, <3>1, <3>2
  <2>3. CASE pc \in (Working \ {"keep"}) \cup {"drain"}
    BY <1>24, <2>3 DEF Interrupt
  <2> QED
    BY <1>24, <2>1, <2>2, <2>3 DEF Interrupt
<1>25. CASE Mark
  BY <1>25 DEF Mark, TerminalState
<1>26. CASE RequestCancellation
  BY <1>26 DEF RequestCancellation
<1>27. CASE ServerEnds
  BY <1>27 DEF ServerEnds
<1>28. CASE Corrupt
  BY <1>28 DEF Corrupt
<1>29. CASE Crash
  BY <1>29 DEF Crash
<1>30. CASE UNCHANGED vars
  BY <1>30 DEF vars
<1> QED
  BY <1>1, <1>2, <1>3, <1>4, <1>5, <1>6, <1>7, <1>8, <1>9, <1>10, <1>11, <1>12, <1>13, <1>14, <1>15, <1>16, <1>17, <1>18, <1>19, <1>20, <1>21, <1>22, <1>23, <1>24, <1>25, <1>26, <1>27, <1>28, <1>29, <1>30
     DEF Next, Run, Measuring, Stopping, Sealing, Failing

(* Every variable keeps its type: no step leaves the run in a state, or the *)
(* server in a condition, that the code has no name for.                   *)
THEOREM TypeCorrect == Spec => []TypeOK
<1>1. IInv => TypeOK
  BY DEF IInv
<1> QED
  BY InitEstablishes, StepPreserves, <1>1, PTL DEF Spec

(* COMPLETE stands for a verified, published bundle of an accepted          *)
(* measurement, in every mode and after every failure or crash.            *)
THEOREM CompletionIsVerified == Spec => []CompleteIsVerified
<1>1. IInv => CompleteIsVerified
  BY DEF IInv, MeasurementAccepted, BundleFollowsStep, CompleteIsVerified
<1> QED
  BY InitEstablishes, StepPreserves, <1>1, PTL DEF Spec

(* No run that ended short of a crash leaves its server running, unless an *)
(* interrupt hit before the stop request could be made.                    *)
THEOREM ServersAreStopped == Spec => []ServerIsStopped
<1>1. IInv => ServerIsStopped
  BY DEF IInv, TypeOK, MeasurementAccepted, Accepted, ServerAccounted, Guarded,
         ServerIsStopped
<1> QED
  BY InitEstablishes, StepPreserves, <1>1, PTL DEF Spec

(* A benchmark that a cancellation stopped never counts as failed or done. *)
THEOREM CancellationsAreInterruptions == Spec => []CancelledIsInterrupted
<1>1. IInv => CancelledIsInterrupted
  BY DEF IInv
<1> QED
  BY InitEstablishes, StepPreserves, <1>1, PTL DEF Spec

(* A run that ended is in the state that tells how it ended, unless its    *)
(* workspace could not be written.                                         *)
THEOREM EndsAreMarked == Spec => []EndIsMarked
<1>1. IInv => EndIsMarked
  BY DEF IInv, StateFollowsStep, Marked, EndIsMarked
<1> QED
  BY InitEstablishes, StepPreserves, <1>1, PTL DEF Spec

-----------------------------------------------------------------------------
(* The run's state is a register that follows the frozen graph. *)
THEOREM OrchestratorImplementsRegister == Spec => ImplementsRegister
<1>0. /\ Register!Absent = Absent
      /\ Register!RunState = RunState
      /\ Register!AllowedTransitions = AllowedTransitions
  BY DEF Register!Absent, Absent, Register!RunState, RunState,
         Register!AllowedTransitions, AllowedTransitions,
         Register!TerminalStates, TerminalStates, Register!Forward, Forward
<1>1. Init => Register!Init
  BY <1>0 DEF Init, Register!Init
<1>2. IInv /\ [Next]_vars => [Register!Next]_state
  <2> SUFFICES ASSUME IInv, [Next]_vars PROVE [Register!Next]_state
    OBVIOUS
  <2> USE DEF IInv, StateFollowsStep, Register!Next, Register!Reserve,
              Register!Advance, Enter, workspace
  <2>1. CASE Reserve
    BY <1>0, <2>1 DEF Reserve
  <2>2. ASSUME NEW step \in {"preflight", "warmup", "measuring", "finalize",
                             "commit"},
               NEW target, NEW next, Transition(step, target, next)
        PROVE  [Register!Next]_state
    <3>1. state \in RunState
      BY <2>2 DEF Transition
    <3>2. \/ UNCHANGED state
          \/ state' = target /\ target \in AllowedTransitions[state]
      BY <2>2 DEF Transition, ValidTransition
    <3> QED
      BY <1>0, <3>1, <3>2
  <2>3. CASE Mark
    <3>1. \/ UNCHANGED state
          \/ state' = TerminalState /\ state \in RunState \ TerminalStates
      BY <2>3 DEF Mark
    <3>2. TerminalState \in {"FAILED", "INTERRUPTED"}
      BY DEF TerminalState
    <3> QED
      BY <1>0, <3>1, <3>2, ForwardStates
  <2>4. CASE ToPreflight \/ ToWarmup \/ ToMeasuring \/ ToFinalizing \/ Commit
    BY <2>2, <2>4 DEF ToPreflight, ToWarmup, ToMeasuring, ToFinalizing, Commit
  <2>5. CASE UNCHANGED state
    BY <2>5
  <2>6. ASSUME Next, ~ Reserve, ~ Mark,
               ~ (ToPreflight \/ ToWarmup \/ ToMeasuring \/ ToFinalizing \/ Commit)
        PROVE  UNCHANGED state
    BY <2>6 DEF Next, Run, Measuring, Stopping, Sealing, Failing, Cancel,
                Launch, LaunchFails, Keep, WaitReady, Invoke, Measure,
                RequestStop, Stopped, Drain, Judge, Stage, VerifyStaging,
                Freeze, Publish, Confirm, Break, Interrupt,
                RequestCancellation, ServerEnds, Corrupt, Crash
  <2> QED
    BY <2>1, <2>3, <2>4, <2>5, <2>6 DEF vars
<1> QED
  BY InitEstablishes, StepPreserves, <1>1, <1>2, PTL
     DEF Spec, ImplementsRegister, Register!Spec
=============================================================================
