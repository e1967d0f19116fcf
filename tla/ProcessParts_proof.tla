-------------------------- MODULE ProcessParts_proof --------------------------
(***************************************************************************)
(* The parts of one process that share no state: the supervisor of a child *)
(* with any number of descendants, and the coordinator of a deployment     *)
(* whatever its adapters can see.                                          *)
(***************************************************************************)
EXTENDS ProcessSupervisor, LifecycleCoordinator, CancellationToken, TLAPS, SequenceTheorems,
        WellFoundedInduction

-----------------------------------------------------------------------------
(* The supervisor of a child process.                                      *)

Looping == {"start", "observe", "poll", "overflow", "notice", "clock"}
Stopping == {"term", "grace", "force"}
Collecting == {"join", "sweep", "rejoin", "judge", "done"}

(* Before the loop decides to stop the child nothing was reported or sent, *)
(* and once it has decided the child no longer counts as exited.           *)
Phases ==
  /\ childPc \in Looping => termination = "EXITED"
  /\ childPc \in Stopping => termination \in {"OUTPUT_LIMIT", "CANCELLED", "DEADLINE", "REFUSED"}
  /\ termination = "EXITED" => "termed" \notin latched /\ killed = {}
  /\ childPc = "done" /\ termination = "EXITED" => "overflow" \notin latched

(* A process that was not spawned is nowhere; the leader stays in its      *)
(* group.                                                                  *)
Births ==
  /\ unborn \cap (alive \cup group \cup holding) = {}
  /\ childPc = "start" => alive = {}
  /\ childPc # "start" /\ Leader \in alive => Leader \in group

(* After the drains ended nobody can write, unless a drain failed.         *)
Drained ==
  /\ childPc \in {"start", "observe"} => latched \cap {"drains", "eof"} = {}
  /\ childPc \in {"judge", "done"} => "eof" \in latched
  /\ childPc = "done" => "error" \notin latched
  /\ "error" \in latched => "eof" \in latched
  /\ "eof" \in latched /\ "error" \notin latched =>
       /\ alive \cap holding = {}
       /\ "excess" \in latched => "overflow" \in latched

(* What the supervisor reports about the token is what it found there.     *)
TrueReasons ==
  /\ termination = "CANCELLED" => childNotice = "CANCELLED"
  /\ termination = "DEADLINE" => childNotice # "none"

(* Collection starts when the leader is gone, and giving up needs a kill.  *)
LeaderEnds ==
  /\ childPc \in Collecting => Leader \notin alive
  /\ childPc \in {"force", "failed"} => Leader \notin alive \/ Leader \in killed

(* OrphansAreKilled, with the steps at which the report can stand.         *)
Orphans ==
  termination = "ORPHANED_DESCENDANTS" =>
    /\ childPc \in {"rejoin", "judge", "done", "failed", "interrupted"}
    /\ "termed" \notin latched /\ Leader \notin alive
    /\ killed # {} /\ group \cap alive \subseteq killed

ChildIInv == ChildTypeOK /\ Phases /\ Births /\ Drained /\ TrueReasons /\ LeaderEnds /\ Orphans

-----------------------------------------------------------------------------
LEMMA ChildInitEstablishes == ChildInit => ChildIInv
  BY LeaderAssumption
     DEF ChildInit, ChildIInv, ChildTypeOK, Member, Phases, Births, Drained, TrueReasons,
         LeaderEnds, Orphans, Looping, Stopping, Collecting, ChildSteps, Terminations, Latches

LEMMA ChildStepPreserves == ChildIInv /\ [ChildNext]_childVars => ChildIInv'
<1> SUFFICES ASSUME ChildIInv, [ChildNext]_childVars PROVE ChildIInv'
  OBVIOUS
<1> USE LeaderAssumption
    DEF Looping, Stopping, Collecting, ChildSteps, Terminations, Latches, ChildIInv,
        ChildTypeOK, Member, Phases, Births, Drained, TrueReasons, LeaderEnds, Orphans,
        ChildGoto, children
<1>1. CASE Refuse
  BY <1>1 DEF Refuse
<1>2. CASE StartChild
  <2>1. ChildTypeOK' /\ Births'
    BY <1>2 DEF StartChild
  <2>2. Phases' /\ TrueReasons' /\ LeaderEnds' /\ Orphans'
    BY <1>2 DEF StartChild
  <2>3. Drained'
    BY <1>2 DEF StartChild
  <2> QED BY <2>1, <2>2, <2>3
<1>3. CASE Observe
  BY <1>3 DEF Observe
<1>4. CASE Poll
  BY <1>4 DEF Poll
<1>5. CASE CheckOverflow
  BY <1>5 DEF CheckOverflow, StopChild
<1>6. CASE CheckNotice
  BY <1>6 DEF CheckNotice, StopChild
<1>7. CASE CheckClock
  BY <1>7 DEF CheckClock, StopChild
<1>8. CASE Terminate
  <2>1. ChildTypeOK' /\ Births' /\ TrueReasons' /\ LeaderEnds'
    BY <1>8 DEF Terminate, ChildStopped
  <2>2. Phases' /\ Orphans'
    BY <1>8 DEF Terminate, ChildStopped
  <2>3. Drained'
    BY <1>8 DEF Terminate, ChildStopped
  <2> QED BY <2>1, <2>2, <2>3
<1>9. CASE Reaped
  BY <1>9 DEF Reaped, ChildStopped
<1>10. CASE GraceExpires
  BY <1>10 DEF GraceExpires, KillGroup
<1>11. CASE ForceExpires
  BY <1>11 DEF ForceExpires
<1>12. CASE Joined
  BY <1>12 DEF Joined
<1>13. CASE JoinExpires
  BY <1>13 DEF JoinExpires
<1>14. CASE Sweep
  BY <1>14 DEF Sweep, KillGroup
<1>15. CASE RejoinExpires
  BY <1>15 DEF RejoinExpires
<1>16. CASE JudgeChild
  BY <1>16 DEF JudgeChild
<1>17. CASE NoticeExcess
  BY <1>17 DEF NoticeExcess, Draining
<1>18. CASE ReachEof
  BY <1>18 DEF ReachEof, Draining
<1>19. CASE DrainFails
  BY <1>19 DEF DrainFails, Draining
<1>20. ASSUME NEW m \in Member, Spawn(m) PROVE ChildIInv'
  BY <1>20 DEF Spawn
<1>21. ASSUME NEW m \in Member, ClosePipes(m) PROVE ChildIInv'
  BY <1>21 DEF ClosePipes
<1>22. ASSUME NEW m \in Member, LeaveGroup(m) PROVE ChildIInv'
  BY <1>22 DEF LeaveGroup
<1>23. ASSUME NEW m \in Member, Exit(m) PROVE ChildIInv'
  BY <1>23 DEF Exit
<1>24. CASE Write
  BY <1>24 DEF Write
<1>25. CASE Expire
  BY <1>25 DEF Expire
<1>26. ASSUME NEW reason \in {"CANCELLED", "DEADLINE"}, CancelChild(reason) PROVE ChildIInv'
  BY <1>26 DEF CancelChild
<1>27. CASE UNCHANGED childVars
  BY <1>27 DEF childVars
<1>28. CASE InterruptChild
  BY <1>28 DEF InterruptChild
<1> QED
  BY <1>1, <1>2, <1>3, <1>4, <1>5, <1>6, <1>7, <1>8, <1>9, <1>10, <1>11, <1>12, <1>13,
     <1>14, <1>15, <1>16, <1>17, <1>18, <1>19, <1>20, <1>21, <1>22, <1>23, <1>24, <1>25,
     <1>26, <1>27, <1>28
     DEF ChildNext, Supervise, Environment

LEMMA ChildInvariance == ChildSpec => []ChildIInv
<1>1. ChildInit => ChildIInv
  BY ChildInitEstablishes
<1>2. ChildIInv /\ [ChildNext]_childVars => ChildIInv'
  BY ChildStepPreserves
<1> QED BY <1>1, <1>2, PTL DEF ChildSpec

(* Every variable of the supervisor keeps its type. *)
THEOREM ChildTypeCorrect == ChildSpec => []ChildTypeOK
<1>1. ChildIInv => ChildTypeOK
  BY DEF ChildIInv
<1> QED BY <1>1, ChildInvariance, PTL

(* A run reported EXITED ended by itself with its whole output captured.   *)
THEOREM ExitedStaysClean == ChildSpec => []ExitedIsClean
<1>1. ChildIInv => ExitedIsClean
  BY DEF ChildIInv, Phases, Drained, LeaderEnds, ExitedIsClean, Collecting
<1> QED BY <1>1, ChildInvariance, PTL

(* A stop reported as cancellation or deadline is visible in the token.    *)
THEOREM StopsHaveNotice == ChildSpec => []StopHasNotice
<1>1. ChildIInv => StopHasNotice
  BY DEF ChildIInv, TrueReasons, StopHasNotice
<1> QED BY <1>1, ChildInvariance, PTL

(* A call that returns or fails by itself leaves its child running only if *)
(* SIGKILL itself failed; a call that an interrupt ends is not one.        *)
THEOREM ChildrenAreNotAbandoned == ChildSpec => []NoAbandonedChild
<1>1. ChildIInv => NoAbandonedChild
  BY DEF ChildIInv, Drained, LeaderEnds, NoAbandonedChild, Returned, Collecting
<1> QED BY <1>1, ChildInvariance, PTL

(* Orphans are reported only for a leader that exited, and are killed.     *)
THEOREM OrphansStayKilled == ChildSpec => []OrphansAreKilled
<1>1. ChildIInv => OrphansAreKilled
  BY DEF ChildIInv, Orphans, OrphansAreKilled
<1> QED BY <1>1, ChildInvariance, PTL

(* Whatever is reported is true of the child, its group and the token.     *)
THEOREM TerminationsAreTrue == ChildSpec => []TerminationIsTrue
BY ExitedStaysClean, StopsHaveNotice, OrphansStayKilled, PTL DEF TerminationIsTrue

-----------------------------------------------------------------------------
(* The coordinator of a deployment.                                        *)

(* Past its stop, a runtime that can be seen is gone or unconfirmed. *)
RuntimeAccounted ==
  deployPc \in {"PROVIDER_CLEANUP", "PROVIDER_FINAL_CONFIRMATION", "conclude", "done"}
    /\ "runtime" \in live /\ Seen("runtime")
  => "RUNTIME_STOP" \in unconfirmed

(* Past the final confirmation, so is the provider's resource. *)
ProviderAccounted ==
  deployPc \in {"conclude", "done"} /\ "provider" \in live /\ Seen("provider")
  => "PROVIDER_FINAL_CONFIRMATION" \in unconfirmed

(* A cleanup phase that failed left an error code. *)
FailureHasCode == unconfirmed # {} => cleanup # "none"

(* A handle is about to be kept only after the attempt was recorded. *)
KeepsAttempted ==
  /\ deployPc = "keep_provider" => "provider" \in attempted
  /\ deployPc = "keep_runtime" => "runtime" \in attempted

DeployIInv == /\ DeployTypeOK
        /\ RuntimeAccounted
        /\ ProviderAccounted
        /\ FailureHasCode
        /\ KeepsAttempted

-----------------------------------------------------------------------------
(* The codes that the operations produce. *)

LEMMA CodesAreTyped ==
  ASSUME NEW phase \in LifecyclePhase
  PROVE  /\ \A cause \in Causes :
              /\ ErrorCode(phase, cause) \in LifecycleErrorCode
              /\ ErrorCode(phase, cause) # "none"
         /\ CleanupCodes(phase) \subseteq LifecycleErrorCode
         /\ "none" \notin CleanupCodes(phase)
<1>1. PhaseDefaultErrors[phase] \in LifecycleErrorCode \ {"none"}
  BY DEF LifecyclePhase, ForwardPhases, CleanupPhases, PhaseDefaultErrors,
         LifecycleErrorCode, Causes
<1>2. ASSUME NEW cause \in Causes
      PROVE  ErrorCode(phase, cause) \in LifecycleErrorCode \ {"none"}
  BY <1>1 DEF ErrorCode, LifecycleErrorCode, Causes
<1>3. "CLEANUP_UNCONFIRMED" \in LifecycleErrorCode \ {"none"}
  BY DEF LifecycleErrorCode
<1> QED
  BY <1>2, <1>3, Zenon DEF CleanupCodes

LEMMA RecordKeepsType ==
  ASSUME trace \in Seq(PhaseEvent), NEW phase \in LifecyclePhase,
         NEW code \in LifecycleErrorCode \cup {"none"}, RecordPhase(phase, code)
  PROVE  trace' \in Seq(PhaseEvent)
<1>1. [phase |-> phase, code |-> code] \in PhaseEvent
  BY DEF PhaseEvent
<1> QED
  BY <1>1 DEF RecordPhase

-----------------------------------------------------------------------------
LEMMA DeployInitEstablishes == DeployInit => DeployIInv
  BY DEF DeployInit, DeployIInv, DeployTypeOK, RuntimeAccounted, ProviderAccounted,
         FailureHasCode, KeepsAttempted, DeploySteps, LifecyclePhase, ForwardPhases, CleanupPhases,
         Resource, Seen

LEMMA DeployStepPreserves == DeployIInv /\ [DeployNext]_deployVars => DeployIInv'
<1> USE DEF DeploySteps, LifecyclePhase, ForwardPhases, CleanupPhases, Resource
<1> SUFFICES ASSUME DeployIInv, [DeployNext]_deployVars PROVE DeployIInv'
  OBVIOUS
<1>types. DeployTypeOK
  BY DEF DeployIInv
<1>k. {"CANCELLED", "INTERRUPTED", "RUNTIME_START_FAILED",
       "CLEANUP_UNCONFIRMED"} \subseteq LifecycleErrorCode
  BY DEF LifecycleErrorCode, Causes
<1>r. \A phase \in LifecyclePhase, code \in LifecycleErrorCode \cup {"none"} :
        RecordPhase(phase, code) => trace' \in Seq(PhaseEvent)
  BY RecordKeepsType, <1>types DEF DeployTypeOK
<1>a. ASSUME NEW phase \in ForwardPhases, NEW code \in LifecycleErrorCode,
             FailPhase(phase, code)
      PROVE  /\ trace' \in Seq(PhaseEvent)
             /\ primary' \in LifecycleErrorCode
             /\ deployPc' = "RUNTIME_STOP"
  BY <1>a, <1>k, <1>r DEF FailPhase
<1>f. ASSUME NEW phase \in ForwardPhases, FailsSomehow(phase)
      PROVE  /\ trace' \in Seq(PhaseEvent)
             /\ primary' \in LifecycleErrorCode
             /\ deployPc' = "RUNTIME_STOP"
  <2>1. PICK cause \in Causes : FailPhase(phase, ErrorCode(phase, cause))
    BY <1>f DEF FailsSomehow
  <2>2. ErrorCode(phase, cause) \in LifecycleErrorCode
    BY CodesAreTyped
  <2> QED BY <1>a, <2>1, <2>2
<1>n. "none" \notin LifecycleErrorCode
  BY DEF LifecycleErrorCode, Causes
<1>i. ASSUME NEW phase \in CleanupPhases, NEW next \in DeploySteps, NEW codes,
             codes \subseteq LifecycleErrorCode \cup {"none"},
             InterruptPhase(phase, codes, next)
      PROVE  /\ trace' \in Seq(PhaseEvent)
             /\ cleanup' \in LifecycleErrorCode
             /\ cleanup' # "none"
             /\ deployPc' = next
             /\ unconfirmed' = unconfirmed \cup {phase}
  <2>1. trace' \in Seq(PhaseEvent)
    BY <1>i, <1>r, <1>types DEF InterruptPhase, DeployTypeOK
  <2> QED BY <1>i, <1>k, <1>n, <1>types, <2>1 DEF InterruptPhase, DeployTypeOK
<1>u. ASSUME NEW phase \in CleanupPhases, NEW next \in DeploySteps, Fails(phase, next)
      PROVE  /\ trace' \in Seq(PhaseEvent)
             /\ cleanup' \in LifecycleErrorCode
             /\ cleanup' # "none"
             /\ deployPc' = next
             /\ unconfirmed' = unconfirmed \cup {phase}
  <2>0. CleanupCodes(phase) \subseteq LifecycleErrorCode
    BY CodesAreTyped
  <2>1. CASE Unconfirm(phase, next)
    <3>1. PICK code \in CleanupCodes(phase) :
            /\ RecordPhase(phase, code)
            /\ cleanup' = IF cleanup = "none" THEN code ELSE cleanup
      BY <2>1 DEF Unconfirm
    <3>2. code \in LifecycleErrorCode /\ code # "none"
      BY CodesAreTyped
    <3>3. trace' \in Seq(PhaseEvent)
      BY <1>r, <3>1, <3>2
    <3> QED BY <2>1, <3>1, <3>2, <3>3, <1>types DEF Unconfirm, DeployTypeOK
  <2>2. CASE InterruptPhase(phase, CleanupCodes(phase), next)
    BY <1>i, <2>0, <2>2
  <2> QED BY <1>u, <2>1, <2>2 DEF Fails
<1>c. ASSUME NEW phase \in CleanupPhases, NEW next \in DeploySteps, Confirms(phase, next)
      PROVE  /\ trace' \in Seq(PhaseEvent)
             /\ deployPc' = next
             /\ \/ UNCHANGED <<cleanup, unconfirmed>>
                \/ /\ cleanup' \in LifecycleErrorCode
                   /\ cleanup' # "none"
                   /\ unconfirmed' = unconfirmed \cup {phase}
  <2>1. CASE ConfirmPhase(phase, next)
    BY <1>r, <2>1 DEF ConfirmPhase
  <2>2. CASE InterruptPhase(phase, {"none"}, next)
    BY <1>i, <2>2
  <2> QED BY <1>c, <2>1, <2>2 DEF Confirms
<1> USE DEF DeployIInv, DeployTypeOK, RuntimeAccounted, ProviderAccounted, FailureHasCode,
            KeepsAttempted, Seen
<1>1. CASE PhaseCancelled
  <2>1. FailPhase(deployPc, "CANCELLED") /\ deployPc \in ForwardPhases
    BY <1>1 DEF PhaseCancelled
  <2> QED
    BY <1>1, <1>a, <1>k, <2>1 DEF PhaseCancelled
<1>2. CASE Validate
  BY <1>2, <1>f, <1>r DEF Validate, EnterPhase, Succeed
<1>3. CASE Acquire
  BY <1>3, <1>f DEF Acquire, Create, EnterPhase
<1>4. CASE KeepProvider
  BY <1>4, <1>r DEF KeepProvider, Succeed
<1>5. CASE StartRuntime
  BY <1>5, <1>f DEF StartRuntime, Create, EnterPhase
<1>6. CASE KeepRuntime
  BY <1>6, <1>r, <1>a, <1>k DEF KeepRuntime, Succeed
<1>7. CASE WaitRuntimeReady
  BY <1>7, <1>f, <1>r DEF WaitRuntimeReady, EnterPhase, Succeed
<1>8. CASE RunBenchmark
  BY <1>8, <1>f, <1>r DEF RunBenchmark, EnterPhase, Succeed
<1>9. CASE StopRuntime
  <2>0. deployPc = "RUNTIME_STOP" /\ UNCHANGED <<attempted, held, deployToken, primary>>
    BY <1>9 DEF StopRuntime
  <2>1. CASE "runtime" \notin attempted
    BY <1>9, <2>1 DEF StopRuntime, Skip
  <2>2. CASE /\ live' = IF Seen("runtime") THEN live \ {"runtime"} ELSE live
             /\ Confirms("RUNTIME_STOP", "PROVIDER_CLEANUP")
    <3>1. /\ trace' \in Seq(PhaseEvent)
          /\ deployPc' = "PROVIDER_CLEANUP"
          /\ \/ UNCHANGED <<cleanup, unconfirmed>>
             \/ /\ cleanup' \in LifecycleErrorCode
                /\ cleanup' # "none"
                /\ unconfirmed' = unconfirmed \cup {"RUNTIME_STOP"}
      BY <1>c, <2>2
    <3> QED BY <2>0, <2>2, <3>1
  <2>3. CASE /\ live' \in {live, live \ {"runtime"}}
             /\ Fails("RUNTIME_STOP", "PROVIDER_CLEANUP")
    <3>1. /\ trace' \in Seq(PhaseEvent)
          /\ cleanup' \in LifecycleErrorCode
          /\ cleanup' # "none"
          /\ deployPc' = "PROVIDER_CLEANUP"
          /\ unconfirmed' = unconfirmed \cup {"RUNTIME_STOP"}
      BY <1>u, <2>3
    <3> QED BY <2>0, <2>3, <3>1
  <2> QED
    BY <1>9, <2>1, <2>2, <2>3 DEF StopRuntime
<1>10. CASE Cleanup
  <2>0. deployPc = "PROVIDER_CLEANUP" /\ UNCHANGED <<attempted, held, deployToken, primary>>
    BY <1>10 DEF Cleanup
  <2>1. CASE "provider" \notin attempted
    BY <1>10, <2>1 DEF Cleanup, Skip
  <2>2. CASE /\ live' \in {live, live \ {"provider"}}
             /\ Confirms("PROVIDER_CLEANUP", "PROVIDER_FINAL_CONFIRMATION")
    <3>1. /\ trace' \in Seq(PhaseEvent)
          /\ deployPc' = "PROVIDER_FINAL_CONFIRMATION"
          /\ \/ UNCHANGED <<cleanup, unconfirmed>>
             \/ /\ cleanup' \in LifecycleErrorCode
                /\ cleanup' # "none"
                /\ unconfirmed' = unconfirmed \cup {"PROVIDER_CLEANUP"}
      BY <1>c, <2>2
    <3> QED BY <2>0, <2>2, <3>1
  <2>3. CASE /\ live' \in {live, live \ {"provider"}}
             /\ Fails("PROVIDER_CLEANUP", "PROVIDER_FINAL_CONFIRMATION")
    <3>1. /\ trace' \in Seq(PhaseEvent)
          /\ cleanup' \in LifecycleErrorCode
          /\ cleanup' # "none"
          /\ deployPc' = "PROVIDER_FINAL_CONFIRMATION"
          /\ unconfirmed' = unconfirmed \cup {"PROVIDER_CLEANUP"}
      BY <1>u, <2>3
    <3> QED BY <2>0, <2>3, <3>1
  <2> QED
    BY <1>10, <2>1, <2>2, <2>3 DEF Cleanup
<1>11. CASE FinalConfirmation
  <2>0. /\ deployPc = "PROVIDER_FINAL_CONFIRMATION"
        /\ UNCHANGED <<attempted, held, live, deployToken, primary>>
    BY <1>11 DEF FinalConfirmation
  <2>1. CASE Confirms("PROVIDER_FINAL_CONFIRMATION", "conclude")
             /\ (Seen("provider") => "provider" \notin live)
    <3>1. /\ trace' \in Seq(PhaseEvent)
          /\ deployPc' = "conclude"
          /\ \/ UNCHANGED <<cleanup, unconfirmed>>
             \/ /\ cleanup' \in LifecycleErrorCode
                /\ cleanup' # "none"
                /\ unconfirmed' = unconfirmed \cup {"PROVIDER_FINAL_CONFIRMATION"}
      BY <1>c, <2>1
    <3> QED BY <2>0, <2>1, <3>1
  <2>2. CASE Fails("PROVIDER_FINAL_CONFIRMATION", "conclude")
    <3>1. /\ trace' \in Seq(PhaseEvent)
          /\ cleanup' \in LifecycleErrorCode
          /\ cleanup' # "none"
          /\ deployPc' = "conclude"
          /\ unconfirmed' = unconfirmed \cup {"PROVIDER_FINAL_CONFIRMATION"}
      BY <1>u, <2>2
    <3> QED BY <2>0, <2>2, <3>1
  <2> QED
    BY <1>11, <2>1, <2>2 DEF FinalConfirmation
<1>12. CASE Conclude
  BY <1>12, <1>k DEF Conclude
<1>13. CASE InterruptBetween
  <2>1. trace' \in Seq(PhaseEvent)
    BY <1>13, <1>k, <1>r DEF InterruptBetween
  <2> QED BY <1>13, <1>k, <2>1 DEF InterruptBetween
<1>14. CASE InterruptKeeping
  <2>1. trace' \in Seq(PhaseEvent)
    BY <1>14, <1>k, <1>r DEF InterruptKeeping
  <2> QED BY <1>14, <1>k, <2>1 DEF InterruptKeeping
<1>19. CASE InterruptHandler
  BY <1>19 DEF InterruptHandler
<1>15. CASE InterruptCleanup
  BY <1>15 DEF InterruptCleanup
<1>16. CASE CancelDeployment
  BY <1>16 DEF CancelDeployment
<1>17. CASE Vanish
  BY <1>17 DEF Vanish
<1>18. CASE UNCHANGED deployVars
  BY <1>18 DEF deployVars
<1> QED
  BY <1>1, <1>2, <1>3, <1>4, <1>5, <1>6, <1>7, <1>8, <1>9, <1>10, <1>11,
     <1>12, <1>13, <1>14, <1>15, <1>16, <1>17, <1>18, <1>19 DEF DeployNext

(* The variables of a lifecycle keep their types; in particular a handle   *)
(* is kept, and a resource exists, only where an attempt was recorded.     *)
THEOREM DeployTypeCorrect == DeploySpec => []DeployTypeOK
<1>1. DeployIInv => DeployTypeOK
  BY DEF DeployIInv
<1> QED
  BY DeployInitEstablishes, DeployStepPreserves, <1>1, PTL DEF DeploySpec

(* No outcome hides a resource that its adapters could see: it is reported *)
(* as orphaned and the lifecycle as failed.                                *)
THEOREM LiveResourcesAreReported == DeploySpec => []LiveIsReported
<1>1. DeployIInv => LiveIsReported
  BY DEF DeployIInv, DeployTypeOK, RuntimeAccounted, ProviderAccounted, FailureHasCode,
         LiveIsReported, Orphaned, OutcomeStatus, Resource
<1> QED
  BY DeployInitEstablishes, DeployStepPreserves, <1>1, PTL DEF DeploySpec

-----------------------------------------------------------------------------
(* What the trace of a deployment shows. *)

Ahead == ForwardPhases \cup {"keep_provider", "keep_runtime"}

(* Nothing is started before its provider was asked for.                   *)
StartsOnProvider == "runtime" \in attempted => "provider" \in attempted

(* The rank of the cleanup phase that comes next.                          *)
Reached ==
  CASE deployPc \in Ahead \cup {"RUNTIME_STOP"} -> 1
    [] deployPc = "PROVIDER_CLEANUP" -> 2
    [] deployPc = "PROVIDER_FINAL_CONFIRMATION" -> 3
    [] OTHER -> 4

(* The events come in the order of their ranks, and none is ahead of time. *)
RecordedInOrder ==
  /\ \A i, j \in DOMAIN trace :
       i < j /\ trace[j].phase \in CleanupPhases =>
         CleanupRank(trace[i].phase) < CleanupRank(trace[j].phase)
  /\ \A i \in DOMAIN trace : CleanupRank(trace[i].phase) < Reached

(* What is owed and left behind is a success or counts as unconfirmed.     *)
Shown(phase) == \E i \in DOMAIN trace : trace[i].phase = phase /\ ~Failed(trace[i])
OwedIsShown ==
  /\ \A i \in DOMAIN trace : trace[i].phase \in CleanupPhases => trace[i].phase \in Owed
  /\ unconfirmed \subseteq Owed
  /\ deployPc = "PROVIDER_FINAL_CONFIRMATION" => "provider" \in attempted
  /\ deployPc # "raised" =>
       \A phase \in Owed \ unconfirmed : CleanupRank(phase) < Reached => Shown(phase)

(* A failed forward phase is the original cause, unless an interrupt took  *)
(* its place, and a cause other than an interrupt was recorded.            *)
ForwardFailed(i) == trace[i].phase \in ForwardPhases /\ Failed(trace[i])
CauseIsFirst ==
  /\ \A i \in DOMAIN trace :
       ForwardFailed(i) => primary \in {trace[i].code, "INTERRUPTED", "unhandled"}
  /\ primary \notin {"none", "INTERRUPTED", "unhandled"} =>
       \E i \in DOMAIN trace : ForwardFailed(i)
  /\ deployPc \in Ahead => primary = "none"
  /\ deployPc = "done" => primary # "unhandled"

(* A cleanup error other than an interrupt is the first one recorded.      *)
CleanupFailed(i) == trace[i].phase \in CleanupPhases /\ Failed(trace[i])
CleanupErrorIsFirst ==
  /\ \A i \in DOMAIN trace : CleanupFailed(i) => trace[i].phase \in unconfirmed
  /\ cleanup # "none" => unconfirmed # {}
  /\ Reached = 1 => cleanup = "none"
  /\ cleanup \notin {"none", "INTERRUPTED"} =>
       \E k \in DOMAIN trace :
         /\ CleanupFailed(k) /\ trace[k].code = cleanup
         /\ \A j \in DOMAIN trace : j < k => ~CleanupFailed(j)

(* Without any error every phase so far was recorded, and nothing else.    *)
WholeOrder ==
  <<"VALIDATION", "PROVIDER_ACQUISITION", "RUNTIME_START", "RUNTIME_READINESS", "BENCHMARK",
    "RUNTIME_STOP", "PROVIDER_CLEANUP", "PROVIDER_FINAL_CONFIRMATION">>
Passed ==
  CASE deployPc = "VALIDATION" -> 0
    [] deployPc \in {"PROVIDER_ACQUISITION", "keep_provider"} -> 1
    [] deployPc \in {"RUNTIME_START", "keep_runtime"} -> 2
    [] deployPc = "RUNTIME_READINESS" -> 3
    [] deployPc = "BENCHMARK" -> 4
    [] deployPc = "RUNTIME_STOP" -> 5
    [] deployPc = "PROVIDER_CLEANUP" -> 6
    [] deployPc = "PROVIDER_FINAL_CONFIRMATION" -> 7
    [] OTHER -> 8
NothingIsSkipped ==
  primary = "none" /\ cleanup = "none" /\ deployPc # "raised" =>
    /\ Len(trace) = Passed
    /\ \A i \in 1..Passed : trace[i].phase = WholeOrder[i]
    /\ Passed >= 2 \/ deployPc = "keep_provider" => "provider" \in attempted
    /\ Passed >= 3 \/ deployPc = "keep_runtime" => "runtime" \in attempted

TraceShows ==
  /\ StartsOnProvider /\ RecordedInOrder /\ OwedIsShown
  /\ CauseIsFirst /\ CleanupErrorIsFirst /\ NothingIsSkipped

TraceIInv == DeployIInv /\ TraceShows

-----------------------------------------------------------------------------
LEMMA Appended ==
  ASSUME trace \in Seq(PhaseEvent), NEW phase \in LifecyclePhase,
         NEW code \in LifecycleErrorCode \cup {"none"}, RecordPhase(phase, code)
  PROVE  /\ trace' \in Seq(PhaseEvent)
         /\ Len(trace) \in Nat /\ Len(trace') = Len(trace) + 1
         /\ DOMAIN trace = 1..Len(trace) /\ DOMAIN trace' = 1..(Len(trace) + 1)
         /\ \A i \in 1..Len(trace) : trace'[i] = trace[i]
         /\ trace'[Len(trace) + 1].phase = phase /\ trace'[Len(trace) + 1].code = code
<1>1. [phase |-> phase, code |-> code] \in PhaseEvent
  BY DEF PhaseEvent
<1> DEFINE e == [phase |-> phase, code |-> code]
<1>2. e.phase = phase /\ e.code = code
  OBVIOUS
<1>3. trace' = Append(trace, e)
  BY DEF RecordPhase
<1>4. /\ trace' \in Seq(PhaseEvent) /\ Len(trace') = Len(trace) + 1
      /\ \A i \in 1..Len(trace) : trace'[i] = trace[i]
      /\ trace'[Len(trace) + 1] = e /\ Len(trace) \in Nat
      /\ DOMAIN trace = 1..Len(trace) /\ DOMAIN trace' = 1..Len(trace')
  <2> HIDE DEF e
  <2> QED BY <1>1, <1>3 DEF e
<1> QED BY <1>2, <1>4

LEMMA PhasesDiffer ==
  /\ ForwardPhases \cap CleanupPhases = {}
  /\ LifecyclePhase = ForwardPhases \cup CleanupPhases
  /\ "none" \notin LifecycleErrorCode /\ "unhandled" \notin LifecycleErrorCode
  /\ "INTERRUPTED" \in LifecycleErrorCode
BY DEF LifecyclePhase, ForwardPhases, CleanupPhases, LifecycleErrorCode, Causes

LEMMA Ranks ==
  /\ \A phase \in ForwardPhases : CleanupRank(phase) = 0
  /\ CleanupRank("RUNTIME_STOP") = 1 /\ CleanupRank("PROVIDER_CLEANUP") = 2
  /\ CleanupRank("PROVIDER_FINAL_CONFIRMATION") = 3
  /\ \A phase \in LifecyclePhase : CleanupRank(phase) \in 0..3
  /\ \A phase \in CleanupPhases : CleanupRank(phase) \in 1..3
BY DEF CleanupRank, LifecyclePhase, ForwardPhases, CleanupPhases

LEMMA EventsAreTyped ==
  ASSUME trace \in Seq(PhaseEvent)
  PROVE  /\ Len(trace) \in Nat /\ DOMAIN trace = 1..Len(trace)
         /\ \A i \in DOMAIN trace :
              /\ trace[i].phase \in LifecyclePhase
              /\ trace[i].code \in LifecycleErrorCode \cup {"none"}
<1>1. Len(trace) \in Nat /\ DOMAIN trace = 1..Len(trace)
  OBVIOUS
<1>2. ASSUME NEW i \in DOMAIN trace PROVE trace[i] \in PhaseEvent
  BY <1>1, <1>2, ElementOfSeq
<1>3. ASSUME NEW e \in PhaseEvent
      PROVE  e.phase \in LifecyclePhase /\ e.code \in LifecycleErrorCode \cup {"none"}
  BY DEF PhaseEvent
<1> QED BY <1>1, <1>2, <1>3

(* Before the cleanup begins every event is one of a forward phase, and a  *)
(* step that records nothing, or one more such event, keeps it so.         *)
LEMMA ForwardSteps ==
  ASSUME TraceIInv, deployPc \in Ahead \cup {"RUNTIME_STOP"},
         deployPc' \in Ahead \cup {"RUNTIME_STOP"},
         cleanup' = cleanup, unconfirmed' = unconfirmed, attempted \subseteq attempted',
         deployPc' \in Ahead => primary' = primary /\ deployPc \in Ahead,
         \/ trace' = trace /\ primary' \in {primary, "INTERRUPTED", "unhandled"}
         \/ \E phase \in ForwardPhases :
              RecordPhase(phase, "none") /\ primary' \in {primary, "INTERRUPTED"}
         \/ /\ deployPc \in Ahead
            /\ \E phase \in ForwardPhases, code \in LifecycleErrorCode :
                 RecordPhase(phase, code) /\ primary' \in {code, "INTERRUPTED"}
  PROVE  RecordedInOrder' /\ OwedIsShown' /\ CauseIsFirst' /\ CleanupErrorIsFirst'
<1>1. trace \in Seq(PhaseEvent)
  BY DEF TraceIInv, DeployIInv, DeployTypeOK
<1>2. Reached = 1 /\ Reached' = 1
  BY DEF Reached, Ahead, ForwardPhases
<1> DEFINE n == Len(trace)
<1>3. n \in Nat /\ DOMAIN trace = 1..n
  BY <1>1
<1>4. \A i \in 1..n : trace[i].phase \in ForwardPhases
  <2>1. ASSUME NEW i \in 1..n PROVE trace[i].phase \in ForwardPhases
    <3>1. trace[i].phase \in LifecyclePhase
      BY <1>1, <1>3, EventsAreTyped
    <3>2. CleanupRank(trace[i].phase) < 1
      BY <1>2, <1>3 DEF TraceIInv, TraceShows, RecordedInOrder
    <3>3. \A phase \in CleanupPhases : ~(CleanupRank(phase) < 1)
      BY Ranks
    <3> QED BY <3>1, <3>2, <3>3, PhasesDiffer
  <2> QED BY <2>1
<1>5. cleanup = "none" /\ unconfirmed = {}
  BY <1>2 DEF TraceIInv, TraceShows, CleanupErrorIsFirst, DeployIInv, FailureHasCode
<1>6. deployPc' # "done" /\ deployPc' # "PROVIDER_FINAL_CONFIRMATION"
  BY DEF Ahead, ForwardPhases
<1>7. ASSUME \A i \in DOMAIN trace' : trace'[i].phase \in ForwardPhases
      PROVE  RecordedInOrder' /\ OwedIsShown' /\ CleanupErrorIsFirst'
  <2>1. \A i \in DOMAIN trace' :
          trace'[i].phase \notin CleanupPhases /\ CleanupRank(trace'[i].phase) = 0
    BY <1>7, PhasesDiffer, Ranks
  <2>2. RecordedInOrder'
    BY <1>2, <2>1 DEF RecordedInOrder
  <2>3. OwedIsShown'
    <3>1. Owed' \subseteq CleanupPhases
      BY DEF Owed, CleanupPhases
    <3>2. \A phase \in Owed' : ~(CleanupRank(phase) < 1)
      BY <3>1, Ranks
    <3> QED BY <1>2, <1>5, <1>6, <2>1, <3>2 DEF OwedIsShown
  <2>4. CleanupErrorIsFirst'
    BY <1>5, <2>1 DEF CleanupErrorIsFirst, CleanupFailed
  <2> QED BY <2>2, <2>3, <2>4
<1>8. CASE trace' = trace /\ primary' \in {primary, "INTERRUPTED", "unhandled"}
  <2>1. CauseIsFirst'
    BY <1>6, <1>8 DEF TraceIInv, TraceShows, CauseIsFirst, ForwardFailed, Failed
  <2>2. \A i \in DOMAIN trace' : trace'[i].phase \in ForwardPhases
    BY <1>3, <1>4, <1>8
  <2> QED BY <1>7, <2>1, <2>2
<1>9. ASSUME NEW phase \in ForwardPhases, NEW code \in LifecycleErrorCode \cup {"none"},
             RecordPhase(phase, code),
             IF code = "none" THEN primary' \in {primary, "INTERRUPTED"}
               ELSE primary' \in {code, "INTERRUPTED"} /\ deployPc \in Ahead
      PROVE  RecordedInOrder' /\ OwedIsShown' /\ CauseIsFirst' /\ CleanupErrorIsFirst'
  <2>1. /\ Len(trace') = n + 1 /\ DOMAIN trace' = 1..(n + 1)
        /\ \A i \in 1..n : trace'[i] = trace[i]
        /\ trace'[n + 1].phase = phase /\ trace'[n + 1].code = code
    BY <1>1, <1>9, Appended, PhasesDiffer
  <2>2. \A i \in DOMAIN trace' : trace'[i].phase \in ForwardPhases
    BY <1>3, <1>4, <2>1
  <2>3. CauseIsFirst'
    <3>1. CASE code = "none"
      <4>1. \A i \in 1..(n + 1) :
              trace'[i].phase \in ForwardPhases /\ Failed(trace'[i]) =>
                primary' \in {trace'[i].code, "INTERRUPTED", "unhandled"}
        BY <1>3, <1>9, <2>1, <3>1
           DEF TraceIInv, TraceShows, CauseIsFirst, ForwardFailed, Failed
      <4>2. primary' \notin {"none", "INTERRUPTED", "unhandled"} =>
              \E i \in 1..(n + 1) : trace'[i].phase \in ForwardPhases /\ Failed(trace'[i])
        <5>1. ASSUME primary' \notin {"none", "INTERRUPTED", "unhandled"}
              PROVE  \E i \in 1..(n + 1) :
                       trace'[i].phase \in ForwardPhases /\ Failed(trace'[i])
          <6>1. PICK i \in 1..n : trace[i].phase \in ForwardPhases /\ Failed(trace[i])
            BY <1>3, <1>9, <3>1, <5>1
               DEF TraceIInv, TraceShows, CauseIsFirst, ForwardFailed
          <6>2. i \in 1..(n + 1) /\ trace'[i].phase \in ForwardPhases /\ Failed(trace'[i])
            BY <1>3, <2>1, <6>1 DEF Failed
          <6> QED BY <6>2
        <5> QED BY <5>1
      <4> QED
        BY <1>6, <2>1, <4>1, <4>2
           DEF TraceIInv, TraceShows, CauseIsFirst, ForwardFailed, Failed
    <3>2. CASE code # "none"
      <4>1. primary = "none" /\ \A i \in 1..n : ~Failed(trace[i])
        <5>1. primary = "none"
          BY <1>9, <3>2 DEF TraceIInv, TraceShows, CauseIsFirst
        <5> QED BY <1>3, <1>4, <5>1 DEF TraceIInv, TraceShows, CauseIsFirst, ForwardFailed, Failed
      <4>2. \A i \in 1..(n + 1) :
              trace'[i].phase \in ForwardPhases /\ Failed(trace'[i]) =>
                primary' \in {trace'[i].code, "INTERRUPTED", "unhandled"}
        BY <1>3, <1>9, <2>1, <3>2, <4>1 DEF Failed
      <4>3. n + 1 \in 1..(n + 1) /\ trace'[n + 1].phase \in ForwardPhases
              /\ Failed(trace'[n + 1])
        BY <1>3, <2>1, <3>2 DEF Failed
      <4>4. deployPc' \notin Ahead
        <5>1. primary' # "none"
          BY <1>9, <3>2, PhasesDiffer
        <5> QED BY <4>1, <5>1
      <4> HIDE DEF n
      <4> QED BY <1>6, <2>1, <4>2, <4>3, <4>4 DEF CauseIsFirst, ForwardFailed, Failed
    <3> QED BY <3>1, <3>2
  <2> QED BY <1>7, <2>2, <2>3
<1> QED
  <2>1. CASE \E phase \in ForwardPhases :
               RecordPhase(phase, "none") /\ primary' \in {primary, "INTERRUPTED"}
    BY <1>9, <2>1
  <2>2. CASE /\ deployPc \in Ahead
             /\ \E phase \in ForwardPhases, code \in LifecycleErrorCode :
                  RecordPhase(phase, code) /\ primary' \in {code, "INTERRUPTED"}
    BY <1>9, <2>2, PhasesDiffer
  <2> QED BY <1>8, <2>1, <2>2

(* An owed cleanup phase ends: confirmed, with a success; or unconfirmed,  *)
(* with an event or, if an interrupt cut it short, without.                *)
LEMMA CleanupSteps ==
  ASSUME TraceIInv, deployPc \in Owed, attempted' = attempted, primary' = primary,
         \/ deployPc = "RUNTIME_STOP" /\ deployPc' = "PROVIDER_CLEANUP"
         \/ deployPc = "PROVIDER_CLEANUP" /\ deployPc' = "PROVIDER_FINAL_CONFIRMATION"
         \/ deployPc = "PROVIDER_FINAL_CONFIRMATION" /\ deployPc' = "conclude",
         NEW code \in LifecycleErrorCode \cup {"none"},
         NEW error \in {code, "INTERRUPTED"},
         RecordPhase(deployPc, code) \/ (trace' = trace /\ error = "INTERRUPTED"),
         \/ /\ code = "none" /\ error = "none"
            /\ unconfirmed' = unconfirmed /\ cleanup' = cleanup
         \/ /\ error # "none"
            /\ unconfirmed' = unconfirmed \cup {deployPc}
            /\ cleanup' = IF cleanup = "none" THEN error ELSE cleanup
  PROVE  TraceShows'
<1>1. trace \in Seq(PhaseEvent) /\ deployPc \in CleanupPhases /\ deployPc \in LifecyclePhase
  BY DEF TraceIInv, DeployIInv, DeployTypeOK, LifecyclePhase, CleanupPhases
<1> DEFINE n == Len(trace)
<1>2. /\ n \in Nat /\ DOMAIN trace = 1..n
      /\ \A i \in 1..n : trace[i].phase \in LifecyclePhase
                         /\ CleanupRank(trace[i].phase) \in 0..3
  BY <1>1, EventsAreTyped, Ranks
<1>3. Reached = CleanupRank(deployPc) /\ Reached \in 1..3 /\ Reached' = Reached + 1
  BY Ranks DEF Reached, Ahead, ForwardPhases
<1>4. Owed' = Owed /\ Owed \subseteq CleanupPhases
  BY DEF Owed, CleanupPhases
<1>5. ASSUME RecordPhase(deployPc, code)
      PROVE  /\ Len(trace') = n + 1 /\ DOMAIN trace' = 1..(n + 1)
             /\ \A i \in 1..n : trace'[i] = trace[i]
             /\ trace'[n + 1].phase = deployPc /\ trace'[n + 1].code = code
  BY <1>1, <1>5, Appended
<1>6. /\ \A i \in 1..n : i \in DOMAIN trace' /\ trace'[i] = trace[i]
      /\ \A i \in DOMAIN trace' : i \in 1..n \/ (i = n + 1 /\ RecordPhase(deployPc, code))
  <2>1. CASE RecordPhase(deployPc, code)
    BY <1>2, <1>5, <2>1
  <2>2. CASE trace' = trace
    BY <1>2, <2>2
  <2> QED BY <2>1, <2>2
<1>7. n + 1 \notin 1..n /\ \A i \in 1..n : i < n + 1 /\ ~(n + 1 < i)
  BY <1>2
<1> HIDE DEF n
<1>8. deployPc' \notin Ahead \cup {"done", "raised"}
  BY DEF Ahead, ForwardPhases
<1>9. RecordedInOrder'
  <2>1. \A i \in 1..n : CleanupRank(trace[i].phase) < Reached
    BY <1>2 DEF TraceIInv, TraceShows, RecordedInOrder
  <2>2. ASSUME NEW i \in DOMAIN trace' PROVE CleanupRank(trace'[i].phase) < Reached'
    <3>1. CASE i \in 1..n
      BY <1>2, <1>3, <1>6, <2>1, <3>1
    <3>2. CASE i = n + 1 /\ RecordPhase(deployPc, code)
      BY <1>3, <1>5, <3>2
    <3> QED BY <1>6, <3>1, <3>2
  <2>3. ASSUME NEW i \in DOMAIN trace', NEW j \in DOMAIN trace',
               i < j, trace'[j].phase \in CleanupPhases
        PROVE  CleanupRank(trace'[i].phase) < CleanupRank(trace'[j].phase)
    <3>1. CASE i \in 1..n /\ j \in 1..n
      BY <1>2, <1>6, <2>3, <3>1 DEF TraceIInv, TraceShows, RecordedInOrder
    <3>2. CASE i \in 1..n /\ j = n + 1 /\ RecordPhase(deployPc, code)
      BY <1>3, <1>5, <1>6, <2>1, <3>2
    <3>3. i \in 1..n
      BY <1>2, <1>6, <1>7, <2>3
    <3> QED BY <1>6, <3>1, <3>2, <3>3
  <2> QED BY <2>2, <2>3 DEF RecordedInOrder
<1>10. OwedIsShown'
  <2>1. ASSUME NEW i \in DOMAIN trace', trace'[i].phase \in CleanupPhases
        PROVE  trace'[i].phase \in Owed'
    <3>1. CASE i \in 1..n
      BY <1>2, <1>4, <1>6, <2>1, <3>1 DEF TraceIInv, TraceShows, OwedIsShown
    <3>2. CASE i = n + 1 /\ RecordPhase(deployPc, code)
      BY <1>4, <1>5, <3>2
    <3> QED BY <1>6, <3>1, <3>2
  <2>2. unconfirmed' \subseteq Owed'
    BY <1>4 DEF TraceIInv, TraceShows, OwedIsShown
  <2>3. deployPc' = "PROVIDER_FINAL_CONFIRMATION" => "provider" \in attempted'
    BY DEF Owed
  <2>4. ASSUME NEW phase \in Owed' \ unconfirmed', CleanupRank(phase) < Reached'
        PROVE  Shown(phase)'
    <3>1. phase \in Owed \ unconfirmed
      BY <1>4, <2>4
    <3>2. CASE CleanupRank(phase) < Reached
      <4>1. PICK i \in 1..n : trace[i].phase = phase /\ ~Failed(trace[i])
        BY <1>2, <1>8, <3>1, <3>2, deployPc # "raised"
           DEF TraceIInv, TraceShows, OwedIsShown, Shown
      <4> QED BY <1>6, <4>1 DEF Shown, Failed
    <3>3. CASE ~(CleanupRank(phase) < Reached)
      <4>1. phase = deployPc
        <5>1. CleanupRank(phase) = Reached
          BY <1>3, <1>4, <2>4, <3>1, <3>3, Ranks
        <5> QED BY <1>1, <1>3, <1>4, <3>1, <5>1, Ranks DEF CleanupPhases
      <4>2. RecordPhase(deployPc, code) /\ code = "none"
        BY <2>4, <4>1
      <4>3. n + 1 \in DOMAIN trace'
        BY <1>2, <1>5, <4>2
      <4> QED BY <1>5, <4>1, <4>2, <4>3 DEF Shown, Failed
    <3> QED BY <3>2, <3>3
  <2> QED BY <2>1, <2>2, <2>3, <2>4 DEF OwedIsShown
<1>11. CauseIsFirst'
  <2>1. \A i \in DOMAIN trace' : ForwardFailed(i)' <=> i \in 1..n /\ ForwardFailed(i)
    <3>1. ASSUME RecordPhase(deployPc, code) PROVE trace'[n + 1].phase \notin ForwardPhases
      BY <1>1, <1>5, <3>1, PhasesDiffer
    <3> QED BY <1>6, <1>7, <3>1 DEF ForwardFailed, Failed
  <2>2. deployPc' # "done" /\ deployPc' \notin Ahead
    BY <1>8
  <2>3. ASSUME NEW i \in DOMAIN trace', ForwardFailed(i)'
        PROVE  primary' \in {trace'[i].code, "INTERRUPTED", "unhandled"}
    <3>1. i \in 1..n /\ ForwardFailed(i)
      BY <2>1, <2>3
    <3> QED BY <1>2, <1>6, <3>1 DEF TraceIInv, TraceShows, CauseIsFirst
  <2>4. ASSUME primary' \notin {"none", "INTERRUPTED", "unhandled"}
        PROVE  \E i \in DOMAIN trace' : ForwardFailed(i)'
    <3>1. PICK i \in 1..n : ForwardFailed(i)
      BY <1>2, <2>4 DEF TraceIInv, TraceShows, CauseIsFirst
    <3> QED BY <1>6, <2>1, <3>1
  <2> QED BY <2>2, <2>3, <2>4 DEF CauseIsFirst
<1>12. CleanupErrorIsFirst'
  <2>1. ASSUME NEW i \in 1..n PROVE CleanupFailed(i)' <=> CleanupFailed(i)
    BY <1>6, <2>1 DEF CleanupFailed, Failed
  <2>2. ASSUME NEW i \in DOMAIN trace', CleanupFailed(i)' PROVE trace'[i].phase \in unconfirmed'
    <3>1. CASE i \in 1..n
      BY <1>2, <1>6, <2>1, <2>2, <3>1 DEF TraceIInv, TraceShows, CleanupErrorIsFirst
    <3>2. CASE i = n + 1 /\ RecordPhase(deployPc, code)
      BY <1>5, <2>2, <3>2 DEF CleanupFailed, Failed
    <3> QED BY <1>6, <3>1, <3>2
  <2>3. cleanup' # "none" => unconfirmed' # {}
    BY DEF TraceIInv, TraceShows, CleanupErrorIsFirst
  <2>4. Reached' # 1
    BY <1>3
  <2>5. ASSUME cleanup' \notin {"none", "INTERRUPTED"}
        PROVE  \E k \in DOMAIN trace' :
                 /\ CleanupFailed(k)' /\ trace'[k].code = cleanup'
                 /\ \A j \in DOMAIN trace' : j < k => ~CleanupFailed(j)'
    <3>1. CASE cleanup # "none"
      <4>1. PICK k \in 1..n :
              /\ CleanupFailed(k) /\ trace[k].code = cleanup
              /\ \A j \in 1..n : j < k => ~CleanupFailed(j)
        BY <1>2, <2>5, <3>1 DEF TraceIInv, TraceShows, CleanupErrorIsFirst
      <4>2. cleanup' = cleanup
        BY <3>1
      <4>3. ASSUME NEW j \in DOMAIN trace', j < k PROVE ~CleanupFailed(j)'
        <5>1. j \in 1..n
          BY <1>6, <1>7, <4>3
        <5> QED BY <2>1, <4>1, <4>3, <5>1
      <4>4. k \in DOMAIN trace' /\ CleanupFailed(k)' /\ trace'[k].code = cleanup'
        BY <1>6, <2>1, <4>1, <4>2
      <4> QED BY <4>3, <4>4
    <3>2. CASE cleanup = "none"
      <4>1. error = code /\ cleanup' = code /\ code # "none" /\ RecordPhase(deployPc, code)
        BY <2>5, <3>2
      <4>0. PICK k \in DOMAIN trace' : k = n + 1
        BY <1>2, <1>5, <4>1
      <4>2. CleanupFailed(k)' /\ trace'[k].code = cleanup'
        BY <1>1, <1>5, <4>0, <4>1 DEF CleanupFailed, Failed
      <4>3. ASSUME NEW j \in DOMAIN trace', j < k PROVE ~CleanupFailed(j)'
        <5>1. unconfirmed = {}
          BY <3>2 DEF TraceIInv, DeployIInv, FailureHasCode
        <5>2. j \in 1..n
          BY <1>2, <1>6, <4>0, <4>3
        <5>3. ~CleanupFailed(j)
          BY <1>2, <5>1, <5>2 DEF TraceIInv, TraceShows, CleanupErrorIsFirst
        <5> QED BY <2>1, <5>2, <5>3
      <4> QED BY <4>2, <4>3
    <3> QED BY <3>1, <3>2
  <2> QED BY <2>2, <2>3, <2>4, <2>5 DEF CleanupErrorIsFirst
<1>13. NothingIsSkipped'
  <2>1. ASSUME primary' = "none", cleanup' = "none"
        PROVE  /\ Len(trace') = Passed'
               /\ \A i \in 1..Passed' : trace'[i].phase = WholeOrder[i]
               /\ "provider" \in attempted' /\ "runtime" \in attempted'
    <3>1. cleanup = "none" /\ code = "none" /\ RecordPhase(deployPc, code)
      BY <2>1, PhasesDiffer
    <3>2. Passed \in 5..7 /\ Passed' = Passed + 1 /\ WholeOrder[Passed + 1] = deployPc
      BY DEF Passed, WholeOrder
    <3>3. /\ n = Passed /\ \A i \in 1..Passed : trace[i].phase = WholeOrder[i]
          /\ "provider" \in attempted /\ "runtime" \in attempted
      BY <2>1, <3>1, <3>2, deployPc # "raised" DEF TraceIInv, TraceShows, NothingIsSkipped, n
    <3> HIDE DEF WholeOrder
    <3>4. ASSUME NEW i \in 1..(n + 1) PROVE trace'[i].phase = WholeOrder[i]
      <4>1. CASE i \in 1..n
        BY <1>6, <3>3, <4>1
      <4>2. CASE i = n + 1
        BY <1>5, <3>1, <3>2, <3>3, <4>2
      <4> QED BY <1>2, <4>1, <4>2
    <3> QED BY <1>5, <3>1, <3>2, <3>3, <3>4
  <2> QED BY <2>1 DEF NothingIsSkipped
<1>14. StartsOnProvider'
  BY DEF TraceIInv, TraceShows, StartsOnProvider
<1> QED BY <1>9, <1>10, <1>11, <1>12, <1>13, <1>14 DEF TraceShows

(* A cleanup phase that is not owed, the end, and an exception record      *)
(* nothing and leave the errors alone.                                     *)
LEMMA QuietSteps ==
  ASSUME TraceIInv, trace' = trace, attempted' = attempted, cleanup' = cleanup,
         unconfirmed' = unconfirmed, primary' = primary,
         \/ deployPc' = "raised"
         \/ /\ deployPc = "RUNTIME_STOP" /\ deployPc' = "PROVIDER_CLEANUP"
            /\ "runtime" \notin attempted
         \/ /\ deployPc = "PROVIDER_CLEANUP" /\ deployPc' = "conclude"
            /\ "provider" \notin attempted
         \/ deployPc = "conclude" /\ deployPc' = "done" /\ primary # "unhandled"
  PROVE  TraceShows'
<1>1. trace \in Seq(PhaseEvent)
  BY DEF TraceIInv, DeployIInv, DeployTypeOK
<1>2. /\ \A i \in DOMAIN trace : CleanupRank(trace[i].phase) \in 0..3
      /\ \A i \in DOMAIN trace : CleanupRank(trace[i].phase) < Reached
  BY <1>1, EventsAreTyped, Ranks DEF TraceIInv, TraceShows, RecordedInOrder
<1>3. /\ Reached \in 1..4 /\ Reached' \in 2..4
      /\ Reached' >= Reached
  BY DEF Reached, Ahead, ForwardPhases
<1>4. RecordedInOrder'
  <2>1. \A i \in DOMAIN trace : CleanupRank(trace[i].phase) < Reached'
    BY <1>2, <1>3
  <2> QED BY <2>1 DEF TraceIInv, TraceShows, RecordedInOrder
<1>5. Owed' = Owed /\ Owed \subseteq CleanupPhases
  BY DEF Owed, CleanupPhases
<1>6. OwedIsShown'
  <2>1. ASSUME deployPc' # "raised", NEW phase \in Owed \ unconfirmed,
               CleanupRank(phase) < Reached'
        PROVE  Shown(phase)
    <3>1. CleanupRank(phase) < Reached
      BY <2>1, Ranks DEF Owed, Reached, Ahead, ForwardPhases, TraceIInv, TraceShows,
                         StartsOnProvider
    <3>2. deployPc # "raised"
      BY <2>1
    <3> QED BY <2>1, <3>1, <3>2 DEF TraceIInv, TraceShows, OwedIsShown
  <2> QED BY <1>5, <2>1 DEF TraceIInv, TraceShows, OwedIsShown, Shown
<1>7. CauseIsFirst'
  BY DEF TraceIInv, TraceShows, CauseIsFirst, ForwardFailed, Ahead, ForwardPhases
<1>8. CleanupErrorIsFirst'
  BY <1>3 DEF TraceIInv, TraceShows, CleanupErrorIsFirst, CleanupFailed
<1>9. NothingIsSkipped'
  BY DEF TraceIInv, TraceShows, NothingIsSkipped, Passed, StartsOnProvider
<1>10. StartsOnProvider'
  BY DEF TraceIInv, TraceShows, StartsOnProvider
<1> QED BY <1>4, <1>6, <1>7, <1>8, <1>9, <1>10 DEF TraceShows

(* A forward phase passes.                                                 *)
LEMMA ForwardPasses ==
  ASSUME TraceIInv, deployPc \in Ahead, NEW phase \in ForwardPhases,
         NEW next \in ForwardPhases \cup {"RUNTIME_STOP"}, Succeed(phase, next),
         cleanup' = cleanup, unconfirmed' = unconfirmed, attempted' = attempted,
         Passed' = Passed + 1, phase = WholeOrder[Passed + 1],
         Passed = 1 => "provider" \in attempted,
         Passed = 2 => "runtime" \in attempted
  PROVE  TraceShows'
<1>1. RecordPhase(phase, "none") /\ deployPc' = next /\ primary' = primary /\ primary = "none"
  BY DEF Succeed, TraceIInv, TraceShows, CauseIsFirst
<1>2. RecordedInOrder' /\ OwedIsShown' /\ CauseIsFirst' /\ CleanupErrorIsFirst'
  BY <1>1, ForwardSteps DEF Ahead
<1>3. StartsOnProvider'
  BY DEF TraceIInv, TraceShows, StartsOnProvider
<1>4. ASSUME cleanup = "none" PROVE NothingIsSkipped'
  <2>1. Passed \in 0..4
    BY DEF Passed, Ahead, ForwardPhases
  <2>2. /\ Len(trace) = Passed /\ \A i \in 1..Passed : trace[i].phase = WholeOrder[i]
        /\ Passed >= 2 => "provider" \in attempted
        /\ Passed >= 3 => "runtime" \in attempted
    BY <1>1, <1>4 DEF TraceIInv, TraceShows, NothingIsSkipped, Ahead, ForwardPhases
  <2>3. trace \in Seq(PhaseEvent) /\ phase \in LifecyclePhase
    BY PhasesDiffer DEF TraceIInv, DeployIInv, DeployTypeOK
  <2>4. /\ \A i \in 1..Len(trace) : trace'[i] = trace[i]
        /\ Len(trace') = Len(trace) + 1 /\ trace'[Len(trace) + 1].phase = phase
    BY <1>1, <2>3, Appended
  <2> HIDE DEF WholeOrder
  <2>5. \A i \in 1..(Passed + 1) : trace'[i].phase = WholeOrder[i]
    BY <2>1, <2>2, <2>4
  <2>6. next \notin {"keep_provider", "keep_runtime"}
    BY DEF ForwardPhases
  <2> QED BY <1>1, <2>1, <2>2, <2>4, <2>5, <2>6 DEF NothingIsSkipped
<1>5. ASSUME cleanup # "none" PROVE NothingIsSkipped'
  BY <1>5 DEF NothingIsSkipped
<1> QED BY <1>2, <1>3, <1>4, <1>5 DEF TraceShows

(* A forward phase fails or is interrupted.                                *)
LEMMA ForwardFails ==
  ASSUME TraceIInv, deployPc \in Ahead, deployPc' = "RUNTIME_STOP",
         cleanup' = cleanup, unconfirmed' = unconfirmed, attempted \subseteq attempted',
         StartsOnProvider',
         NEW phase \in ForwardPhases,
         \/ trace' = trace /\ primary' = "INTERRUPTED"
         \/ RecordPhase(phase, "none") /\ primary' = "INTERRUPTED"
         \/ \E code \in LifecycleErrorCode :
              RecordPhase(phase, code) /\ primary' \in {code, "INTERRUPTED"}
  PROVE  TraceShows'
<1>0. "RUNTIME_STOP" \notin Ahead
  BY DEF Ahead, ForwardPhases
<1>1. RecordedInOrder' /\ OwedIsShown' /\ CauseIsFirst' /\ CleanupErrorIsFirst'
  BY <1>0, ForwardSteps
<1>2. primary' # "none"
  BY PhasesDiffer
<1> QED BY <1>1, <1>2 DEF TraceShows, NothingIsSkipped

LEMMA TraceSteps ==
  ASSUME TraceIInv, [DeployNext]_deployVars
  PROVE  TraceShows'
<1>0. /\ "RUNTIME_STOP" \notin Ahead /\ ForwardPhases \subseteq Ahead
      /\ {"keep_provider", "keep_runtime"} \subseteq Ahead
  BY DEF Ahead, ForwardPhases
<1>1. StartsOnProvider
  BY DEF TraceIInv, TraceShows
<1>2. {"CANCELLED", "INTERRUPTED", "RUNTIME_START_FAILED"} \subseteq LifecycleErrorCode
  BY DEF LifecycleErrorCode, Causes
<1>3. ASSUME NEW phase \in ForwardPhases, FailsSomehow(phase)
      PROVE  /\ deployPc' = "RUNTIME_STOP"
             /\ \E code \in LifecycleErrorCode :
                  RecordPhase(phase, code) /\ primary' \in {code, "INTERRUPTED"}
  BY <1>3, CodesAreTyped, PhasesDiffer DEF FailsSomehow, FailPhase
<1>4. ASSUME attempted' = attempted PROVE StartsOnProvider'
  BY <1>1, <1>4 DEF StartsOnProvider
<1>5. CASE PhaseCancelled
  <2>1. /\ deployPc \in ForwardPhases /\ deployPc' = "RUNTIME_STOP"
        /\ \E code \in LifecycleErrorCode :
             RecordPhase(deployPc, code) /\ primary' \in {code, "INTERRUPTED"}
        /\ cleanup' = cleanup /\ unconfirmed' = unconfirmed /\ attempted' = attempted
    BY <1>2, <1>5 DEF PhaseCancelled, FailPhase
  <2> QED BY <1>0, <1>4, <2>1, ForwardFails
<1>6. CASE Validate
  <2>0. /\ deployPc = "VALIDATION" /\ deployPc \in ForwardPhases
        /\ cleanup' = cleanup /\ unconfirmed' = unconfirmed /\ attempted' = attempted
    BY <1>6 DEF Validate, EnterPhase, ForwardPhases
  <2>1. CASE Succeed("VALIDATION", "PROVIDER_ACQUISITION")
    <3>1. Passed = 0 /\ Passed' = 1 /\ WholeOrder[1] = "VALIDATION"
      BY <2>0, <2>1 DEF Succeed, Passed, WholeOrder
    <3> QED BY <1>0, <2>0, <2>1, <3>1, ForwardPasses DEF ForwardPhases
  <2>2. CASE FailsSomehow("VALIDATION")
    BY <1>0, <1>3, <1>4, <2>0, <2>2, ForwardFails
  <2> QED BY <1>6, <2>1, <2>2 DEF Validate
<1>7. ASSUME NEW phase \in ForwardPhases, NEW resource,
             deployPc = phase, Create(phase, resource, deployPc'),
             \/ /\ phase = "PROVIDER_ACQUISITION" /\ resource = "provider"
                /\ deployPc' = "keep_provider"
             \/ /\ phase = "RUNTIME_START" /\ resource = "runtime"
                /\ deployPc' = "keep_runtime" /\ "provider" \in attempted,
             trace' = trace /\ primary' = primary
      PROVE  TraceShows'
  <2>1. /\ attempted' = attempted \cup {resource}
        /\ cleanup' = cleanup /\ unconfirmed' = unconfirmed
    BY <1>7 DEF Create
  <2>2. StartsOnProvider'
    BY <1>1, <1>7, <2>1 DEF StartsOnProvider
  <2>3. RecordedInOrder' /\ OwedIsShown' /\ CauseIsFirst' /\ CleanupErrorIsFirst'
    BY <1>0, <1>7, <2>1, ForwardSteps
  <2>4. NothingIsSkipped'
    <3>1. Passed' = Passed /\ Passed \in 1..2
      BY <1>7 DEF Passed
    <3>2. CASE primary = "none" /\ cleanup = "none"
      <4>1. /\ Len(trace) = Passed /\ \A i \in 1..Passed : trace[i].phase = WholeOrder[i]
            /\ deployPc # "raised"
        BY <1>7, <3>2 DEF TraceIInv, TraceShows, NothingIsSkipped
      <4> QED BY <1>7, <2>1, <3>1, <4>1 DEF NothingIsSkipped, Passed
    <3>3. CASE ~(primary = "none" /\ cleanup = "none")
      BY <1>7, <2>1, <3>3 DEF NothingIsSkipped
    <3> QED BY <3>2, <3>3
  <2> QED BY <2>2, <2>3, <2>4 DEF TraceShows
<1>8. ASSUME NEW phase \in ForwardPhases, NEW resource, NEW next,
             deployPc = phase, Create(phase, resource, next), FailsSomehow(phase),
             resource = "provider" \/ "provider" \in attempted
      PROVE  TraceShows'
  <2>1. /\ attempted' = attempted \cup {resource}
        /\ cleanup' = cleanup /\ unconfirmed' = unconfirmed
    BY <1>8 DEF Create
  <2>2. StartsOnProvider'
    BY <1>1, <1>8, <2>1 DEF StartsOnProvider
  <2>3. /\ deployPc' = "RUNTIME_STOP"
        /\ \E code \in LifecycleErrorCode :
             RecordPhase(phase, code) /\ primary' \in {code, "INTERRUPTED"}
    BY <1>3, <1>8
  <2> QED BY <1>0, <1>8, <2>1, <2>2, <2>3, ForwardFails
<1>9. CASE Acquire
  <2>1. /\ Create("PROVIDER_ACQUISITION", "provider", "keep_provider")
        /\ deployPc = "PROVIDER_ACQUISITION" /\ deployPc \in ForwardPhases
    BY <1>9 DEF Acquire, EnterPhase, ForwardPhases
  <2>2. CASE FailsSomehow("PROVIDER_ACQUISITION")
    BY <1>8, <2>1, <2>2
  <2>3. CASE deployPc' = "keep_provider" /\ UNCHANGED <<trace, primary>>
    BY <1>7, <2>1, <2>3
  <2> QED BY <2>1, <2>2, <2>3 DEF Create
<1>10. CASE StartRuntime
  <2>1. /\ Create("RUNTIME_START", "runtime", "keep_runtime")
        /\ deployPc = "RUNTIME_START" /\ deployPc \in ForwardPhases /\ "provider" \in attempted
    BY <1>10 DEF StartRuntime, EnterPhase, ForwardPhases, TraceIInv, DeployIInv, DeployTypeOK
  <2>2. CASE FailsSomehow("RUNTIME_START")
    BY <1>8, <2>1, <2>2
  <2>3. CASE deployPc' = "keep_runtime" /\ UNCHANGED <<trace, primary>>
    BY <1>7, <2>1, <2>3
  <2> QED BY <2>1, <2>2, <2>3 DEF Create
<1>11. CASE KeepProvider
  <2>0. /\ deployPc = "keep_provider" /\ Succeed("PROVIDER_ACQUISITION", "RUNTIME_START")
        /\ cleanup' = cleanup /\ unconfirmed' = unconfirmed /\ attempted' = attempted
        /\ "provider" \in attempted
    BY <1>11 DEF KeepProvider, TraceIInv, DeployIInv, KeepsAttempted
  <2>1. Passed = 1 /\ Passed' = 2 /\ WholeOrder[2] = "PROVIDER_ACQUISITION"
    BY <2>0 DEF Succeed, Passed, WholeOrder
  <2> QED BY <1>0, <2>0, <2>1, ForwardPasses DEF ForwardPhases
<1>12. CASE KeepRuntime
  <2>0. /\ deployPc = "keep_runtime" /\ "runtime" \in attempted
        /\ cleanup' = cleanup /\ unconfirmed' = unconfirmed /\ attempted' = attempted
    BY <1>12 DEF KeepRuntime, TraceIInv, DeployIInv, KeepsAttempted
  <2>1. CASE Succeed("RUNTIME_START", "RUNTIME_READINESS")
    <3>1. Passed = 2 /\ Passed' = 3 /\ WholeOrder[3] = "RUNTIME_START"
      BY <2>0, <2>1 DEF Succeed, Passed, WholeOrder
    <3> QED BY <1>0, <2>0, <2>1, <3>1, ForwardPasses DEF ForwardPhases
  <2>2. CASE FailPhase("RUNTIME_START", "RUNTIME_START_FAILED")
    <3>1. /\ "RUNTIME_START" \in ForwardPhases /\ deployPc' = "RUNTIME_STOP"
          /\ \E code \in LifecycleErrorCode :
               RecordPhase("RUNTIME_START", code) /\ primary' \in {code, "INTERRUPTED"}
      BY <1>2, <2>2 DEF FailPhase, ForwardPhases
    <3> QED BY <1>0, <1>4, <2>0, <3>1, ForwardFails
  <2> QED BY <1>12, <2>1, <2>2 DEF KeepRuntime
<1>13. CASE WaitRuntimeReady
  <2>0. /\ deployPc = "RUNTIME_READINESS" /\ deployPc \in ForwardPhases
        /\ cleanup' = cleanup /\ unconfirmed' = unconfirmed /\ attempted' = attempted
    BY <1>13 DEF WaitRuntimeReady, EnterPhase, ForwardPhases
  <2>1. CASE Succeed("RUNTIME_READINESS", "BENCHMARK")
    <3>1. Passed = 3 /\ Passed' = 4 /\ WholeOrder[4] = "RUNTIME_READINESS"
      BY <2>0, <2>1 DEF Succeed, Passed, WholeOrder
    <3> QED BY <1>0, <2>0, <2>1, <3>1, ForwardPasses DEF ForwardPhases
  <2>2. CASE FailsSomehow("RUNTIME_READINESS")
    BY <1>0, <1>3, <1>4, <2>0, <2>2, ForwardFails
  <2> QED BY <1>13, <2>1, <2>2 DEF WaitRuntimeReady
<1>14. CASE RunBenchmark
  <2>0. /\ deployPc = "BENCHMARK" /\ deployPc \in ForwardPhases
        /\ cleanup' = cleanup /\ unconfirmed' = unconfirmed /\ attempted' = attempted
    BY <1>14 DEF RunBenchmark, EnterPhase, ForwardPhases
  <2>1. CASE Succeed("BENCHMARK", "RUNTIME_STOP")
    <3>1. Passed = 4 /\ Passed' = 5 /\ WholeOrder[5] = "BENCHMARK"
      BY <2>0, <2>1 DEF Succeed, Passed, WholeOrder
    <3> QED BY <1>0, <2>0, <2>1, <3>1, ForwardPasses DEF ForwardPhases
  <2>2. CASE FailsSomehow("BENCHMARK")
    BY <1>0, <1>3, <1>4, <2>0, <2>2, ForwardFails
  <2> QED BY <1>14, <2>1, <2>2 DEF RunBenchmark
<1>15. ASSUME deployPc \in Owed, NEW next, attempted' = attempted, primary' = primary,
              Confirms(deployPc, next) \/ Fails(deployPc, next),
              \/ deployPc = "RUNTIME_STOP" /\ next = "PROVIDER_CLEANUP"
              \/ deployPc = "PROVIDER_CLEANUP" /\ next = "PROVIDER_FINAL_CONFIRMATION"
              \/ deployPc = "PROVIDER_FINAL_CONFIRMATION" /\ next = "conclude"
       PROVE  TraceShows'
  <2>0. /\ deployPc \in LifecyclePhase
        /\ CleanupCodes(deployPc) \subseteq LifecycleErrorCode
        /\ "none" \notin CleanupCodes(deployPc)
    <3>1. deployPc \in LifecyclePhase
      BY <1>15 DEF LifecyclePhase, CleanupPhases
    <3> QED BY <3>1, CodesAreTyped
  <2>1. CASE ConfirmPhase(deployPc, next)
    <3>1. /\ RecordPhase(deployPc, "none") /\ deployPc' = next
          /\ cleanup' = cleanup /\ unconfirmed' = unconfirmed
      BY <2>1 DEF ConfirmPhase
    <3> QED BY <1>15, <3>1, CleanupSteps
  <2>2. CASE Unconfirm(deployPc, next)
    <3>1. PICK code \in CleanupCodes(deployPc) :
            /\ RecordPhase(deployPc, code)
            /\ cleanup' = IF cleanup = "none" THEN code ELSE cleanup
      BY <2>2 DEF Unconfirm
    <3>2. deployPc' = next /\ unconfirmed' = unconfirmed \cup {deployPc}
      BY <2>2 DEF Unconfirm
    <3>3. code \in LifecycleErrorCode /\ code # "none"
      BY <2>0
    <3> QED BY <1>15, <3>1, <3>2, <3>3, CleanupSteps
  <2>3. ASSUME NEW codes, codes \subseteq LifecycleErrorCode \cup {"none"},
               InterruptPhase(deployPc, codes, next)
        PROVE  TraceShows'
    <3>1. /\ deployPc' = next /\ unconfirmed' = unconfirmed \cup {deployPc}
          /\ cleanup' = IF cleanup = "none" THEN "INTERRUPTED" ELSE cleanup
          /\ trace' = trace \/ \E code \in codes : RecordPhase(deployPc, code)
      BY <2>3 DEF InterruptPhase
    <3>2. CASE trace' = trace
      BY <1>15, <3>1, <3>2, CleanupSteps
    <3>3. CASE \E code \in codes : RecordPhase(deployPc, code)
      <4>1. PICK code \in codes : RecordPhase(deployPc, code)
        BY <3>3
      <4>2. code \in LifecycleErrorCode \cup {"none"}
        BY <2>3
      <4> QED BY <1>15, <3>1, <4>1, <4>2, CleanupSteps
    <3> QED BY <3>1, <3>2, <3>3
  <2>4. CASE InterruptPhase(deployPc, {"none"}, next)
    BY <2>3, <2>4
  <2>5. CASE InterruptPhase(deployPc, CleanupCodes(deployPc), next)
    BY <2>0, <2>3, <2>5
  <2> QED BY <1>15, <2>1, <2>2, <2>4, <2>5 DEF Confirms, Fails
<1>16. CASE StopRuntime
  <2>0. deployPc = "RUNTIME_STOP" /\ attempted' = attempted /\ primary' = primary
    BY <1>16 DEF StopRuntime
  <2>1. CASE "runtime" \in attempted
    <3>1. deployPc \in Owed
      BY <2>0, <2>1 DEF Owed
    <3>2. \/ Confirms("RUNTIME_STOP", "PROVIDER_CLEANUP")
          \/ Fails("RUNTIME_STOP", "PROVIDER_CLEANUP")
      BY <1>16, <2>1 DEF StopRuntime
    <3> QED BY <1>15, <2>0, <3>1, <3>2
  <2>2. CASE "runtime" \notin attempted
    <3>1. Skip("PROVIDER_CLEANUP")
      BY <1>16, <2>2 DEF StopRuntime
    <3> QED BY <2>0, <2>2, <3>1, QuietSteps DEF Skip
  <2> QED BY <2>1, <2>2
<1>17. CASE Cleanup
  <2>0. deployPc = "PROVIDER_CLEANUP" /\ attempted' = attempted /\ primary' = primary
    BY <1>17 DEF Cleanup
  <2>1. CASE "provider" \in attempted
    <3>1. deployPc \in Owed
      BY <2>0, <2>1 DEF Owed
    <3>2. \/ Confirms("PROVIDER_CLEANUP", "PROVIDER_FINAL_CONFIRMATION")
          \/ Fails("PROVIDER_CLEANUP", "PROVIDER_FINAL_CONFIRMATION")
      BY <1>17, <2>1 DEF Cleanup
    <3> QED BY <1>15, <2>0, <3>1, <3>2
  <2>2. CASE "provider" \notin attempted
    <3>1. Skip("conclude")
      BY <1>17, <2>2 DEF Cleanup
    <3> QED BY <2>0, <2>2, <3>1, QuietSteps DEF Skip
  <2> QED BY <2>1, <2>2
<1>18. CASE FinalConfirmation
  <2>0. /\ deployPc = "PROVIDER_FINAL_CONFIRMATION"
        /\ attempted' = attempted /\ primary' = primary
    BY <1>18 DEF FinalConfirmation
  <2>1. deployPc \in Owed
    BY <2>0 DEF Owed, TraceIInv, TraceShows, OwedIsShown
  <2>2. \/ Confirms("PROVIDER_FINAL_CONFIRMATION", "conclude")
        \/ Fails("PROVIDER_FINAL_CONFIRMATION", "conclude")
    BY <1>18 DEF FinalConfirmation
  <2> QED BY <1>15, <2>0, <2>1, <2>2
<1>19. CASE Conclude
  <2>1. /\ trace' = trace /\ cleanup' = cleanup /\ attempted' = attempted
        /\ unconfirmed' = unconfirmed /\ primary' = primary /\ deployPc = "conclude"
        /\ deployPc' = "raised" \/ deployPc' = "done"
        /\ deployPc' = "done" => primary # "unhandled"
    BY <1>19 DEF Conclude, TraceIInv, DeployIInv, FailureHasCode
  <2> QED BY <2>1, QuietSteps
<1>20. CASE InterruptBetween
  <2>1. /\ deployPc' = "RUNTIME_STOP" /\ primary' = "INTERRUPTED" /\ attempted' = attempted
        /\ cleanup' = cleanup /\ unconfirmed' = unconfirmed
        /\ deployPc \in ForwardPhases \cup {"RUNTIME_STOP"}
        /\ \/ trace' = trace
           \/ deployPc \in ForwardPhases /\ RecordPhase(deployPc, "INTERRUPTED")
    BY <1>20 DEF InterruptBetween
  <2>2. CASE deployPc \in ForwardPhases
    BY <1>0, <1>2, <1>4, <2>1, <2>2, ForwardFails
  <2>3. CASE deployPc = "RUNTIME_STOP"
    <3>1. RecordedInOrder' /\ OwedIsShown' /\ CauseIsFirst' /\ CleanupErrorIsFirst'
      BY <1>0, <2>1, <2>3, ForwardSteps
    <3> QED BY <1>4, <2>1, <3>1 DEF TraceShows, NothingIsSkipped
  <2> QED BY <2>1, <2>2, <2>3
<1>21. CASE InterruptKeeping
  <2>1. /\ deployPc' = "RUNTIME_STOP" /\ primary' = "INTERRUPTED" /\ attempted' = attempted
        /\ cleanup' = cleanup /\ unconfirmed' = unconfirmed
        /\ deployPc \in {"keep_provider", "keep_runtime"}
        /\ \/ trace' = trace
           \/ \E phase \in ForwardPhases :
                RecordPhase(phase, "none") \/ RecordPhase(phase, "INTERRUPTED")
    BY <1>21 DEF InterruptKeeping, ForwardPhases
  <2>2. CASE trace' = trace
    <3>1. "VALIDATION" \in ForwardPhases
      BY DEF ForwardPhases
    <3> QED BY <1>0, <1>4, <2>1, <2>2, <3>1, ForwardFails
  <2>3. ASSUME NEW phase \in ForwardPhases,
               RecordPhase(phase, "none") \/ RecordPhase(phase, "INTERRUPTED")
        PROVE  TraceShows'
    BY <1>0, <1>2, <1>4, <2>1, <2>3, ForwardFails
  <2> QED BY <2>1, <2>2, <2>3
<1>22. CASE InterruptHandler
  <2>1. /\ deployPc = "RUNTIME_STOP" /\ deployPc' = deployPc /\ primary' = "unhandled"
        /\ trace' = trace /\ attempted' = attempted
        /\ cleanup' = cleanup /\ unconfirmed' = unconfirmed
    BY <1>22 DEF InterruptHandler
  <2>2. RecordedInOrder' /\ OwedIsShown' /\ CauseIsFirst' /\ CleanupErrorIsFirst'
    BY <1>0, <2>1, ForwardSteps
  <2> QED BY <1>4, <2>1, <2>2 DEF TraceShows, NothingIsSkipped
<1>23. CASE InterruptCleanup
  BY <1>23, QuietSteps DEF InterruptCleanup
<1>24. CASE CancelDeployment \/ Vanish \/ UNCHANGED deployVars
  <2>1. UNCHANGED <<deployPc, trace, attempted, primary, cleanup, unconfirmed>>
    BY <1>24 DEF CancelDeployment, Vanish, deployVars
  <2> QED
    BY <2>1
       DEF TraceIInv, TraceShows, StartsOnProvider, RecordedInOrder, OwedIsShown, Shown, Owed,
           CauseIsFirst, ForwardFailed, CleanupErrorIsFirst, CleanupFailed, NothingIsSkipped,
           Reached, Passed
<1> QED
  BY <1>5, <1>6, <1>9, <1>10, <1>11, <1>12, <1>13, <1>14, <1>16, <1>17, <1>18, <1>19, <1>20,
     <1>21, <1>22, <1>23, <1>24
     DEF DeployNext

LEMMA TraceInitEstablishes == DeployInit => TraceIInv
<1> SUFFICES ASSUME DeployInit PROVE TraceIInv
  OBVIOUS
<1>1. /\ trace = << >> /\ Len(trace) = 0 /\ DOMAIN trace = {}
      /\ deployPc = "VALIDATION" /\ attempted = {} /\ unconfirmed = {}
      /\ primary = "none" /\ cleanup = "none"
  BY DEF DeployInit
<1>2. Passed = 0
  BY <1>1 DEF Passed
<1>3. DeployIInv
  BY DeployInitEstablishes
<1>4. Owed = {}
  BY <1>1 DEF Owed
<1> QED
  BY <1>1, <1>2, <1>3, <1>4
     DEF TraceIInv, TraceShows, StartsOnProvider, RecordedInOrder, OwedIsShown, CauseIsFirst,
         CleanupErrorIsFirst, NothingIsSkipped

LEMMA TraceInvariance == DeploySpec => []TraceIInv
<1>1. TraceIInv /\ [DeployNext]_deployVars => TraceIInv'
  BY DeployStepPreserves, TraceSteps DEF TraceIInv
<1> QED
  BY TraceInitEstablishes, <1>1, PTL DEF DeploySpec

(* A returned outcome accounts for every cleanup phase that was owed to    *)
(* what was attempted, and for no other: each is recorded at most once, in *)
(* order and after the forward phases, and it is a success or reported as  *)
(* unconfirmed, wherever an interrupt may have cut a phase short.          *)
THEOREM AttemptedStaysReleased == DeploySpec => []AttemptedIsReleased
<1>1. ASSUME TraceIInv, deployPc = "done" PROVE AttemptedIsReleased
  <2>1. Reached = 4 /\ deployPc # "raised" /\ Owed \subseteq CleanupPhases
    BY <1>1 DEF Reached, Ahead, ForwardPhases, Owed, CleanupPhases
  <2>2. \A phase \in Owed : CleanupRank(phase) < 4
    BY <2>1, Ranks
  <2> QED
    BY <1>1, <2>1, <2>2
       DEF TraceIInv, TraceShows, RecordedInOrder, OwedIsShown, Shown, AttemptedIsReleased
<1>2. TraceIInv => AttemptedIsReleased
  BY <1>1 DEF AttemptedIsReleased
<1> QED
  BY TraceInvariance, <1>2, PTL

-----------------------------------------------------------------------------
LEMMA LeastExists ==
  ASSUME NEW S, S \subseteq Nat, S # {}
  PROVE  \E i \in S : \A j \in S : i <= j
<1>1. PICK i \in S : \A j \in S : ~(<<j, i>> \in OpToRel(<, Nat))
  BY NatLessThanWellFounded, WFMin
<1>2. \A j \in S : ~(j < i)
  BY <1>1 DEF OpToRel
<1> QED BY <1>2

LEMMA FirstCleanupFailure ==
  ASSUME TraceIInv
  PROVE  cleanup \in {FirstFailure(CleanupPhases), "INTERRUPTED"}
<1> DEFINE failures ==
      {i \in DOMAIN trace : trace[i].phase \in CleanupPhases /\ Failed(trace[i])}
<1> DEFINE First == CHOOSE i \in failures : \A j \in failures : i <= j
<1>4. FirstFailure(CleanupPhases) = IF failures = {} THEN "none" ELSE trace[First].code
  BY DEF FirstFailure
<1>1. DOMAIN trace \subseteq Nat
  BY DEF TraceIInv, DeployIInv, DeployTypeOK
<1>2. CASE cleanup = "none"
  <2>1. unconfirmed = {}
    BY <1>2 DEF TraceIInv, DeployIInv, FailureHasCode
  <2>2. failures = {}
    BY <2>1 DEF TraceIInv, TraceShows, CleanupErrorIsFirst, CleanupFailed
  <2> QED BY <1>2, <1>4, <2>2
<1>3. CASE cleanup \notin {"none", "INTERRUPTED"}
  <2>1. PICK k \in DOMAIN trace :
          /\ CleanupFailed(k) /\ trace[k].code = cleanup
          /\ \A j \in DOMAIN trace : j < k => ~CleanupFailed(j)
    BY <1>3 DEF TraceIInv, TraceShows, CleanupErrorIsFirst
  <2>2. k \in failures /\ \A j \in failures : k <= j
    BY <1>1, <2>1 DEF CleanupFailed
  <2>3. First = k
    <3> HIDE DEF failures
    <3>1. failures \subseteq Nat
      BY <1>1 DEF failures
    <3>2. \E i \in failures : \A j \in failures : i <= j
      BY <2>2
    <3>3. First \in failures /\ \A j \in failures : First <= j
      BY <3>2
    <3> HIDE DEF First
    <3> QED BY <2>2, <3>1, <3>3
  <2>4. failures # {}
    BY <2>2
  <2> HIDE DEF failures, First
  <2> QED BY <1>4, <2>1, <2>3, <2>4
<1> QED BY <1>2, <1>3

LEMMA FirstForwardFailure ==
  ASSUME TraceIInv, primary # "unhandled"
  PROVE  primary \in {FirstFailure(ForwardPhases), "INTERRUPTED"}
<1> DEFINE failures ==
      {i \in DOMAIN trace : trace[i].phase \in ForwardPhases /\ Failed(trace[i])}
<1> DEFINE First == CHOOSE i \in failures : \A j \in failures : i <= j
<1>4. FirstFailure(ForwardPhases) = IF failures = {} THEN "none" ELSE trace[First].code
  BY DEF FirstFailure
<1>1. failures \subseteq Nat
  BY DEF TraceIInv, DeployIInv, DeployTypeOK
<1>5. \A i \in failures : trace[i].code # "none" /\ primary \in {trace[i].code, "INTERRUPTED"}
  BY DEF TraceIInv, TraceShows, CauseIsFirst, ForwardFailed, Failed
<1>6. primary \notin {"none", "INTERRUPTED"} => failures # {}
  BY DEF TraceIInv, TraceShows, CauseIsFirst, ForwardFailed
<1> HIDE DEF failures
<1>2. CASE failures = {}
  BY <1>2, <1>4, <1>6
<1>3. CASE failures # {}
  <2>1. First \in failures
    BY <1>1, <1>3, LeastExists
  <2> HIDE DEF First
  <2> QED BY <1>3, <1>4, <1>5, <2>1
<1> QED BY <1>2, <1>3

LEMMA SuccessIsTheWholeTrace ==
  ASSUME TraceIInv, deployPc = "done", cleanup = "none", primary = "none"
  PROVE  SuccessIsComplete
<1>1. Passed = 8 /\ deployPc # "raised"
  BY DEF Passed
<1>2. Len(trace) = 8 /\ \A i \in 1..8 : trace[i].phase = WholeOrder[i]
  BY <1>1 DEF TraceIInv, TraceShows, NothingIsSkipped
<1>3. trace \in Seq(PhaseEvent) /\ DOMAIN trace = 1..8
  BY <1>2 DEF TraceIInv, DeployIInv, DeployTypeOK
<1>4. [i \in 1..8 |-> trace[i].phase] =
        <<"VALIDATION", "PROVIDER_ACQUISITION", "RUNTIME_START", "RUNTIME_READINESS",
          "BENCHMARK", "RUNTIME_STOP", "PROVIDER_CLEANUP", "PROVIDER_FINAL_CONFIRMATION">>
  BY <1>2 DEF WholeOrder
<1>5. \A i \in 1..8 : ~Failed(trace[i])
  <2>1. \A i \in 1..8 : trace[i].phase \in ForwardPhases \cup CleanupPhases
    BY <1>3, EventsAreTyped, PhasesDiffer
  <2>2. \A i \in 1..8 : trace[i].phase \in CleanupPhases => ~Failed(trace[i])
    <3>1. unconfirmed = {}
      BY DEF TraceIInv, DeployIInv, FailureHasCode
    <3> QED BY <1>3, <3>1 DEF TraceIInv, TraceShows, CleanupErrorIsFirst, CleanupFailed
  <2>3. \A i \in 1..8 : trace[i].phase \in ForwardPhases => ~Failed(trace[i])
    BY <1>3 DEF TraceIInv, TraceShows, CauseIsFirst, ForwardFailed, Failed
  <2> QED BY <2>1, <2>2, <2>3
<1> QED BY <1>3, <1>4, <1>5 DEF SuccessIsComplete

(* The outcome of a lifecycle tells what its trace tells, or that it was   *)
(* interrupted: the cleanup error, the original cause, what is reported as *)
(* orphaned, and a success only if nothing was skipped.                    *)
THEOREM OutcomesMatchTraces == DeploySpec => []OutcomeMatchesTrace
<1>1. ASSUME TraceIInv, deployPc = "done" PROVE OutcomeMatchesTrace
  <2>1. Orphaned => OutcomeStatus = "FAILED"
    BY <1>1 DEF Orphaned, OutcomeStatus, TraceIInv, DeployIInv, FailureHasCode
  <2>2. OutcomeStatus = "SUCCEEDED" => cleanup = "none" /\ primary = "none"
    BY DEF OutcomeStatus, StatusForError
  <2>3. SuccessIsComplete
    <3>1. CASE OutcomeStatus = "SUCCEEDED"
      BY <1>1, <2>2, <3>1, SuccessIsTheWholeTrace
    <3> QED BY <3>1 DEF SuccessIsComplete
  <2>4. cleanup # "none" <=> Orphaned
    BY <1>1 DEF Orphaned, TraceIInv, TraceShows, CleanupErrorIsFirst, DeployIInv, FailureHasCode
  <2>5. \A i \in DOMAIN trace :
          trace[i].phase \in CleanupPhases /\ Failed(trace[i]) => trace[i].phase \in unconfirmed
    BY <1>1 DEF TraceIInv, TraceShows, CleanupErrorIsFirst, CleanupFailed
  <2>6. primary # "unhandled"
    BY <1>1 DEF TraceIInv, TraceShows, CauseIsFirst
  <2> QED
    BY <1>1, <2>1, <2>3, <2>4, <2>5, <2>6, FirstCleanupFailure, FirstForwardFailure
       DEF OutcomeMatchesTrace
<1>2. TraceIInv => OutcomeMatchesTrace
  BY <1>1 DEF OutcomeMatchesTrace
<1> QED
  BY TraceInvariance, <1>2, PTL

-----------------------------------------------------------------------------
(* The cancellation token.                                                 *)

(* The frames that hold the token's lock: a request once it has taken it.  *)
Locking(frame) == frame.op = "request" /\ frame.at # "locking"
Publishing == {"signalling", "notifying", "unlocking"}

(* A request inside the lock is alone there; it has found no notice when   *)
(* it publishes its own, and the notice is its own until it returns.       *)
InsideAlone ==
  \A t \in Thread : \A i \in DOMAIN stack[t] :
    Locking(stack[t][i]) =>
      /\ tokenLock = t
      /\ \A j \in DOMAIN stack[t] : Locking(stack[t][j]) => j = i
      /\ stack[t][i].at = "publishing" => notice = NoNotice
      /\ stack[t][i].at \in Publishing => notice = stack[t][i].reason /\ won = << >>

TokenIInv == TokenTypeOK /\ InsideAlone /\ FirstWriterWins

LEMMA FramesHaveReasons ==
  /\ \A frame \in Frame : frame.op = "request" =>
       /\ frame.reason \in Reasons
       /\ \A at \in RequestSteps :
            /\ [frame EXCEPT !.at = at] \in Frame
            /\ [frame EXCEPT !.at = at].op = "request"
            /\ [frame EXCEPT !.at = at].at = at
            /\ [frame EXCEPT !.at = at].reason = frame.reason
  /\ \A frame \in Frame : frame.op = "wait" =>
       \A at \in WaitSteps :
         /\ [frame EXCEPT !.at = at] \in Frame
         /\ [frame EXCEPT !.at = at].op = "wait"
  /\ \A reason \in Reasons : Request(reason) \in Frame
  /\ "none" \notin Reasons
BY DEF Frame, Reasons, RequestSteps, WaitSteps, Request

LEMMA Moved ==
  ASSUME stack \in [Thread -> Seq(Frame)], NEW t \in Thread, stack[t] # << >>,
         NEW at, [stack[t][1] EXCEPT !.at = at] \in Frame, Move(t, at)
  PROVE  /\ stack' \in [Thread -> Seq(Frame)]
         /\ \A u \in Thread : u # t => stack'[u] = stack[u]
         /\ DOMAIN stack'[t] = DOMAIN stack[t] /\ 1 \in DOMAIN stack[t]
         /\ stack'[t][1] = [stack[t][1] EXCEPT !.at = at]
         /\ \A i \in DOMAIN stack[t] : i # 1 => stack'[t][i] = stack[t][i]
<1> DEFINE s == stack[t]
           r == [s EXCEPT ![1] = [s[1] EXCEPT !.at = at]]
<1>1. stack' = [stack EXCEPT ![t] = r]
  BY DEF Move
<1>2. s \in Seq(Frame) /\ s # << >>
  OBVIOUS
<1>3. 1 \in DOMAIN s /\ [s[1] EXCEPT !.at = at] \in Frame
  BY <1>2
<1>4. /\ r \in Seq(Frame) /\ DOMAIN r = DOMAIN s /\ r[1] = [s[1] EXCEPT !.at = at]
      /\ \A i \in DOMAIN s : i # 1 => r[i] = s[i]
  BY <1>2, <1>3
<1>5. stack'[t] = r /\ \A u \in Thread : u # t => stack'[u] = stack[u]
  BY <1>1
<1>6. stack' \in [Thread -> Seq(Frame)]
  BY <1>1, <1>4
<1> QED BY <1>3, <1>4, <1>5, <1>6

LEMMA Popped ==
  ASSUME stack \in [Thread -> Seq(Frame)], NEW t \in Thread, stack[t] # << >>, Pop(t)
  PROVE  /\ stack' \in [Thread -> Seq(Frame)]
         /\ \A u \in Thread : u # t => stack'[u] = stack[u]
         /\ \A i \in DOMAIN stack'[t] :
              i + 1 \in DOMAIN stack[t] /\ stack'[t][i] = stack[t][i + 1] /\ i \in Nat \ {0}
         /\ 1 \in DOMAIN stack[t] /\ Head(stack[t]) = stack[t][1]
<1> DEFINE s == stack[t]
<1>1. s \in Seq(Frame) /\ s # << >>
  OBVIOUS
<1>2. /\ Tail(s) \in Seq(Frame) /\ 1 \in DOMAIN s /\ Head(s) = s[1]
      /\ \A i \in DOMAIN Tail(s) :
           i + 1 \in DOMAIN s /\ Tail(s)[i] = s[i + 1] /\ i \in Nat \ {0}
  BY <1>1
<1>3. stack' = [stack EXCEPT ![t] = Tail(s)]
  BY DEF Pop
<1> QED BY <1>2, <1>3

LEMMA Pushed ==
  ASSUME stack \in [Thread -> Seq(Frame)], NEW t \in Thread, NEW frame \in Frame,
         Push(t, frame)
  PROVE  /\ stack' \in [Thread -> Seq(Frame)]
         /\ \A u \in Thread : u # t => stack'[u] = stack[u]
         /\ stack'[t][1] = frame
         /\ \A i \in DOMAIN stack'[t] : i # 1 =>
              /\ i - 1 \in DOMAIN stack[t] /\ stack'[t][i] = stack[t][i - 1] /\ i \in Nat
<1> DEFINE s == stack[t]
           f == <<frame>>
<1>1. s \in Seq(Frame) /\ f \in Seq(Frame) /\ Len(f) = 1 /\ f[1] = frame
  OBVIOUS
<1>2. /\ f \o s \in Seq(Frame) /\ Len(f \o s) = Len(f) + Len(s)
      /\ \A i \in 1..(Len(f) + Len(s)) :
           (f \o s)[i] = IF i <= Len(f) THEN f[i] ELSE s[i - Len(f)]
  <2> HIDE DEF f, s
  <2> QED BY <1>1, ConcatProperties, Zenon
<1>3. stack' = [stack EXCEPT ![t] = f \o s]
  BY DEF Push
<1>4. stack' \in [Thread -> Seq(Frame)] /\ stack'[t] = f \o s
      /\ \A u \in Thread : u # t => stack'[u] = stack[u]
  BY <1>2, <1>3
<1>5. /\ (f \o s)[1] = frame
      /\ \A i \in DOMAIN (f \o s) : i # 1 =>
           i - 1 \in DOMAIN s /\ (f \o s)[i] = s[i - 1] /\ i \in Nat
  <2> HIDE DEF f, s
  <2>1. Len(s) \in Nat /\ DOMAIN s = 1..Len(s) /\ DOMAIN (f \o s) = 1..(1 + Len(s))
    BY <1>1, <1>2
  <2> QED BY <1>1, <1>2, <2>1
<1> QED BY <1>4, <1>5

(* The locking frames of every thread are where they were, in its stack as *)
(* it was shifted by the calls that came or went.                          *)
LEMMA Carried ==
  ASSUME InsideAlone, stack' \in [Thread -> Seq(Frame)], UNCHANGED <<notice, tokenLock, won>>,
         \A u \in Thread : \E d \in Int : \A i \in DOMAIN stack'[u] :
           Locking(stack'[u][i]) =>
             i + d \in DOMAIN stack[u] /\ stack'[u][i] = stack[u][i + d]
  PROVE  InsideAlone'
<1> SUFFICES ASSUME NEW u \in Thread, NEW i \in DOMAIN stack'[u], Locking(stack'[u][i])
             PROVE  /\ tokenLock = u
                    /\ \A j \in DOMAIN stack'[u] : Locking(stack'[u][j]) => j = i
                    /\ stack'[u][i].at = "publishing" => notice = NoNotice
                    /\ stack'[u][i].at \in Publishing =>
                         notice = stack'[u][i].reason /\ won = << >>
  BY DEF InsideAlone, Locking
<1>1. PICK d \in Int : \A k \in DOMAIN stack'[u] :
        Locking(stack'[u][k]) => k + d \in DOMAIN stack[u] /\ stack'[u][k] = stack[u][k + d]
  OBVIOUS
<1>2. i + d \in DOMAIN stack[u] /\ stack'[u][i] = stack[u][i + d]
  BY <1>1
<1>3. /\ tokenLock = u
      /\ \A j \in DOMAIN stack[u] : Locking(stack[u][j]) => j = i + d
      /\ stack'[u][i].at = "publishing" => notice = NoNotice
      /\ stack'[u][i].at \in Publishing => notice = stack'[u][i].reason /\ won = << >>
  BY <1>2 DEF InsideAlone
<1>4. ASSUME NEW j \in DOMAIN stack'[u], Locking(stack'[u][j])
      PROVE  j = i
  <2>1. j + d = i + d
    BY <1>1, <1>3, <1>4
  <2>2. i \in Nat /\ j \in Nat
    OBVIOUS
  <2> QED BY <2>1, <2>2
<1> QED BY <1>3, <1>4

(* Calls that do not hold the lock come and go around the one that does.   *)
LEMMA OthersComeAndGo ==
  ASSUME TokenIInv, NEW t \in Thread, UNCHANGED <<notice, tokenLock, won, flag>>,
         signals' \in 0..MaxSignals, cond' \in Thread \cup {NoThread},
         \/ \E frame \in Frame : ~Locking(frame) /\ Push(t, frame)
         \/ stack[t] # << >> /\ Pop(t)
         \/ /\ stack[t] # << >> /\ ~Locking(stack[t][1])
            /\ \E at \in WaitSteps : Move(t, at) /\ stack[t][1].op = "wait"
  PROVE  TokenIInv'
<1> USE DEF TokenIInv, TokenTypeOK
<1>1. stack \in [Thread -> Seq(Frame)] /\ TokenTypeOK
  OBVIOUS
<1>2. FirstWriterWins'
  BY DEF FirstWriterWins
<1>3. CASE \E frame \in Frame : ~Locking(frame) /\ Push(t, frame)
  <2>1. PICK frame \in Frame : ~Locking(frame) /\ Push(t, frame)
    BY <1>3
  <2>2. /\ stack' \in [Thread -> Seq(Frame)]
        /\ \A u \in Thread : u # t => stack'[u] = stack[u]
        /\ stack'[t][1] = frame
        /\ \A i \in DOMAIN stack'[t] : i # 1 =>
             i - 1 \in DOMAIN stack[t] /\ stack'[t][i] = stack[t][i - 1] /\ i \in Nat
    BY <1>1, <2>1, Pushed
  <2>3. ASSUME NEW u \in Thread
        PROVE  \E d \in Int : \A i \in DOMAIN stack'[u] :
                 Locking(stack'[u][i]) =>
                   i + d \in DOMAIN stack[u] /\ stack'[u][i] = stack[u][i + d]
    <3>1. CASE u = t
      <4> WITNESS -1 \in Int
      <4> QED BY <2>1, <2>2, <3>1
    <3>2. CASE u # t
      <4> WITNESS 0 \in Int
      <4> QED BY <1>1, <2>2, <3>2
    <3> QED BY <3>1, <3>2
  <2>4. InsideAlone'
    BY <2>2, <2>3, Carried
  <2> QED BY <1>2, <2>2, <2>4
<1>4. CASE stack[t] # << >> /\ Pop(t)
  <2>1. /\ stack' \in [Thread -> Seq(Frame)]
        /\ \A u \in Thread : u # t => stack'[u] = stack[u]
        /\ \A i \in DOMAIN stack'[t] :
             i + 1 \in DOMAIN stack[t] /\ stack'[t][i] = stack[t][i + 1] /\ i \in Nat \ {0}
    BY <1>1, <1>4, Popped
  <2>2. ASSUME NEW u \in Thread
        PROVE  \E d \in Int : \A i \in DOMAIN stack'[u] :
                 Locking(stack'[u][i]) =>
                   i + d \in DOMAIN stack[u] /\ stack'[u][i] = stack[u][i + d]
    <3>1. CASE u = t
      <4> WITNESS 1 \in Int
      <4> QED BY <2>1, <3>1
    <3>2. CASE u # t
      <4> WITNESS 0 \in Int
      <4> QED BY <1>1, <2>1, <3>2
    <3> QED BY <3>1, <3>2
  <2>3. InsideAlone'
    BY <2>1, <2>2, Carried
  <2> QED BY <1>2, <2>1, <2>3
<1>5. CASE /\ stack[t] # << >> /\ ~Locking(stack[t][1])
           /\ \E at \in WaitSteps : Move(t, at) /\ stack[t][1].op = "wait"
  <2>1. PICK at \in WaitSteps : Move(t, at)
    BY <1>5
  <2>2. stack[t][1] \in Frame /\ stack[t][1].op = "wait"
    BY <1>1, <1>5
  <2>3. [stack[t][1] EXCEPT !.at = at] \in Frame /\ [stack[t][1] EXCEPT !.at = at].op = "wait"
    BY <2>2, FramesHaveReasons
  <2>4. /\ stack' \in [Thread -> Seq(Frame)]
        /\ \A u \in Thread : u # t => stack'[u] = stack[u]
        /\ DOMAIN stack'[t] = DOMAIN stack[t] /\ 1 \in DOMAIN stack[t]
        /\ stack'[t][1] = [stack[t][1] EXCEPT !.at = at]
        /\ \A i \in DOMAIN stack[t] : i # 1 => stack'[t][i] = stack[t][i]
    BY <1>1, <1>5, <2>1, <2>3, Moved
  <2>5. ~Locking(stack'[t][1])
    BY <2>3, <2>4 DEF Locking
  <2>6. ASSUME NEW u \in Thread
        PROVE  \E d \in Int : \A i \in DOMAIN stack'[u] :
                 Locking(stack'[u][i]) =>
                   i + d \in DOMAIN stack[u] /\ stack'[u][i] = stack[u][i + d]
    <3> WITNESS 0 \in Int
    <3>1. ASSUME NEW i \in DOMAIN stack'[u], Locking(stack'[u][i])
          PROVE  i \in DOMAIN stack[u] /\ stack'[u][i] = stack[u][i] /\ i \in Nat
      <4>1. CASE u = t
        <5>1. i \in DOMAIN stack[t] /\ i # 1
          BY <2>4, <2>5, <3>1, <4>1
        <5>2. stack'[t][i] = stack[t][i]
          BY <2>4, <5>1
        <5>3. stack[t] \in Seq(Frame)
          BY <1>1
        <5> QED BY <4>1, <5>1, <5>2, <5>3
      <4>2. CASE u # t
        <5>1. stack'[u] = stack[u] /\ stack[u] \in Seq(Frame)
          BY <1>1, <2>4, <4>2
        <5> QED BY <3>1, <5>1
      <4> QED BY <4>1, <4>2
    <3> QED BY <3>1
  <2>7. InsideAlone'
    BY <2>4, <2>6, Carried
  <2> QED BY <1>2, <2>4, <2>7
<1> QED BY <1>3, <1>4, <1>5

(* A request goes on inside the lock.                                      *)
LEMMA HolderGoesOn ==
  ASSUME TokenIInv, NEW t \in Thread, stack[t] # << >>, stack[t][1].op = "request",
         NEW at \in RequestSteps \ {"locking"}, Move(t, at), signals' = signals, won' = won,
         notice' \in Reasons \cup {NoNotice}, flag' \in BOOLEAN, tokenLock' = t,
         cond' \in Thread \cup {NoThread},
         Locking(stack[t][1]) \/ tokenLock = NoThread,
         at = "publishing" => notice' = NoNotice,
         at \in Publishing => notice' = stack[t][1].reason /\ won = << >>,
         FirstWriterWins'
  PROVE  TokenIInv'
<1> USE DEF TokenIInv, TokenTypeOK
<1>1. stack \in [Thread -> Seq(Frame)] /\ TokenTypeOK /\ stack[t][1] \in Frame
  OBVIOUS
<1> DEFINE g == [stack[t][1] EXCEPT !.at = at]
<1>2. g \in Frame /\ g.op = "request" /\ g.at = at /\ g.reason = stack[t][1].reason
  BY <1>1, FramesHaveReasons
<1>3. /\ stack' \in [Thread -> Seq(Frame)]
      /\ \A u \in Thread : u # t => stack'[u] = stack[u]
      /\ DOMAIN stack'[t] = DOMAIN stack[t] /\ 1 \in DOMAIN stack[t]
      /\ stack'[t][1] = g
      /\ \A i \in DOMAIN stack[t] : i # 1 => stack'[t][i] = stack[t][i]
  BY <1>1, <1>2, Moved
<1> HIDE DEF g
<1>4. \A u \in Thread : \A i \in DOMAIN stack[u] : Locking(stack[u][i]) => u = t /\ i = 1
  BY <1>3, TokenAssumption DEF InsideAlone
<1>5. \A u \in Thread : \A i \in DOMAIN stack'[u] : Locking(stack'[u][i]) => u = t /\ i = 1
  BY <1>3, <1>4 DEF Locking
<1>6. InsideAlone'
  BY <1>2, <1>3, <1>5 DEF InsideAlone, Locking
<1> QED BY <1>3, <1>6

(* A request leaves the lock.                                              *)
LEMMA HolderLeaves ==
  ASSUME TokenIInv, NEW t \in Thread, stack[t] # << >>, Locking(stack[t][1]), Pop(t),
         signals' = signals, won' \in Seq(Reasons), notice' = notice, flag' = flag,
         tokenLock' = NoThread, cond' = cond, FirstWriterWins'
  PROVE  TokenIInv'
<1> USE DEF TokenIInv, TokenTypeOK
<1>1. stack \in [Thread -> Seq(Frame)] /\ TokenTypeOK
  OBVIOUS
<1>2. /\ stack' \in [Thread -> Seq(Frame)]
      /\ \A u \in Thread : u # t => stack'[u] = stack[u]
      /\ \A i \in DOMAIN stack'[t] :
           i + 1 \in DOMAIN stack[t] /\ stack'[t][i] = stack[t][i + 1] /\ i \in Nat \ {0}
      /\ 1 \in DOMAIN stack[t]
  BY <1>1, Popped
<1>3. \A u \in Thread : \A i \in DOMAIN stack[u] : Locking(stack[u][i]) => u = t /\ i = 1
  BY <1>2 DEF InsideAlone
<1>4. ASSUME NEW u \in Thread, NEW i \in DOMAIN stack'[u], Locking(stack'[u][i])
      PROVE  FALSE
  <2>1. CASE u = t
    <3>1. i + 1 \in DOMAIN stack[t] /\ Locking(stack[t][i + 1]) /\ i \in Nat \ {0}
      BY <1>2, <1>4, <2>1
    <3>2. i + 1 = 1
      BY <1>3, <3>1
    <3> QED BY <3>1, <3>2
  <2>2. CASE u # t
    BY <1>2, <1>3, <1>4, <2>2
  <2> QED BY <2>1, <2>2
<1>5. InsideAlone'
  BY <1>4 DEF InsideAlone, Locking
<1> QED BY <1>2, <1>5

LEMMA TokenInitEstablishes == TokenInit => TokenIInv
<1> SUFFICES ASSUME TokenInit PROVE TokenIInv
  OBVIOUS
<1>1. \A t \in Thread : stack[t] = << >> /\ DOMAIN stack[t] = {}
  BY DEF TokenInit
<1>2. TokenTypeOK
  <2>1. stack \in [Thread -> Seq(Frame)]
    <3>1. << >> \in Seq(Frame)
      OBVIOUS
    <3> QED BY <3>1 DEF TokenInit
  <2>2. won \in Seq(Reasons) /\ signals \in 0..MaxSignals
    BY TokenAssumption DEF TokenInit
  <2> QED BY <2>1, <2>2 DEF TokenInit, TokenTypeOK
<1>3. InsideAlone
  BY <1>1 DEF InsideAlone
<1>4. FirstWriterWins
  BY DEF TokenInit, FirstWriterWins
<1> QED BY <1>2, <1>3, <1>4 DEF TokenIInv

LEMMA TokenStepPreserves == TokenIInv /\ [TokenNext]_tokenVars => TokenIInv'
<1> SUFFICES ASSUME TokenIInv, [TokenNext]_tokenVars PROVE TokenIInv'
  OBVIOUS
<1>1. TokenTypeOK /\ stack \in [Thread -> Seq(Frame)]
  BY DEF TokenIInv, TokenTypeOK
<1>2. \A t \in Thread : stack[t] # << >> =>
        /\ Head(stack[t]) = stack[t][1] /\ stack[t][1] \in Frame /\ 1 \in DOMAIN stack[t]
  BY <1>1
<1>3. ASSUME NEW t \in Thread, stack[t] # << >>, Locking(stack[t][1])
      PROVE  /\ tokenLock = t
             /\ stack[t][1].at = "publishing" => notice = NoNotice
             /\ stack[t][1].at \in Publishing => notice = stack[t][1].reason /\ won = << >>
  BY <1>2, <1>3 DEF TokenIInv, InsideAlone
<1>4. ASSUME NEW t \in Thread, LockToken(t) PROVE TokenIInv'
  BY <1>1, <1>2, <1>4, HolderGoesOn
     DEF LockToken, In, RequestSteps, Publishing, TokenTypeOK, FirstWriterWins, TokenIInv
<1>5. ASSUME NEW t \in Thread, FindNone(t) PROVE TokenIInv'
  BY <1>1, <1>2, <1>3, <1>5, HolderGoesOn
     DEF FindNone, In, RequestSteps, Publishing, TokenTypeOK, FirstWriterWins, TokenIInv, Locking
<1>6. ASSUME NEW t \in Thread, PublishNotice(t) PROVE TokenIInv'
  <2>1. /\ stack[t] # << >> /\ stack[t][1].op = "request" /\ Locking(stack[t][1])
        /\ tokenLock = t /\ notice = NoNotice /\ notice' = stack[t][1].reason
        /\ stack[t][1].reason \in Reasons
    BY <1>2, <1>3, <1>6, FramesHaveReasons DEF PublishNotice, In, Locking
  <2>2. won = << >> /\ flag = FALSE
    BY <1>1, <2>1, FramesHaveReasons DEF TokenIInv, TokenTypeOK, FirstWriterWins, NoNotice
  <2>3. FirstWriterWins'
    BY <1>6, <2>2 DEF PublishNotice, FirstWriterWins
  <2> QED
    BY <1>1, <1>6, <2>1, <2>2, <2>3, HolderGoesOn
       DEF PublishNotice, RequestSteps, Publishing, TokenTypeOK
<1>7. ASSUME NEW t \in Thread, EnterSet(t) PROVE TokenIInv'
  BY <1>1, <1>2, <1>3, <1>7, HolderGoesOn
     DEF EnterSet, In, RequestSteps, Publishing, TokenTypeOK, FirstWriterWins, TokenIInv, Locking
<1>8. ASSUME NEW t \in Thread, RaiseFlag(t) PROVE TokenIInv'
  <2>1. /\ stack[t] # << >> /\ stack[t][1].op = "request" /\ Locking(stack[t][1])
        /\ tokenLock = t /\ notice = stack[t][1].reason /\ won = << >>
        /\ stack[t][1].reason \in Reasons
    BY <1>2, <1>3, <1>8, FramesHaveReasons DEF RaiseFlag, In, Locking, Publishing
  <2>2. FirstWriterWins'
    BY <1>8, <2>1, FramesHaveReasons DEF RaiseFlag, FirstWriterWins, NoNotice
  <2> QED
    BY <1>1, <1>8, <2>1, <2>2, HolderGoesOn
       DEF RaiseFlag, RequestSteps, Publishing, TokenTypeOK
<1>9. ASSUME NEW t \in Thread, RefuseLater(t) PROVE TokenIInv'
  BY <1>1, <1>2, <1>9, HolderLeaves
     DEF RefuseLater, In, TokenTypeOK, FirstWriterWins, TokenIInv, Locking
<1>10. ASSUME NEW t \in Thread, FinishRequest(t) PROVE TokenIInv'
  <2>1. /\ stack[t] # << >> /\ Locking(stack[t][1]) /\ won = << >>
        /\ notice = stack[t][1].reason /\ notice \in Reasons
    BY <1>1, <1>2, <1>3, <1>10, FramesHaveReasons DEF FinishRequest, In, Locking, Publishing
  <2>2. won' = <<notice>>
    BY <1>2, <1>10, <2>1 DEF FinishRequest
  <2> QED
    BY <1>1, <1>10, <2>1, <2>2, HolderLeaves
       DEF FinishRequest, TokenTypeOK, FirstWriterWins, TokenIInv
<1>11. ASSUME NEW t \in Thread,
              \/ ReadNotice(t) \/ EnterWait(t) \/ WaitReturns(t) \/ Sleep(t) \/ Wake(t)
              \/ TimeOut(t) \/ Reenter(t) \/ LeaveWait(t)
       PROVE  TokenIInv'
  <2>1. /\ UNCHANGED <<notice, tokenLock, won, flag, signals>>
        /\ cond' \in Thread \cup {NoThread} /\ stack[t] # << >>
    BY <1>1, <1>11
       DEF TokenTypeOK, ReadNotice, EnterWait, WaitReturns, Sleep, Wake, TimeOut, Reenter,
           LeaveWait, In
  <2>2. \/ Pop(t)
        \/ \E at \in WaitSteps : Move(t, at) /\ stack[t][1].op = "wait"
    BY <1>2, <1>11
       DEF ReadNotice, EnterWait, WaitReturns, Sleep, Wake, TimeOut, Reenter, LeaveWait, In,
           WaitSteps
  <2> QED BY <1>1, <2>1, <2>2, OthersComeAndGo DEF TokenTypeOK, Locking
<1>12. ASSUME NEW t \in Thread, NEW frame \in Frame, ~Locking(frame), Push(t, frame),
              UNCHANGED <<notice, flag, tokenLock, cond, won>>, signals' \in 0..MaxSignals
       PROVE  TokenIInv'
  BY <1>1, <1>12, OthersComeAndGo DEF TokenTypeOK
<1>13. \A reason \in Reasons : Request(reason) \in Frame /\ ~Locking(Request(reason))
  BY FramesHaveReasons DEF Request, Locking
<1>14. ASSUME NEW t \in Thread, BeginRequest(t) \/ BeginNotice(t) \/ BeginWait(t)
       PROVE  TokenIInv'
  <2>1. \E frame \in Frame : ~Locking(frame) /\ Call(t, frame)
    BY <1>13, <1>14
       DEF BeginRequest, BeginNotice, BeginWait, Frame, WaitSteps, Locking, Reasons
  <2> QED BY <1>1, <1>12, <2>1 DEF Call, TokenTypeOK
<1>15. CASE DeliverSignal
  <2>1. signals' \in 0..MaxSignals
    BY <1>1, <1>15, TokenAssumption DEF DeliverSignal, TokenTypeOK
  <2> QED BY <1>12, <1>13, <1>15, <2>1, TokenAssumption DEF DeliverSignal, Reasons
<1>16. CASE UNCHANGED tokenVars
  BY <1>16 DEF tokenVars, TokenIInv, TokenTypeOK, InsideAlone, FirstWriterWins
<1> QED
  BY <1>4, <1>5, <1>6, <1>7, <1>8, <1>9, <1>10, <1>11, <1>14, <1>15, <1>16
     DEF TokenNext, Running, Acquiring

(* The calls on a token keep their shapes, whoever is interrupted in them. *)
THEOREM TokenTypeCorrect == TokenSpec => []TokenTypeOK
<1>1. TokenIInv => TokenTypeOK
  BY DEF TokenIInv
<1> QED
  BY TokenInitEstablishes, TokenStepPreserves, <1>1, PTL DEF TokenSpec

(* However many threads and signal handlers request cancellation, one of   *)
(* them is told that it did, and everybody finds its notice.               *)
THEOREM OneRequestWins == TokenSpec => []FirstWriterWins
<1>1. TokenIInv => FirstWriterWins
  BY DEF TokenIInv
<1> QED
  BY TokenInitEstablishes, TokenStepPreserves, <1>1, PTL DEF TokenSpec
=============================================================================
