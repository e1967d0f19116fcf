------------------------- MODULE LifecycleCoordinator -------------------------
(***************************************************************************)
(* LifecycleCoordinator.run (deployment/lifecycle.py): the forward phases  *)
(* of a deployment, the cleanup phases of its finally block, and the       *)
(* outcome it returns, around adapters that may leave a resource behind    *)
(* however a call ends.  A KeyboardInterrupt may arrive at any instant, of *)
(* a phase as well as between two, and another thread may request          *)
(* cancellation at any time.                                               *)
(***************************************************************************)
EXTENDS Sequences, Naturals

CONSTANT
  Findable  \* resources whose adapter can find them without their handle

Resource == {"provider", "runtime"}

ASSUME FindableAssumption == Findable \subseteq Resource

ForwardPhases == {"VALIDATION", "PROVIDER_ACQUISITION", "RUNTIME_START",
                  "RUNTIME_READINESS", "BENCHMARK"}
CleanupPhases == {"RUNTIME_STOP", "PROVIDER_CLEANUP",
                  "PROVIDER_FINAL_CONFIRMATION"}
LifecyclePhase == ForwardPhases \cup CleanupPhases

PhaseDefaultErrors ==
  [VALIDATION |-> "CAPABILITY_MISMATCH",
   PROVIDER_ACQUISITION |-> "PROVIDER_ACQUIRE_FAILED",
   RUNTIME_START |-> "RUNTIME_START_FAILED",
   RUNTIME_READINESS |-> "READINESS_FAILED",
   BENCHMARK |-> "BENCHMARK_FAILED",
   RUNTIME_STOP |-> "RUNTIME_STOP_FAILED",
   PROVIDER_CLEANUP |-> "PROVIDER_CLEANUP_FAILED",
   PROVIDER_FINAL_CONFIRMATION |-> "CLEANUP_UNCONFIRMED"]

(* What an operation can raise: an ordinary exception, a validation error  *)
(* with a code of its own ("REJECTED" stands for those), or the rest.      *)
Causes == {"Exception", "REJECTED", "CANCELLED", "INTERRUPTED",
           "BASE_EXCEPTION"}

ErrorCode(phase, cause) ==
  IF cause = "Exception" THEN PhaseDefaultErrors[phase] ELSE cause

(* The codes of a cleanup that fails: it raised, or its result was not an  *)
(* unqualified confirmation.                                               *)
CleanupCodes(phase) ==
  {ErrorCode(phase, cause) : cause \in Causes} \cup {"CLEANUP_UNCONFIRMED"}

LifecycleErrorCode ==
  {"CAPABILITY_MISMATCH", "PROVIDER_ACQUIRE_FAILED", "RUNTIME_START_FAILED",
   "READINESS_FAILED", "BENCHMARK_FAILED", "RUNTIME_STOP_FAILED",
   "PROVIDER_CLEANUP_FAILED", "CLEANUP_UNCONFIRMED"}
  \cup (Causes \ {"Exception"})

VARIABLES
  deployPc,           \* the phase about to run, or a step between two phases
  trace,        \* the phases recorded, each with its code ("none": success)
  attempted,    \* resources whose acquisition or start was attempted
  held,         \* resources whose handle the coordinator keeps
  live,         \* resources that exist, whether the coordinator knows or not
  deployToken,        \* "clear", or "requested" once cancellation is requested
  primary,      \* primary_error_code, or "unhandled": see InterruptHandler
  cleanup,      \* cleanup_error_code
  unconfirmed   \* cleanup phases that did not end in a confirmation

deployVars == <<deployPc, trace, attempted, held, live, deployToken, primary, cleanup,
          unconfirmed>>

DeploySteps == LifecyclePhase
         \cup {"keep_provider", "keep_runtime", "conclude", "done", "raised"}
PhaseEvent == [phase : LifecyclePhase, code : LifecycleErrorCode \cup {"none"}]

DeployTypeOK ==
  /\ deployPc \in DeploySteps
  /\ trace \in Seq(PhaseEvent)
  /\ attempted \subseteq Resource
  /\ held \subseteq attempted
  /\ live \subseteq attempted
  /\ deployToken \in {"clear", "requested"}
  /\ primary \in LifecycleErrorCode \cup {"none", "unhandled"}
  /\ cleanup \in LifecycleErrorCode \cup {"none"}
  /\ unconfirmed \subseteq CleanupPhases

DeployInit ==
  /\ deployPc = "VALIDATION"
  /\ trace = << >>
  /\ attempted = {} /\ held = {} /\ live = {}
  /\ deployToken = "clear"
  /\ primary = "none" /\ cleanup = "none"
  /\ unconfirmed = {}

-----------------------------------------------------------------------------
(* Forward phases.  Each records one event; a failed one goes to cleanup.  *)

RecordPhase(phase, code) == trace' = Append(trace, [phase |-> phase, code |-> code])

Succeed(phase, next) ==
  /\ RecordPhase(phase, "none")
  /\ deployPc' = next
  /\ UNCHANGED primary

(* An interrupt after the event is recorded takes the place of the error.  *)
FailPhase(phase, code) ==
  /\ RecordPhase(phase, code)
  /\ primary' \in {code, "INTERRUPTED"}
  /\ deployPc' = "RUNTIME_STOP"

FailsSomehow(phase) == \E cause \in Causes : FailPhase(phase, ErrorCode(phase, cause))

(* check_cancellation lets the phase go on. *)
EnterPhase(phase) == deployPc = phase /\ deployToken = "clear"

(* check_cancellation raises. *)
PhaseCancelled ==
  /\ deployPc \in ForwardPhases
  /\ deployToken = "requested"
  /\ FailPhase(deployPc, "CANCELLED")
  /\ UNCHANGED <<attempted, held, live, deployToken, cleanup, unconfirmed>>

Validate ==
  /\ EnterPhase("VALIDATION")
  /\ Succeed("VALIDATION", "PROVIDER_ACQUISITION") \/ FailsSomehow("VALIDATION")
  /\ UNCHANGED <<attempted, held, live, deployToken, cleanup, unconfirmed>>

(* The adapter returns a handle, or fails with or without a resource left. *)
Create(phase, resource, next) ==
  /\ attempted' = attempted \cup {resource}
  /\ \/ /\ live' = live \cup {resource}
        /\ deployPc' = next
        /\ UNCHANGED <<trace, primary>>
     \/ /\ live' \in {live, live \cup {resource}}
        /\ FailsSomehow(phase)
  /\ UNCHANGED <<held, deployToken, cleanup, unconfirmed>>

Acquire ==
  /\ EnterPhase("PROVIDER_ACQUISITION")
  /\ Create("PROVIDER_ACQUISITION", "provider", "keep_provider")

KeepProvider ==
  /\ deployPc = "keep_provider"
  /\ Succeed("PROVIDER_ACQUISITION", "RUNTIME_START")
  /\ held' = held \cup {"provider"}
  /\ UNCHANGED <<attempted, live, deployToken, cleanup, unconfirmed>>

StartRuntime ==
  /\ EnterPhase("RUNTIME_START")
  /\ "provider" \in held
  /\ Create("RUNTIME_START", "runtime", "keep_runtime")

(* The handle is kept before its endpoint is compared with the spec's. *)
KeepRuntime ==
  /\ deployPc = "keep_runtime"
  /\ held' = held \cup {"runtime"}
  /\ \/ Succeed("RUNTIME_START", "RUNTIME_READINESS")
     \/ FailPhase("RUNTIME_START", "RUNTIME_START_FAILED")
  /\ UNCHANGED <<attempted, live, deployToken, cleanup, unconfirmed>>

WaitRuntimeReady ==
  /\ EnterPhase("RUNTIME_READINESS")
  /\ \/ Succeed("RUNTIME_READINESS", "BENCHMARK")
     \/ FailsSomehow("RUNTIME_READINESS")
  /\ UNCHANGED <<attempted, held, live, deployToken, cleanup, unconfirmed>>

RunBenchmark ==
  /\ EnterPhase("BENCHMARK")
  /\ Succeed("BENCHMARK", "RUNTIME_STOP") \/ FailsSomehow("BENCHMARK")
  /\ UNCHANGED <<attempted, held, live, deployToken, cleanup, unconfirmed>>

-----------------------------------------------------------------------------
(* Cleanup phases. *)

(* An honest adapter confirms only what is gone; one that cannot find a    *)
(* resource without a handle takes it to be gone.                          *)
Seen(resource) == resource \in held \cup Findable

ConfirmPhase(phase, next) ==
  /\ RecordPhase(phase, "none")
  /\ deployPc' = next
  /\ UNCHANGED <<cleanup, unconfirmed>>

(* Variant: the last cleanup error wins. *)
UnconfirmLast(phase, next) ==
  /\ \E code \in CleanupCodes(phase) :
       /\ RecordPhase(phase, code)
       /\ cleanup' = code
  /\ unconfirmed' = unconfirmed \cup {phase}
  /\ deployPc' = next

Unconfirm(phase, next) ==
  /\ \E code \in CleanupCodes(phase) :
       /\ RecordPhase(phase, code)
       /\ cleanup' = IF cleanup = "none" THEN code ELSE cleanup
  /\ unconfirmed' = unconfirmed \cup {phase}
  /\ deployPc' = next

(* An interrupt inside a phase is swallowed like any failure of it: before *)
(* the event is recorded there is none, after it there may even be a       *)
(* success.                                                                *)
InterruptPhase(phase, codes, next) ==
  /\ UNCHANGED trace \/ \E code \in codes : RecordPhase(phase, code)
  /\ cleanup' = IF cleanup = "none" THEN "INTERRUPTED" ELSE cleanup
  /\ unconfirmed' = unconfirmed \cup {phase}
  /\ deployPc' = next

(* A phase whose operation confirms, and one whose operation fails.        *)
Confirms(phase, next) == ConfirmPhase(phase, next) \/ InterruptPhase(phase, {"none"}, next)
Fails(phase, next) == Unconfirm(phase, next) \/ InterruptPhase(phase, CleanupCodes(phase), next)

Skip(next) ==
  /\ deployPc' = next
  /\ UNCHANGED <<trace, live, cleanup, unconfirmed>>

StopRuntime ==
  /\ deployPc = "RUNTIME_STOP"
  /\ IF "runtime" \in attempted
       THEN \/ /\ live' = IF Seen("runtime") THEN live \ {"runtime"} ELSE live
               /\ Confirms("RUNTIME_STOP", "PROVIDER_CLEANUP")
            \/ /\ live' \in {live, live \ {"runtime"}}
               /\ Fails("RUNTIME_STOP", "PROVIDER_CLEANUP")
       ELSE Skip("PROVIDER_CLEANUP")
  /\ UNCHANGED <<attempted, held, deployToken, primary>>

(* Variant: only a provider whose handle is kept is cleaned up. *)
CleanupHeld ==
  /\ deployPc = "PROVIDER_CLEANUP"
  /\ IF "provider" \in held
       THEN /\ live' \in {live, live \ {"provider"}}
            /\ \/ Confirms("PROVIDER_CLEANUP", "PROVIDER_FINAL_CONFIRMATION")
               \/ Fails("PROVIDER_CLEANUP", "PROVIDER_FINAL_CONFIRMATION")
       ELSE Skip("conclude")
  /\ UNCHANGED <<attempted, held, deployToken, primary>>

(* Variant: a failed provider cleanup is not followed by a confirmation. *)
CleanupOrGiveUp ==
  /\ deployPc = "PROVIDER_CLEANUP"
  /\ IF "provider" \in attempted
       THEN /\ live' \in {live, live \ {"provider"}}
            /\ \/ Confirms("PROVIDER_CLEANUP", "PROVIDER_FINAL_CONFIRMATION")
               \/ Fails("PROVIDER_CLEANUP", "conclude")
       ELSE Skip("conclude")
  /\ UNCHANGED <<attempted, held, deployToken, primary>>

(* A confirmed cleanup may still be under way at the provider. *)
Cleanup ==
  /\ deployPc = "PROVIDER_CLEANUP"
  /\ IF "provider" \in attempted
       THEN /\ live' \in {live, live \ {"provider"}}
            /\ \/ Confirms("PROVIDER_CLEANUP", "PROVIDER_FINAL_CONFIRMATION")
               \/ Fails("PROVIDER_CLEANUP", "PROVIDER_FINAL_CONFIRMATION")
       ELSE Skip("conclude")
  /\ UNCHANGED <<attempted, held, deployToken, primary>>

FinalConfirmation ==
  /\ deployPc = "PROVIDER_FINAL_CONFIRMATION"
  /\ \/ /\ Seen("provider") => "provider" \notin live
        /\ Confirms("PROVIDER_FINAL_CONFIRMATION", "conclude")
     \/ Fails("PROVIDER_FINAL_CONFIRMATION", "conclude")
  /\ UNCHANGED <<attempted, held, live, deployToken, primary>>

(* An outcome with an empty trace is refused by its own model, and an      *)
(* exception that is still unhandled is raised after the cleanup.          *)
Conclude ==
  /\ deployPc = "conclude"
  /\ cleanup' = IF unconfirmed # {} /\ cleanup = "none"
                  THEN "CLEANUP_UNCONFIRMED" ELSE cleanup
  /\ deployPc' = IF trace = << >> \/ primary = "unhandled" THEN "raised" ELSE "done"
  /\ UNCHANGED <<trace, attempted, held, live, deployToken, primary, unconfirmed>>

-----------------------------------------------------------------------------
(* Interrupts and the environment. *)

(* Between two forward phases, or inside one before it attempted anything: *)
(* straight to cleanup, with or without an event.                          *)
InterruptBetween ==
  /\ deployPc \in ForwardPhases \cup {"RUNTIME_STOP"}
  /\ primary = "none"
  /\ primary' = "INTERRUPTED"
  /\ deployPc' = "RUNTIME_STOP"
  /\ \/ UNCHANGED trace
     \/ deployPc \in ForwardPhases /\ RecordPhase(deployPc, "INTERRUPTED")
  /\ UNCHANGED <<attempted, held, live, deployToken, cleanup, unconfirmed>>

(* After an adapter returned: a provider's handle is lost until the phase  *)
(* has returned, even if its success was recorded; a runtime's handle is   *)
(* lost or, if the interrupt comes later, kept.                            *)
InterruptKeeping ==
  /\ \/ /\ deployPc = "keep_provider"
        /\ \/ UNCHANGED trace
           \/ \E code \in {"none", "INTERRUPTED"} : RecordPhase("PROVIDER_ACQUISITION", code)
        /\ UNCHANGED held
     \/ /\ deployPc = "keep_runtime"
        /\ UNCHANGED trace \/ RecordPhase("RUNTIME_START", "INTERRUPTED")
        /\ held' \in {held, held \cup {"runtime"}}
  /\ primary' = "INTERRUPTED"
  /\ deployPc' = "RUNTIME_STOP"
  /\ UNCHANGED <<attempted, live, deployToken, cleanup, unconfirmed>>

(* While the original cause is being stored: the cleanup still runs, and   *)
(* then the interrupt is raised instead of an outcome.                     *)
InterruptHandler ==
  /\ deployPc = "RUNTIME_STOP"
  /\ primary \notin {"none", "unhandled"}
  /\ primary' = "unhandled"
  /\ UNCHANGED <<deployPc, trace, attempted, held, live, deployToken, cleanup, unconfirmed>>

(* Between two cleanup phases, or while the failure of one is stored,      *)
(* nothing catches it: the rest is skipped.                                *)
InterruptCleanup ==
  /\ deployPc \in CleanupPhases \cup {"conclude"}
  /\ deployPc' = "raised"
  /\ UNCHANGED <<trace, attempted, held, live, deployToken, primary, cleanup,
                 unconfirmed>>

CancelDeployment ==
  /\ deployToken = "clear"
  /\ deployToken' = "requested"
  /\ UNCHANGED <<deployPc, trace, attempted, held, live, primary, cleanup,
                 unconfirmed>>

(* A process exits, or a provider reclaims its resource. *)
Vanish ==
  /\ \E resource \in live : live' = live \ {resource}
  /\ UNCHANGED <<deployPc, trace, attempted, held, deployToken, primary, cleanup,
                 unconfirmed>>

DeployNext ==
  \/ PhaseCancelled \/ Validate \/ Acquire \/ KeepProvider \/ StartRuntime \/ KeepRuntime
  \/ WaitRuntimeReady \/ RunBenchmark \/ StopRuntime \/ Cleanup \/ FinalConfirmation
  \/ Conclude \/ InterruptBetween \/ InterruptKeeping \/ InterruptHandler
  \/ InterruptCleanup \/ CancelDeployment \/ Vanish

DeploySpec == DeployInit /\ [][DeployNext]_deployVars

-----------------------------------------------------------------------------
(* The outcome that run returns. *)

StatusForError(code) ==
  IF code \in {"CANCELLED", "INTERRUPTED"} THEN code ELSE "FAILED"

OutcomeStatus ==
  IF cleanup # "none" THEN "FAILED"
  ELSE IF primary # "none" THEN StatusForError(primary)
  ELSE "SUCCEEDED"

(* A result is accepted only when it is not orphaned, so the flag is set   *)
(* exactly when a cleanup phase failed.                                    *)
Orphaned == unconfirmed # {}

-----------------------------------------------------------------------------
(* Properties. *)

Failed(event) == event.code # "none"

(* The code of the first failure recorded in one of these phases.          *)
FirstFailure(phases) ==
  LET failures == {i \in DOMAIN trace : trace[i].phase \in phases /\ Failed(trace[i])}
      First == CHOOSE i \in failures : \A j \in failures : i <= j
  IN  IF failures = {} THEN "none" ELSE trace[First].code

(* A resource that still exists when an outcome is returned is reported as *)
(* orphaned and fails the lifecycle, whichever call failed, was cancelled  *)
(* or was interrupted; the one exception is a resource whose handle was    *)
(* lost and that its adapter cannot find without it.                       *)
LiveIsReported ==
  \A resource \in live :
    deployPc = "done" /\ Seen(resource) => Orphaned /\ OutcomeStatus = "FAILED"

(* A lifecycle succeeds only if all eight phases ran, in the documented    *)
(* order, and every one succeeded.                                         *)
SuccessIsComplete ==
  deployPc = "done" /\ OutcomeStatus = "SUCCEEDED" =>
    /\ [i \in DOMAIN trace |-> trace[i].phase] =
         <<"VALIDATION", "PROVIDER_ACQUISITION", "RUNTIME_START",
           "RUNTIME_READINESS", "BENCHMARK", "RUNTIME_STOP",
           "PROVIDER_CLEANUP", "PROVIDER_FINAL_CONFIRMATION">>
    /\ \A i \in DOMAIN trace : ~ Failed(trace[i])

(* The cleanup phases owed to what was attempted, and the order of all.    *)
Owed ==
  (IF "runtime" \in attempted THEN {"RUNTIME_STOP"} ELSE {})
  \cup (IF "provider" \in attempted
          THEN {"PROVIDER_CLEANUP", "PROVIDER_FINAL_CONFIRMATION"} ELSE {})

CleanupRank(phase) ==
  CASE phase = "RUNTIME_STOP" -> 1
    [] phase = "PROVIDER_CLEANUP" -> 2
    [] phase = "PROVIDER_FINAL_CONFIRMATION" -> 3
    [] OTHER -> 0

(* Whatever failed before, a returned outcome accounts for every cleanup   *)
(* phase owed to what was attempted and for no other, each at most once,   *)
(* after the forward phases and in order: a phase that the outcome does    *)
(* not report as unconfirmed is recorded with a success.  What is reported *)
(* may have no event, if an interrupt cut the phase short.                 *)
AttemptedIsReleased ==
  deployPc = "done" =>
    /\ \A i, j \in DOMAIN trace :
         i < j /\ trace[j].phase \in CleanupPhases =>
           CleanupRank(trace[i].phase) < CleanupRank(trace[j].phase)
    /\ \A i \in DOMAIN trace : trace[i].phase \in CleanupPhases => trace[i].phase \in Owed
    /\ unconfirmed \subseteq Owed
    /\ \A phase \in Owed \ unconfirmed :
         \E i \in DOMAIN trace : trace[i].phase = phase /\ ~Failed(trace[i])

(* The outcome tells what its trace tells, unless an interrupt took the    *)
(* place of what the trace shows: the cleanup error and the original cause *)
(* are the codes of the first failed cleanup and forward phase or          *)
(* INTERRUPTED, no failed cleanup phase counts as confirmed, an orphan and *)
(* a cleanup error come together and dominate the status, and no interrupt *)
(* is taken for a success.                                                 *)
OutcomeMatchesTrace ==
  deployPc = "done" =>
    /\ cleanup \in {FirstFailure(CleanupPhases), "INTERRUPTED"}
    /\ primary \in {FirstFailure(ForwardPhases), "INTERRUPTED"}
    /\ \A i \in DOMAIN trace :
         trace[i].phase \in CleanupPhases /\ Failed(trace[i]) => trace[i].phase \in unconfirmed
    /\ cleanup # "none" <=> Orphaned
    /\ Orphaned => OutcomeStatus = "FAILED"
    /\ SuccessIsComplete

=============================================================================
