---------------------------- MODULE GcpSupervisor ----------------------------
(***************************************************************************)
(* GcpLifecycleSupervisor (deployment/gcp_supervisor.py) around the        *)
(* execute and recover_cleanup of deployment/gcp_lifecycle.py. One lease   *)
(* has three journals, each with a lock of its own: the core lease         *)
(* journal, the supervisor's sidecar and the watchdog's task. Nothing      *)
(* writes two of them at once, so a crash, a refusal or another process    *)
(* may come between any two steps below.                                   *)
(*                                                                         *)
(* The controller executes the lease; the operators recover it and look    *)
(* after its task. What the core journal knows of provider operations is   *)
(* GcpLifecycle's matter and here only: none, unknown or done.             *)
(***************************************************************************)
EXTENDS GcpWatchdog

CONSTANT Controller  \* the caller that executes the lease

ASSUME ControllerAssumption == Controller \in Caller

Core == INSTANCE GcpLeaseJournal WITH MaxCalls <- MaxAttempts

VARIABLES
  core,    \* the last record of the core lease journal
  copy,    \* the flags of each caller's own copy of that record
  side,    \* state of the sidecar journal
  kill,    \* "on" once the kill marker is on disk
  ctl,     \* the next step of each caller
  target   \* whether a caller holds the exact disk's cleanup

Operator == Caller \ {Controller}

others == <<core, copy, side, kill, ctl, target>>
theTask == <<journal, backend, pc, locals, clock>>
vars == <<taskVars, core, copy, side, kill, ctl, target>>

Flags == {"armed", "attempted"}
CoreStates == Core!States \cup {"NONE"}
SideStates == {"NONE", "PREPARED", "ARM_CONSUMED", "WATCHDOG_READY", "CREATE_INTENT",
               "WORKING", "KILLED", "CLEANUP_PENDING", "CLEANUP_CONFIRMED",
               "ORPHANED", "BLOCKED"}
ExecuteSteps == {"start", "reserve", "refuse", "consume", "arm", "watch", "ready",
                 "activate", "launch", "submit", "intent", "insert", "bind", "own",
                 "begin", "work", "abort", "block", "ended"}
RecoverSteps == {"idle", "absent", "result", "sidecar", "resume"}
CleanupSteps == {"pending", "mark", "clean", "confirm", "settle", "reconcile",
                 "orphan", "report"}

TypeOK ==
  /\ TaskTypeOK
  /\ core \in [state : CoreStates, op : {"none", "unknown", "done"}, flags : SUBSET Flags]
  /\ copy \in [Caller -> SUBSET Flags]
  /\ side \in SideStates
  /\ kill \in {"off", "on"}
  /\ ctl \in [Caller -> ExecuteSteps \cup RecoverSteps \cup CleanupSteps]
  /\ target \in [Caller -> {"unknown", "known"}]

Init ==
  /\ TaskInit
  /\ core = [state |-> "NONE", op |-> "none", flags |-> {}]
  /\ copy = [c \in Caller |-> {}]
  /\ side = "NONE" /\ kill = "off"
  /\ ctl = [c \in Caller |-> IF c = Controller THEN "start" ELSE "idle"]
  /\ target = [c \in Caller |-> "unknown"]

-----------------------------------------------------------------------------
(* The two journals. *)

At(c, step) == ctl[c] = step
Step(c, step) == ctl' = [ctl EXCEPT ![c] = step]
Over(c) == IF c = Controller THEN "ended" ELSE "idle"

(* The copy a caller would write as its next record.                       *)
Flagged(c, s) ==
  copy[c] \cup (IF s = "ARM_CONSUMED" THEN {"armed"}
               ELSE IF s = "CREATE_SUBMITTED" THEN {"attempted"} ELSE {})

(* Variant: a record may lose what the last one knew.                      *)
CoreAcceptsStale(c, s) ==
  /\ core.state # "NONE" /\ s \in Core!Allowed(core.state)
  /\ s = "CLEANUP_CONFIRMED" => core.op # "unknown"

(* GcpLeaseJournal.update takes it, or not: a stale copy has lost a flag.  *)
CoreAccepts(c, s) ==
  /\ core.state # "NONE" /\ s \in Core!Allowed(core.state)
  /\ core.flags \subseteq Flagged(c, s)
  /\ s = "CLEANUP_CONFIRMED" => core.op # "unknown"

Recorded(c, s) ==
  [state |-> s, flags |-> Flagged(c, s),
   op |-> IF s = "CREATE_SUBMITTED" THEN "unknown" ELSE core.op]

(* An event is written, refused, or lost: a write that fails may or may    *)
(* not have reached the disk.                                              *)
WriteCore(c, s, then, else) ==
  \/ /\ CoreAccepts(c, s) /\ Step(c, then) /\ Fine
     /\ core' = Recorded(c, s) /\ copy' = [copy EXCEPT ![c] = Flagged(c, s)]
  \/ /\ ~CoreAccepts(c, s) /\ Step(c, else) /\ Fine
     /\ UNCHANGED <<core, copy>>
  \/ /\ CoreAccepts(c, s) /\ Step(c, else) /\ Fault
     /\ core' \in {core, Recorded(c, s)} /\ UNCHANGED copy

(* GcpSupervisorJournal._validate_transitions *)
Closing == {"CLEANUP_PENDING", "CLEANUP_CONFIRMED", "ORPHANED", "BLOCKED"}

SideAllows(s) ==
  s \in CASE side = "NONE" -> {}
          [] side = "PREPARED" -> ({"ARM_CONSUMED"} \cup Closing) \ {"ORPHANED"}
          [] side = "ARM_CONSUMED" ->
               ({"WATCHDOG_READY", "KILLED"} \cup Closing) \ {"ORPHANED"}
          [] side = "WATCHDOG_READY" ->
               ({"CREATE_INTENT", "KILLED"} \cup Closing) \ {"ORPHANED"}
          [] side = "CREATE_INTENT" ->
               ({"WORKING", "KILLED"} \cup Closing) \ {"CLEANUP_CONFIRMED"}
          [] side = "WORKING" -> ({"KILLED"} \cup Closing) \ {"CLEANUP_CONFIRMED"}
          [] side \in {"KILLED", "CLEANUP_PENDING"} -> Closing
          [] side \in {"ORPHANED", "BLOCKED"} -> Closing \ {side}
          [] side = "CLEANUP_CONFIRMED" -> {"CLEANUP_CONFIRMED"}

(* advance *)
WriteSide(c, s, then, else) ==
  \/ SideAllows(s) /\ side' = s /\ Step(c, then) /\ Fine
  \/ ~SideAllows(s) /\ UNCHANGED side /\ Step(c, else) /\ Fine
  \/ SideAllows(s) /\ side' \in {side, s} /\ Step(c, else) /\ Fault

OnlyCore == UNCHANGED <<theTask, side, kill, target>>
OnlySide == UNCHANGED <<theTask, core, copy, kill, target>>
OnlyTask == UNCHANGED <<core, copy, side, kill, target>>

(* A call that raises before it has changed anything.                      *)
Refused(c, step) == Step(c, step) /\ Fine /\ UNCHANGED theTask /\ OnlyTask
Fails(c, step) == Step(c, step) /\ Fault /\ UNCHANGED theTask /\ OnlyTask

-----------------------------------------------------------------------------
(* execute, up to the machine. *)

(* The reservation in the core journal.                                    *)
Prepare(c) ==
  /\ At(c, "start")
  /\ core' = [core EXCEPT !.state = "PREPARED"] /\ Step(c, "reserve") /\ Fine
  /\ UNCHANGED copy /\ OnlyCore

(* GcpSupervisorJournal.reserve; a recovery may have been here first.      *)
Reserve(c) ==
  /\ At(c, "reserve")
  /\ \/ side = "NONE" /\ side' = "PREPARED" /\ Step(c, "consume") /\ Fine
     \/ side # "NONE" /\ UNCHANGED side /\ Step(c, "refuse") /\ Fine
     \/ side = "NONE" /\ side' \in {side, "PREPARED"} /\ Step(c, "refuse") /\ Fault
  /\ OnlySide

(* Without a sidecar the lease is over at once.                            *)
Refuse(c) ==
  /\ At(c, "refuse")
  /\ WriteCore(c, "CLEANUP_CONFIRMED", "ended", "ended")
  /\ OnlyCore

(* The one-shot arm is consumed, unless it was before.                     *)
ConsumeArm(c) ==
  /\ At(c, "consume")
  /\ \/ WriteCore(c, "ARM_CONSUMED", "arm", "abort") /\ OnlyCore
     \/ Fails(c, "abort")

(* arm_watchdog *)
RecordArm(c) ==
  /\ At(c, "arm")
  /\ WriteSide(c, "ARM_CONSUMED", "watch", "abort")
  /\ OnlySide

(* _assert_not_killed, with the write that follows when it is.             *)
StopIfKilled(c, step) ==
  /\ kill = "on"
  /\ WriteSide(c, "KILLED", step, step)
  /\ OnlySide

(* The end of an arm that wrote only the first of its events is a death.   *)
ArmWatchdog(c) ==
  /\ At(c, "watch")
  /\ \/ StopIfKilled(c, "abort")
     \/ kill = "off" /\ Arm(c) /\ OnlyTask
        /\ Step(c, IF log'.state = "READY" THEN "ready" ELSE "ended")
     \/ kill = "off" /\ (~Reads(c) \/ len > 0) /\ Refused(c, "abort")

RecordReady(c) ==
  /\ At(c, "ready")
  /\ WriteSide(c, "WATCHDOG_READY", "activate", "abort")
  /\ OnlySide

(* assert_create_permitted and issue_future_mutation_activation_guard, up  *)
(* to the new runner.                                                      *)
ActivateTask(c) ==
  /\ At(c, "activate")
  /\ \/ StopIfKilled(c, "abort")
     \/ /\ kill = "off" /\ side = "WATCHDOG_READY" /\ clock < RuntimeDeadline
        /\ Activate(c) /\ OnlyTask
        /\ Step(c, IF hand'[c] = NoRunner THEN "abort" ELSE "launch")
     \/ /\ kill = "off"
        /\ \/ side # "WATCHDOG_READY" \/ clock >= RuntimeDeadline \/ ~Reads(c)
           \/ log.state \notin {"READY", "ACTIVE"}
        /\ Refused(c, "abort")

LaunchTask(c) ==
  /\ At(c, "launch")
  /\ \/ Launch(c) /\ Step(c, IF hand'[c] = NoRunner THEN "abort" ELSE "launch")
     \/ Await(c) /\ Step(c, IF faults' = faults THEN "submit" ELSE "abort")
  /\ OnlyTask

(* durable_active_mutation_capability: the task is active in its journal.  *)
ActiveCapability(c) ==
  /\ Reads(c) /\ log.state \in {"ACTIVE"} \cup Waiting \cup Intents
  /\ clock < CleanupDeadline

(* The task is read again, nothing of the name exists, and the intent to   *)
(* create goes to the core journal.                                        *)
Submit(c) ==
  /\ At(c, "submit")
  /\ \/ /\ ActiveCapability(c) /\ SpecFits
        /\ WriteCore(c, "CREATE_SUBMITTED", "intent", "abort") /\ OnlyCore
     \/ ~(ActiveCapability(c) /\ SpecFits) /\ Refused(c, "abort")
     \/ Fails(c, "abort")

(* Variant: a sidecar that refuses does not stop the insert.               *)
CreateIntentResilient(c) ==
  /\ At(c, "intent")
  /\ \/ /\ clock < RuntimeDeadline
        /\ WriteSide(c, "CREATE_INTENT", "insert", "insert") /\ OnlySide
     \/ clock >= RuntimeDeadline /\ Refused(c, "pending")

(* create_intent: the runtime must not be over.                            *)
CreateIntent(c) ==
  /\ At(c, "intent")
  /\ \/ /\ clock < RuntimeDeadline
        /\ WriteSide(c, "CREATE_INTENT", "insert", "pending") /\ OnlySide
     \/ clock >= RuntimeDeadline /\ Refused(c, "pending")

(* The insert: done, rejected, or its answer is lost.                      *)
Insert(c) ==
  /\ At(c, "insert")
  /\ \/ /\ left' = {"vm", "disk"} /\ core' = [core EXCEPT !.op = "done"]
        /\ Step(c, "bind") /\ Fine
     \/ /\ left' = left /\ core' = [core EXCEPT !.op = "none"]
        /\ Step(c, "pending") /\ Fault
     \/ /\ left' \in {left, {"vm", "disk"}} /\ UNCHANGED core
        /\ Step(c, "pending") /\ Fault
  /\ UNCHANGED <<journal, spec, pc, locals, clock, copy, side, kill, target>>

(* Variant: a task that could not be bound does not stop the controller.   *)
BindDiskResilient(c) ==
  /\ At(c, "bind") /\ Step(c, "own")
  /\ target' = [target EXCEPT ![c] = "known"]
  /\ \/ BindDiskCleanup(c)
     \/ /\ ~Reads(c) \/ log.state # "RUNNER_READY"
        /\ Fine /\ UNCHANGED theTask
  /\ UNCHANGED <<core, copy, side, kill>>

(* _register_exact_disk_cleanup_before_work: what is deleted is known to   *)
(* the caller before the task is told.                                     *)
BindDisk(c) ==
  /\ At(c, "bind")
  /\ \/ BindDiskCleanup(c) /\ target' = [target EXCEPT ![c] = "known"]
        /\ Step(c, IF faults' = faults THEN "own" ELSE "pending")
     \/ /\ ~Reads(c) \/ log.state # "RUNNER_READY"
        /\ target' = [target EXCEPT ![c] = "known"]
        /\ Step(c, "pending") /\ Fine /\ UNCHANGED theTask
     \/ Step(c, "pending") /\ Fault /\ UNCHANGED <<theTask, target>>
  /\ UNCHANGED <<core, copy, side, kill>>

Own(c) ==
  /\ At(c, "own")
  /\ WriteCore(c, "OWNED", "begin", "pending")
  /\ OnlyCore

(* before_work *)
BeginWork(c) ==
  /\ At(c, "begin")
  /\ \/ StopIfKilled(c, "pending")
     \/ /\ kill = "off" /\ side = "CREATE_INTENT" /\ clock < RuntimeDeadline
        /\ WriteSide(c, "WORKING", "work", "pending") /\ OnlySide
     \/ /\ side # "CREATE_INTENT" \/ clock >= RuntimeDeadline
        /\ Refused(c, "pending")

(* Nothing tells the work that the lease is being recovered meanwhile.     *)
Work(c) == At(c, "work") /\ Refused(c, "pending")

(* abort_before_provider *)
Abort(c) ==
  /\ At(c, "abort")
  /\ WriteCore(c, "CLEANUP_CONFIRMED", "settle", "block")
  /\ OnlyCore

Block(c) ==
  /\ At(c, "block")
  /\ WriteSide(c, "BLOCKED", "ended", "ended")
  /\ OnlySide

-----------------------------------------------------------------------------
(* _cleanup, of an execution or a recovery. *)

(* A journal that does not take the event does not stop the cleanup.       *)
CleanupPending(c) ==
  /\ At(c, "pending")
  /\ WriteCore(c, "CLEANUP_PENDING", "mark", "mark")
  /\ OnlyCore

MarkPending(c) ==
  /\ At(c, "mark")
  /\ WriteSide(c, "CLEANUP_PENDING", "clean", "clean")
  /\ OnlySide

(* Absence counts when no operation is unknown, or when the machine was    *)
(* seen and deleted, and when the disk to look for is known.               *)
CanConfirm(c) == target[c] = "known" /\ (core.op # "unknown" \/ "vm" \in left)

CleanLease(c) ==
  /\ At(c, "clean")
  /\ \/ /\ CanConfirm(c) /\ left' = {} /\ Step(c, "confirm") /\ Fine
        /\ core' = IF "vm" \in left THEN [core EXCEPT !.op = "done"] ELSE core
     \/ /\ ~CanConfirm(c) /\ left' \in {left, left \ {"vm"}}
        /\ Step(c, "orphan") /\ Fine /\ UNCHANGED core
     \/ /\ CanConfirm(c) /\ left' \in {left, left \ {"vm"}, {}}
        /\ Step(c, "orphan") /\ Fault /\ UNCHANGED core
  /\ UNCHANGED <<journal, spec, pc, locals, clock, copy, side, kill, target>>

(* The lease is confirmed to the sidecar and the task even if the core     *)
(* journal did not take it.                                                *)
Confirm(c) ==
  /\ At(c, "confirm")
  /\ WriteCore(c, "CLEANUP_CONFIRMED", "settle", "settle")
  /\ OnlyCore

(* cleanup_terminal, of a confirmed lease, and its task.                   *)
Settle(c) ==
  /\ At(c, "settle")
  /\ WriteSide(c, "CLEANUP_CONFIRMED", "reconcile", Over(c))
  /\ OnlySide

(* Variant: the task is over at once, whoever is still cleaning up.        *)
ReconcileTaskAtOnce(c) ==
  /\ At(c, "reconcile") /\ Step(c, Over(c)) /\ OnlyTask
  /\ \/ /\ Reads(c) /\ len > 0 /\ log.state # "CLEANUP_CONFIRMED"
        /\ \E t \in Times : PutState("CLEANUP_NOT_REQUIRED", t)
        /\ UNCHANGED <<resumes, backend, pc, locals, clock>>
     \/ /\ ~Reads(c) \/ len = 0 \/ log.state = "CLEANUP_CONFIRMED"
        /\ UNCHANGED theTask
  /\ Fine

(* _reconcile_file_watchdog_terminal: it raises while a claimed attempt    *)
(* still has its lease.                                                    *)
ReconcileTask(c) ==
  /\ At(c, "reconcile") /\ Step(c, Over(c)) /\ OnlyTask
  /\ \/ ReconcileCoreTerminal(c)
     \/ /\ \/ ~Reads(c) \/ len = 0
           \/ Fenced /\ \E t \in Times : t < FenceUntil
           \/ log.state \in {"CLEANUP_CONFIRMED", "CLEANUP_NOT_REQUIRED"}
        /\ Fine /\ UNCHANGED theTask

Orphan(c) ==
  /\ At(c, "orphan")
  /\ WriteCore(c, "ORPHANED", "report", "report")
  /\ OnlyCore

Report(c) ==
  /\ At(c, "report")
  /\ WriteSide(c, "ORPHANED", Over(c), Over(c))
  /\ OnlySide

-----------------------------------------------------------------------------
(* recover_cleanup *)

(* Variant: a lease that the core journal has confirmed is left alone.     *)
RecoverOpen(o) ==
  /\ At(o, "idle") /\ pc[o] = "idle"
  /\ core.state \in {"PREPARED", "ARM_CONSUMED"}
  /\ copy' = [copy EXCEPT ![o] = core.flags]
  /\ Step(o, "absent") /\ Fine
  /\ UNCHANGED <<theTask, core, side, kill, target>>

(* The cheapest way that the journals allow: the core journal has it, no   *)
(* provider mutation can have happened, the watchdog has confirmed, or a   *)
(* cleanup authorization for the disk the task names.                      *)
Recover(o) ==
  /\ At(o, "idle") /\ pc[o] = "idle" /\ core.state # "NONE"
  /\ copy' = [copy EXCEPT ![o] = core.flags]
  /\ CASE core.state = "CLEANUP_CONFIRMED" -> Step(o, "sidecar") /\ UNCHANGED target
       [] core.state \in {"PREPARED", "ARM_CONSUMED"} ->
            Step(o, "absent") /\ UNCHANGED target
       [] OTHER ->
            /\ Reads(o)
            /\ \/ /\ log.state = "CLEANUP_CONFIRMED" /\ core.op = "done"
                  /\ Step(o, "result") /\ UNCHANGED target
               \/ /\ ActiveCapability(o) /\ log.disk = "bound"
                  /\ Step(o, "resume") /\ target' = [target EXCEPT ![o] = "known"]
  /\ Fine
  /\ UNCHANGED <<theTask, core, side, kill>>

(* reconcile_no_provider_mutation comes after the core event.              *)
RecoverAbsent(o) ==
  /\ At(o, "absent")
  /\ WriteCore(o, "CLEANUP_CONFIRMED", "sidecar", "idle")
  /\ OnlyCore

RecoverResult(o) ==
  /\ At(o, "result")
  /\ IF core.state \in {"CLEANUP_PENDING", "ORPHANED"}
       THEN WriteCore(o, "CLEANUP_CONFIRMED", "sidecar", "idle")
       ELSE WriteCore(o, "CLEANUP_PENDING", "result", "idle")
  /\ OnlyCore

(* GcpSupervisorJournal.reconcile_core_terminal, one event at a time.      *)
SettleSidecar(o) ==
  /\ At(o, "sidecar")
  /\ CASE side = "NONE" ->
            \/ side' = "PREPARED" /\ Step(o, "sidecar") /\ Fine
            \/ side' \in {side, "PREPARED"} /\ Step(o, "idle") /\ Fault
       [] side = "CLEANUP_CONFIRMED" ->
            UNCHANGED side /\ Step(o, "reconcile") /\ Fine
       [] side = "CLEANUP_PENDING" ->
            WriteSide(o, "CLEANUP_CONFIRMED", "reconcile", "idle")
       [] OTHER -> WriteSide(o, "CLEANUP_PENDING", "sidecar", "idle")
  /\ OnlySide

(* resume_cleanup *)
ResumeCleanup(o) ==
  /\ At(o, "resume")
  /\ IF side = "CLEANUP_CONFIRMED" THEN Step(o, "pending") /\ Fine /\ UNCHANGED side
     ELSE WriteSide(o, "CLEANUP_PENDING", "pending", "idle")
  /\ OnlySide

-----------------------------------------------------------------------------
(* Operators also call the watchdog itself: resume_runner and run_due.     *)
Maintain(o) ==
  /\ At(o, "idle")
  /\ \/ Resume(o) \/ Relaunch(o) \/ Await(o) \/ Raise(o)
     \/ SettleFence(o) \/ ReadTask(o) \/ Attempt(o)
  /\ UNCHANGED others

(* FileGcpKillSwitch: the marker, once there, stays. When the work has     *)
(* begun nobody looks for it any more.                                     *)
SetKillMarker ==
  /\ kill = "off" /\ kill' = "on"
  /\ ctl[Controller] \in {"arm", "watch", "ready", "activate", "launch", "submit",
                         "intent", "insert", "bind", "own", "begin"}
  /\ UNCHANGED <<taskVars, core, copy, side, ctl, target>>

Crash(w) ==
  /\ Die(w)
  /\ IF w \in Caller
       THEN Step(w, Over(w)) /\ target' = [target EXCEPT ![w] = "unknown"]
       ELSE UNCHANGED <<ctl, target>>
  /\ UNCHANGED <<core, copy, side, kill>>

(* A call that an operator has begun.                                      *)
Calling(c) ==
  \/ CleanupPending(c) \/ MarkPending(c) \/ CleanLease(c) \/ Confirm(c)
  \/ Settle(c) \/ ReconcileTask(c) \/ Orphan(c) \/ Report(c)
  \/ RecoverAbsent(c) \/ RecoverResult(c) \/ SettleSidecar(c) \/ ResumeCleanup(c)

Executing(c) ==
  \/ Prepare(c) \/ Reserve(c) \/ Refuse(c) \/ ConsumeArm(c) \/ RecordArm(c)
  \/ ArmWatchdog(c) \/ RecordReady(c) \/ ActivateTask(c) \/ LaunchTask(c)
  \/ Submit(c) \/ CreateIntent(c) \/ Insert(c) \/ BindDisk(c) \/ Own(c)
  \/ BeginWork(c) \/ Work(c) \/ Abort(c) \/ Block(c)

Next ==
  \/ Executing(Controller)
  \/ \E c \in Caller : Calling(c)
  \/ \E o \in Operator : Recover(o) \/ Maintain(o)
  \/ \E r \in Runner :
       (RunnerNext(r) \/ Attempt(r)) /\ UNCHANGED others
  \/ \E w \in Worker : Crash(w)
  \/ SetKillMarker
  \/ Tick /\ UNCHANGED others

(* Time passes, a runner polls, an operator finishes what it has begun and *)
(* does not stop recovering.                                               *)
Fairness ==
  /\ WF_vars(Tick /\ UNCHANGED others)
  /\ \A r \in Runner :
       WF_vars((RunnerNext(r) \/ Attempt(r)) /\ UNCHANGED others)
  /\ \A o \in Operator :
       SF_vars(Recover(o)) /\ WF_vars(Calling(o)) /\ WF_vars(Maintain(o) /\ pc[o] # "idle")

Spec == Init /\ [][Next]_vars /\ Fairness

-----------------------------------------------------------------------------
(* A machine that exists is not written off: no journal says that the      *)
(* cleanup is done, whoever cleaned up and whatever crashed.               *)
NobodyWritesOff ==
  left # {} =>
    /\ core.state # "CLEANUP_CONFIRMED" /\ side # "CLEANUP_CONFIRMED"
    /\ log.state \notin {"CLEANUP_CONFIRMED", "CLEANUP_NOT_REQUIRED"}

(* The work begins on a machine that somebody else will delete: the task   *)
(* on disk names its disk, and a worker would find the spec for it.        *)
WorkIsCovered == At(Controller, "work") => log.disk = "bound" /\ spec = "bound"

(* A machine is created only under a task whose runner has reported, with  *)
(* the intent in both journals.                                            *)
CreationIsRecorded ==
  [][ left # {"vm", "disk"} /\ left' = {"vm", "disk"} =>
        /\ core.state = "CREATE_SUBMITTED" /\ side = "CREATE_INTENT"
        /\ log.runner # NoRunner ]_vars

(* Once the core journal has confirmed, recovery brings the sidecar and    *)
(* the task to an end as well, and they stay there.                        *)
RecoveryConverges ==
  <>[](chain = "broken" \/
       (core.state = "CLEANUP_CONFIRMED" =>
          /\ side = "CLEANUP_CONFIRMED"
          /\ len = 0 \/ log.state \in {"CLEANUP_CONFIRMED", "CLEANUP_NOT_REQUIRED"}))

(* The task is told to stop only by a core journal that has confirmed.     *)
StoppedByCore == log.state = "CLEANUP_NOT_REQUIRED" => core.state = "CLEANUP_CONFIRMED"

(* A kill marker that is there when the create intent is about to be       *)
(* written stops the creation.                                             *)
KillStopsCreation ==
  [][ At(Controller, "intent") /\ kill = "on" => ~ (ctl'[Controller] = "insert") ]_vars

(* Whatever the lease goes through, its task lives the life GcpWatchdog    *)
(* describes.                                                              *)
ImplementsTask == TaskInit /\ [][TaskNext]_taskVars
=============================================================================
