----------------------------- MODULE GcpWatchdog -----------------------------
(***************************************************************************)
(* deployment/gcp_supervisor.py FileGcpWatchdog, gcp_watchdog_worker.py    *)
(* and gcp_watchdog_backend.py: the durable task that cleans one lease up  *)
(* when its controller does not. Controllers arm, activate, bind, resume   *)
(* and reconcile the task; runners, processes of their own, claim cleanup  *)
(* attempts when the runtime deadline passes. All of them meet only in the *)
(* task's journal, one event at a time, under its file lock.               *)
(*                                                                         *)
(* The journal is its last event, its length and whether it still reads:   *)
(* the chain of digests makes a longer memory of no use to the code. Each  *)
(* process reads the clock before it has the lock, so the time it writes   *)
(* may be up to Lag seconds old.                                           *)
(***************************************************************************)
EXTENDS Integers, FiniteSets

CONSTANTS
  Runner,          \* runner processes
  Caller,          \* processes that call FileGcpWatchdog
  MaxAttempts,     \* max_cleanup_attempts
  MaxResumes,      \* GCP_FILE_WATCHDOG_MAX_RUNNER_RESUMES
  Lease,           \* cleanup_timeout_seconds
  RuntimeDeadline, \* provider_runtime_deadline_at
  CleanupDeadline, \* watchdog_cleanup_deadline_at
  Lag,             \* seconds between reading the clock and having the lock
  MaxClock,        \* bound on the seconds that pass
  MaxFaults        \* bound on crashes, failed calls and lost answers

NoRunner == "none"
NoFence == -1

ASSUME WatchdogAssumption ==
  /\ {MaxAttempts, Lease, RuntimeDeadline, CleanupDeadline} \subseteq Nat \ {0}
  /\ {MaxResumes, Lag, MaxClock, MaxFaults} \subseteq Nat
  /\ RuntimeDeadline < CleanupDeadline
  /\ Runner \cap Caller = {} /\ NoRunner \notin Runner

VARIABLES
  log,      \* the last event
  len,      \* events in the journal
  resumes,  \* of them, those that name another runner in the same state
  chain,    \* "whole", "torn": its last line is cut off, or "broken"
  spec,     \* the worker spec on disk: "none", "prepared" or "bound"
  left,     \* what the backend still has of the machine
  pc,       \* the next step of each process
  ticket,   \* length of the journal when it last looked: the event's digest
  started,  \* the time it read before it claimed an attempt
  hand,     \* the runner a caller has started
  clock,
  faults

journal == <<log, len, resumes, chain>>
backend == <<spec, left>>
locals == <<ticket, started, hand>>
taskVars == <<journal, backend, pc, locals, clock, faults>>

Worker == Runner \cup Caller
Waiting == {"RUNNER_READY", "DISK_BOUND", "PREBIND_RETRY_PENDING",
            "RETRY_PENDING"}
Intents == {"PREBIND_CLEANUP_INTENT", "CLEANUP_INTENT"}
Settled == {"CLEANUP_CONFIRMED", "CLEANUP_NOT_REQUIRED", "ORPHANED"}
States == {"NONE", "ARMED", "READY", "ACTIVE"}
          \cup Waiting \cup Intents \cup Settled

Event == [state : States, at : 0..MaxClock, tries : 0..MaxAttempts,
          runner : Runner \cup {NoRunner}, disk : {"unknown", "bound"},
          fence : {NoFence} \cup 0..MaxClock]

RunnerSteps == {"unborn", "starting", "polling", "cleaning", "cleaned",
                "failed", "gone"}
CallerSteps == {"idle", "spawn", "await", "respawn", "cleaning", "cleaned",
                "failed"}

(* The journal stays far below its 32 events, so that the code's checks    *)
(* for a full one, left out here, never say no.                            *)
MaxEvents == 7 + 2 * MaxAttempts + MaxResumes

TaskTypeOK ==
  /\ log \in Event
  /\ len \in 0..MaxEvents
  /\ resumes \in 0..MaxResumes
  /\ chain \in {"whole", "torn", "broken"}
  /\ spec \in {"none", "prepared", "bound"}
  /\ left \subseteq {"vm", "disk"}
  /\ pc \in [Worker -> RunnerSteps \cup CallerSteps]
  /\ ticket \in [Worker -> Nat]
  /\ started \in [Worker -> 0..MaxClock]
  /\ hand \in [Caller -> Runner \cup {NoRunner}]
  /\ clock \in 0..MaxClock
  /\ faults \in 0..MaxFaults

TaskInit ==
  /\ log = [state |-> "NONE", at |-> 0, tries |-> 0, runner |-> NoRunner,
            disk |-> "unknown", fence |-> NoFence]
  /\ len = 0 /\ resumes = 0 /\ chain = "whole"
  /\ spec = "none" /\ left = {}
  /\ pc = [w \in Worker |-> IF w \in Runner THEN "unborn" ELSE "idle"]
  /\ ticket = [w \in Worker |-> 0]
  /\ started = [w \in Worker |-> 0]
  /\ hand = [c \in Caller |-> NoRunner]
  /\ clock = 0 /\ faults = 0

-----------------------------------------------------------------------------
(* The journal. *)

Times == {t \in 0..clock : clock - t <= Lag}

(* FileGcpWatchdog._append_locked: the new event is not held against the   *)
(* last one, and an older time than the last makes a chain nobody accepts. *)
Put(e, t, n) ==
  /\ log' = [e EXCEPT !.at = t]
  /\ len' = len + n
  /\ chain' = IF t < log.at THEN "broken" ELSE "whole"

PutState(state, t) == Put([log EXCEPT !.state = state], t, 1)

(* Controllers cut a torn line off when they open the journal; runners do  *)
(* not read past one.                                                      *)
Reads(w) == IF w \in Runner THEN chain = "whole" ELSE chain # "broken"

Repair == chain' = IF chain = "torn" THEN "whole" ELSE chain

Fault == faults' = faults + 1 /\ faults' <= MaxFaults
Fine == UNCHANGED faults

Goto(w, step) == pc' = [pc EXCEPT ![w] = step]

Open == log.state \in Waiting \cup Intents
Fenced == log.fence # NoFence
FenceUntil == IF log.fence + Lease < CleanupDeadline THEN log.fence + Lease
              ELSE CleanupDeadline

RetryState ==
  IF log.disk = "bound" THEN "RETRY_PENDING" ELSE "PREBIND_RETRY_PENDING"
IntentState ==
  IF log.disk = "bound" THEN "CLEANUP_INTENT" ELSE "PREBIND_CLEANUP_INTENT"

(* _validate_event_and_spec: the spec was written for this very binding.   *)
SpecFits == spec = IF log.disk = "bound" THEN "bound" ELSE "prepared"

-----------------------------------------------------------------------------
(* What controllers call.                                                  *)

(* arm: ARMED and READY under one lock; a death may leave the first alone. *)
Arm(c) ==
  /\ pc[c] = "idle" /\ Reads(c)
  /\ \E t \in Times :
       \/ len = 0 /\ Put([log EXCEPT !.state = "READY"], t, 2) /\ Fine
       \/ len = 0 /\ PutState("ARMED", t) /\ Fault
       \/ len > 0 /\ log.state = "ARMED" /\ PutState("READY", t) /\ Fine
  /\ UNCHANGED <<resumes, backend, pc, locals, clock>>

(* _spawn_runner *)
Spawn(c, r, step) ==
  /\ pc[r] = "unborn"
  /\ pc' = [pc EXCEPT ![r] = "starting", ![c] = step]
  /\ hand' = [hand EXCEPT ![c] = r]

(* activate, up to the new runner. The spec is written after the event: a  *)
(* failure between the two leaves an ACTIVE task, and the same capability  *)
(* may activate it again.                                                  *)
Activate(c) ==
  /\ pc[c] = "idle" /\ Reads(c)
  /\ \/ \E t \in Times : log.state = "READY" /\ PutState("ACTIVE", t)
     \/ log.state = "ACTIVE" /\ Repair /\ UNCHANGED <<log, len>>
  /\ \/ spec' = "prepared" /\ Fine /\ \E r \in Runner : Spawn(c, r, "spawn")
     \/ spec' \in {spec, "prepared"} /\ Fault /\ UNCHANGED <<pc, hand>>
  /\ UNCHANGED <<resumes, left, ticket, started, clock>>

(* _kill_runner, and the call raises.                                      *)
Kill(c) ==
  /\ pc' = [pc EXCEPT ![hand[c]] = "gone", ![c] = "idle"]
  /\ hand' = [hand EXCEPT ![c] = NoRunner]

(* activate, with the runner's pid: unless the task moved on meanwhile.    *)
Launch(c) ==
  /\ pc[c] = "spawn"
  /\ IF Reads(c) /\ log.state = "ACTIVE"
       THEN /\ \E t \in Times :
                 Put([log EXCEPT !.state = "RUNNER_READY", !.runner = hand[c]],
                     t, 1)
            /\ Goto(c, "await") /\ UNCHANGED hand
       ELSE Kill(c) /\ Repair /\ UNCHANGED <<log, len>>
  /\ Fine
  /\ UNCHANGED <<resumes, backend, ticket, started, clock>>

(* _await_runner_ready: the acknowledgement, the end of the runner, or two *)
(* seconds without either.                                                 *)
Await(c) ==
  /\ pc[c] = "await"
  /\ \/ /\ pc[hand[c]] # "starting" /\ Fine
        /\ Goto(c, "idle") /\ hand' = [hand EXCEPT ![c] = NoRunner]
     \/ Kill(c) /\ Fault
  /\ UNCHANGED <<journal, backend, ticket, started, clock>>

(* resume_runner, before the new runner. The old one is not looked for.    *)
Resume(c) ==
  /\ pc[c] = "idle" /\ Reads(c) /\ Open
  /\ \E t \in Times :
       LET spent == t >= CleanupDeadline \/ resumes >= MaxResumes IN
       \/ Fenced /\ t >= FenceUntil /\ PutState("CLEANUP_NOT_REQUIRED", t)
          /\ UNCHANGED <<pc, locals>>
       \/ ~Fenced /\ spent /\ PutState("ORPHANED", t) /\ UNCHANGED <<pc, locals>>
       \/ /\ ~Fenced /\ ~spent /\ \E r \in Runner : Spawn(c, r, "respawn")
          /\ ticket' = [ticket EXCEPT ![c] = len]
          /\ Repair /\ UNCHANGED <<log, len, started>>
  /\ Fine
  /\ UNCHANGED <<resumes, backend, clock>>

(* resume_runner, with the new pid: an event in the same state, if no      *)
(* other was written since the first look.                                 *)
Relaunch(c) ==
  /\ pc[c] = "respawn"
  /\ \E t \in Times :
       IF Reads(c) /\ len = ticket[c] /\ t < CleanupDeadline
         THEN /\ Put([log EXCEPT !.runner = hand[c]], t, 1)
              /\ resumes' = resumes + 1 /\ Goto(c, "await") /\ UNCHANGED hand
         ELSE /\ Kill(c) /\ UNCHANGED resumes
              /\ IF Reads(c) /\ len = ticket[c] THEN PutState("ORPHANED", t)
                 ELSE Repair /\ UNCHANGED <<log, len>>
  /\ Fine
  /\ UNCHANGED <<backend, ticket, started, clock>>

(* bind_disk_cleanup, and bind_disk_cleanup of the backend, which may fail *)
(* when the event is already written.                                      *)
BindDiskCleanup(c) ==
  /\ pc[c] = "idle" /\ Reads(c) /\ log.state = "RUNNER_READY"
  /\ \E t \in Times :
       Put([log EXCEPT !.state = "DISK_BOUND", !.disk = "bound"], t, 1)
  /\ \/ spec' = "bound" /\ Fine
     \/ UNCHANGED spec /\ Fault
  /\ UNCHANGED <<resumes, left, pc, locals, clock>>

(* reconcile_core_terminal: the core journal says the lease is gone. An    *)
(* attempt that somebody has claimed is fenced, and given its lease.       *)
ReconcileCoreTerminal(c) ==
  /\ pc[c] = "idle" /\ Reads(c) /\ len > 0
  /\ \E t \in Times :
       \/ /\ log.state \in Intents /\ ~Fenced
          /\ IF t >= CleanupDeadline
               THEN Put([log EXCEPT !.state = "CLEANUP_NOT_REQUIRED",
                                    !.fence = t], t, 2)
               ELSE Put([log EXCEPT !.fence = t], t, 1)
       \/ Fenced /\ log.state \in Intents /\ t >= FenceUntil
          /\ PutState("CLEANUP_NOT_REQUIRED", t)
       \/ log.state \notin Intents \cup {"CLEANUP_CONFIRMED", "CLEANUP_NOT_REQUIRED"}
          /\ PutState("CLEANUP_NOT_REQUIRED", t)
  /\ Fine
  /\ UNCHANGED <<resumes, backend, pc, locals, clock>>

(* confirmed_cleanup_result, durable_disk_cleanup_binding,                 *)
(* durable_active_mutation_capability: reads, which repair a torn line.    *)
ReadTask(c) ==
  /\ pc[c] = "idle" /\ chain = "torn"
  /\ Repair /\ Fine
  /\ UNCHANGED <<log, len, resumes, backend, pc, locals, clock>>

-----------------------------------------------------------------------------
(* Cleanup attempts: _settle_due_once of a runner, run_due of a controller. *)

(* A runner starts when it finds its own pid in the journal and a spec     *)
(* that fits.                                                              *)
Start(r) ==
  /\ pc[r] = "starting" /\ Reads(r)
  /\ Open /\ log.runner = r /\ SpecFits
  /\ Goto(r, "polling") /\ Fine
  /\ UNCHANGED <<journal, backend, locals, clock>>

Awaited(r) == \E c \in Caller : hand[c] = r /\ pc[c] \in {"spawn", "respawn"}

(* It ends on a journal it cannot read, or after two seconds without its   *)
(* pid.                                                                    *)
GiveUp(r) ==
  /\ pc[r] = "starting"
  /\ IF Awaited(r) /\ Reads(r) THEN Fault ELSE Fine
  /\ ~Reads(r) \/ log.runner # r \/ ~Open \/ ~SpecFits
  /\ Goto(r, "gone")
  /\ UNCHANGED <<journal, backend, locals, clock>>

Ready(w) == pc[w] = IF w \in Runner THEN "polling" ELSE "idle"

(* A worker holds its event against the chain before it writes it.         *)
Writes(w, t) == w \in Runner => t >= log.at

LeaseExpired(t) == log.state \in Intents /\ t >= log.at + Lease

(* Variant: a claim whose holder is late is taken over at once.            *)
NothingLeftToTry(t) == log.state \in Intents /\ log.tries >= MaxAttempts

(* The horizon has passed, or the last attempt has.                        *)
NothingLeft(t) ==
  \/ t >= CleanupDeadline
  \/ LeaseExpired(t) /\ log.tries >= MaxAttempts

GiveTaskUp(w) ==
  /\ Ready(w) /\ Reads(w) /\ Open /\ ~Fenced
  /\ \E t \in Times : NothingLeft(t) /\ Writes(w, t) /\ PutState("ORPHANED", t)
  /\ Fine
  /\ UNCHANGED <<resumes, backend, pc, locals, clock>>

(* Variant: the holder of an intent is not waited for.                     *)
ClaimableAtOnce(t) == log.tries < MaxAttempts /\ t >= RuntimeDeadline

(* Somebody may claim an attempt: the machine has had its time, and nobody *)
(* holds an unexpired claim.                                               *)
Claimable(t) ==
  \/ log.state \in Waiting /\ t >= RuntimeDeadline
  \/ LeaseExpired(t) /\ log.tries < MaxAttempts

(* The intent, after the expired intent's retry; a death may come between  *)
(* the two. A controller looks at the spec first.                          *)
Claim(w) ==
  /\ Ready(w) /\ Reads(w) /\ Open /\ ~Fenced
  /\ w \in Caller => SpecFits
  /\ \E t \in Times :
       LET n == IF log.state \in Intents THEN 2 ELSE 1 IN
       /\ ~NothingLeft(t) /\ Claimable(t) /\ Writes(w, t)
       /\ \/ /\ Put([log EXCEPT !.state = IntentState, !.tries = @ + 1], t, n)
             /\ ticket' = [ticket EXCEPT ![w] = len + n]
             /\ started' = [started EXCEPT ![w] = t]
             /\ Goto(w, "cleaning") /\ Fine
          \/ /\ n = 2 /\ PutState(RetryState, t) /\ Fault
             /\ Goto(w, IF w \in Runner THEN "gone" ELSE "idle")
             /\ UNCHANGED <<ticket, started>>
  /\ UNCHANGED <<resumes, backend, hand, clock>>

(* A controller settles a fence whose lease is over; a runner never does.  *)
SettleFence(c) ==
  /\ pc[c] = "idle" /\ Reads(c) /\ Fenced /\ log.state \in Intents
  /\ \E t \in Times : t >= FenceUntil /\ PutState("CLEANUP_NOT_REQUIRED", t)
  /\ Fine
  /\ UNCHANGED <<resumes, backend, pc, locals, clock>>

(* Variant: the instance is deleted, and its disk is not looked for.       *)
CleanInstance(w) ==
  /\ pc[w] = "cleaning" /\ Goto(w, "cleaned") /\ Fine
  /\ left' = left \ {"vm"}
  /\ UNCHANGED <<journal, spec, locals, clock>>

(* worker_cleanup: the instance, then the disk if one was bound. A runner  *)
(* does it itself and takes its time; a controller starts a process that   *)
(* looks whether the intent is still the last event, and is killed when    *)
(* its time is up.                                                         *)
Clean(w) ==
  LET may == SpecFits /\ (w \in Caller => Reads(w) /\ len = ticket[w]) IN
  /\ pc[w] = "cleaning"
  /\ \/ /\ may /\ Goto(w, "cleaned") /\ Fine
        /\ left' = IF log.disk = "bound" THEN {} ELSE left \ {"vm"}
     \/ ~may /\ Goto(w, "failed") /\ Fine /\ UNCHANGED left
     \/ may /\ Goto(w, "failed") /\ Fault /\ left' \in {left, left \ {"vm"}}
  /\ UNCHANGED <<journal, spec, locals, clock>>

(* Variant: a failed attempt is retried however many there were.           *)
OutcomeRetried(w) ==
  CASE pc[w] = "cleaned" /\ log.disk = "bound" -> "CLEANUP_CONFIRMED"
    [] pc[w] = "cleaned" -> "ORPHANED"
    [] OTHER -> RetryState

(* What an attempt came to. Without a disk binding the absence of the      *)
(* instance proves nothing of the disk.                                    *)
Outcome(w) ==
  CASE pc[w] = "cleaned" /\ log.disk = "bound" -> "CLEANUP_CONFIRMED"
    [] pc[w] = "cleaned" -> "ORPHANED"
    [] log.tries >= MaxAttempts -> "ORPHANED"
    [] OTHER -> RetryState

Rest(w) == Goto(w, IF w \in Runner THEN "polling" ELSE "idle")

(* Variant: the result is written whatever came in between.                *)
FinishUnchecked(w) ==
  /\ pc[w] \in {"cleaned", "failed"} /\ Reads(w)
  /\ IF Open THEN PutState(Outcome(w), started[w])
     ELSE Repair /\ UNCHANGED <<log, len>>
  /\ Rest(w) /\ Fine
  /\ UNCHANGED <<resumes, backend, locals, clock>>

(* The result counts only if the claim is still the last event. It bears   *)
(* the time of the claim.                                                  *)
Finish(w) ==
  /\ pc[w] \in {"cleaned", "failed"} /\ Reads(w)
  /\ IF len = ticket[w] THEN PutState(Outcome(w), started[w])
     ELSE Repair /\ UNCHANGED <<log, len>>
  /\ Rest(w) /\ Fine
  /\ UNCHANGED <<resumes, backend, locals, clock>>

(* A runner ends when the task is settled, when it cannot read the journal *)
(* and when the journal has a later time than the runner.                  *)
Retire(r) ==
  /\ \/ pc[r] = "polling" /\ (~Reads(r) \/ log.state \in Settled)
     \/ pc[r] \in {"cleaned", "failed"} /\ ~Reads(r)
     \/ /\ pc[r] = "polling" /\ Open /\ ~Fenced
        /\ \E t \in Times : t < log.at /\ (NothingLeft(t) \/ Claimable(t))
  /\ Goto(r, "gone") /\ Fine
  /\ UNCHANGED <<journal, backend, locals, clock>>

(* A controller's call raises on a journal nobody accepts.                 *)
Raise(c) ==
  /\ pc[c] \in {"cleaned", "failed"} /\ ~Reads(c)
  /\ Goto(c, "idle") /\ Fine
  /\ UNCHANGED <<journal, backend, locals, clock>>

(* A process dies, anywhere, and may leave half a line in the journal. A   *)
(* runner it has started lives on.                                         *)
Die(w) ==
  /\ pc[w] \notin {"unborn", "gone"}
  /\ Goto(w, IF w \in Runner THEN "gone" ELSE "idle")
  /\ hand' = IF w \in Caller THEN [hand EXCEPT ![w] = NoRunner] ELSE hand
  /\ chain' \in IF chain = "whole" THEN {"whole", "torn"} ELSE {chain}
  /\ Fault
  /\ UNCHANGED <<log, len, resumes, backend, ticket, started, clock>>

(* Elsewhere the machine comes and goes, if only one whose disk is not     *)
(* known yet is created; and things fail.                                  *)
Elsewhere ==
  /\ \/ left = {} /\ log.disk = "unknown" /\ left' = {"vm", "disk"}
     \/ left' \in SUBSET left
  /\ Fine \/ Fault
  /\ UNCHANGED <<journal, spec, pc, locals, clock>>

Tick ==
  /\ clock < MaxClock
  /\ clock' = clock + 1
  /\ UNCHANGED <<journal, backend, pc, locals, faults>>

-----------------------------------------------------------------------------
CallerNext(c) ==
  \/ Arm(c) \/ Activate(c) \/ Launch(c) \/ Await(c)
  \/ Resume(c) \/ Relaunch(c)
  \/ BindDiskCleanup(c) \/ ReconcileCoreTerminal(c) \/ ReadTask(c)
  \/ SettleFence(c) \/ Raise(c)

RunnerNext(r) == Start(r) \/ GiveUp(r) \/ Retire(r)

Attempt(w) == GiveTaskUp(w) \/ Claim(w) \/ Clean(w) \/ Finish(w)

TaskNext ==
  \/ \E c \in Caller : CallerNext(c)
  \/ \E r \in Runner : RunnerNext(r)
  \/ \E w \in Worker : Attempt(w) \/ Die(w)
  \/ Elsewhere \/ Tick

(* A runner polls for ever; time passes.                                   *)
TaskFairness ==
  /\ WF_taskVars(Tick)
  /\ \A r \in Runner : WF_taskVars(RunnerNext(r) \/ Attempt(r))

TaskSpec == TaskInit /\ [][TaskNext]_taskVars /\ TaskFairness

-----------------------------------------------------------------------------
(* Nobody claims an attempt while the last claim may still be at work: of  *)
(* two workers that are cleaning up at once, the earlier has overrun its   *)
(* lease. (A late clock may break this together with the journal.)         *)
ClaimsDoNotOverlap ==
  chain # "broken" => \A v, w \in Worker :
    v # w /\ pc[v] = "cleaning" /\ pc[w] = "cleaning" =>
      \/ started[v] + Lease <= started[w]
      \/ started[w] + Lease <= started[v]

(* A confirmed task has nothing left of the machine.                       *)
ConfirmedIsGone ==
  log.state = "CLEANUP_CONFIRMED" => log.disk = "bound" /\ left = {}

(* A settled task is not taken up again, and a fenced one gets no further  *)
(* attempt.                                                                *)
SettledStays ==
  [][ /\ log.state \in Settled =>
           \/ log'.state = log.state
           \/ log.state = "ORPHANED" /\ log'.state = "CLEANUP_NOT_REQUIRED"
      /\ Fenced => log'.tries = log.tries /\ log'.state \in Intents \cup Settled ]_taskVars

(* A runner that polls settles its task, unless the task is fenced or all  *)
(* runners are lost.                                                       *)
TaskSettles ==
  (\E r \in Runner : pc[r] = "polling") ~>
    \/ log.state \in Settled \/ Fenced
    \/ \A r \in Runner : pc[r] \in {"unborn", "starting", "gone"}

=============================================================================
