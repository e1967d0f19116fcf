---------------------------- MODULE GcpLifecycle ----------------------------
(***************************************************************************)
(* deployment/gcp_lifecycle.py: GcpGuardedLifecycleController without a    *)
(* safety supervisor. Each lease pays for one machine. Controllers reserve *)
(* a lease, spend its arm, write their intent in the journal, insert the   *)
(* machine, work, and delete it again; a controller may die anywhere, and  *)
(* another recovers the lease from what the journal says. The provider     *)
(* accepts operations, finishes or fails them later, and its answers may   *)
(* be lost.                                                                *)
(***************************************************************************)
EXTENDS GcpLeaseJournal, FiniteSets

CONSTANTS
  Lease,         \* controller_id: one arm, one request, one instance name
  Proc,          \* processes that run a controller
  MaxFaults,     \* bound on deaths, lost answers and failed calls or writes
  MaxRecoveries, \* bound on calls of recover_cleanup
  MaxClock       \* bound on the seconds that pass

ASSUME BoundsAssumption == {MaxFaults, MaxRecoveries, MaxClock} \subseteq Nat

NoLease == "none"

ASSUME LeaseAssumption == NoLease \notin Lease

VARIABLES
  prefix,     \* of each lease's journal files: "none", "anchor", "torn", "chain"
  head,       \* last record of the chain
  event,      \* whether that last event was a delete "intent"
  stamp,      \* its updated_at
  spent,      \* arms whose consumption marker exists
  vm,         \* instances that exist at the provider
  disk,       \* boot disks that exist
  ops,        \* what became of each provider operation
  calls,      \* delete operations accepted so far
  pc,         \* each process's next step
  at,         \* the lease it works on
  mem,        \* its in-memory record
  pend,       \* pending_operation
  loops,      \* cleanup iterations left
  seen,       \* what its last get_instance returned
  now,        \* the time it read when execute or _cleanup began
  clock,      \* the wall clock, in seconds
  faults,     \* faults so far
  recoveries, \* recoveries so far
  shared      \* leases two processes have worked on at once

journal == <<prefix, head, event, stamp>>
provider == <<vm, disk, ops, calls>>
locals == <<at, mem, pend, loops, seen, now>>
counts == <<recoveries, shared, clock>>
vars == <<journal, spent, provider, pc, locals, faults, counts>>

Steps == {"idle", "arm", "armed", "precheck", "abort", "intent", "insert",
          "handle", "unsure insert", "rejected", "wait", "verify", "work",
          "cleanup", "reconcile", "get", "list", "confirm", "settle",
          "prepare", "delete", "bind", "unsure delete", "denied", "orphan"}

OpStates == {"none", "pending", "done", "error"}

TypeOK ==
  /\ prefix \in [Lease -> {"none", "anchor", "torn", "chain"}]
  /\ head \in [Lease -> Record]
  /\ event \in [Lease -> {"intent", "other"}]
  /\ stamp \in [Lease -> 0..MaxClock]
  /\ spent \subseteq Lease
  /\ vm \subseteq Lease /\ disk \subseteq Lease
  /\ ops \in [Lease -> [Operations -> OpStates]]
  /\ calls \in [Lease -> 0..MaxCalls]
  /\ pc \in [Proc -> Steps]
  /\ at \in [Proc -> Lease \cup {NoLease}]
  /\ mem \in [Proc -> Record]
  /\ pend \in [Proc -> Operations \cup {NoOp}]
  /\ loops \in [Proc -> 0..(MaxAttempts + 1)]
  /\ seen \in [Proc -> {"nothing", "owned", "mismatch"}]
  /\ now \in [Proc -> 0..MaxClock]
  /\ clock \in 0..MaxClock
  /\ faults \in 0..MaxFaults
  /\ recoveries \in 0..MaxRecoveries
  /\ shared \subseteq Lease

(* Some arms were spent under another journal.                             *)
Init ==
  /\ prefix = [l \in Lease |-> "none"]
  /\ head = [l \in Lease |-> Initial]
  /\ event = [l \in Lease |-> "other"]
  /\ stamp = [l \in Lease |-> 0]
  /\ spent \in SUBSET Lease
  /\ vm = {} /\ disk = {}
  /\ ops = [l \in Lease |-> [o \in Operations |-> "none"]]
  /\ calls = [l \in Lease |-> 0]
  /\ pc = [p \in Proc |-> "idle"]
  /\ at = [p \in Proc |-> NoLease]
  /\ mem = [p \in Proc |-> Initial]
  /\ pend = [p \in Proc |-> NoOp]
  /\ loops = [p \in Proc |-> 0]
  /\ seen = [p \in Proc |-> "nothing"]
  /\ now = [p \in Proc |-> 0]
  /\ clock = 0
  /\ faults = 0
  /\ recoveries = 0
  /\ shared = {}

-----------------------------------------------------------------------------
(* Helpers. *)

Goto(p, step) == pc' = [pc EXCEPT ![p] = step]

Faults(n) == faults' = faults + n /\ faults' <= MaxFaults
Fault == Faults(1)
Fine == UNCHANGED faults

Return(p) ==
  /\ Goto(p, "idle")
  /\ at' = [at EXCEPT ![p] = NoLease]
  /\ mem' = [mem EXCEPT ![p] = Initial]
  /\ pend' = [pend EXCEPT ![p] = NoOp]
  /\ loops' = [loops EXCEPT ![p] = 0]
  /\ seen' = [seen EXCEPT ![p] = "nothing"]
  /\ now' = [now EXCEPT ![p] = 0]

(* The journal takes no record older than its last.                        *)
Takes(l, r, t) == t >= stamp[l] /\ Accepts(event[l], head[l], r)

(* One event appended to the chain, under the journal's flock.             *)
Append(l, r, t) ==
  /\ Takes(l, r, t)
  /\ head' = [head EXCEPT ![l] = r]
  /\ event' = [event EXCEPT ![l] = IF IsDeleteIntent(head[l], r) THEN "intent" ELSE "other"]
  /\ stamp' = [stamp EXCEPT ![l] = t]
  /\ UNCHANGED prefix

(* An update that raises: the record is refused, or the disk fails before  *)
(* the event is complete or after it.                                      *)
Unrecorded(l, r, t, n) ==
  \/ ~Takes(l, r, t) /\ UNCHANGED journal /\ Faults(n)
  \/ (Append(l, r, t) \/ UNCHANGED journal) /\ Faults(n + 1)

(* _record *)
Recorded(p, r, t) ==
  /\ Append(at[p], r, t)
  /\ mem' = [mem EXCEPT ![p] = r]
  /\ Fine

(* An update whatever becomes of it, in a step that meets n faults besides *)
Offered(l, r, t, n) ==
  \/ Append(l, r, t) /\ Faults(n)
  \/ Unrecorded(l, r, t, n)

(* _record_resilient: a write that raises leaves a copy in memory.         *)
RecordResilient(p, r, t, n) ==
  /\ Offered(at[p], r, t, n)
  /\ mem' = [mem EXCEPT ![p] = IF Valid(r) THEN r ELSE @]

Unresolved(l) == prefix[l] = "chain" /\ head[l].state # "CLEANUP_CONFIRMED"

WithFlags(r, on, off) == [r EXCEPT !.flags = (@ \cup on) \ off]

-----------------------------------------------------------------------------
(* execute, up to the provider.                                            *)

(* Variant: other leases are not looked at.                                *)
CanReserveBesideOthers(l) ==
  /\ prefix[l] \in {"none", "anchor"}
  /\ \A k \in Lease : prefix[k] # "torn"

(* GcpLeaseJournal.reserve: anchor, first event, snapshot. A scan drops a  *)
(* lone anchor, and stops at a torn event file.                            *)
CanReserve(l) ==
  /\ prefix[l] \in {"none", "anchor"}
  /\ \A k \in Lease : prefix[k] # "torn" /\ ~Unresolved(k)

DropAnchors(l, left) ==
  prefix' = [k \in Lease |-> IF k = l THEN left
                             ELSE IF prefix[k] = "anchor" THEN "none" ELSE prefix[k]]

Reserve(p, l) ==
  /\ pc[p] = "idle"
  /\ CanReserve(l)
  /\ DropAnchors(l, "chain")
  /\ stamp' = [stamp EXCEPT ![l] = clock]
  /\ at' = [at EXCEPT ![p] = l]
  /\ now' = [now EXCEPT ![p] = clock]
  /\ Goto(p, "arm")
  /\ Fine
  /\ UNCHANGED <<head, event, spent, provider, mem, pend, loops, seen, counts>>

(* The process dies, or a write fails, part of the way.                    *)
ReserveFails(p, l) ==
  /\ pc[p] = "idle"
  /\ CanReserve(l)
  /\ \E left \in {"anchor", "torn", "chain"} : DropAnchors(l, left)
  /\ stamp' = [stamp EXCEPT ![l] = clock]
  /\ Fault
  /\ UNCHANGED <<head, event, spent, provider, pc, locals, counts>>

(* FileExecutionArmStore.consume: exclusive create of the marker.          *)
ConsumeArm(p) ==
  /\ pc[p] = "arm"
  /\ IF at[p] \in spent
       THEN Goto(p, "abort") /\ UNCHANGED spent
       ELSE Goto(p, "armed") /\ spent' = spent \cup {at[p]}
  /\ Fine
  /\ UNCHANGED <<journal, provider, locals, counts>>

ConsumeArmFails(p) ==
  /\ pc[p] = "arm"
  /\ spent' \in {spent, spent \cup {at[p]}}
  /\ Return(p)
  /\ Fault
  /\ UNCHANGED <<journal, provider, counts>>

ArmedRecord(r) == WithFlags([r EXCEPT !.state = "ARM_CONSUMED"], {"armed"}, {})

RecordArm(p) ==
  /\ pc[p] = "armed"
  /\ \/ Recorded(p, ArmedRecord(mem[p]), now[p]) /\ Goto(p, "precheck")
        /\ UNCHANGED <<at, pend, loops, seen, now>>
     \/ Unrecorded(at[p], ArmedRecord(mem[p]), now[p], 0) /\ Return(p)
  /\ UNCHANGED <<spent, provider, counts>>

(* The transport is activated; no owned instance may exist and the boot    *)
(* image must be the planned one.                                          *)
Precheck(p) ==
  /\ pc[p] = "precheck"
  /\ \/ at[p] \notin vm /\ Goto(p, "intent") /\ Fine
     \/ at[p] \in vm /\ Goto(p, "abort") /\ Fine
     \/ Goto(p, "abort") /\ Fault
  /\ UNCHANGED <<journal, spent, provider, locals, counts>>

ConfirmedRecord(r) == WithFlags([r EXCEPT !.state = "CLEANUP_CONFIRMED"], {}, {"orphaned"})

(* abort_before_provider *)
Abort(p) ==
  /\ pc[p] = "abort"
  /\ Offered(at[p], ConfirmedRecord(mem[p]), now[p], 0)
  /\ Return(p)
  /\ UNCHANGED <<spent, provider, counts>>

IntentRecord(r) ==
  WithFlags([r EXCEPT !.state = "CREATE_SUBMITTED", !.status = "UNKNOWN"],
            {"attempted", "ambiguous"}, {})

(* The insert is not called before its intent is on disk.                  *)
RecordIntent(p) ==
  /\ pc[p] = "intent"
  /\ \/ Recorded(p, IntentRecord(mem[p]), now[p]) /\ Goto(p, "insert")
        /\ UNCHANGED <<at, pend, loops, seen, now>>
     \/ Unrecorded(at[p], IntentRecord(mem[p]), now[p], 0) /\ Return(p)
  /\ UNCHANGED <<spent, provider, counts>>

-----------------------------------------------------------------------------
(* execute, from the insert on.                                            *)

(* The provider takes an operation of lease l.                             *)
Accept(l, o) ==
  /\ ops[l][o] = "none"
  /\ ops' = [ops EXCEPT ![l][o] = "pending"]
  /\ calls' = IF o = InsertOp THEN calls ELSE [calls EXCEPT ![l] = o]
  /\ UNCHANGED <<vm, disk>>

(* The answer names the operation, or is lost or unusable although the     *)
(* provider took the request; or the request never arrived, and the        *)
(* transport knows that or does not.                                       *)
Insert(p) ==
  /\ pc[p] = "insert"
  /\ \/ Accept(at[p], InsertOp) /\ Goto(p, "handle") /\ Fine
        /\ pend' = [pend EXCEPT ![p] = InsertOp]
     \/ Accept(at[p], InsertOp) /\ Goto(p, "unsure insert") /\ Fault /\ UNCHANGED pend
     \/ Goto(p, "unsure insert") /\ Fault /\ UNCHANGED <<provider, pend>>
     \/ Goto(p, "rejected") /\ Fault /\ UNCHANGED <<provider, pend>>
  /\ UNCHANGED <<journal, spent, at, mem, loops, seen, now, counts>>

HandleRecord(r, o) == [r EXCEPT !.op = o, !.status = "PENDING"]

RecordHandle(p) ==
  /\ pc[p] = "handle"
  /\ RecordResilient(p, HandleRecord(mem[p], pend[p]), now[p], 0)
  /\ Goto(p, "wait")
  /\ UNCHANGED <<spent, provider, at, pend, loops, seen, now, counts>>

(* mark_ambiguous_mutation *)
MarkInsertAmbiguous(p) ==
  /\ pc[p] = "unsure insert"
  /\ RecordResilient(p, IntentRecord(mem[p]), now[p], 0)
  /\ Goto(p, "cleanup")
  /\ UNCHANGED <<spent, provider, at, pend, loops, seen, now, counts>>

RejectedRecord(r) ==
  WithFlags([r EXCEPT !.state = "CREATE_SUBMITTED", !.status = "NONE"], {}, {"ambiguous"})

RecordRejection(p) ==
  /\ pc[p] = "rejected"
  /\ \/ Recorded(p, RejectedRecord(mem[p]), now[p])
     \/ Unrecorded(at[p], RejectedRecord(mem[p]), now[p], 0) /\ UNCHANGED mem
  /\ Goto(p, "cleanup")
  /\ UNCHANGED <<spent, provider, at, pend, loops, seen, now, counts>>

(* What wait_operation reports of an operation, as a status.               *)
Reported(l, o) ==
  CASE ops[l][o] = "done" -> "DONE"
    [] ops[l][o] = "error" -> "ERROR"
    [] OTHER -> "TIMEOUT"

(* Variant: the ambiguity outlives the operation.                          *)
ReconciledRecordStillAmbiguous(r, o, status) ==
  [r EXCEPT !.op = o, !.status = status,
            !.state = IF o = InsertOp /\ r.state \in {"ARM_CONSUMED", "CREATE_SUBMITTED"}
                      THEN "CREATE_SUBMITTED" ELSE "CLEANUP_PENDING"]

ReconciledRecord(r, o, status) ==
  WithFlags([r EXCEPT !.op = o, !.status = status,
                      !.state = IF /\ o = InsertOp
                                   /\ r.state \in {"ARM_CONSUMED", "CREATE_SUBMITTED"}
                                THEN "CREATE_SUBMITTED" ELSE "CLEANUP_PENDING"],
            {}, IF status = "DONE" THEN {"ambiguous"} ELSE {})

(* _reconcile_operation, when the provider answers: the result is written  *)
(* down, and the operation is pending only after a timeout.                *)
Reconcile(p, o) ==
  LET status == Reported(at[p], o) IN
  /\ RecordResilient(p, ReconciledRecord(mem[p], o, status), clock,
                     IF status = "TIMEOUT" THEN 1 ELSE 0)
  /\ pend' = [pend EXCEPT ![p] = IF status = "TIMEOUT" THEN o ELSE NoOp]

(* A poll that raises leaves the operation pending.                        *)
PollFails(p, o) ==
  /\ pend' = [pend EXCEPT ![p] = o]
  /\ Fault
  /\ UNCHANGED <<journal, mem>>

Wait(p) ==
  /\ pc[p] = "wait"
  /\ \/ Reconcile(p, pend[p])
        /\ Goto(p, IF Reported(at[p], pend[p]) = "DONE" THEN "verify" ELSE "cleanup")
     \/ PollFails(p, pend[p]) /\ Goto(p, "cleanup")
  /\ UNCHANGED <<spent, provider, at, loops, seen, now, counts>>

OwnedRecord(r) == [r EXCEPT !.state = "OWNED"]

(* The instance is ours, its safety settings and its boot disk are as      *)
(* requested, and the journal says so; then the work starts.               *)
Verify(p) ==
  /\ pc[p] = "verify"
  /\ \/ at[p] \in vm /\ Recorded(p, OwnedRecord(mem[p]), now[p]) /\ Goto(p, "work")
     \/ at[p] \in vm /\ Unrecorded(at[p], OwnedRecord(mem[p]), now[p], 0) /\ Goto(p, "cleanup")
        /\ UNCHANGED mem
     \/ at[p] \notin vm /\ Goto(p, "cleanup") /\ Fine /\ UNCHANGED <<journal, mem>>
     \/ Goto(p, "cleanup") /\ Fault /\ UNCHANGED <<journal, mem>>
  /\ UNCHANGED <<spent, provider, at, pend, loops, seen, now, counts>>

(* The workload returns, raises, is interrupted or runs out of time.       *)
Work(p) ==
  /\ pc[p] = "work"
  /\ Goto(p, "cleanup")
  /\ Fine
  /\ UNCHANGED <<journal, spent, provider, locals, counts>>

-----------------------------------------------------------------------------
(* _cleanup, entered by execute and by recover_cleanup.                    *)

RecoverCleanup(p, l) ==
  /\ pc[p] = "idle"
  /\ recoveries < MaxRecoveries
  /\ Unresolved(l)
  /\ Goto(p, "cleanup")
  /\ at' = [at EXCEPT ![p] = l]
  /\ mem' = [mem EXCEPT ![p] = head[l]]
  /\ recoveries' = recoveries + 1
  /\ shared' = IF \E q \in Proc : at[q] = l THEN shared \cup {l} ELSE shared
  /\ Fine
  /\ UNCHANGED <<journal, spent, provider, pend, loops, seen, now, clock>>

PendingRecord(r) == [r EXCEPT !.state = "CLEANUP_PENDING"]

StartCleanup(p) ==
  /\ pc[p] = "cleanup"
  /\ now' = [now EXCEPT ![p] = clock]
  /\ RecordResilient(p, PendingRecord(mem[p]), clock, 0)
  /\ loops' = [loops EXCEPT ![p] = MaxAttempts + 1]
  /\ Goto(p, "reconcile")
  /\ UNCHANGED <<spent, provider, at, pend, seen, counts>>

(* The operation this iteration must settle first, NoOp if none.           *)
Awaited(p) ==
  IF pend[p] # NoOp THEN pend[p]
  ELSE IF mem[p].status \in Terminal THEN NoOp ELSE mem[p].op

(* One iteration. Nothing is inferred from GET and list while an operation *)
(* may be running.                                                         *)
Iterate(p) ==
  LET o == Awaited(p) IN
  /\ pc[p] = "reconcile"
  /\ loops[p] > 0
  /\ loops' = [loops EXCEPT ![p] = @ - 1]
  /\ \/ o = NoOp /\ Goto(p, "get") /\ Fine /\ UNCHANGED <<journal, mem, pend>>
     \/ /\ o # NoOp
        /\ Reconcile(p, o)
        /\ Goto(p, IF Reported(at[p], o) = "TIMEOUT" THEN "reconcile" ELSE "get")
     \/ o # NoOp /\ PollFails(p, o) /\ Goto(p, "reconcile")
  /\ UNCHANGED <<spent, provider, at, seen, now, counts>>

GiveUp(p) ==
  /\ pc[p] = "reconcile"
  /\ loops[p] = 0
  /\ Goto(p, "orphan")
  /\ Fine
  /\ UNCHANGED <<journal, spent, provider, locals, counts>>

(* The cleanup deadline passes: what is left of the loop does nothing.     *)
Deadline(p) ==
  /\ pc[p] \in {"reconcile", "get", "confirm"}
  /\ Goto(p, "orphan")
  /\ Fault
  /\ UNCHANGED <<journal, spent, provider, locals, counts>>

(* get_instance: it may miss an instance, or show one that differs.        *)
GetInstance(p) ==
  /\ pc[p] = "get"
  /\ \/ /\ seen' = [seen EXCEPT ![p] = IF at[p] \in vm THEN "owned" ELSE "nothing"]
        /\ Goto(p, "list") /\ Fine
     \/ /\ at[p] \in vm
        /\ seen' = [seen EXCEPT ![p] = "nothing"]
        /\ Goto(p, "list") /\ Fault
     \/ /\ at[p] \in vm
        /\ seen' = [seen EXCEPT ![p] = "mismatch"]
        /\ Goto(p, "list") /\ Fault
     \/ Goto(p, "reconcile") /\ Fault /\ UNCHANGED seen
  /\ UNCHANGED <<journal, spent, provider, at, mem, pend, loops, now, counts>>

(* What the two observations and the record together call for.             *)
NextStep(p) ==
  IF seen[p] = "nothing" /\ at[p] \notin vm
    THEN IF "ambiguous" \in mem[p].flags THEN "reconcile" ELSE "confirm"
  ELSE IF seen[p] = "mismatch" THEN "reconcile"
  ELSE IF mem[p].deletes >= MaxAttempts THEN "orphan" ELSE "prepare"

(* list_owned_complete: every instance with the lease's labels.            *)
ListOwned(p) ==
  /\ pc[p] = "list"
  /\ \/ Goto(p, NextStep(p)) /\ Fine
     \/ Goto(p, "reconcile") /\ Fault
  /\ seen' = [seen EXCEPT ![p] = "nothing"]
  /\ UNCHANGED <<journal, spent, provider, at, mem, pend, loops, now, counts>>

(* Variant: the boot disk is not looked at.                                *)
FinalConfirmWithoutDisk(p) ==
  /\ pc[p] = "confirm"
  /\ \/ at[p] \notin vm /\ Goto(p, "settle") /\ Fine
     \/ at[p] \in vm /\ Goto(p, "reconcile") /\ Fine
     \/ Goto(p, "reconcile") /\ Fault
  /\ UNCHANGED <<journal, spent, provider, locals, counts>>

(* _final_confirm: instance, label inventory and boot disk all absent.     *)
FinalConfirm(p) ==
  /\ pc[p] = "confirm"
  /\ \/ at[p] \notin vm \cup disk /\ Goto(p, "settle") /\ Fine
     \/ at[p] \in vm \cup disk /\ Goto(p, "reconcile") /\ Fine
     \/ Goto(p, "reconcile") /\ Fault
  /\ UNCHANGED <<journal, spent, provider, locals, counts>>

Settle(p) ==
  /\ pc[p] = "settle"
  /\ Offered(at[p], ConfirmedRecord(mem[p]), now[p], 0)
  /\ Return(p)
  /\ UNCHANGED <<spent, provider, counts>>

DeleteIntent(r) ==
  WithFlags([r EXCEPT !.state = "CLEANUP_PENDING", !.deletes = @ + 1,
                      !.status = IF r.op = NoOp THEN "UNKNOWN" ELSE @],
            {"ambiguous"}, {})

(* Variant: an attempt that could not be written down is made anyway.      *)
PrepareIfPossible(p) ==
  /\ pc[p] = "prepare"
  /\ RecordResilient(p, DeleteIntent(mem[p]), clock, 0)
  /\ Goto(p, "delete")
  /\ UNCHANGED <<spent, provider, at, pend, loops, seen, now, counts>>

(* The attempt is on disk before the delete is called.                     *)
Prepare(p) ==
  /\ pc[p] = "prepare"
  /\ \/ Recorded(p, DeleteIntent(mem[p]), clock) /\ Goto(p, "delete")
     \/ Unrecorded(at[p], DeleteIntent(mem[p]), clock, 0) /\ Goto(p, "orphan") /\ UNCHANGED mem
  /\ UNCHANGED <<spent, provider, at, pend, loops, seen, now, counts>>

(* As for Insert; each delete is an operation of its own.                  *)
Delete(p) ==
  LET o == calls[at[p]] + 1 IN
  /\ pc[p] = "delete"
  /\ \/ o \in Deletes /\ Accept(at[p], o) /\ Goto(p, "bind") /\ Fine
        /\ pend' = [pend EXCEPT ![p] = o]
     \/ o \in Deletes /\ Accept(at[p], o) /\ Goto(p, "unsure delete") /\ Fault /\ UNCHANGED pend
     \/ Goto(p, "unsure delete") /\ Fault /\ UNCHANGED <<provider, pend>>
     \/ Goto(p, "denied") /\ Fault /\ UNCHANGED <<provider, pend>>
  /\ UNCHANGED <<journal, spent, at, mem, loops, seen, now, counts>>

BindDelete(p) ==
  /\ pc[p] = "bind"
  /\ RecordResilient(p, [HandleRecord(mem[p], pend[p]) EXCEPT !.state = "CLEANUP_PENDING"], now[p], 0)
  /\ Goto(p, "reconcile")
  /\ UNCHANGED <<spent, provider, at, pend, loops, seen, now, counts>>

(* mark_cleanup_ambiguous *)
MarkDeleteAmbiguous(p) ==
  /\ pc[p] = "unsure delete"
  /\ RecordResilient(p, WithFlags([PendingRecord(mem[p]) EXCEPT
                                     !.status = IF @ \in Terminal THEN @ ELSE "UNKNOWN"],
                                  {"ambiguous"}, {}), now[p], 0)
  /\ Goto(p, "reconcile")
  /\ UNCHANGED <<spent, provider, at, pend, loops, seen, now, counts>>

DeniedRecord(r) == WithFlags(PendingRecord(r), {}, {"ambiguous"})

RecordDenial(p) ==
  /\ pc[p] = "denied"
  /\ \/ Recorded(p, DeniedRecord(mem[p]), clock)
     \/ Unrecorded(at[p], DeniedRecord(mem[p]), clock, 0) /\ UNCHANGED mem
  /\ Goto(p, "reconcile")
  /\ UNCHANGED <<spent, provider, at, pend, loops, seen, now, counts>>

OrphanRecord(r) == WithFlags([r EXCEPT !.state = "ORPHANED"], {"orphaned"}, {})

Orphan(p) ==
  /\ pc[p] = "orphan"
  /\ Offered(at[p], OrphanRecord(mem[p]), now[p], 0)
  /\ Return(p)
  /\ UNCHANGED <<spent, provider, counts>>

-----------------------------------------------------------------------------
(* The environment. *)

Crash(p) ==
  /\ pc[p] # "idle"
  /\ Return(p)
  /\ Fault
  /\ UNCHANGED <<journal, spent, provider, counts>>

(* A delete may leave the boot disk behind.                                *)
OperationEnds(l, o) ==
  /\ ops[l][o] = "pending"
  /\ \/ /\ ops' = [ops EXCEPT ![l][o] = "done"]
        /\ vm' = IF o = InsertOp THEN vm \cup {l} ELSE vm \ {l}
        /\ \/ disk' = (IF o = InsertOp THEN disk \cup {l} ELSE disk \ {l}) /\ Fine
           \/ o # InsertOp /\ UNCHANGED disk /\ Fault
     \/ ops' = [ops EXCEPT ![l][o] = "error"] /\ Fault /\ UNCHANGED <<vm, disk>>
  /\ UNCHANGED <<journal, spent, calls, pc, locals, counts>>

(* max_run_duration with instance_termination_action DELETE.               *)
RunDurationEnds(l) ==
  /\ l \in vm
  /\ vm' = vm \ {l}
  /\ disk' = disk \ {l}
  /\ Fine
  /\ UNCHANGED <<journal, spent, ops, calls, pc, locals, counts>>

Tick ==
  /\ clock < MaxClock
  /\ clock' = clock + 1
  /\ UNCHANGED <<journal, spent, provider, pc, locals, faults, recoveries, shared>>

-----------------------------------------------------------------------------
Execute(p) ==
  \/ ConsumeArm(p) \/ ConsumeArmFails(p) \/ RecordArm(p) \/ Precheck(p) \/ Abort(p)
  \/ RecordIntent(p) \/ Insert(p) \/ RecordHandle(p) \/ MarkInsertAmbiguous(p)
  \/ RecordRejection(p) \/ Wait(p) \/ Verify(p) \/ Work(p)

Cleanup(p) ==
  \/ StartCleanup(p) \/ Iterate(p) \/ GiveUp(p) \/ Deadline(p) \/ GetInstance(p)
  \/ ListOwned(p) \/ FinalConfirm(p) \/ Settle(p) \/ Prepare(p) \/ Delete(p)
  \/ BindDelete(p) \/ MarkDeleteAmbiguous(p) \/ RecordDenial(p) \/ Orphan(p)

Next ==
  \/ \E p \in Proc, l \in Lease : Reserve(p, l) \/ ReserveFails(p, l) \/ RecoverCleanup(p, l)
  \/ \E p \in Proc : Execute(p) \/ Cleanup(p) \/ Crash(p)
  \/ \E l \in Lease, o \in Operations : OperationEnds(l, o)
  \/ \E l \in Lease : RunDurationEnds(l)
  \/ Tick

Spec == Init /\ [][Next]_vars

-----------------------------------------------------------------------------
(* Safety. *)

(* A machine that runs, may still start, or left its disk behind.          *)
Costly(l) == l \in vm \cup disk \/ ops[l][InsertOp] = "pending"

(* A lease that the journal calls CLEANUP_CONFIRMED stands for nothing any *)
(* more: no machine, no disk, and no insert that could still bring one,    *)
(* whatever was lost, crashed or raced on the way.                         *)
ConfirmedMeansGone ==
  \A l \in Lease : prefix[l] = "chain" /\ head[l].state = "CLEANUP_CONFIRMED" => ~Costly(l)

(* The journal admits one unresolved lease, so at most one machine is      *)
(* being paid for.                                                         *)
OneMachineAtMost == \A k, l \in Lease : Costly(k) /\ Costly(l) => k = l

(* The delete budget is total across controllers, as long as no two of     *)
(* them work on the lease at once: the provider never takes more deletes   *)
(* than the journal counts.                                                *)
DeleteBudget == \A l \in Lease \ shared : calls[l] <= head[l].deletes

(* A lease is left behind unresolved only after something failed, two      *)
(* controllers worked on it at once, or a second passed: a run without     *)
(* faults within one second ends with its lease CLEANUP_CONFIRMED.         *)
LeftoversNeedAFault ==
  \A l \in Lease \ shared :
    Unresolved(l) /\ faults = 0 /\ clock = 0 => \E p \in Proc : at[p] = l

(* "truncation at this contract boundary keeps the default clock usable"   *)
(* (gcp_lifecycle.py, _timestamp): without faults a run ends with its      *)
(* lease CLEANUP_CONFIRMED under a clock that advances, too. It does not:  *)
(* records that carry the time at which execute or _cleanup began are      *)
(* refused after a record that carries a later one.                        *)
DefaultClockIsUsable ==
  \A l \in Lease \ shared :
    Unresolved(l) /\ faults = 0 => \E p \in Proc : at[p] = l
=============================================================================
