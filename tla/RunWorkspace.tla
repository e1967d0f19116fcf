---------------------------- MODULE RunWorkspace ----------------------------
(***************************************************************************)
(* One run directory and the processes that use it (workspace/             *)
(* run_workspace.py).  The directory holds frozen inputs, an append-only   *)
(* event journal, a snapshot of the last event (state.json) and an flock   *)
(* file.  Every process may reserve the run, open it, read its state       *)
(* without the lock, and request transitions under the lock; any system    *)
(* call may fail and any process may die between two system calls.         *)
(***************************************************************************)
EXTENDS RunStates, Sequences

CONSTANTS
  Proc,        \* operating-system processes
  ClockTimes   \* values a process clock may show; clocks may run backward

ASSUME ClockAssumption == ClockTimes \subseteq Nat /\ 0 \in ClockTimes

NoProc == "no process"
NoRecord == [seq |-> 0, prev |-> Absent, state |-> Absent, at |-> 0]

(* What a call asks for: a read, or a transition to a state together with  *)
(* whether the caller claims VALID integrity.                              *)
Target == [state : RunState, valid : BOOLEAN]
Reading == [state |-> Absent, valid |-> FALSE]

ASSUME ProcAssumption == NoProc \notin Proc

(* _MAX_LIFECYCLE_EVENTS *)
MaxLifecycleEvents == 6

(* WorkspaceStateRecord, without the run identifier and integrity status. *)
Record == [seq : Nat, prev : RunState \cup {Absent}, state : RunState, at : ClockTimes]

VARIABLES
  stage,     \* how many of the five reservation writes exist on disk
  events,    \* control/events, in file-name order, contents complete
  partial,   \* event files (0 or 1) that exist with incomplete contents
  snapshot,  \* control/state.json
  inputs,    \* whether the frozen inputs still match resolution.json
  flock,     \* holder of the flock on control/state.lock
  call,      \* where each process is in its current call
  goal,      \* the transition a call asks for, or Reading
  view,      \* the state.json record the current call has read
  next,      \* the record a transition is about to persist
  holders    \* processes that hold a RunWorkspace object

disk == <<stage, events, partial, snapshot, inputs>>
local == <<call, goal, view, next, holders>>
workspaceVars == <<disk, flock, local>>

CallSteps == {"idle", "reserve", "lock", "load", "scan", "stamp", "create", "fill",
          "replace"}

WorkspaceTypeOK ==
  /\ stage \in 0..5
  /\ events \in Seq(Record)
  /\ partial \in 0..1
  /\ snapshot \in Record \cup {NoRecord}
  /\ inputs \in {"intact", "changed"}
  /\ flock \in Proc \cup {NoProc}
  /\ call \in [Proc -> CallSteps]
  /\ goal \in [Proc -> Target \cup {Reading}]
  /\ view \in [Proc -> Record \cup {NoRecord}]
  /\ next \in [Proc -> Record \cup {NoRecord}]
  /\ holders \subseteq Proc

WorkspaceInit ==
  /\ stage = 0
  /\ events = << >>
  /\ partial = 0
  /\ snapshot = NoRecord
  /\ inputs = "intact"
  /\ flock = NoProc
  /\ call = [p \in Proc |-> "idle"]
  /\ goal = [p \in Proc |-> Reading]
  /\ view = [p \in Proc |-> NoRecord]
  /\ next = [p \in Proc |-> NoRecord]
  /\ holders = {}

-----------------------------------------------------------------------------
(* Helpers. *)

Goto(p, step) == call' = [call EXCEPT ![p] = step]

Release(p) == flock' = IF flock = p THEN NoProc ELSE flock

(* Return from the current call, releasing the flock if it is held. *)
EndCall(p) ==
  /\ Goto(p, "idle")
  /\ Release(p)
  /\ goal' = [goal EXCEPT ![p] = Reading]
  /\ view' = [view EXCEPT ![p] = NoRecord]
  /\ next' = [next EXCEPT ![p] = NoRecord]

InitialRecord(t) == [seq |-> 0, prev |-> Absent, state |-> "CREATED", at |-> t]

(* Consecutive events form a path of the graph with non-decreasing times. *)
Follows(e, f) ==
  /\ f.seq = e.seq + 1
  /\ f.prev = e.state
  /\ ValidTransition(e.state, f.state)
  /\ f.at >= e.at

ValidChain(s) ==
  /\ \A i \in 1..Len(s) : s[i].seq = i - 1
  /\ \A i \in 1..(Len(s) - 1) : Follows(s[i], s[i + 1])

(* Variant: only the prefix of the journal that the snapshot names is      *)
(* compared.                                                               *)
HistoryHasPrefix(record) ==
  /\ Len(events) >= record.seq + 1
  /\ ValidChain(events)
  /\ events[record.seq + 1] = record

(* The checks current_state makes on the event directory and the snapshot. *)
HistoryMatches(record) ==
  /\ partial = 0
  /\ Len(events) <= MaxLifecycleEvents
  /\ Len(events) = record.seq + 1
  /\ ValidChain(events)
  /\ events[Len(events)] = record

-----------------------------------------------------------------------------
(* RunWorkspace.reserve: one exclusive mkdir, then the four frozen inputs, *)
(* the metadata and lock file, the CREATED event and the snapshot.         *)

BeginReserve(p) ==
  /\ call[p] = "idle"
  /\ stage = 0
  /\ stage' = 1
  /\ Goto(p, "reserve")
  /\ UNCHANGED <<events, partial, snapshot, inputs, flock, goal, view, next, holders>>

ReserveWrite(p) ==
  /\ call[p] = "reserve"
  /\ stage < 5
  /\ stage' = stage + 1
  /\ \/ /\ stage < 3
        /\ UNCHANGED <<events, snapshot>>
     \/ /\ stage = 3
        /\ \E t \in ClockTimes : events' = << InitialRecord(t) >>
        /\ UNCHANGED snapshot
     \/ /\ stage = 4
        /\ snapshot' = events[1]
        /\ UNCHANGED events
  /\ UNCHANGED <<partial, inputs, flock, local>>

(* verify_frozen_inputs closes the reservation. *)
FinishReserve(p) ==
  /\ call[p] = "reserve"
  /\ stage = 5
  /\ holders' = IF inputs = "intact" THEN holders \cup {p} ELSE holders
  /\ EndCall(p)
  /\ UNCHANGED disk

(* An OSError leaves whatever has been written; nothing is cleaned up. *)
FailReserve(p) ==
  /\ call[p] = "reserve"
  /\ stage < 5
  /\ EndCall(p)
  /\ UNCHANGED <<disk, holders>>

-----------------------------------------------------------------------------
(* RunWorkspace.open and current_state without the lock, and transition.   *)

BeginRead(p) ==
  /\ call[p] = "idle"
  /\ stage >= 3
  /\ p \in holders \/ inputs = "intact"
  /\ Goto(p, "load")
  /\ UNCHANGED <<disk, flock, goal, view, next, holders>>

BeginTransition(p, target) ==
  /\ call[p] = "idle"
  /\ p \in holders
  /\ goal' = [goal EXCEPT ![p] = target]
  /\ Goto(p, "lock")
  /\ UNCHANGED <<disk, flock, view, next, holders>>

(* Variant: a transition does not wait for the flock. *)
AcquireLockAnyway(p) ==
  /\ call[p] = "lock"
  /\ flock' = p
  /\ Goto(p, "load")
  /\ UNCHANGED <<disk, goal, view, next, holders>>

AcquireLock(p) ==
  /\ call[p] = "lock"
  /\ flock = NoProc
  /\ flock' = p
  /\ Goto(p, "load")
  /\ UNCHANGED <<disk, goal, view, next, holders>>

LoadSnapshot(p) ==
  /\ call[p] = "load"
  /\ stage = 5
  /\ view' = [view EXCEPT ![p] = snapshot]
  /\ Goto(p, "scan")
  /\ UNCHANGED <<disk, flock, goal, next, holders>>

(* Variant: a state.json that is missing is waited for. *)
AwaitSnapshot(p) ==
  /\ call[p] = "load"
  /\ UNCHANGED workspaceVars

(* state.json is missing, unreadable, or replaced while it is being read.  *)
LoadFails(p) ==
  /\ call[p] = "load"
  /\ EndCall(p)
  /\ UNCHANGED <<disk, holders>>

(* A read that finds snapshot and history in agreement. *)
AcceptRead(p) ==
  /\ call[p] = "scan"
  /\ goal[p] = Reading
  /\ HistoryMatches(view[p])
  /\ holders' = holders \cup {p}
  /\ EndCall(p)
  /\ UNCHANGED disk

AcceptLocked(p) ==
  /\ call[p] = "scan"
  /\ goal[p] # Reading
  /\ HistoryMatches(view[p])
  /\ Goto(p, "stamp")
  /\ UNCHANGED <<disk, flock, goal, view, next, holders>>

RejectHistory(p) ==
  /\ call[p] = "scan"
  /\ ~HistoryMatches(view[p])
  /\ EndCall(p)
  /\ UNCHANGED <<disk, holders>>

(* Variant: validate_run_transition is not called. *)
MayStampAnyEdge(p, t) ==
  /\ inputs = "intact"
  /\ goal[p].valid <=> goal[p].state = "COMPLETE"
  /\ t >= view[p].at

(* Under the lock: frozen inputs, the graph, the integrity claim and the   *)
(* clock are checked and the next record is built.                         *)
MayStamp(p, t) ==
  /\ inputs = "intact"
  /\ ValidTransition(view[p].state, goal[p].state)
  /\ goal[p].valid <=> goal[p].state = "COMPLETE"
  /\ t >= view[p].at

Stamp(p) ==
  /\ call[p] = "stamp"
  /\ \E t \in ClockTimes :
       /\ MayStamp(p, t)
       /\ next' = [next EXCEPT ![p] = [seq |-> view[p].seq + 1,
                                       prev |-> view[p].state,
                                       state |-> goal[p].state,
                                       at |-> t]]
  /\ Goto(p, "create")
  /\ UNCHANGED <<disk, flock, goal, view, holders>>

RejectTransition(p) ==
  /\ call[p] = "stamp"
  /\ \E t \in ClockTimes : ~MayStamp(p, t)
  /\ EndCall(p)
  /\ UNCHANGED <<disk, holders>>

(* _write_new on the event path: exclusive create, then write and fsync. *)
CreateEvent(p) ==
  /\ call[p] = "create"
  /\ partial' = 1
  /\ Goto(p, "fill")
  /\ UNCHANGED <<stage, events, snapshot, inputs, flock, goal, view, next, holders>>

FillEvent(p) ==
  /\ call[p] = "fill"
  /\ events' = Append(events, next[p])
  /\ partial' = 0
  /\ Goto(p, "replace")
  /\ UNCHANGED <<stage, snapshot, inputs, flock, goal, view, next, holders>>

(* _replace_file: write a sibling, then rename it over state.json. *)
ReplaceSnapshot(p) ==
  /\ call[p] = "replace"
  /\ snapshot' = next[p]
  /\ EndCall(p)
  /\ UNCHANGED <<stage, events, partial, inputs, holders>>

(* An OSError in one of the three writes: "state transition persistence    *)
(* failed"; files already created stay behind.                             *)
PersistFails(p) ==
  /\ call[p] \in {"create", "fill", "replace"}
  /\ EndCall(p)
  /\ UNCHANGED <<disk, holders>>

-----------------------------------------------------------------------------
(* The environment. *)

(* The process dies; the kernel drops its flock and a new process may take *)
(* its place.                                                              *)
ProcessDies(p) ==
  /\ call[p] # "idle" \/ p \in holders
  /\ holders' = holders \ {p}
  /\ EndCall(p)
  /\ UNCHANGED disk

(* Someone makes a frozen input writable, or changes or removes it. *)
TamperInputs ==
  /\ stage >= 2
  /\ inputs = "intact"
  /\ inputs' = "changed"
  /\ UNCHANGED <<stage, events, partial, snapshot, flock, local>>

-----------------------------------------------------------------------------
Reserving(p) == BeginReserve(p) \/ ReserveWrite(p) \/ FinishReserve(p) \/ FailReserve(p)

ReadingState(p) == \/ LoadSnapshot(p) \/ LoadFails(p)
                   \/ AcceptRead(p) \/ AcceptLocked(p) \/ RejectHistory(p)

Persisting(p) == \/ Stamp(p) \/ RejectTransition(p)
                 \/ CreateEvent(p) \/ FillEvent(p) \/ ReplaceSnapshot(p) \/ PersistFails(p)

Calling(p) == BeginRead(p) \/ (\E target \in Target : BeginTransition(p, target))

WorkspaceNext ==
  \/ \E p \in Proc : \/ Reserving(p) \/ Calling(p) \/ AcquireLock(p)
                     \/ ReadingState(p) \/ Persisting(p) \/ ProcessDies(p)
  \/ TamperInputs

WorkspaceSpec == WorkspaceInit /\ [][WorkspaceNext]_workspaceVars

(* A call in progress keeps running, and the kernel does not starve a      *)
(* process that waits for the flock.                                       *)
WorkspaceFairness ==
  \A p \in Proc :
    /\ WF_workspaceVars(ReserveWrite(p) \/ FinishReserve(p) \/ FailReserve(p))
    /\ WF_workspaceVars(ReadingState(p))
    /\ WF_workspaceVars(Persisting(p))
    /\ SF_workspaceVars(AcquireLock(p))

WorkspaceFairSpec == WorkspaceSpec /\ WorkspaceFairness

-----------------------------------------------------------------------------
(* Safety. *)

(* The process that is between create and replace of a transition. *)
Writing(p) == call[p] \in {"fill", "replace"}

(* The journal on disk is a path of the graph that fits the reader's event *)
(* limit, and the snapshot is its last event, or the one before it while a *)
(* transition is being persisted or after one was cut short: whatever      *)
(* processes die or fail, no event is lost, forked or reordered.           *)
JournalSound ==
  /\ ValidChain(events)
  /\ Len(events) + partial <= MaxLifecycleEvents
  /\ snapshot # NoRecord =>
       /\ snapshot.seq + 1 \in {Len(events), Len(events) - 1}
       /\ snapshot = events[snapshot.seq + 1]
       /\ partial = 1 => snapshot.seq + 1 = Len(events)

(* The state a reader returns, although it reads the snapshot and scans    *)
(* the events at two instants and takes no lock, is the current one when   *)
(* the scan succeeds.                                                      *)
ReadIsCurrent ==
  \A p \in Proc :
    call[p] = "scan" /\ HistoryMatches(view[p]) => view[p] = snapshot

(* A workspace whose last transition was cut short never advances again.   *)
CutShort == /\ stage = 5
            /\ partial = 1 \/ Len(events) = snapshot.seq + 2
            /\ \A p \in Proc : ~Writing(p)

CutShortIsFinal == [][CutShort => UNCHANGED <<events, partial, snapshot>>]_workspaceVars

(* The snapshot implements the abstract register. *)
WorkspaceRegister == INSTANCE RunRegister WITH
              state <- IF snapshot = NoRecord THEN Absent ELSE snapshot.state

WorkspaceIsRegister == WorkspaceRegister!Spec

(* Every call returns, whatever the other processes do. *)
CallsReturn == \A p \in Proc : call[p] # "idle" ~> call[p] = "idle"

(* The module's promise of crash-readable state: unless a transition is in *)
(* progress, state.json can be read back through current_state.            *)
CrashReadable ==
  stage = 5 /\ (\A p \in Proc : ~Writing(p)) => HistoryMatches(snapshot)
=============================================================================
