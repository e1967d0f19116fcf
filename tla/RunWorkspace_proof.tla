-------------------------- MODULE RunWorkspace_proof --------------------------
(***************************************************************************)
(* The safety properties of RunWorkspace for any set of processes and any  *)
(* clock readings.  The inductive invariant says, for every process, what  *)
(* the records it carries through a call have to do with the directory at  *)
(* that moment.                                                            *)
(***************************************************************************)
EXTENDS RunWorkspace, TLAPS

(* A call that wants a transition holds the flock from load to replace. *)
InLock(p) == \/ call[p] \in {"stamp", "create", "fill", "replace"}
             \/ call[p] \in {"load", "scan"} /\ goal[p] # Reading

LockHeld == \A p \in Proc : InLock(p) => flock = p

(* What the records carried by a call are at each of its steps. *)
CarriedTyped ==
  \A p \in Proc :
    /\ call[p] \in {"idle", "reserve"} => goal[p] = Reading
    /\ call[p] \in {"lock", "stamp", "create", "fill", "replace"} => goal[p] \in Target
    /\ call[p] \in {"scan", "stamp", "create", "fill", "replace"} => view[p] \in Record
    /\ call[p] \in {"create", "fill", "replace"} => next[p] \in Record

(* Only a finished reservation has handles, readers past load, or writers. *)
StageSound ==
  /\ stage < 4 => events = << >>
  /\ stage = 4 => Len(events) = 1 /\ events[1].state = "CREATED"
  /\ stage < 5 => snapshot = NoRecord /\ partial = 0
  /\ stage = 5 => snapshot \in Record
  /\ \A p \in Proc :
       /\ p \in holders => stage = 5
       /\ call[p] \in {"lock", "scan", "stamp", "create", "fill", "replace"} => stage = 5
       /\ call[p] = "reserve" => stage >= 1

(* Every event has come at least its index far along the graph. *)
Ranked == \A i \in 1..Len(events) : i <= Rank[events[i].state] + 1

(* A record read from state.json stays in the journal at its index. *)
ViewInJournal ==
  \A p \in Proc : call[p] = "scan" =>
    /\ view[p].seq <= snapshot.seq
    /\ view[p] = events[view[p].seq + 1]

(* What the holder of the flock knows of the directory. *)
WriterSound ==
  \A p \in Proc :
    /\ call[p] \in {"stamp", "create", "fill", "replace"} => view[p] = snapshot
    /\ call[p] \in {"stamp", "create"} => partial = 0
    /\ call[p] \in {"stamp", "create", "fill"} => Len(events) = snapshot.seq + 1
    /\ call[p] \in {"create", "fill", "replace"} => Follows(snapshot, next[p])
    /\ call[p] = "replace" => /\ partial = 0
                              /\ Len(events) = snapshot.seq + 2
                              /\ events[Len(events)] = next[p]

IInv == /\ WorkspaceTypeOK /\ CarriedTyped /\ StageSound /\ LockHeld
        /\ JournalSound /\ Ranked /\ ViewInJournal /\ WriterSound

-----------------------------------------------------------------------------
(* Facts about the state graph. *)

LEMMA RankTyped == \A s \in RunState : Rank[s] \in 0..5
  BY DEF Rank, RunState

(* A legal step leaves a state of rank at most four for a higher one. *)
LEMMA RankRises ==
  ASSUME NEW s \in RunState, NEW t \in RunState, ValidTransition(s, t)
  PROVE  Rank[s] <= 4 /\ Rank[t] >= Rank[s] + 1
  BY DEF ValidTransition, AllowedTransitions, Forward, TerminalStates, Rank, RunState

LEMMA NoRecordIsNoRecord == NoRecord \notin Record
  BY DEF NoRecord, Record, RunState, Absent

-----------------------------------------------------------------------------
LEMMA InitEstablishes == WorkspaceInit => IInv
<1> SUFFICES ASSUME WorkspaceInit PROVE IInv
  OBVIOUS
<1>1. WorkspaceTypeOK
  <2>1. events \in Seq(Record) /\ snapshot \in Record \cup {NoRecord}
    BY DEF WorkspaceInit
  <2>2. goal \in [Proc -> Target \cup {Reading}]
    BY DEF WorkspaceInit
  <2>3. view \in [Proc -> Record \cup {NoRecord}] /\ next \in [Proc -> Record \cup {NoRecord}]
    BY DEF WorkspaceInit
  <2>4. call \in [Proc -> CallSteps] /\ holders \subseteq Proc
    BY DEF WorkspaceInit, CallSteps
  <2>5. partial \in 0..1 /\ inputs \in {"intact", "changed"}
    BY DEF WorkspaceInit
  <2>6. stage \in 0..5 /\ flock \in Proc \cup {NoProc}
    BY DEF WorkspaceInit
  <2> QED BY <2>1, <2>2, <2>3, <2>4, <2>5, <2>6 DEF WorkspaceInit, WorkspaceTypeOK
<1>2. CarriedTyped /\ LockHeld /\ ViewInJournal /\ WriterSound
  BY DEF WorkspaceInit, CarriedTyped, LockHeld, InLock, ViewInJournal, WriterSound
<1>3. StageSound
  BY DEF WorkspaceInit, StageSound
<1>4. JournalSound /\ Ranked
  BY DEF WorkspaceInit, JournalSound, ValidChain, Ranked, MaxLifecycleEvents
<1> QED BY <1>1, <1>2, <1>3, <1>4 DEF IInv

(* The scan of a reader succeeds only on the current snapshot. *)
LEMMA ScanSeesCurrent ==
  ASSUME IInv, NEW p \in Proc, call[p] = "scan", HistoryMatches(view[p])
  PROVE  view[p] = snapshot
<1>1. stage = 5 /\ view[p] \in Record /\ snapshot \in Record
  BY DEF IInv, StageSound, CarriedTyped
<1>2. snapshot # NoRecord
  BY <1>1, NoRecordIsNoRecord
<1>3. Len(events) = view[p].seq + 1 /\ view[p].seq <= snapshot.seq
  BY DEF IInv, ViewInJournal, HistoryMatches
<1>4. snapshot.seq + 1 \in {Len(events), Len(events) - 1} /\ snapshot = events[snapshot.seq + 1]
  BY <1>2 DEF IInv, JournalSound
<1>5. events \in Seq(Record) /\ Len(events) \in Nat /\ view[p].seq \in Nat /\ snapshot.seq \in Nat
  BY <1>1 DEF IInv, WorkspaceTypeOK, Record
<1>6. snapshot.seq + 1 = Len(events)
  BY <1>3, <1>4, <1>5
<1> QED BY <1>3, <1>4, <1>6 DEF HistoryMatches

(* A finished reservation has a snapshot, and it is an event. *)
LEMMA SnapshotIsEvent ==
  ASSUME IInv, stage = 5
  PROVE  /\ snapshot \in Record
         /\ snapshot = events[snapshot.seq + 1]
         /\ snapshot.seq + 1 \in {Len(events), Len(events) - 1}
         /\ snapshot.seq + 1 \in 1..Len(events)
         /\ partial = 1 => snapshot.seq + 1 = Len(events)
<1>1. snapshot \in Record /\ snapshot # NoRecord
  BY NoRecordIsNoRecord DEF IInv, StageSound
<1>2. snapshot.seq \in Nat /\ Len(events) \in Nat
  BY <1>1 DEF IInv, WorkspaceTypeOK, Record
<1> QED BY <1>1, <1>2 DEF IInv, JournalSound

(* The journal has room for the event a transition is about to add. *)
LEMMA RoomForEvent ==
  ASSUME IInv, NEW p \in Proc, call[p] \in {"create", "fill"}
  PROVE  /\ next[p] \in Record
         /\ Follows(events[Len(events)], next[p])
         /\ Len(events) \in 1..5
         /\ Len(events) + 1 <= Rank[next[p].state] + 1
<1>1. stage = 5 /\ next[p] \in Record
  BY DEF IInv, StageSound, CarriedTyped
<1>2. Follows(snapshot, next[p]) /\ Len(events) = snapshot.seq + 1
  BY DEF IInv, WriterSound
<1>3. snapshot \in Record /\ snapshot = events[Len(events)] /\ Len(events) \in 1..Len(events)
  BY <1>1, <1>2, SnapshotIsEvent
<1>4. Len(events) <= Rank[snapshot.state] + 1
  BY <1>3 DEF IInv, Ranked
<1>5. Rank[snapshot.state] <= 4 /\ Rank[next[p].state] >= Rank[snapshot.state] + 1
  BY <1>1, <1>2, <1>3, RankRises DEF Follows, Record
<1>6. Rank[snapshot.state] \in 0..5 /\ Rank[next[p].state] \in 0..5 /\ Len(events) \in Nat
  BY <1>1, <1>3, RankTyped DEF Record, IInv, WorkspaceTypeOK
<1> QED BY <1>1, <1>2, <1>3, <1>4, <1>5, <1>6

-----------------------------------------------------------------------------
LEMMA StepPreserves == IInv /\ [WorkspaceNext]_workspaceVars => IInv'
<1> SUFFICES ASSUME IInv, [WorkspaceNext]_workspaceVars PROVE IInv'
  OBVIOUS
<1> USE ProcAssumption
<1>1. ASSUME NEW p \in Proc, BeginReserve(p) PROVE IInv'
  BY <1>1 DEF BeginReserve, IInv, WorkspaceTypeOK, CarriedTyped, StageSound, LockHeld, InLock, JournalSound, Ranked,
     ViewInJournal, WriterSound, Goto, EndCall, Release, CallSteps, disk, local
<1>2. ASSUME NEW p \in Proc, ReserveWrite(p) PROVE IInv'
  <2>1. CASE stage < 3
    BY <1>2, <2>1 DEF IInv, WorkspaceTypeOK, CarriedTyped, StageSound, LockHeld, InLock, JournalSound, Ranked,
     ViewInJournal, WriterSound, Goto, EndCall, Release, CallSteps, disk, local, ReserveWrite
  <2>2. CASE stage = 3
    <3>1. PICK t \in ClockTimes : events' = << InitialRecord(t) >>
      BY <1>2, <2>2 DEF ReserveWrite
    <3>2. InitialRecord(t) \in Record /\ t \in Nat
      BY ClockAssumption DEF InitialRecord, Record, RunState, Absent
    <3>3. /\ events' \in Seq(Record) /\ Len(events') = 1 /\ events'[1] = InitialRecord(t)
          /\ events'[1].state = "CREATED"
      BY <3>1, <3>2 DEF InitialRecord
    <3>4. UNCHANGED <<partial, snapshot, inputs, flock, local>> /\ stage' = 4
      BY <1>2, <2>2 DEF ReserveWrite
    <3>5. WorkspaceTypeOK' /\ CarriedTyped' /\ StageSound' /\ LockHeld'
      BY <1>2, <2>2, <3>3, <3>4 DEF IInv, WorkspaceTypeOK, CarriedTyped, StageSound, LockHeld, InLock, local
    <3>6. snapshot' = NoRecord /\ partial' = 0
      BY <2>2, <3>4 DEF IInv, StageSound
    <3>7. JournalSound' /\ Ranked'
      BY <3>3, <3>6, RankTyped DEF JournalSound, Ranked, ValidChain, Follows, InitialRecord,
         MaxLifecycleEvents, RunState
    <3>8. ViewInJournal' /\ WriterSound'
      BY <2>2, <3>4 DEF IInv, StageSound, ViewInJournal, WriterSound, local
    <3> QED BY <3>5, <3>7, <3>8 DEF IInv
  <2>3. CASE stage = 4
    <3>1. Len(events) = 1 /\ events[1] \in Record /\ events[1].seq = 0 /\ partial = 0
      <4>1. Len(events) = 1 /\ events \in Seq(Record) /\ partial = 0
        BY <2>3 DEF IInv, WorkspaceTypeOK, StageSound
      <4>2. events[1].seq = 1 - 1
        BY <4>1 DEF IInv, JournalSound, ValidChain
      <4> QED BY <4>1, <4>2
    <3>2. snapshot' = events[1] /\ stage' = 5 /\ UNCHANGED <<events, partial, inputs, flock, local>>
      BY <1>2, <2>3 DEF ReserveWrite
    <3>3. WorkspaceTypeOK'
      BY <3>1, <3>2 DEF IInv, WorkspaceTypeOK, local
    <3>4. CarriedTyped' /\ LockHeld' /\ Ranked'
      BY <3>2 DEF IInv, CarriedTyped, LockHeld, InLock, Ranked, local
    <3>5. StageSound'
      BY <2>3, <3>1, <3>2 DEF IInv, StageSound, local
    <3>6. ValidChain(events)'
      BY <3>2 DEF IInv, JournalSound, ValidChain, Follows
    <3>7. JournalSound'
      <4>1. Len(events') = 1 /\ snapshot' = events'[1] /\ snapshot'.seq + 1 = 1 /\ partial' = 0
        BY <3>1, <3>2
      <4> QED BY <4>1, <3>6 DEF JournalSound, MaxLifecycleEvents
    <3>8. ViewInJournal' /\ WriterSound'
      BY <2>3, <3>2 DEF IInv, StageSound, ViewInJournal, WriterSound, local
    <3> QED BY <3>3, <3>4, <3>5, <3>7, <3>8 DEF IInv
  <2> QED BY <1>2, <2>1, <2>2, <2>3 DEF ReserveWrite, IInv, WorkspaceTypeOK
<1>3. ASSUME NEW p \in Proc, FinishReserve(p) PROVE IInv'
  BY <1>3 DEF FinishReserve, IInv, WorkspaceTypeOK, CarriedTyped, StageSound, LockHeld, InLock, JournalSound, Ranked,
     ViewInJournal, WriterSound, Goto, EndCall, Release, CallSteps, disk, local
<1>4. ASSUME NEW p \in Proc, FailReserve(p) PROVE IInv'
  BY <1>4 DEF FailReserve, IInv, WorkspaceTypeOK, CarriedTyped, StageSound, LockHeld, InLock, JournalSound, Ranked,
     ViewInJournal, WriterSound, Goto, EndCall, Release, CallSteps, disk, local
<1>5. ASSUME NEW p \in Proc, BeginRead(p) PROVE IInv'
  BY <1>5 DEF BeginRead, IInv, WorkspaceTypeOK, CarriedTyped, StageSound, LockHeld, InLock, JournalSound, Ranked,
     ViewInJournal, WriterSound, Goto, EndCall, Release, CallSteps, disk, local
<1>6. ASSUME NEW p \in Proc, NEW target \in Target, BeginTransition(p, target) PROVE IInv'
  BY <1>6 DEF BeginTransition, IInv, WorkspaceTypeOK, CarriedTyped, StageSound, LockHeld, InLock, JournalSound, Ranked,
     ViewInJournal, WriterSound, Goto, EndCall, Release, CallSteps, disk, local
<1>7. ASSUME NEW p \in Proc, AcquireLock(p) PROVE IInv'
  BY <1>7 DEF AcquireLock, IInv, WorkspaceTypeOK, CarriedTyped, StageSound, LockHeld, InLock, JournalSound, Ranked,
     ViewInJournal, WriterSound, Goto, EndCall, Release, CallSteps, disk, local
<1>8. ASSUME NEW p \in Proc, LoadSnapshot(p) PROVE IInv'
  <2>1. WorkspaceTypeOK' /\ CarriedTyped' /\ StageSound' /\ LockHeld' /\ JournalSound' /\ Ranked' /\ WriterSound'
    BY <1>8 DEF IInv, WorkspaceTypeOK, CarriedTyped, StageSound, LockHeld, InLock, JournalSound, Ranked,
     ViewInJournal, WriterSound, Goto, EndCall, Release, CallSteps, disk, local, LoadSnapshot
  <2>2. ViewInJournal'
    BY <1>8, SnapshotIsEvent DEF IInv, WorkspaceTypeOK, Record, ViewInJournal, LoadSnapshot, Goto, disk
  <2> QED BY <2>1, <2>2 DEF IInv
<1>9. ASSUME NEW p \in Proc, LoadFails(p) PROVE IInv'
  BY <1>9 DEF LoadFails, IInv, WorkspaceTypeOK, CarriedTyped, StageSound, LockHeld, InLock, JournalSound, Ranked,
     ViewInJournal, WriterSound, Goto, EndCall, Release, CallSteps, disk, local
<1>10. ASSUME NEW p \in Proc, AcceptRead(p) PROVE IInv'
  BY <1>10 DEF AcceptRead, IInv, WorkspaceTypeOK, CarriedTyped, StageSound, LockHeld, InLock, JournalSound, Ranked,
     ViewInJournal, WriterSound, Goto, EndCall, Release, CallSteps, disk, local
<1>11. ASSUME NEW p \in Proc, AcceptLocked(p) PROVE IInv'
  <2>1. WorkspaceTypeOK' /\ CarriedTyped' /\ StageSound' /\ LockHeld' /\ JournalSound' /\ Ranked' /\ ViewInJournal'
    BY <1>11 DEF IInv, WorkspaceTypeOK, CarriedTyped, StageSound, LockHeld, InLock, JournalSound, Ranked,
     ViewInJournal, WriterSound, Goto, EndCall, Release, CallSteps, disk, local, AcceptLocked
  <2>2. view[p] = snapshot /\ Len(events) = view[p].seq + 1 /\ partial = 0
    BY <1>11, ScanSeesCurrent DEF AcceptLocked, HistoryMatches
  <2>3. WriterSound'
    BY <1>11, <2>2 DEF IInv, WorkspaceTypeOK, WriterSound, AcceptLocked, Goto, disk, Follows
  <2> QED BY <2>1, <2>3 DEF IInv
<1>12. ASSUME NEW p \in Proc, RejectHistory(p) PROVE IInv'
  BY <1>12 DEF RejectHistory, IInv, WorkspaceTypeOK, CarriedTyped, StageSound, LockHeld, InLock, JournalSound, Ranked,
     ViewInJournal, WriterSound, Goto, EndCall, Release, CallSteps, disk, local
<1>13. ASSUME NEW p \in Proc, Stamp(p) PROVE IInv'
  <2>1. PICK t \in ClockTimes :
          /\ MayStamp(p, t)
          /\ next' = [next EXCEPT ![p] = [seq |-> view[p].seq + 1, prev |-> view[p].state,
                                          state |-> goal[p].state, at |-> t]]
    BY <1>13 DEF Stamp
  <2>2. view[p] \in Record /\ goal[p] \in Target /\ view[p] = snapshot
    BY <1>13 DEF Stamp, IInv, CarriedTyped, WriterSound
  <2>3. next'[p] \in Record
    BY <2>1, <2>2 DEF Record, Target, IInv, WorkspaceTypeOK
  <2>4. Follows(snapshot, next'[p])
    BY <2>1, <2>2 DEF Follows, MayStamp, IInv, WorkspaceTypeOK
  <2>5. WorkspaceTypeOK' /\ CarriedTyped'
    BY <1>13, <2>1, <2>3 DEF IInv, WorkspaceTypeOK, CarriedTyped, Stamp, Goto, CallSteps, disk
  <2>6. StageSound' /\ LockHeld' /\ JournalSound' /\ Ranked' /\ ViewInJournal'
    BY <1>13 DEF IInv, WorkspaceTypeOK, CarriedTyped, StageSound, LockHeld, InLock, JournalSound, Ranked,
     ViewInJournal, WriterSound, Goto, EndCall, Release, CallSteps, disk, local, Stamp
  <2>7. WriterSound'
    BY <1>13, <2>1, <2>4 DEF IInv, WorkspaceTypeOK, WriterSound, Stamp, Goto, disk, Follows
  <2> QED BY <2>5, <2>6, <2>7 DEF IInv
<1>14. ASSUME NEW p \in Proc, RejectTransition(p) PROVE IInv'
  BY <1>14 DEF RejectTransition, IInv, WorkspaceTypeOK, CarriedTyped, StageSound, LockHeld, InLock, JournalSound, Ranked,
     ViewInJournal, WriterSound, Goto, EndCall, Release, CallSteps, disk, local
<1>15. ASSUME NEW p \in Proc, CreateEvent(p) PROVE IInv'
  <2>1. WorkspaceTypeOK' /\ CarriedTyped' /\ StageSound' /\ LockHeld' /\ Ranked' /\ ViewInJournal' /\ WriterSound'
    BY <1>15 DEF IInv, WorkspaceTypeOK, CarriedTyped, StageSound, LockHeld, InLock, JournalSound, Ranked,
     ViewInJournal, WriterSound, Goto, EndCall, Release, CallSteps, disk, local, CreateEvent
  <2>2. Len(events) \in 1..5 /\ Len(events) = snapshot.seq + 1
    BY <1>15, RoomForEvent DEF CreateEvent, IInv, WriterSound
  <2>3. JournalSound'
    BY <1>15, <2>2 DEF IInv, JournalSound, CreateEvent, MaxLifecycleEvents
  <2> QED BY <2>1, <2>3 DEF IInv
<1>16. ASSUME NEW p \in Proc, FillEvent(p) PROVE IInv'
  <2>1. /\ next[p] \in Record /\ Follows(events[Len(events)], next[p])
        /\ Len(events) \in 1..5 /\ Len(events) + 1 <= Rank[next[p].state] + 1
    BY <1>16, RoomForEvent DEF FillEvent
  <2>2. Len(events) = snapshot.seq + 1 /\ view[p] = snapshot /\ stage = 5 /\ flock = p
    BY <1>16 DEF FillEvent, IInv, WriterSound, StageSound, LockHeld, InLock
  <2>3. /\ snapshot \in Record /\ snapshot = events[snapshot.seq + 1]
        /\ snapshot.seq + 1 \in 1..Len(events)
    BY <2>2, SnapshotIsEvent
  <2>4. /\ events' \in Seq(Record)
        /\ Len(events') = Len(events) + 1
        /\ \A i \in 1..Len(events) : events'[i] = events[i]
        /\ events'[Len(events) + 1] = next[p]
    BY <1>16, <2>1 DEF FillEvent, IInv, WorkspaceTypeOK
  <2>5. /\ call' = [call EXCEPT ![p] = "replace"] /\ partial' = 0
        /\ UNCHANGED <<stage, snapshot, inputs, flock, goal, view, next, holders>>
    BY <1>16 DEF FillEvent, Goto
  <2>6. WorkspaceTypeOK' /\ CarriedTyped' /\ StageSound' /\ LockHeld'
    BY <1>16, <2>2, <2>4, <2>5 DEF FillEvent, IInv, WorkspaceTypeOK, CallSteps, CarriedTyped, StageSound, LockHeld, InLock
  <2>7. \A i \in 1..Len(events) : events[i] \in Record
    BY DEF IInv, WorkspaceTypeOK
  <2>8. ValidChain(events)
    BY DEF IInv, JournalSound
  <2>9. ValidChain(events')
    <3>1. \A i \in 1..Len(events') : events'[i].seq = i - 1
      <4> TAKE i \in 1..Len(events')
      <4>1. CASE i = Len(events) + 1
        <5>1. next[p].seq = events[Len(events)].seq + 1
          BY <2>1 DEF Follows
        <5>2. Len(events) \in 1..Len(events)
          BY <2>2, <2>3
        <5>3. events[Len(events)].seq = Len(events) - 1
          BY <5>2, <2>8 DEF ValidChain
        <5> QED BY <4>1, <5>1, <5>3, <2>1, <2>4
      <4>2. CASE i \in 1..Len(events)
        BY <4>2, <2>4, <2>8 DEF ValidChain
      <4> QED BY <4>1, <4>2, <2>1, <2>4
    <3>2. \A i \in 1..(Len(events') - 1) : Follows(events'[i], events'[i + 1])
      <4> TAKE i \in 1..(Len(events') - 1)
      <4>1. CASE i = Len(events)
        BY <4>1, <2>1, <2>4
      <4>2. CASE i \in 1..(Len(events) - 1)
        BY <4>2, <2>1, <2>4, <2>8 DEF ValidChain
      <4> QED BY <4>1, <4>2, <2>1, <2>4
    <3> QED BY <3>1, <3>2 DEF ValidChain
  <2>10. JournalSound'
    BY <2>1, <2>2, <2>3, <2>4, <2>5, <2>9 DEF JournalSound, MaxLifecycleEvents, Record
  <2>11. Ranked'
    BY <2>1, <2>4 DEF IInv, Ranked
  <2>12. ViewInJournal'
    <3> SUFFICES ASSUME NEW q \in Proc, call'[q] = "scan"
                 PROVE  view'[q].seq <= snapshot'.seq /\ view'[q] = events'[view'[q].seq + 1]
      BY DEF ViewInJournal
    <3>1. call[q] = "scan"
      BY <2>5 DEF IInv, WorkspaceTypeOK
    <3>2. /\ view[q].seq <= snapshot.seq /\ view[q] = events[view[q].seq + 1]
          /\ view[q].seq \in Nat /\ snapshot.seq \in Nat
      BY <3>1, <2>3 DEF IInv, ViewInJournal, CarriedTyped, Record
    <3>3. view[q].seq + 1 \in 1..Len(events)
      BY <3>2, <2>1, <2>2
    <3> QED BY <3>2, <3>3, <2>4, <2>5
  <2>13. WriterSound'
    <3> SUFFICES ASSUME NEW q \in Proc, call'[q] \in {"stamp", "create", "fill", "replace"}
                 PROVE  WriterSound!(q)'
      BY DEF WriterSound
    <3>1. q = p
      BY <2>2, <2>5, <2>6 DEF LockHeld, InLock
    <3> QED BY <3>1, <1>16, <2>1, <2>2, <2>3, <2>4, <2>5 DEF FillEvent, IInv, WorkspaceTypeOK, WriterSound, Record
  <2> QED BY <2>6, <2>10, <2>11, <2>12, <2>13 DEF IInv
<1>17. ASSUME NEW p \in Proc, ReplaceSnapshot(p) PROVE IInv'
  <2>1. WorkspaceTypeOK' /\ CarriedTyped' /\ LockHeld' /\ Ranked'
    BY <1>17 DEF IInv, WorkspaceTypeOK, CarriedTyped, LockHeld, InLock, Ranked, ReplaceSnapshot, Goto,
       EndCall, Release, CallSteps
  <2>6. StageSound' /\ WriterSound'
    BY <1>17 DEF IInv, WorkspaceTypeOK, CarriedTyped, StageSound, LockHeld, InLock, WriterSound,
       ReplaceSnapshot, Goto, EndCall, Release
  <2>2. /\ next[p] \in Record /\ snapshot \in Record /\ partial = 0
        /\ Len(events) = snapshot.seq + 2 /\ events[Len(events)] = next[p]
        /\ next[p].seq = snapshot.seq + 1
    BY <1>17 DEF ReplaceSnapshot, IInv, CarriedTyped, StageSound, WriterSound, Follows
  <2>3. snapshot' = next[p] /\ UNCHANGED <<events, partial>>
    BY <1>17 DEF ReplaceSnapshot
  <2>4. JournalSound'
    BY <2>2, <2>3 DEF IInv, JournalSound, Record
  <2>5. ViewInJournal'
    BY <1>17, <2>2, <2>3 DEF IInv, WorkspaceTypeOK, CarriedTyped, Record, ViewInJournal, ReplaceSnapshot, EndCall, Goto
  <2> QED BY <2>6, <2>1, <2>4, <2>5 DEF IInv
<1>18. ASSUME NEW p \in Proc, PersistFails(p) PROVE IInv'
  BY <1>18 DEF PersistFails, IInv, WorkspaceTypeOK, CarriedTyped, StageSound, LockHeld, InLock, JournalSound, Ranked,
     ViewInJournal, WriterSound, Goto, EndCall, Release, CallSteps, disk, local
<1>19. ASSUME NEW p \in Proc, ProcessDies(p) PROVE IInv'
  BY <1>19 DEF ProcessDies, IInv, WorkspaceTypeOK, CarriedTyped, StageSound, LockHeld, InLock, JournalSound, Ranked,
     ViewInJournal, WriterSound, Goto, EndCall, Release, CallSteps, disk, local
<1>20. ASSUME TamperInputs PROVE IInv'
  BY <1>20 DEF TamperInputs, IInv, WorkspaceTypeOK, CarriedTyped, StageSound, LockHeld, InLock, JournalSound, Ranked,
     ViewInJournal, WriterSound, Goto, EndCall, Release, CallSteps, disk, local
<1>21. CASE UNCHANGED workspaceVars
  BY <1>21 DEF workspaceVars, IInv, WorkspaceTypeOK, CarriedTyped, StageSound, LockHeld, InLock, JournalSound, Ranked,
     ViewInJournal, WriterSound, Goto, EndCall, Release, CallSteps, disk, local, Follows, ValidChain
<1> QED BY <1>1, <1>2, <1>3, <1>4, <1>5, <1>6, <1>7, <1>8, <1>9, <1>10, <1>11, <1>12, <1>13, <1>14, <1>15, <1>16, <1>17, <1>18, <1>19, <1>20, <1>21
     DEF WorkspaceNext, Reserving, Calling, ReadingState, Persisting

LEMMA Invariance == WorkspaceSpec => []IInv
<1>1. WorkspaceInit => IInv
  BY InitEstablishes
<1>2. IInv /\ [WorkspaceNext]_workspaceVars => IInv'
  BY StepPreserves
<1> QED BY <1>1, <1>2, PTL DEF WorkspaceSpec

-----------------------------------------------------------------------------
(* Every variable of the workspace keeps its type. *)
THEOREM TypeCorrect == WorkspaceSpec => []WorkspaceTypeOK
<1>1. IInv => WorkspaceTypeOK
  BY DEF IInv
<1> QED BY <1>1, Invariance, PTL

(* Whatever processes fail or die, the journal is one path of the frozen   *)
(* graph within the readers' limit and the snapshot stays beside its end.  *)
THEOREM JournalStaysSound == WorkspaceSpec => []JournalSound
<1>1. IInv => JournalSound
  BY DEF IInv
<1> QED BY <1>1, Invariance, PTL

(* A read without the lock never returns a stale state as the current one. *)
THEOREM ReadsAreCurrent == WorkspaceSpec => []ReadIsCurrent
<1>1. IInv => ReadIsCurrent
  BY ScanSeesCurrent DEF ReadIsCurrent
<1> QED BY <1>1, Invariance, PTL

(* Nothing is written any more behind a transition that was cut short. *)
THEOREM CutShortStaysFinal == WorkspaceSpec => CutShortIsFinal
<1>1. IInv /\ [WorkspaceNext]_workspaceVars => (CutShort => UNCHANGED <<events, partial, snapshot>>)
  <2> SUFFICES ASSUME IInv, [WorkspaceNext]_workspaceVars, CutShort
               PROVE  UNCHANGED <<events, partial, snapshot>>
    OBVIOUS
  <2>1. /\ stage = 5 /\ \A p \in Proc : call[p] \notin {"fill", "replace"}
        /\ partial = 1 \/ Len(events) = snapshot.seq + 2
    BY DEF CutShort, Writing
  <2>2. \A p \in Proc : call[p] # "create"
    <3> SUFFICES ASSUME NEW p \in Proc, call[p] = "create" PROVE FALSE
      OBVIOUS
    <3>1. partial = 0 /\ Len(events) = snapshot.seq + 1 /\ snapshot.seq \in Nat
      BY <2>1 DEF IInv, WriterSound, StageSound, Record
    <3> QED BY <2>1, <3>1
  <2> QED BY <2>1, <2>2
       DEF WorkspaceNext, workspaceVars, disk, local, Reserving, Calling, ReadingState, Persisting,
           BeginReserve, ReserveWrite, FinishReserve, FailReserve, BeginRead, BeginTransition,
           AcquireLock, LoadSnapshot, LoadFails, AcceptRead, AcceptLocked, RejectHistory, Stamp,
           RejectTransition, CreateEvent, FillEvent, ReplaceSnapshot, PersistFails, ProcessDies,
           TamperInputs
<1> QED BY <1>1, Invariance, PTL DEF WorkspaceSpec, CutShortIsFinal

-----------------------------------------------------------------------------
(* The detailed workspace implements the register its readers rely on: the *)
(* run is reserved once and then moves one edge of the graph at a time.    *)
THEOREM WorkspaceImplementsRegister == WorkspaceSpec => WorkspaceIsRegister
<1>1. WorkspaceInit => WorkspaceRegister!Init
  BY DEF WorkspaceInit, WorkspaceRegister!Init, WorkspaceRegister!Absent, Absent
<1>2. IInv /\ [WorkspaceNext]_workspaceVars =>
        [WorkspaceRegister!Next]_(IF snapshot = NoRecord THEN Absent ELSE snapshot.state)
  <2> SUFFICES ASSUME IInv, [WorkspaceNext]_workspaceVars, snapshot' # snapshot
               PROVE  WorkspaceRegister!Next
    OBVIOUS
  <2>1. ASSUME NEW p \in Proc, ReserveWrite(p) PROVE WorkspaceRegister!Reserve
    <3>1. snapshot' = events[1] /\ stage = 4
      BY <2>1 DEF ReserveWrite
    <3>2. /\ events[1].state = "CREATED" /\ Len(events) = 1
          /\ events \in Seq(Record) /\ snapshot = NoRecord
      BY <3>1 DEF IInv, StageSound, WorkspaceTypeOK
    <3>3. events[1] \in Record
      BY <3>2
    <3> QED BY <3>1, <3>2, <3>3, NoRecordIsNoRecord DEF WorkspaceRegister!Reserve, WorkspaceRegister!Absent, Absent
  <2>2. ASSUME NEW p \in Proc, ReplaceSnapshot(p) PROVE WorkspaceRegister!Advance
    <3>1. /\ snapshot' = next[p] /\ next[p] \in Record /\ snapshot \in Record
          /\ Follows(snapshot, next[p])
      BY <2>2 DEF ReplaceSnapshot, IInv, CarriedTyped, StageSound, WriterSound
    <3>2. snapshot # NoRecord /\ snapshot' # NoRecord
      BY <3>1, NoRecordIsNoRecord
    <3>3. snapshot.state \in RunState /\ ValidTransition(snapshot.state, next[p].state)
      BY <3>1 DEF Follows, Record
    <3> QED BY <3>1, <3>2, <3>3
           DEF WorkspaceRegister!Advance, ValidTransition, WorkspaceRegister!RunState, RunState,
               WorkspaceRegister!AllowedTransitions, AllowedTransitions, WorkspaceRegister!Forward, Forward,
               WorkspaceRegister!TerminalStates, TerminalStates
  <2> QED BY <2>1, <2>2
       DEF WorkspaceRegister!Next, WorkspaceNext, workspaceVars, disk, local, Reserving, Calling, ReadingState, Persisting,
           BeginReserve, FinishReserve, FailReserve, BeginRead, BeginTransition,
           AcquireLock, LoadSnapshot, LoadFails, AcceptRead, AcceptLocked, RejectHistory, Stamp,
           RejectTransition, CreateEvent, FillEvent, PersistFails, ProcessDies, TamperInputs
<1> QED BY <1>1, <1>2, Invariance, PTL DEF WorkspaceSpec, WorkspaceIsRegister, WorkspaceRegister!Spec

=============================================================================
