--------------------------- MODULE GcpWatchdog_proof ---------------------------
(***************************************************************************)
(* The task's journal and its attempts, for any number of runners and      *)
(* callers, any budgets and any clock.                                     *)
(***************************************************************************)
EXTENDS GcpWatchdog, TLAPS

Early == {"NONE", "ARMED", "READY", "ACTIVE"}
Busy == {"cleaning", "cleaned", "failed"}

(* What the state of the last event e says of its other fields and of the  *)
(* number n of events. A fence is only on claimed attempts and on what     *)
(* they end in.                                                            *)
StatesFit(e, n) ==
  /\ n = 0 <=> e.state = "NONE"
  /\ e.state \in Early => e.tries = 0
  /\ e.state \in Waiting => e.tries < MaxAttempts
  /\ e.fence # NoFence => e.state \in Intents \cup {"CLEANUP_NOT_REQUIRED"}

(* An attempt takes two events, a resume one, and every other event is     *)
(* written once: the journal is never longer than this.                    *)
Room(e, n, r) ==
  /\ e.state = "ARMED" => n <= 1
  /\ e.state = "READY" => n <= 2
  /\ e.state = "ACTIVE" => n <= 3
  /\ e.state = "RUNNER_READY" => n <= 4 + 2 * e.tries + r
  /\ e.state \in Waiting => n <= 5 + 2 * e.tries + r
  /\ e.state \in Intents => n <= 5 + 2 * e.tries + r
  /\ e.state \in Intents /\ e.fence = NoFence => n <= 4 + 2 * e.tries + r
  /\ e.state = "CLEANUP_CONFIRMED" => n <= 5 + 2 * e.tries + r
  /\ e.state = "ORPHANED" => n <= 6 + 2 * e.tries + r
  /\ e.state = "CLEANUP_NOT_REQUIRED" => n <= 7 + 2 * e.tries + r

Fits(e, n, r) == StatesFit(e, n) /\ Room(e, n, r)

(* Nobody has seen events that are not there; who has seen the last one    *)
(* and is about to add to it knows what it says.                           *)
Tickets ==
  /\ \A w \in Worker : ticket[w] <= len
  /\ \A w \in Worker :
       pc[w] \in Busy /\ ticket[w] = len =>
         log.state \in Intents /\ ~Fenced /\ started[w] = log.at
  /\ \A c \in Worker :
       pc[c] = "respawn" /\ ticket[c] = len =>
         Open /\ ~Fenced /\ resumes < MaxResumes

(* A finished attempt that nothing was written after left nothing.         *)
Gone ==
  /\ ConfirmedIsGone
  /\ \A w \in Worker :
       pc[w] = "cleaned" /\ ticket[w] = len /\ log.disk = "bound" => left = {}

(* Who cleans up has begun before the last event; when the task waits, its *)
(* lease is over; and the holder of a claim began when all others' leases  *)
(* were over.                                                              *)
Spaced ==
  chain # "broken" =>
    /\ \A v \in Worker : pc[v] = "cleaning" =>
         /\ log.state \notin Early
         /\ started[v] <= log.at
         /\ log.state \in Waiting => started[v] + Lease <= log.at
    /\ \A v, w \in Worker :
         v # w /\ pc[v] = "cleaning" /\ pc[w] \in Busy /\ ticket[w] = len =>
           started[v] + Lease <= started[w]

IInv ==
  /\ TaskTypeOK /\ Fits(log, len, resumes)
  /\ Tickets /\ Gone /\ Spaced /\ ClaimsDoNotOverlap

-----------------------------------------------------------------------------
(* A step that writes nothing to the journal, and claims nothing.          *)
Quiet ==
  /\ UNCHANGED <<log, len, resumes>>
  /\ chain' # "broken" => chain # "broken"
  /\ log.disk = "bound" => left' \subseteq left
  /\ \A w \in Worker :
       /\ ticket'[w] \in {ticket[w], len}
       /\ pc'[w] \in Busy =>
            pc[w] \in Busy /\ ticket'[w] = ticket[w] /\ started'[w] = started[w]
       /\ pc'[w] = "cleaning" => pc[w] = "cleaning"
       /\ pc'[w] = "cleaned" /\ pc[w] # "cleaned" /\ log.disk = "bound" => left' = {}
       /\ pc'[w] = "respawn" =>
            \/ pc[w] = "respawn" /\ ticket'[w] = ticket[w]
            \/ Open /\ ~Fenced /\ resumes < MaxResumes

(* A step that writes an event, and claims nothing.                        *)
Adds ==
  /\ len' > len /\ chain # "broken"
  /\ chain' = "broken" \/ log'.at >= log.at
  /\ UNCHANGED <<left, ticket, started>>
  /\ \A w \in Worker : pc'[w] \in Busy \cup {"respawn"} => pc'[w] = pc[w]

(* The event makes the task wait only when every lease is over.            *)
Waits ==
  /\ log'.state \in Early => log.state \in Early
  /\ log'.state \in Waiting =>
       \/ log.state \in Early \cup Waiting
       \/ log.at + Lease <= log'.at
       \/ \E w \in Worker : /\ ticket[w] = len /\ pc[w] \in Busy /\ pc'[w] \notin Busy
                            /\ started[w] <= log'.at

-----------------------------------------------------------------------------
LEMMA Constants ==
  /\ MaxAttempts \in Nat /\ Lease \in Nat /\ RuntimeDeadline \in Nat
  /\ CleanupDeadline \in Nat /\ MaxAttempts > 0 /\ Lease > 0
  /\ MaxResumes \in Nat /\ Lag \in Nat /\ MaxClock \in Nat /\ MaxFaults \in Nat
  /\ \A c \in Caller : c \notin Runner
BY WatchdogAssumption DEF WatchdogAssumption

LEMMA RoomIsBounded ==
  ASSUME NEW e \in Event, NEW n \in Nat, NEW r \in 0..MaxResumes, Fits(e, n, r)
  PROVE  n \in 0..MaxEvents
BY Constants DEF Fits, StatesFit, Room, Event, MaxEvents, States, Waiting, Intents, Settled, Early

LEMMA InitEstablishes == TaskInit => IInv
<1> SUFFICES ASSUME TaskInit PROVE IInv
  OBVIOUS
<1>1. TaskTypeOK
  BY Constants DEF TaskInit, TaskTypeOK, Event, States, MaxEvents, RunnerSteps, CallerSteps, NoFence
<1>2. Fits(log, len, resumes)
  BY DEF TaskInit, Fits, StatesFit, Room, Early, Waiting, Intents, NoFence
<1>3. Tickets /\ Gone /\ Spaced /\ ClaimsDoNotOverlap
  BY DEF TaskInit, Tickets, Gone, Spaced, ClaimsDoNotOverlap, ConfirmedIsGone, Busy, Worker
<1> QED BY <1>1, <1>2, <1>3 DEF IInv

LEMMA QuietKeeps == IInv /\ TaskTypeOK' /\ Quiet => IInv'
<1> SUFFICES ASSUME IInv, TaskTypeOK', Quiet PROVE IInv'
  OBVIOUS
<1>1. Fits(log, len, resumes)'
  BY DEF IInv, Quiet, Fits, StatesFit, Room
<1>2. Tickets'
  BY DEF IInv, Quiet, Tickets, Open, Fenced, TaskTypeOK, Busy
<1>3. Gone'
  BY DEF IInv, Quiet, Gone, ConfirmedIsGone, TaskTypeOK, Busy
<1>4. Spaced'
  BY DEF IInv, Quiet, Spaced, Busy
<1>5. ClaimsDoNotOverlap'
  BY DEF IInv, Quiet, ClaimsDoNotOverlap, Busy
<1> QED BY <1>1, <1>2, <1>3, <1>4, <1>5 DEF IInv

LEMMA AddsKeeps ==
  IInv /\ TaskTypeOK' /\ Fits(log, len, resumes)' /\ ConfirmedIsGone' /\ Adds /\ Waits
    => IInv'
<1> SUFFICES ASSUME IInv, TaskTypeOK', Fits(log, len, resumes)', ConfirmedIsGone', Adds, Waits
             PROVE  IInv'
  OBVIOUS
<1> USE DEF Adds
<1>0. \A w \in Worker : ticket'[w] = ticket[w] /\ ticket[w] < len' /\ ticket'[w] # len'
  BY DEF IInv, Tickets, TaskTypeOK
<1>1. Tickets'
  BY <1>0 DEF IInv, Tickets, TaskTypeOK
<1>2. Gone'
  BY <1>0 DEF Gone, TaskTypeOK
<1>3. ASSUME chain' # "broken", NEW v \in Worker, pc'[v] = "cleaning"
      PROVE  /\ log'.state \notin Early /\ started'[v] <= log'.at
             /\ log'.state \in Waiting => started'[v] + Lease <= log'.at
  <2>1. pc[v] = "cleaning" /\ log.state \notin Early /\ started[v] <= log.at
    BY <1>3 DEF IInv, Spaced, Busy
  <2>2. /\ started[v] \in Nat /\ log.at \in Nat /\ log'.at \in Nat /\ Lease \in Nat
        /\ started'[v] = started[v] /\ log'.at >= log.at
    BY <1>3, Constants DEF IInv, TaskTypeOK, Event
  <2>3. CASE log.state \in Waiting
    BY <1>3, <2>1, <2>2, <2>3 DEF IInv, Spaced, Waits
  <2>4. CASE log.at + Lease <= log'.at
    BY <1>3, <2>1, <2>2, <2>4 DEF Waits
  <2>5. ASSUME NEW w \in Worker, ticket[w] = len, pc[w] \in Busy, pc'[w] \notin Busy,
               started[w] <= log'.at
        PROVE  started[v] + Lease <= log'.at
    <3>1. started[v] + Lease <= started[w]
      BY <1>3, <2>1, <2>5 DEF IInv, Spaced, Busy
    <3>2. started[w] \in Nat
      BY DEF IInv, TaskTypeOK
    <3> QED BY <2>2, <2>5, <3>1, <3>2
  <2> QED BY <2>1, <2>2, <2>3, <2>4, <2>5 DEF Waits
<1>4. Spaced'
  BY <1>0, <1>3 DEF Spaced, Early, Waiting, Busy
<1>5. ClaimsDoNotOverlap'
  BY DEF IInv, ClaimsDoNotOverlap, Busy
<1> QED BY <1>1, <1>2, <1>4, <1>5 DEF IInv

-----------------------------------------------------------------------------
(* What Put writes. *)
LEMMA PutWrites ==
  ASSUME IInv, NEW e \in Event, NEW t \in 0..MaxClock, NEW n \in {1, 2},
         Put(e, t, n), chain # "broken"
  PROVE  /\ log' \in Event /\ log'.at = t
         /\ log'.state = e.state /\ log'.tries = e.tries /\ log'.fence = e.fence
         /\ log'.disk = e.disk /\ log'.runner = e.runner
         /\ len' = len + n /\ len' \in Nat /\ len' > len
         /\ chain' \in {"whole", "broken"}
         /\ chain' = "broken" \/ log'.at >= log.at
<1>2. log' = [e EXCEPT !.at = t] /\ len' = len + n
  BY DEF Put
<1>3. /\ log' \in Event /\ log'.at = t
      /\ log'.state = e.state /\ log'.tries = e.tries /\ log'.fence = e.fence
      /\ log'.disk = e.disk /\ log'.runner = e.runner
  BY <1>2 DEF Event
<1>4. log.at \in Nat /\ len \in Nat
  BY DEF IInv, TaskTypeOK, Event
<1> QED BY <1>2, <1>3, <1>4 DEF Put

(* The variables that are not the journal. *)
Others ==
  /\ resumes \in 0..MaxResumes
  /\ spec \in {"none", "prepared", "bound"}
  /\ left \subseteq {"vm", "disk"}
  /\ pc \in [Worker -> RunnerSteps \cup CallerSteps]
  /\ ticket \in [Worker -> Nat]
  /\ started \in [Worker -> 0..MaxClock]
  /\ hand \in [Caller -> Runner \cup {NoRunner}]
  /\ clock \in 0..MaxClock
  /\ faults \in 0..MaxFaults

(* What an event of the given form keeps. *)
LEMMA EventKeeps ==
  ASSUME IInv, NEW e \in Event, NEW t \in 0..MaxClock, NEW n \in {1, 2},
         Put(e, t, n), chain # "broken", Others', Fits(e, len + n, resumes'),
         UNCHANGED <<left, ticket, started>>,
         \A w \in Worker : pc'[w] \in Busy \cup {"respawn"} => pc'[w] = pc[w],
         e.state = "CLEANUP_CONFIRMED" => e.disk = "bound" /\ left = {},
         e.state \in Early => log.state \in Early,
         e.state \in Waiting =>
           \/ log.state \in Early \cup Waiting
           \/ log.at + Lease <= t
           \/ \E w \in Worker : /\ ticket[w] = len /\ pc[w] \in Busy /\ pc'[w] \notin Busy
                                /\ started[w] <= t
  PROVE  IInv'
<1>1. /\ log' \in Event /\ log'.at = t
      /\ log'.state = e.state /\ log'.tries = e.tries /\ log'.fence = e.fence
      /\ log'.disk = e.disk /\ len' = len + n /\ len' \in Nat /\ len' > len
      /\ chain' \in {"whole", "broken"}
      /\ chain' = "broken" \/ log'.at >= log.at
  BY PutWrites
<1>2. Fits(log, len, resumes)'
  BY <1>1 DEF Fits, StatesFit, Room
<1>3. len' \in 0..MaxEvents
  BY <1>1, <1>2, RoomIsBounded DEF Others
<1>4. TaskTypeOK'
  BY <1>1, <1>3 DEF TaskTypeOK, Others
<1>5. ConfirmedIsGone'
  BY <1>1 DEF ConfirmedIsGone
<1>6. Adds
  BY <1>1 DEF Adds
<1>7. Waits
  BY <1>1 DEF Waits
<1> QED BY <1>2, <1>4, <1>5, <1>6, <1>7, AddsKeeps

(* What holds of the state a step begins in. *)
LEMMA Before ==
  ASSUME IInv
  PROVE  /\ Others /\ log \in Event /\ len \in Nat
         /\ resumes \in Nat /\ resumes \in 0..MaxResumes
         /\ chain \in {"whole", "torn", "broken"}
         /\ log.state \in States /\ log.at \in Nat /\ log.at \in 0..MaxClock
         /\ log.tries \in 0..MaxAttempts /\ log.disk \in {"unknown", "bound"}
         /\ log.fence \in {NoFence} \cup 0..MaxClock
         /\ Times \subseteq 0..MaxClock
         /\ Fits(log, len, resumes)
BY Constants DEF IInv, TaskTypeOK, Others, Event, Times

LEMMA FaultsFit == IInv /\ (Fine \/ Fault) => faults' \in 0..MaxFaults
BY Constants DEF IInv, TaskTypeOK, Fine, Fault

(* A new state makes a new event. *)
LEMMA NewState ==
  ASSUME IInv, NEW s \in States
  PROVE  /\ [log EXCEPT !.state = s] \in Event
         /\ [log EXCEPT !.state = s].state = s
         /\ [log EXCEPT !.state = s].tries = log.tries
         /\ [log EXCEPT !.state = s].fence = log.fence
         /\ [log EXCEPT !.state = s].disk = log.disk
BY Before DEF Event

-----------------------------------------------------------------------------
LEMMA ArmKeeps ==
  ASSUME IInv, NEW c \in Caller, Arm(c)
  PROVE  IInv'
<1> DEFINE e(s) == [log EXCEPT !.state = s]
<1>1. chain # "broken" /\ Others'
  BY Before DEF Arm, Reads, Others, Fine, Fault, backend, locals, Put
<1>2. ASSUME NEW t \in Times, NEW s \in {"ARMED", "READY"}, NEW n \in {1, 2},
             Put(e(s), t, n),
             \/ len = 0 /\ s = "ARMED" /\ n = 1
             \/ len = 0 /\ s = "READY" /\ n = 2
             \/ log.state = "ARMED" /\ s = "READY" /\ n = 1
      PROVE  IInv'
  <2>1. /\ e(s) \in Event /\ e(s).state = s /\ e(s).tries = log.tries
        /\ e(s).fence = log.fence
    BY NewState DEF States
  <2> HIDE DEF e
  <2>2. Fits(e(s), len + n, resumes')
    BY <1>2, <2>1, Before, Constants
       DEF Arm, Fits, StatesFit, Room, Early, Waiting, Intents, NoFence
  <2>3. log.state \in Early
    BY <1>2, Before DEF Fits, StatesFit, Early
  <2> QED BY <1>1, <1>2, <2>1, <2>2, <2>3, Before, EventKeeps
          DEF Arm, backend, locals, Waiting
<1>3. PICK t \in Times : \/ len = 0 /\ Put(e("READY"), t, 2)
                         \/ len = 0 /\ Put(e("ARMED"), t, 1)
                         \/ log.state = "ARMED" /\ Put(e("READY"), t, 1)
  BY DEF Arm, PutState
<1> QED BY <1>2, <1>3

LEMMA ActivateKeeps ==
  ASSUME IInv, NEW c \in Caller, Activate(c)
  PROVE  IInv'
<1> DEFINE e == [log EXCEPT !.state = "ACTIVE"]
<1>1. chain # "broken"
  BY Constants DEF Activate, Reads
<1>2. Others' /\ \A w \in Worker : pc'[w] \in Busy \cup {"respawn"} => pc'[w] = pc[w]
  BY Before DEF Activate, Others, Fine, Fault, Spawn, RunnerSteps, CallerSteps, Worker, Busy
<1>3. ASSUME NEW t \in Times, log.state = "READY", Put(e, t, 1)
      PROVE  IInv'
  <2>1. /\ e \in Event /\ e.state = "ACTIVE" /\ e.tries = log.tries
        /\ e.fence = log.fence
    BY NewState DEF States
  <2>2. Fits(e, len + 1, resumes')
    BY <1>3, <2>1, Before, Constants
       DEF Activate, Fits, StatesFit, Room, Early, Waiting, Intents, NoFence
  <2> HIDE DEF e
  <2> QED BY <1>1, <1>2, <1>3, <2>1, <2>2, Before, EventKeeps DEF Activate, Early, Waiting
<1>4. ASSUME Repair, UNCHANGED <<log, len>>
      PROVE  IInv'
  <2>1. TaskTypeOK'
    BY <1>2, <1>4, Before DEF IInv, TaskTypeOK, Others, Repair
  <2>2. Quiet
    BY <1>2, <1>4 DEF Quiet, Repair, Activate, Busy
  <2> QED BY <2>1, <2>2, QuietKeeps
<1> QED BY <1>3, <1>4 DEF Activate, PutState

LEMMA LaunchKeeps ==
  ASSUME IInv, NEW c \in Caller, Launch(c)
  PROVE  IInv'
<1> DEFINE e == [log EXCEPT !.state = "RUNNER_READY", !.runner = hand[c]]
<1>0. UNCHANGED <<resumes, left, ticket, started>>
  BY DEF Launch, backend
<1>1. Others' /\ \A w \in Worker : pc'[w] \in Busy \cup {"respawn"} => pc'[w] = pc[w]
  BY Before DEF Launch, Others, Fine, Kill, Goto, backend, RunnerSteps, CallerSteps, Worker, Busy
<1>2. ASSUME NEW t \in Times, Reads(c), log.state = "ACTIVE", Put(e, t, 1)
      PROVE  IInv'
  <2>0. chain # "broken"
    BY <1>2 DEF Reads
  <2>1. /\ e \in Event /\ e.state = "RUNNER_READY" /\ e.tries = log.tries
        /\ e.fence = log.fence
    BY Before DEF Event, States, Waiting, Others
  <2> HIDE DEF e
  <2>2. Fits(e, len + 1, resumes')
    BY <1>0, <1>2, <2>1, Before, Constants
       DEF Fits, StatesFit, Room, Early, Waiting, Intents, NoFence
  <2> QED BY <1>0, <1>1, <1>2, <2>0, <2>1, <2>2, Before, EventKeeps DEF Early, Waiting
<1>3. ASSUME Kill(c), Repair, UNCHANGED <<log, len>>
      PROVE  IInv'
  <2>1. TaskTypeOK'
    BY <1>1, <1>3, Before DEF IInv, TaskTypeOK, Others, Repair
  <2>2. Quiet
    BY <1>1, <1>3 DEF Quiet, Repair, Launch, Busy, backend
  <2> QED BY <2>1, <2>2, QuietKeeps
<1> QED BY <1>2, <1>3 DEF Launch

LEMMA AwaitKeeps ==
  ASSUME IInv, NEW c \in Caller, Await(c)
  PROVE  IInv'
<1>1. TaskTypeOK'
  BY Before
     DEF IInv, Await, TaskTypeOK, Others, Fine, Fault, Kill, Goto, journal, backend,
         RunnerSteps, CallerSteps, Worker
<1>2. Quiet
  BY Before DEF Quiet, Await, Kill, Goto, journal, backend, Others, Busy
<1> QED BY <1>1, <1>2, QuietKeeps

LEMMA ReadTaskKeeps ==
  ASSUME IInv, NEW c \in Caller, ReadTask(c)
  PROVE  IInv'
<1>1. TaskTypeOK'
  BY Before DEF IInv, ReadTask, TaskTypeOK, Repair, Fine, backend, locals
<1>2. Quiet
  BY DEF Quiet, ReadTask, Repair, backend, locals, Busy
<1> QED BY <1>1, <1>2, QuietKeeps

LEMMA RaiseKeeps ==
  ASSUME IInv, NEW c \in Caller, Raise(c)
  PROVE  IInv'
<1>1. TaskTypeOK'
  BY Before DEF IInv, Raise, TaskTypeOK, Others, Fine, Goto, journal, backend, locals, CallerSteps
<1>2. Quiet
  BY Before DEF Quiet, Raise, Goto, journal, backend, locals, Others, Busy
<1> QED BY <1>1, <1>2, QuietKeeps

LEMMA RunnerNextKeeps ==
  ASSUME IInv, NEW r \in Runner, RunnerNext(r)
  PROVE  IInv'
<1>0. faults' \in 0..MaxFaults
  BY Before, FaultsFit DEF RunnerNext, Start, GiveUp, Retire
<1>1. TaskTypeOK'
  BY <1>0, Before
     DEF IInv, RunnerNext, Start, GiveUp, Retire, TaskTypeOK, Others, Goto,
         journal, backend, locals, RunnerSteps
<1>2. Quiet
  BY Before
     DEF Quiet, RunnerNext, Start, GiveUp, Retire, Goto, journal, backend, locals, Others, Busy
<1> QED BY <1>1, <1>2, QuietKeeps

LEMMA CleanKeeps ==
  ASSUME IInv, NEW w \in Worker, Clean(w)
  PROVE  IInv'
<1>0. faults' \in 0..MaxFaults
  BY FaultsFit DEF Clean
<1>1. TaskTypeOK'
  BY <1>0, Before DEF IInv, Clean, TaskTypeOK, Others, Goto, journal, locals, RunnerSteps
<1>2. Quiet
  BY Before DEF Quiet, Clean, Goto, journal, locals, Others, Busy
<1> QED BY <1>1, <1>2, QuietKeeps

LEMMA DieKeeps ==
  ASSUME IInv, NEW w \in Worker, Die(w)
  PROVE  IInv'
<1>1. TaskTypeOK'
  BY Before
     DEF IInv, Die, TaskTypeOK, Others, Fault, Goto, backend, RunnerSteps, CallerSteps
<1>2. Quiet
  BY Before DEF Quiet, Die, Goto, backend, Others, Busy
<1> QED BY <1>1, <1>2, QuietKeeps

LEMMA WorldKeeps == IInv /\ (Elsewhere \/ Tick \/ UNCHANGED taskVars) => IInv'
<1> SUFFICES ASSUME IInv, Elsewhere \/ Tick \/ UNCHANGED taskVars PROVE IInv'
  OBVIOUS
<1>0. clock' \in 0..MaxClock /\ faults' \in 0..MaxFaults
  BY Before, FaultsFit, Constants
     DEF Others, Elsewhere, Tick, taskVars, journal, backend, locals, Fine
<1>1. TaskTypeOK'
  BY <1>0, Before
     DEF IInv, Elsewhere, Tick, taskVars, TaskTypeOK, Others, journal, backend, locals
<1>2. Quiet
  BY Before DEF Quiet, Elsewhere, Tick, taskVars, journal, backend, locals, Others, Busy
<1> QED BY <1>1, <1>2, QuietKeeps

-----------------------------------------------------------------------------
(* A task that ends is not waiting, and whoever ends it claims nothing.    *)
LEMMA EndKeeps ==
  ASSUME IInv, NEW s \in {"ORPHANED", "CLEANUP_NOT_REQUIRED"}, NEW t \in Times,
         PutState(s, t), chain # "broken", Others', resumes' = resumes,
         UNCHANGED <<left, ticket, started>>,
         \A w \in Worker : pc'[w] \in Busy \cup {"respawn"} => pc'[w] = pc[w],
         log.state \in Waiting \cup Intents \cup {"ORPHANED"} \cup Early, len > 0,
         s = "ORPHANED" => log.state \in Waiting \cup Intents /\ ~Fenced
  PROVE  IInv'
<1> DEFINE e == [log EXCEPT !.state = s]
<1>1. /\ e \in Event /\ e.state = s /\ e.tries = log.tries
      /\ e.fence = log.fence
  BY NewState DEF States, Settled
<1>2. Put(e, t, 1)
  BY DEF PutState
<1> HIDE DEF e
<1>3. Fits(e, len + 1, resumes')
  BY <1>1, Before, Constants
     DEF Fits, StatesFit, Room, Early, Waiting, Intents, NoFence, Fenced
<1> QED BY <1>1, <1>2, <1>3, Before, EventKeeps DEF Early, Waiting

LEMMA ResumeKeeps ==
  ASSUME IInv, NEW c \in Caller, Resume(c)
  PROVE  IInv'
<1>1. chain # "broken" /\ Open /\ len > 0
  BY Before DEF Resume, Reads, Open, Fits, StatesFit, Waiting, Intents
<1>2. ASSUME NEW t \in Times, NEW s \in {"ORPHANED", "CLEANUP_NOT_REQUIRED"},
             PutState(s, t), UNCHANGED <<pc, locals>>, s = "ORPHANED" => ~Fenced
      PROVE  IInv'
  <2>1. Others' /\ UNCHANGED <<resumes, left, ticket, started, pc>>
    BY <1>2, Before DEF Resume, Others, Fine, backend, locals
  <2> QED BY <1>1, <1>2, <2>1, EndKeeps DEF Open
<1>3. ASSUME NEW r \in Runner, Spawn(c, r, "respawn"), ~Fenced, resumes < MaxResumes,
             ticket' = [ticket EXCEPT ![c] = len],
             Repair, UNCHANGED <<log, len, started>>
      PROVE  IInv'
  <2>1. TaskTypeOK'
    BY <1>3, Before
       DEF IInv, TaskTypeOK, Others, Resume, Spawn, Repair, Fine, backend, RunnerSteps,
           CallerSteps
  <2>2. Quiet
    BY <1>1, <1>3, Before DEF Quiet, Resume, Spawn, Repair, backend, Others, Busy
  <2> QED BY <2>1, <2>2, QuietKeeps
<1> QED BY <1>2, <1>3, Before, Constants DEF Resume

LEMMA RelaunchKeeps ==
  ASSUME IInv, NEW c \in Caller, Relaunch(c)
  PROVE  IInv'
<1> DEFINE e == [log EXCEPT !.runner = hand[c]]
<1>0. UNCHANGED <<left, ticket, started>>
  BY DEF Relaunch, backend
<1>1. /\ pc' \in [Worker -> RunnerSteps \cup CallerSteps]
      /\ hand' \in [Caller -> Runner \cup {NoRunner}]
      /\ \A w \in Worker : pc'[w] \in Busy \cup {"respawn"} => pc'[w] = pc[w]
  BY Before
     DEF Relaunch, Others, Kill, Goto, RunnerSteps, CallerSteps, Worker, Busy
<1>2. resumes' \in 0..MaxResumes => Others'
  BY <1>1, Before DEF Relaunch, Others, Fine, backend
<1>3. ASSUME NEW t \in Times, Reads(c), len = ticket[c], Put(e, t, 1), resumes' = resumes + 1
      PROVE  IInv'
  <2>1. Open /\ ~Fenced /\ resumes < MaxResumes /\ chain # "broken"
    BY <1>3 DEF IInv, Tickets, Relaunch, Worker, Reads
  <2>2. /\ e \in Event /\ e.state = log.state /\ e.tries = log.tries
        /\ e.fence = log.fence /\ e.disk = log.disk
    BY Before DEF Event, Others
  <2> HIDE DEF e
  <2>3. resumes' \in 0..MaxResumes
    BY <1>3, <2>1, Before, Constants
  <2>4. Fits(e, len + 1, resumes')
    BY <1>3, <2>1, <2>2, Before, Constants
       DEF Fits, StatesFit, Room, Open, Fenced, Early, Waiting, Intents, NoFence
  <2>5. log.state \notin Early \cup {"CLEANUP_CONFIRMED"}
    BY <2>1 DEF Open, Waiting, Intents, Early
  <2> QED BY <1>0, <1>1, <1>2, <1>3, <2>1, <2>2, <2>3, <2>4, <2>5, Before, EventKeeps
<1>4. ASSUME NEW t \in Times, Reads(c), len = ticket[c], PutState("ORPHANED", t),
             UNCHANGED resumes
      PROVE  IInv'
  <2>1. Open /\ ~Fenced /\ chain # "broken" /\ len > 0
    BY <1>4, Before
       DEF IInv, Tickets, Relaunch, Worker, Reads, Open, Fits, StatesFit, Waiting, Intents
  <2> QED BY <1>0, <1>1, <1>2, <1>4, <2>1, Before, EndKeeps DEF Open
<1>5. ASSUME Repair, UNCHANGED <<log, len, resumes>>
      PROVE  IInv'
  <2>1. TaskTypeOK'
    BY <1>2, <1>5, Before DEF IInv, TaskTypeOK, Others, Repair
  <2>2. Quiet
    BY <1>0, <1>1, <1>5 DEF Quiet, Repair, Busy
  <2> QED BY <2>1, <2>2, QuietKeeps
<1> QED BY <1>3, <1>4, <1>5 DEF Relaunch

LEMMA BindKeeps ==
  ASSUME IInv, NEW c \in Caller, BindDiskCleanup(c)
  PROVE  IInv'
<1> DEFINE e == [log EXCEPT !.state = "DISK_BOUND", !.disk = "bound"]
<1>1. PICK t \in Times : Put(e, t, 1)
  BY DEF BindDiskCleanup
<1>2. UNCHANGED <<resumes, left, ticket, started, pc>>
  BY DEF BindDiskCleanup, locals
<1>3. Others' /\ chain # "broken" /\ log.state = "RUNNER_READY"
  BY Before, FaultsFit DEF BindDiskCleanup, Others, Reads, locals
<1>4. /\ e \in Event /\ e.state = "DISK_BOUND" /\ e.tries = log.tries
      /\ e.fence = log.fence
  BY Before DEF Event, States, Waiting
<1> HIDE DEF e
<1>5. Fits(e, len + 1, resumes')
  BY <1>2, <1>3, <1>4, Before, Constants
     DEF Fits, StatesFit, Room, Early, Waiting, Intents, NoFence
<1> QED BY <1>1, <1>2, <1>3, <1>4, <1>5, Before, EventKeeps DEF Early, Waiting

LEMMA ReconcileKeeps ==
  ASSUME IInv, NEW c \in Caller, ReconcileCoreTerminal(c)
  PROVE  IInv'
<1>1. UNCHANGED <<resumes, left, ticket, started, pc>>
  BY DEF ReconcileCoreTerminal, backend, locals
<1>2. Others' /\ chain # "broken" /\ len > 0
  BY Before, FaultsFit DEF ReconcileCoreTerminal, Others, Reads, backend, locals
<1>3. ASSUME NEW t \in Times, NEW s \in Intents \cup {"CLEANUP_NOT_REQUIRED"},
             NEW n \in {1, 2}, Put([log EXCEPT !.state = s, !.fence = t], t, n),
             log.state \in Intents, ~Fenced, s \in Intents => n = 1
      PROVE  IInv'
  <2> DEFINE e == [log EXCEPT !.state = s, !.fence = t]
  <2>1. /\ e \in Event /\ e.state = s /\ e.tries = log.tries /\ e.fence = t
    BY Before DEF Event, States, Settled
  <2> HIDE DEF e
  <2>2. Put(e, t, n)
    BY <1>3 DEF e
  <2>3. Fits(e, len + n, resumes')
    BY <1>1, <1>2, <1>3, <2>1, Before, Constants
       DEF Fits, StatesFit, Room, Fenced, Early, Waiting, Intents, NoFence
  <2> QED BY <1>1, <1>2, <1>3, <2>1, <2>2, <2>3, Before, EventKeeps
          DEF Early, Waiting, Intents
<1>4. ASSUME NEW t \in Times, PutState("CLEANUP_NOT_REQUIRED", t),
             log.state \notin {"CLEANUP_CONFIRMED", "CLEANUP_NOT_REQUIRED"}
      PROVE  IInv'
  <2>1. log.state \in Waiting \cup Intents \cup {"ORPHANED"} \cup Early
    BY <1>4, Before DEF States, Settled, Early
  <2> QED BY <1>1, <1>2, <1>4, <2>1, EndKeeps
<1>5. ASSUME NEW t \in Times, Put([log EXCEPT !.fence = t], t, 1),
             log.state \in Intents, ~Fenced
      PROVE  IInv'
  <2>1. [log EXCEPT !.fence = t] = [log EXCEPT !.state = log.state, !.fence = t]
    BY Before DEF Event
  <2> QED BY <1>3, <1>5, <2>1
<1> QED BY <1>3, <1>4, <1>5 DEF ReconcileCoreTerminal, Intents

LEMMA SettleFenceKeeps ==
  ASSUME IInv, NEW c \in Caller, SettleFence(c)
  PROVE  IInv'
<1>1. UNCHANGED <<resumes, left, ticket, started, pc>>
  BY DEF SettleFence, backend, locals
<1>2. Others' /\ chain # "broken" /\ len > 0
  BY Before, FaultsFit
     DEF SettleFence, Others, Reads, backend, locals, Fits, StatesFit, Intents
<1>3. PICK t \in Times : PutState("CLEANUP_NOT_REQUIRED", t)
  BY DEF SettleFence
<1> QED BY <1>1, <1>2, <1>3, EndKeeps DEF SettleFence

LEMMA GiveTaskUpKeeps ==
  ASSUME IInv, NEW w \in Worker, GiveTaskUp(w)
  PROVE  IInv'
<1>1. UNCHANGED <<resumes, left, ticket, started, pc>>
  BY DEF GiveTaskUp, backend, locals
<1>2. Others' /\ chain # "broken" /\ len > 0
  BY Before, FaultsFit
     DEF GiveTaskUp, Others, Reads, Open, backend, locals, Fits, StatesFit, Waiting, Intents
<1>3. PICK t \in Times : PutState("ORPHANED", t)
  BY DEF GiveTaskUp
<1> QED BY <1>1, <1>2, <1>3, EndKeeps DEF GiveTaskUp, Open

LEMMA FinishKeeps ==
  ASSUME IInv, NEW w \in Worker, Finish(w)
  PROVE  IInv'
<1>1. UNCHANGED <<resumes, left, ticket, started>>
  BY DEF Finish, backend, locals
<1>2. /\ Others' /\ chain # "broken" /\ pc[w] \in {"cleaned", "failed"}
      /\ pc'[w] \in {"polling", "idle"}
      /\ \A v \in Worker : pc'[v] \in Busy \cup {"respawn"} => pc'[v] = pc[v]
  BY Before, FaultsFit
     DEF Finish, Others, Reads, Rest, Goto, backend, locals, Busy, RunnerSteps, CallerSteps
<1>3. ASSUME len = ticket[w], PutState(Outcome(w), started[w])
      PROVE  IInv'
  <2> DEFINE e == [log EXCEPT !.state = Outcome(w)]
  <2>1. log.state \in Intents /\ ~Fenced /\ started[w] = log.at
    BY <1>2, <1>3 DEF IInv, Tickets, Busy
  <2>2. /\ Outcome(w) \in {"CLEANUP_CONFIRMED", "ORPHANED", "RETRY_PENDING",
                          "PREBIND_RETRY_PENDING"}
        /\ Outcome(w) = "CLEANUP_CONFIRMED" => pc[w] = "cleaned" /\ log.disk = "bound"
        /\ Outcome(w) \in Waiting => log.tries < MaxAttempts
    BY Before, Constants DEF Outcome, RetryState, Waiting
  <2>3. /\ e \in Event /\ e.state = Outcome(w) /\ e.tries = log.tries
        /\ e.fence = log.fence /\ e.disk = log.disk
    BY <2>2, NewState DEF States, Waiting, Settled
  <2>4. Put(e, started[w], 1)
    BY <1>3 DEF PutState
  <2> HIDE DEF e
  <2>5. Fits(e, len + 1, resumes')
    BY <1>1, <2>1, <2>2, <2>3, Before, Constants
       DEF Fits, StatesFit, Room, Fenced, Early, Waiting, Intents, NoFence
  <2>6. e.state = "CLEANUP_CONFIRMED" => e.disk = "bound" /\ left = {}
    BY <1>2, <1>3, <2>2, <2>3 DEF IInv, Gone
  <2>7. pc[w] \in Busy /\ pc'[w] \notin Busy /\ started[w] \in 0..MaxClock
        /\ started[w] <= started[w]
    BY <1>2, Before DEF Busy, Others
  <2> QED BY <1>1, <1>2, <1>3, <2>2, <2>3, <2>4, <2>5, <2>6, <2>7, Before, EventKeeps
          DEF Early
<1>4. ASSUME Repair, UNCHANGED <<log, len>>
      PROVE  IInv'
  <2>1. TaskTypeOK'
    BY <1>2, <1>4, Before DEF IInv, TaskTypeOK, Others, Repair
  <2>2. Quiet
    BY <1>1, <1>2, <1>4 DEF Quiet, Repair, Busy
  <2> QED BY <2>1, <2>2, QuietKeeps
<1> QED BY <1>3, <1>4 DEF Finish

LEMMA ClaimKeeps ==
  ASSUME IInv, NEW w \in Worker, Claim(w)
  PROVE  IInv'
<1>1. /\ UNCHANGED <<resumes, spec, left, hand, clock>>
      /\ chain # "broken" /\ Open /\ ~Fenced /\ pc[w] \in {"polling", "idle"}
  BY DEF Claim, backend, Reads, Ready
<1>2. faults' \in 0..MaxFaults
  BY FaultsFit DEF Claim
<1>3. log.state \in Waiting \cup Intents /\ Waiting \cap Intents = {}
  BY <1>1 DEF Open, Waiting, Intents
(* Only the expired intent's retry is written.                             *)
<1>4. ASSUME NEW t \in Times, log.state \in Intents, Claimable(t), PutState(RetryState, t),
             Goto(w, IF w \in Runner THEN "gone" ELSE "idle"), UNCHANGED <<ticket, started>>
      PROVE  IInv'
  <2> DEFINE e == [log EXCEPT !.state = RetryState]
  <2>1. RetryState \in Waiting \ Early
    BY DEF RetryState, Waiting, Early
  <2>2. /\ e \in Event /\ e.state = RetryState /\ e.tries = log.tries
        /\ e.fence = log.fence
    BY <2>1, NewState DEF States
  <2>3. Put(e, t, 1)
    BY <1>4 DEF PutState
  <2> HIDE DEF e
  <2>4. log.at + Lease <= t /\ log.tries < MaxAttempts
    BY <1>3, <1>4, Before, Constants DEF Claimable, LeaseExpired
  <2>5. Fits(e, len + 1, resumes')
    BY <1>1, <1>4, <2>1, <2>2, <2>4, Before, Constants
       DEF Fits, StatesFit, Room, Fenced, Early, Waiting, Intents, NoFence, RetryState
  <2>6. /\ Others'
        /\ \A v \in Worker : pc'[v] \in Busy \cup {"respawn"} => pc'[v] = pc[v]
    BY <1>1, <1>2, <1>4, Before DEF Others, Goto, RunnerSteps, CallerSteps, Busy
  <2> QED BY <1>1, <1>4, <2>1, <2>2, <2>3, <2>4, <2>5, <2>6, Before, EventKeeps
          DEF Waiting
(* The intent is written, alone or after the expired one's retry.          *)
<1>5. ASSUME NEW t \in Times, NEW n \in {1, 2},
             n = 2 <=> log.state \in Intents,
             Put([log EXCEPT !.state = IntentState, !.tries = @ + 1], t, n),
             Claimable(t), ticket' = [ticket EXCEPT ![w] = len + n],
             started' = [started EXCEPT ![w] = t], Goto(w, "cleaning")
      PROVE  IInv'
  <2> DEFINE e == [log EXCEPT !.state = IntentState, !.tries = @ + 1]
  <2>1. log.tries < MaxAttempts
    BY <1>3, <1>5, Before DEF Claimable, Fits, StatesFit
  <2>2. IntentState \in Intents /\ IntentState \in States
    BY DEF IntentState, Intents, States
  <2>3. /\ e \in Event /\ e.state = IntentState /\ e.tries = log.tries + 1
        /\ e.fence = log.fence
    <3>1. log.tries + 1 \in 0..MaxAttempts
      BY <2>1, Before, Constants
    <3> QED BY <2>2, <3>1, Before DEF Event
  <2> HIDE DEF e
  <2>4. /\ log' \in Event /\ log'.at = t /\ log'.state = IntentState
        /\ log'.tries = log.tries + 1 /\ log'.fence = log.fence
        /\ len' = len + n /\ len' \in Nat /\ len' > len
        /\ chain' \in {"whole", "broken"}
        /\ chain' = "broken" \/ log'.at >= log.at
    BY <1>1, <1>5, <2>3, Before, PutWrites DEF e
  <2>5. /\ pc' = [pc EXCEPT ![w] = "cleaning"] /\ pc'[w] = "cleaning"
        /\ ticket'[w] = len' /\ ticket'[w] <= len' /\ started'[w] = t
        /\ \A v \in Worker : v # w => /\ pc'[v] = pc[v] /\ started'[v] = started[v]
                                     /\ ticket'[v] = ticket[v]
                                     /\ ticket'[v] <= len' /\ ticket'[v] # len'
    BY <1>5, <2>4, Before DEF Goto, Others, IInv, Tickets
  <2>6. Fits(log, len, resumes)'
    BY <1>1, <1>3, <1>5, <2>1, <2>2, <2>4, Before, Constants
       DEF Fits, StatesFit, Room, Fenced, Early, Waiting, Intents, NoFence
  <2>7. TaskTypeOK'
    <3>1. len' \in 0..MaxEvents
      BY <1>1, <2>4, <2>6, Before, RoomIsBounded
    <3>2. /\ ticket' \in [Worker -> Nat] /\ started' \in [Worker -> 0..MaxClock]
          /\ pc' \in [Worker -> RunnerSteps \cup CallerSteps]
      BY <1>5, <2>4, <2>5, Before DEF Others, RunnerSteps
    <3> QED BY <1>1, <1>2, <2>4, <3>1, <3>2, Before DEF TaskTypeOK, Others
  <2>8. Tickets'
    BY <1>1, <2>2, <2>4, <2>5, Before DEF Tickets, Fenced
  <2>9. Gone'
    BY <2>2, <2>4, <2>5 DEF Gone, ConfirmedIsGone, Intents
  <2>10. ASSUME chain' # "broken", NEW v \in Worker, v # w, pc[v] = "cleaning"
         PROVE  started[v] <= t /\ started[v] + Lease <= t
    <3>1. /\ started[v] <= log.at
          /\ log.state \in Waiting => started[v] + Lease <= log.at
      BY <1>1, <2>10 DEF IInv, Spaced
    <3>2. t \in Nat /\ started[v] \in Nat /\ log.at <= t
      BY <2>4, <2>10, Before, Constants DEF Others
    <3>3. log.state \in Intents => log.at + Lease <= t
      BY <1>3, <1>5 DEF Claimable, LeaseExpired
    <3> QED BY <1>3, <3>1, <3>2, <3>3, Before, Constants
  <2>11. Spaced'
    BY <2>2, <2>4, <2>5, <2>10, Before, Constants DEF Spaced, Early, Waiting, Intents, Busy
  <2>12. ClaimsDoNotOverlap'
    BY <1>1, <2>4, <2>5, <2>10 DEF ClaimsDoNotOverlap, IInv
  <2> QED BY <2>6, <2>7, <2>8, <2>9, <2>11, <2>12 DEF IInv
<1> QED BY <1>4, <1>5 DEF Claim

-----------------------------------------------------------------------------
LEMMA StepKeeps == IInv /\ [TaskNext]_taskVars => IInv'
<1> SUFFICES ASSUME IInv, [TaskNext]_taskVars PROVE IInv'
  OBVIOUS
<1>1. ASSUME NEW c \in Caller, CallerNext(c) PROVE IInv'
  BY <1>1, ArmKeeps, ActivateKeeps, LaunchKeeps, AwaitKeeps, ResumeKeeps, RelaunchKeeps,
     BindKeeps, ReconcileKeeps, ReadTaskKeeps, SettleFenceKeeps, RaiseKeeps
     DEF CallerNext
<1>2. ASSUME NEW w \in Worker, Attempt(w) \/ Die(w) PROVE IInv'
  BY <1>2, GiveTaskUpKeeps, ClaimKeeps, CleanKeeps, FinishKeeps, DieKeeps DEF Attempt
<1> QED BY <1>1, <1>2, RunnerNextKeeps, WorldKeeps DEF TaskNext

LEMMA IInvHolds == TaskSpec => []IInv
BY InitEstablishes, StepKeeps, PTL DEF TaskSpec

(* The journal, the spec and the processes stay what the code can read:    *)
(* in particular the journal never outgrows its 32 events                  *)
(* (GCP_FILE_WATCHDOG_MAX_EVENTS), however often runners are resumed.      *)
THEOREM TaskTypeCorrect == TaskSpec => []TaskTypeOK
<1>1. IInv => TaskTypeOK
  BY DEF IInv
<1> QED BY <1>1, IInvHolds, PTL

(* However workers race, of two that clean up at once the earlier has      *)
(* overrun its lease (_settle_due_once, run_due).                          *)
THEOREM ClaimsNeverOverlap == TaskSpec => []ClaimsDoNotOverlap
<1>1. IInv => ClaimsDoNotOverlap
  BY DEF IInv
<1> QED BY <1>1, IInvHolds, PTL

(* CLEANUP_CONFIRMED is written only by an attempt that looked for both    *)
(* the instance and its disk (worker_cleanup), and it stays true.          *)
THEOREM ConfirmedTasksAreGone == TaskSpec => []ConfirmedIsGone
<1>1. IInv => ConfirmedIsGone
  BY DEF IInv, Gone
<1> QED BY <1>1, IInvHolds, PTL

(* What SettledStays says of one step, and what it rests on: only an open  *)
(* task without a fence is worked on.                                      *)
Stays ==
  /\ log.state \in Settled =>
       \/ log'.state = log.state
       \/ log.state = "ORPHANED" /\ log'.state = "CLEANUP_NOT_REQUIRED"
  /\ Fenced => log'.tries = log.tries /\ log'.state \in Intents \cup Settled

Ends ==
  /\ log.state \in Intents \cup {"ORPHANED"}
  /\ log'.state = "CLEANUP_NOT_REQUIRED" /\ log'.tries = log.tries

LEMMA StaysIf ==
  IInv /\ (log' = log \/ (log.state \notin Settled /\ ~Fenced) \/ Ends) => Stays
BY Before DEF Stays, Ends, Fits, StatesFit, Fenced, Settled, Intents

LEMMA PutEnds ==
  ASSUME IInv, NEW t \in Times, PutState("CLEANUP_NOT_REQUIRED", t),
         log.state \in Intents \cup {"ORPHANED"}
  PROVE  Ends
<1> DEFINE e == [log EXCEPT !.state = "CLEANUP_NOT_REQUIRED"]
<1>1. e \in Event /\ e.state = "CLEANUP_NOT_REQUIRED" /\ e.tries = log.tries
  BY NewState DEF States, Settled
<1>2. log' = [e EXCEPT !.at = t]
  BY DEF PutState, Put
<1> HIDE DEF e
<1> QED BY <1>1, <1>2 DEF Ends, Event

(* No interleaving takes a settled task up again, or gives a fenced one    *)
(* another attempt.                                                        *)
THEOREM SettledTasksStay == TaskSpec => SettledStays
<1>1. ASSUME IInv, [TaskNext]_taskVars PROVE [Stays]_taskVars
  <2>0. Settled \cap (Waiting \cup Intents \cup Early) = {}
    BY DEF Settled, Waiting, Intents, Early
  <2>1. /\ Open => log.state \notin Settled
        /\ log.state \in Early \cup Waiting => log.state \notin Settled /\ ~Fenced
        /\ Open /\ Fenced => log.state \in Intents
        /\ log.state \notin Intents \cup {"CLEANUP_CONFIRMED", "CLEANUP_NOT_REQUIRED"} =>
             ~Fenced
    BY <1>1, Before
       DEF Open, Fits, StatesFit, Fenced, Settled, Waiting, Intents, Early
  <2>2. ASSUME NEW c \in Caller, Arm(c) \/ Activate(c) \/ Launch(c) \/ BindDiskCleanup(c)
        PROVE  Stays
    <3>1. log.state \in Early \cup Waiting \/ log' = log
      BY <1>1, <2>2, Before
         DEF Arm, Activate, Launch, BindDiskCleanup, Fits, StatesFit, Early, Waiting
    <3> QED BY <1>1, <2>1, <3>1, StaysIf
  <2>3. ASSUME NEW c \in Caller, Resume(c) \/ SettleFence(c)
        PROVE  Stays
    <3>1. \/ Ends \/ log' = log
          \/ Open /\ ~Fenced
      BY <1>1, <2>1, <2>3, PutEnds DEF Resume, SettleFence
    <3> QED BY <1>1, <2>1, <3>1, StaysIf
  <2>4. ASSUME NEW c \in Caller, Relaunch(c)
        PROVE  Stays
    <3>1. log' = log \/ (Open /\ ~Fenced)
      <4>1. CASE len = ticket[c]
        BY <1>1, <2>4, <4>1 DEF IInv, Tickets, Relaunch, Worker
      <4>2. CASE len # ticket[c]
        BY <2>4, <4>2 DEF Relaunch
      <4> QED BY <4>1, <4>2
    <3> QED BY <1>1, <2>1, <3>1, StaysIf
  <2>5. ASSUME NEW c \in Caller, ReconcileCoreTerminal(c)
        PROVE  Stays
    <3>1. log.state \in Intents \/ log.state = "ORPHANED" \/ log.state \notin Settled
      BY <2>5 DEF ReconcileCoreTerminal, Settled
    <3>2. Ends \/ (log.state \notin Settled /\ ~Fenced)
      <4>1. CASE log.state \in Intents /\ ~Fenced
        BY <2>0, <4>1
      <4>2. CASE log.state \in Intents /\ Fenced
        BY <1>1, <2>5, <4>2, PutEnds DEF ReconcileCoreTerminal
      <4>3. CASE log.state = "ORPHANED"
        BY <1>1, <2>5, <4>3, PutEnds DEF ReconcileCoreTerminal, Intents
      <4>4. CASE log.state \notin Intents \cup Settled
        BY <2>1, <4>4 DEF Settled
      <4> QED BY <3>1, <4>1, <4>2, <4>3, <4>4
    <3> QED BY <1>1, <3>2, StaysIf
  <2>6. ASSUME NEW w \in Worker, GiveTaskUp(w) \/ Claim(w)
        PROVE  Stays
    BY <1>1, <2>1, <2>6, StaysIf DEF GiveTaskUp, Claim
  <2>7. ASSUME NEW w \in Worker, Finish(w)
        PROVE  Stays
    <3>1. log' = log \/ (Open /\ ~Fenced)
      <4>1. CASE len = ticket[w]
        BY <1>1, <2>7, <4>1 DEF IInv, Tickets, Finish, Busy, Open
      <4>2. CASE len # ticket[w]
        BY <2>7, <4>2 DEF Finish
      <4> QED BY <4>1, <4>2
    <3> QED BY <1>1, <2>1, <3>1, StaysIf
  <2>8. UNCHANGED log => Stays
    BY <1>1, StaysIf
  <2>9. ASSUME NEW c \in Caller, CallerNext(c)
        PROVE  Stays
    BY <2>2, <2>3, <2>4, <2>5, <2>8, <2>9
       DEF CallerNext, Await, ReadTask, Raise, journal
  <2>10. ASSUME NEW r \in Runner, RunnerNext(r)
         PROVE  Stays
    BY <2>8, <2>10 DEF RunnerNext, Start, GiveUp, Retire, journal
  <2>11. ASSUME NEW w \in Worker, Attempt(w) \/ Die(w)
         PROVE  Stays
    BY <2>6, <2>7, <2>8, <2>11 DEF Attempt, Clean, Die, journal
  <2>12. Elsewhere \/ Tick => Stays
    BY <2>8 DEF Elsewhere, Tick, journal
  <2> QED BY <1>1, <2>9, <2>10, <2>11, <2>12 DEF TaskNext
<1>2. [][Stays]_taskVars => SettledStays
  BY PTL DEF Stays, SettledStays
<1> QED BY <1>1, <1>2, IInvHolds, PTL DEF TaskSpec
=============================================================================
