------------------------- MODULE GcpSupervisor_proof -------------------------
(***************************************************************************)
(* The three journals of a supervised lease, for any number of operators   *)
(* and runners, any budgets, clocks and faults: the task lives as          *)
(* GcpWatchdog says, nobody writes a machine off, work is covered and      *)
(* nothing is created unrecorded. What they all rest on is where the       *)
(* controller is: once it is behind its insert no machine comes any more,  *)
(* and until then the core journal refuses everybody else.                 *)
(***************************************************************************)
EXTENDS GcpSupervisor, GcpWatchdog_proof

CONFIRMED == "CLEANUP_CONFIRMED"
STOPPED == "CLEANUP_NOT_REQUIRED"

(* The controller's steps after the insert and off its way to it.          *)
PastSteps == {"bind", "own", "begin", "work", "abort", "block", "refuse", "ended"}
             \cup CleanupSteps

(* Steps of a caller who knows that the provider was asked.                *)
Informed == {"intent", "insert", "bind", "own", "begin", "work", "result", "resume",
             "pending", "mark", "clean", "confirm", "orphan", "report"}

Behind == ctl[Controller] \in PastSteps
Inserting == ctl[Controller] \in {"intent", "insert"}
Attempted == "attempted" \in core.flags

(* Nothing is left, and nothing comes any more.                            *)
Closed == left = {} /\ (Behind \/ (core.state = CONFIRMED /\ ~Inserting))

(* What a runner's start leaves behind.                                    *)
Started ==
  \A c \in Caller :
    /\ pc[c] \in {"spawn", "await", "respawn"} => hand[c] \in Runner
    /\ pc[c] = "await" => log.runner # NoRunner

StepTypes ==
  /\ ctl[Controller] \in ExecuteSteps \cup CleanupSteps
  /\ \A o \in Operator : ctl[o] \in RecoverSteps \cup CleanupSteps

(* What the core journal, and the copies of it, know of the insert.        *)
Knowledge ==
  /\ core.state \in {"NONE", "PREPARED", "ARM_CONSUMED"} => ~Attempted
  /\ core.state \notin {"NONE", "PREPARED", "ARM_CONSUMED", CONFIRMED} => Attempted
  /\ left # {} => Attempted
  /\ ctl[Controller] = "start" => core.state = "NONE"
  /\ ctl[Controller] \in {"start", "reserve", "consume", "arm", "watch", "ready",
                          "activate", "launch", "submit"} =>
       "attempted" \notin copy[Controller]
  /\ \A c \in Caller : ctl[c] \in Informed => "attempted" \in copy[c]
  /\ \A o \in Operator :
       /\ ctl[o] = "absent" => "attempted" \notin copy[o]
       /\ ctl[o] = "sidecar" => core.state = CONFIRMED

(* What is still to come and what is over.                                 *)
Order ==
  /\ left # {} => Behind
  /\ ctl[Controller] \in {"refuse", "abort"} => left = {}
  /\ Inserting => core.state = "CREATE_SUBMITTED"
  /\ ctl[Controller] = "insert" => side = "CREATE_INTENT"
  /\ ctl[Controller] \in {"submit", "intent", "insert"} => log.runner # NoRunner
  /\ log.disk = "bound" => Behind
  /\ ctl[Controller] \in {"own", "begin", "work"} => log.disk = "bound" /\ spec = "bound"
  /\ \A o \in Operator : ctl[o] \in Informed => Behind

(* Who says that all is over.                                              *)
Endings ==
  /\ core.state = CONFIRMED \/ side = CONFIRMED => Closed
  /\ log.state \in {CONFIRMED, STOPPED} \/ Fenced => Closed
  /\ \A c \in Caller : ctl[c] \in {"confirm", "settle", "reconcile", "result"} => Closed

SInv == StepTypes /\ Knowledge /\ Order /\ Endings

SupervisorIInv == IInv /\ TypeOK /\ Started /\ SInv
-----------------------------------------------------------------------------
(* The task. A step of it that is no activation, no binding and no word    *)
(* from the core journal.                                                  *)
Mild ==
  /\ left' \subseteq left /\ spec' = spec
  /\ log'.disk = "bound" => log.disk = "bound"
  /\ log.disk = "bound" => log'.disk = "bound"
  /\ log.runner # NoRunner => log'.runner # NoRunner
  /\ Fenced' => Fenced
  /\ log'.state = STOPPED => log.state = STOPPED \/ Fenced

(* What Put writes, field by field.                                        *)
LEMMA PutFields ==
  ASSUME NEW e \in Event, NEW t \in 0..MaxClock, NEW n, Put(e, t, n)
  PROVE  /\ log' \in Event
         /\ log'.state = e.state /\ log'.disk = e.disk
         /\ log'.runner = e.runner /\ log'.fence = e.fence
  <1>1. log' = [e EXCEPT !.at = t]
    BY DEF Put
  <1> QED BY <1>1 DEF Event

LEMMA StateFields ==
  ASSUME IInv, NEW s \in States, NEW t \in 0..MaxClock, PutState(s, t)
  PROVE  /\ log'.state = s /\ log'.disk = log.disk
         /\ log'.runner = log.runner /\ log'.fence = log.fence
  <1>1. [log EXCEPT !.state = s] \in Event
    BY DEF IInv, TaskTypeOK, Event
  <1>2. /\ [log EXCEPT !.state = s].state = s /\ [log EXCEPT !.state = s].disk = log.disk
        /\ [log EXCEPT !.state = s].runner = log.runner
        /\ [log EXCEPT !.state = s].fence = log.fence
    BY DEF IInv, TaskTypeOK, Event
  <1>3. Put([log EXCEPT !.state = s], t, 1)
    BY DEF PutState
  <1> QED BY <1>1, <1>2, <1>3, PutFields

LEMMA ClockTimes == IInv => Times \subseteq 0..MaxClock
  BY Constants DEF IInv, TaskTypeOK, Times

(* A state written over the last one, if it stops no unfenced task.        *)
LEMMA StateIsMild ==
  ASSUME IInv, NEW s \in States, NEW t \in Times, PutState(s, t),
         s = STOPPED => Fenced, left' = left, spec' = spec
  PROVE  Mild
  BY ClockTimes, StateFields DEF Mild, Fenced

LEMMA SameLogIsMild ==
  ASSUME log' = log, left' \subseteq left, spec' = spec
  PROVE  Mild
  BY DEF Mild, Fenced

LEMMA CallersAreMild ==
  ASSUME IInv, Started, NEW c \in Caller,
         \/ Arm(c) \/ Launch(c) \/ Await(c) \/ Resume(c) \/ Relaunch(c)
         \/ ReadTask(c) \/ SettleFence(c) \/ Raise(c)
  PROVE  Mild
  <1> USE ClockTimes
  <1>0. log \in Event /\ "CLEANUP_NOT_REQUIRED" \in States /\ "ORPHANED" \in States
        /\ "READY" \in States /\ "ARMED" \in States /\ "RUNNER_READY" \in States
    BY DEF IInv, TaskTypeOK, States, Waiting, Settled
  <1>1. ASSUME Arm(c) PROVE Mild
    <2>1. left' = left /\ spec' = spec
      BY <1>1 DEF Arm, backend
    <2>2. PICK t \in Times : \/ Put([log EXCEPT !.state = "READY"], t, 2)
                             \/ PutState("ARMED", t) \/ PutState("READY", t)
      BY <1>1 DEF Arm
    <2>3. CASE Put([log EXCEPT !.state = "READY"], t, 2)
      <3>1. [log EXCEPT !.state = "READY"] \in Event
        BY <1>0 DEF Event
      <3>2. /\ log'.state = "READY" /\ log'.disk = log.disk
            /\ log'.runner = log.runner /\ log'.fence = log.fence
        BY <1>0, <2>3, <3>1, PutFields DEF Event
      <3> QED BY <2>1, <3>2 DEF Mild, Fenced, STOPPED
    <2>4. CASE PutState("ARMED", t) \/ PutState("READY", t)
      BY <1>0, <2>1, <2>4, StateIsMild DEF STOPPED
    <2> QED BY <2>2, <2>3, <2>4
  <1>2. ASSUME Launch(c) PROVE Mild
    <2>1. left' = left /\ spec' = spec
      BY <1>2 DEF Launch, backend
    <2>2. CASE log' = log
      BY <2>1, <2>2, SameLogIsMild
    <2>3. ASSUME NEW t \in Times,
                 Put([log EXCEPT !.state = "RUNNER_READY", !.runner = hand[c]], t, 1)
          PROVE  Mild
      <3>1. hand[c] \in Runner /\ hand[c] # NoRunner
        BY <1>2, WatchdogAssumption DEF Launch, Started, WatchdogAssumption
      <3>2. [log EXCEPT !.state = "RUNNER_READY", !.runner = hand[c]] \in Event
        BY <1>0, <3>1 DEF Event
      <3>3. /\ log'.state = "RUNNER_READY" /\ log'.disk = log.disk
            /\ log'.runner = hand[c] /\ log'.fence = log.fence
        BY <1>0, <2>3, <3>2, PutFields DEF Event
      <3> QED BY <2>1, <3>1, <3>3 DEF Mild, Fenced, STOPPED
    <2> QED BY <1>2, <2>2, <2>3 DEF Launch
  <1>3. ASSUME Await(c) \/ ReadTask(c) \/ Raise(c) PROVE Mild
    BY <1>3, SameLogIsMild DEF Await, ReadTask, Raise, journal, backend
  <1>4. ASSUME Resume(c) PROVE Mild
    <2>1. left' = left /\ spec' = spec
      BY <1>4 DEF Resume, backend
    <2>2. CASE log' = log
      BY <2>1, <2>2, SameLogIsMild
    <2>3. ASSUME NEW t \in Times,
                 (Fenced /\ PutState("CLEANUP_NOT_REQUIRED", t)) \/ PutState("ORPHANED", t)
          PROVE  Mild
      BY <1>0, <2>1, <2>3, StateIsMild DEF STOPPED
    <2> QED BY <1>4, <2>2, <2>3 DEF Resume
  <1>5. ASSUME Relaunch(c) PROVE Mild
    <2>1. left' = left /\ spec' = spec
      BY <1>5 DEF Relaunch, backend
    <2>2. CASE log' = log
      BY <2>1, <2>2, SameLogIsMild
    <2>3. ASSUME NEW t \in Times, PutState("ORPHANED", t)
          PROVE  Mild
      BY <1>0, <2>1, <2>3, StateIsMild DEF STOPPED
    <2>4. ASSUME NEW t \in Times, Put([log EXCEPT !.runner = hand[c]], t, 1)
          PROVE  Mild
      <3>1. hand[c] \in Runner /\ hand[c] # NoRunner
        BY <1>5, WatchdogAssumption DEF Relaunch, Started, WatchdogAssumption
      <3>2. [log EXCEPT !.runner = hand[c]] \in Event
        BY <1>0, <3>1 DEF Event
      <3>3. /\ log'.state = log.state /\ log'.disk = log.disk
            /\ log'.runner = hand[c] /\ log'.fence = log.fence
        BY <1>0, <2>4, <3>2, PutFields DEF Event
      <3> QED BY <2>1, <3>1, <3>3 DEF Mild, Fenced, STOPPED
    <2> QED BY <1>5, <2>2, <2>3, <2>4 DEF Relaunch
  <1>6. ASSUME SettleFence(c) PROVE Mild
    BY <1>0, <1>6, StateIsMild DEF SettleFence, backend
  <1> QED BY <1>1, <1>2, <1>3, <1>4, <1>5, <1>6

LEMMA WorkersAreMild ==
  ASSUME IInv, NEW w \in Worker,
         (w \in Runner /\ RunnerNext(w)) \/ Attempt(w) \/ Die(w) \/ Tick
  PROVE  Mild
  <1> USE ClockTimes
  <1>0. /\ log \in Event /\ log.disk \in {"unknown", "bound"} /\ log.tries \in Nat
        /\ "ORPHANED" \in States /\ RetryState \in States \ {STOPPED}
        /\ Outcome(w) \in States \ {STOPPED} /\ IntentState \in States \ {STOPPED}
    BY DEF IInv, TaskTypeOK, Event, States, Waiting, Settled, Intents, RetryState,
           Outcome, IntentState, STOPPED
  <1>1. CASE RunnerNext(w) \/ Die(w) \/ Tick \/ Clean(w)
    BY <1>1, SameLogIsMild
       DEF RunnerNext, Start, GiveUp, Retire, Die, Tick, Clean, journal, backend
  <1>2. CASE GiveTaskUp(w)
    BY <1>0, <1>2, StateIsMild DEF GiveTaskUp, backend, STOPPED
  <1>3. ASSUME Claim(w) PROVE Mild
    <2>1. left' = left /\ spec' = spec
      BY <1>3 DEF Claim, backend
    <2>2. ASSUME NEW t \in Times, PutState(RetryState, t)
          PROVE  Mild
      BY <1>0, <2>1, <2>2, StateIsMild
    <2>3. ASSUME NEW t \in Times, NEW n,
                 Put([log EXCEPT !.state = IntentState, !.tries = @ + 1], t, n),
                 log.tries < MaxAttempts
          PROVE  Mild
      <3>1. [log EXCEPT !.state = IntentState, !.tries = @ + 1] \in Event
        <4>1. IntentState \in States /\ log.tries + 1 \in 0..MaxAttempts
          BY <1>0, <2>3, Constants
        <4> QED BY <1>0, <4>1 DEF Event
      <3>2. /\ log'.state = IntentState /\ log'.disk = log.disk
            /\ log'.runner = log.runner /\ log'.fence = log.fence
        BY <1>0, <2>3, <3>1, PutFields DEF Event
      <3> QED BY <1>0, <2>1, <3>2 DEF Mild, Fenced, STOPPED
    <2>4. log.state \in Waiting => log.tries < MaxAttempts
      BY DEF IInv, Fits, StatesFit
    <2> QED BY <1>3, <2>2, <2>3, <2>4 DEF Claim, Claimable
  <1>4. ASSUME Finish(w) PROVE Mild
    <2>1. left' = left /\ spec' = spec
      BY <1>4 DEF Finish, backend
    <2>2. CASE log' = log
      BY <2>1, <2>2, SameLogIsMild
    <2>3. CASE PutState(Outcome(w), started[w])
      <3>1. started[w] \in 0..MaxClock
        BY DEF IInv, TaskTypeOK
      <3> QED BY <1>0, <2>1, <2>3, <3>1, StateFields DEF Mild, Fenced
    <2> QED BY <1>4, <2>2, <2>3 DEF Finish
  <1> QED BY <1>1, <1>2, <1>3, <1>4 DEF Attempt

(* The steps that are not mild: what they do.                              *)
LEMMA ActivateWrites ==
  ASSUME IInv, NEW c \in Caller, Activate(c)
  PROVE  /\ left' = left /\ spec' \in {spec, "prepared"}
         /\ log'.state = "ACTIVE" /\ log'.disk = log.disk
         /\ log'.runner = log.runner /\ log'.fence = log.fence
  <1>1. log' = log \/ \E t \in Times : PutState("ACTIVE", t)
    BY DEF Activate
  <1>2. "ACTIVE" \in States
    BY DEF States
  <1> QED BY <1>1, <1>2, ClockTimes, StateFields DEF Activate

LEMMA BindWrites ==
  ASSUME IInv, NEW c \in Caller, BindDiskCleanup(c)
  PROVE  /\ left' = left
         /\ spec' = "bound" \/ (spec' = spec /\ Fault)
         /\ log'.state = "DISK_BOUND" /\ log'.disk = "bound"
         /\ log'.runner = log.runner /\ log'.fence = log.fence
  <1>1. PICK t \in Times : Put([log EXCEPT !.state = "DISK_BOUND", !.disk = "bound"], t, 1)
    BY DEF BindDiskCleanup
  <1>2. [log EXCEPT !.state = "DISK_BOUND", !.disk = "bound"] \in Event
    BY DEF IInv, TaskTypeOK, Event, States, Waiting
  <1>3. /\ log'.state = "DISK_BOUND" /\ log'.disk = "bound"
        /\ log'.runner = log.runner /\ log'.fence = log.fence
    BY <1>1, <1>2, ClockTimes, PutFields DEF IInv, TaskTypeOK, Event
  <1> QED BY <1>3 DEF BindDiskCleanup

LEMMA ReconcileWrites ==
  ASSUME IInv, NEW c \in Caller, ReconcileCoreTerminal(c)
  PROVE  left' = left /\ spec' = spec /\ log'.disk = log.disk /\ log'.runner = log.runner
  <1>1. PICK t \in Times :
          \/ Put([log EXCEPT !.state = "CLEANUP_NOT_REQUIRED", !.fence = t], t, 2)
          \/ Put([log EXCEPT !.fence = t], t, 1)
          \/ PutState("CLEANUP_NOT_REQUIRED", t)
    BY DEF ReconcileCoreTerminal
  <1>2. t \in 0..MaxClock /\ log \in Event /\ "CLEANUP_NOT_REQUIRED" \in States
    BY ClockTimes DEF IInv, TaskTypeOK, States, Settled
  <1>3. /\ [log EXCEPT !.state = "CLEANUP_NOT_REQUIRED", !.fence = t] \in Event
        /\ [log EXCEPT !.fence = t] \in Event
    BY <1>2 DEF Event
  <1>4. log'.disk = log.disk /\ log'.runner = log.runner
    <2>1. CASE Put([log EXCEPT !.state = "CLEANUP_NOT_REQUIRED", !.fence = t], t, 2)
      <3>1. /\ [log EXCEPT !.state = "CLEANUP_NOT_REQUIRED", !.fence = t].disk = log.disk
            /\ [log EXCEPT !.state = "CLEANUP_NOT_REQUIRED", !.fence = t].runner = log.runner
        BY <1>2 DEF Event
      <3> QED BY <1>2, <1>3, <2>1, <3>1, PutFields
    <2>2. CASE Put([log EXCEPT !.fence = t], t, 1)
      <3>1. /\ [log EXCEPT !.fence = t].disk = log.disk
            /\ [log EXCEPT !.fence = t].runner = log.runner
        BY <1>2 DEF Event
      <3> QED BY <1>2, <1>3, <2>2, <3>1, PutFields
    <2>3. CASE PutState("CLEANUP_NOT_REQUIRED", t)
      BY <1>2, <2>3, StateFields
    <2> QED BY <1>1, <2>1, <2>2, <2>3
  <1> QED BY <1>4 DEF ReconcileCoreTerminal, backend

(* A caller that waits for a runner has started one.                       *)
LEMMA StartedStays == IInv /\ Started /\ [TaskNext]_taskVars => Started'
  <1> SUFFICES ASSUME IInv, Started, [TaskNext]_taskVars, NEW d \in Caller
               PROVE  /\ pc'[d] \in {"spawn", "await", "respawn"} => hand'[d] \in Runner
                      /\ pc'[d] = "await" => log'.runner # NoRunner
    BY DEF Started
  <1>0. /\ pc \in [Worker -> RunnerSteps \cup CallerSteps]
        /\ hand \in [Caller -> Runner \cup {NoRunner}]
        /\ d \in Worker /\ d \notin Runner /\ NoRunner \notin Runner
    BY Constants, WatchdogAssumption DEF IInv, TaskTypeOK, Worker, WatchdogAssumption
  <1>1. log.runner # NoRunner => log'.runner # NoRunner
    <2>1. ASSUME NEW c \in Caller, CallerNext(c)
          PROVE  log.runner # NoRunner => log'.runner # NoRunner
      <3>1. CASE Activate(c) \/ BindDiskCleanup(c) \/ ReconcileCoreTerminal(c)
        BY <3>1, ActivateWrites, BindWrites, ReconcileWrites
      <3>2. CASE \/ Arm(c) \/ Launch(c) \/ Await(c) \/ Resume(c) \/ Relaunch(c)
                 \/ ReadTask(c) \/ SettleFence(c) \/ Raise(c)
        BY <3>2, CallersAreMild DEF Mild
      <3> QED BY <2>1, <3>1, <3>2 DEF CallerNext
    <2>2. ASSUME NEW w \in Worker, (w \in Runner /\ RunnerNext(w)) \/ Attempt(w) \/ Die(w) \/ Tick
          PROVE  log.runner # NoRunner => log'.runner # NoRunner
      BY <2>2, WorkersAreMild DEF Mild
    <2>3. CASE Elsewhere \/ Tick \/ UNCHANGED taskVars
      BY <2>3 DEF Elsewhere, Tick, taskVars, journal
    <2> QED BY <2>1, <2>2, <2>3 DEF TaskNext, Worker
  <1>2. CASE pc'[d] = pc[d] /\ hand'[d] = hand[d]
    BY <1>1, <1>2 DEF Started
  <1>3. ASSUME NEW c \in Caller, CallerNext(c)
        PROVE  /\ pc'[d] \in {"spawn", "await", "respawn"} => hand'[d] \in Runner
               /\ pc'[d] = "await" => log'.runner # NoRunner
    <2>1. CASE Arm(c) \/ BindDiskCleanup(c) \/ ReconcileCoreTerminal(c) \/ ReadTask(c) \/ SettleFence(c)
      BY <1>2, <2>1
         DEF Arm, BindDiskCleanup, ReconcileCoreTerminal, ReadTask, SettleFence, locals
    <2>2. CASE Raise(c)
      BY <1>0, <1>2, <2>2 DEF Raise, Goto, locals
    <2>3. CASE Activate(c) \/ Resume(c)
      BY <1>0, <1>2, <2>3 DEF Activate, Resume, Spawn, locals
    <2>4. ASSUME Kill(c), hand[c] \in Runner
          PROVE  \/ pc'[d] = pc[d] /\ hand'[d] = hand[d]
                 \/ pc'[d] = "idle"
      BY <1>0, <2>4 DEF Kill
    <2>5. CASE Launch(c) \/ Relaunch(c)
      <3>1. hand[c] \in Runner
        BY <2>5 DEF Launch, Relaunch, Started
      <3>2. CASE Kill(c)
        BY <1>2, <2>4, <3>1, <3>2
      <3>3. ASSUME Goto(c, "await"), UNCHANGED hand, NEW e \in Event, NEW t \in Times,
                   Put(e, t, 1), e.runner = hand[c]
            PROVE  /\ pc'[d] \in {"spawn", "await", "respawn"} => hand'[d] \in Runner
                   /\ pc'[d] = "await" => log'.runner # NoRunner
        <4>1. log'.runner = hand[c]
          BY <3>3, ClockTimes, PutFields
        <4> QED BY <1>0, <1>2, <3>1, <3>3, <4>1 DEF Goto
      <3>4. /\ [log EXCEPT !.state = "RUNNER_READY", !.runner = hand[c]] \in Event
            /\ [log EXCEPT !.state = "RUNNER_READY", !.runner = hand[c]].runner = hand[c]
            /\ [log EXCEPT !.runner = hand[c]] \in Event
            /\ [log EXCEPT !.runner = hand[c]].runner = hand[c]
        BY <3>1 DEF IInv, TaskTypeOK, Event, States, Waiting
      <3> QED BY <2>5, <3>2, <3>3, <3>4 DEF Launch, Relaunch
    <2>6. CASE Await(c)
      <3>1. CASE Kill(c)
        BY <1>2, <2>4, <2>6, <3>1 DEF Await, Started
      <3>2. CASE Goto(c, "idle") /\ hand' = [hand EXCEPT ![c] = NoRunner]
        BY <1>0, <1>2, <3>2 DEF Goto
      <3> QED BY <2>6, <3>1, <3>2 DEF Await
    <2> QED BY <1>3, <2>1, <2>2, <2>3, <2>5, <2>6 DEF CallerNext
  <1>4. ASSUME NEW w \in Worker, (w \in Runner /\ RunnerNext(w)) \/ Attempt(w) \/ Die(w)
        PROVE  /\ pc'[d] \in {"spawn", "await", "respawn"} => hand'[d] \in Runner
               /\ pc'[d] = "await" => log'.runner # NoRunner
    <2>1. CASE w \in Runner /\ RunnerNext(w)
      BY <1>0, <1>2, <2>1 DEF RunnerNext, Start, GiveUp, Retire, Goto, locals
    <2>2. CASE GiveTaskUp(w) \/ Claim(w)
      BY <1>0, <1>2, <2>2 DEF GiveTaskUp, Claim, Goto, locals
    <2>3. CASE Clean(w) \/ Finish(w)
      BY <1>0, <1>2, <2>3 DEF Clean, Finish, Rest, Goto, locals
    <2>4. CASE Die(w)
      BY <1>0, <1>2, <2>4 DEF Die, Goto
    <2> QED BY <1>4, <2>1, <2>2, <2>3, <2>4 DEF Attempt
  <1>5. CASE Elsewhere \/ Tick \/ UNCHANGED taskVars
    BY <1>2, <1>5 DEF Elsewhere, Tick, taskVars, locals
  <1> QED BY <1>3, <1>4, <1>5 DEF TaskNext, Worker

-----------------------------------------------------------------------------
(* The steps of the lease. *)
OthersOK ==
  /\ core \in [state : CoreStates, op : {"none", "unknown", "done"}, flags : SUBSET Flags]
  /\ copy \in [Caller -> SUBSET Flags]
  /\ side \in SideStates
  /\ kill \in {"off", "on"}
  /\ ctl \in [Caller -> ExecuteSteps \cup RecoverSteps \cup CleanupSteps]
  /\ target \in [Caller -> {"unknown", "known"}]

(* A write to the core journal.                                            *)
LEMMA CoreWrites ==
  ASSUME OthersOK, NEW c \in Caller, NEW s \in CoreStates, NEW then, NEW else,
         WriteCore(c, s, then, else)
  PROVE  /\ ctl' = [ctl EXCEPT ![c] = then] \/ ctl' = [ctl EXCEPT ![c] = else]
         /\ \/ core' = core /\ copy' = copy /\ ctl' = [ctl EXCEPT ![c] = else]
            \/ /\ s \in Core!Allowed(core.state) /\ core.state # "NONE"
               /\ core.flags \subseteq Flagged(c, s)
               /\ core'.state = s /\ core'.flags = Flagged(c, s)
               /\ \/ copy' = [copy EXCEPT ![c] = Flagged(c, s)] /\ ctl' = [ctl EXCEPT ![c] = then]
                  \/ copy' = copy /\ ctl' = [ctl EXCEPT ![c] = else]
         /\ core' \in [state : CoreStates, op : {"none", "unknown", "done"}, flags : SUBSET Flags]
         /\ copy' \in [Caller -> SUBSET Flags]
  <1>1. Flagged(c, s) \in SUBSET Flags
    BY DEF OthersOK, Flagged, Flags
  <1>2. Recorded(c, s) \in [state : CoreStates, op : {"none", "unknown", "done"}, flags : SUBSET Flags]
    BY <1>1 DEF Recorded, OthersOK
  <1>3. Recorded(c, s).state = s /\ Recorded(c, s).flags = Flagged(c, s)
    BY DEF Recorded
  <1>4. CASE CoreAccepts(c, s) /\ Step(c, then) /\ core' = Recorded(c, s)
             /\ copy' = [copy EXCEPT ![c] = Flagged(c, s)]
    BY <1>1, <1>2, <1>3, <1>4 DEF OthersOK, CoreAccepts, Step
  <1>5. CASE Step(c, else) /\ UNCHANGED <<core, copy>>
    BY <1>5 DEF OthersOK, Step
  <1>6. CASE CoreAccepts(c, s) /\ Step(c, else) /\ core' \in {core, Recorded(c, s)} /\ UNCHANGED copy
    BY <1>2, <1>3, <1>6 DEF OthersOK, CoreAccepts, Step
  <1> QED BY <1>4, <1>5, <1>6 DEF WriteCore

LEMMA Steps ==
  ASSUME OthersOK, NEW c \in Caller, NEW s, ctl' = [ctl EXCEPT ![c] = s]
  PROVE  ctl'[c] = s /\ \A d \in Caller : d # c => ctl'[d] = ctl[d]
  BY DEF OthersOK

LEMMA Confirmed ==
  /\ Core!Allowed(CONFIRMED) = {CONFIRMED}
  /\ \A s : CONFIRMED \in Core!Allowed(s) /\ s \in CoreStates =>
       s \in {"PREPARED", "ARM_CONSUMED", "CLEANUP_PENDING", "ORPHANED", CONFIRMED, "NONE"}
  BY DEF Core!Allowed, CONFIRMED, CoreStates, Core!States


(* What a step that only writes the core journal may do.                   *)
LEMMA ControllerWritesCore ==
  ASSUME SInv, OthersOK,
         Refuse(Controller) \/ ConsumeArm(Controller) \/ Own(Controller) \/ Abort(Controller)
  PROVE  SInv'
  <1> DEFINE c == Controller
  <1>1. PICK s \in {CONFIRMED, "ARM_CONSUMED", "OWNED"}, then \in {"ended", "arm", "begin", "settle"},
             else \in {"ended", "abort", "pending", "block"} :
           /\ WriteCore(c, s, then, else) \/ (UNCHANGED <<core, copy>> /\ ctl' = [ctl EXCEPT ![c] = else])
           /\ s = CONFIRMED => ctl[c] \in {"refuse", "abort"}
           /\ s = "ARM_CONSUMED" => ctl[c] = "consume" /\ then = "arm" /\ else = "abort"
           /\ s = "OWNED" => ctl[c] = "own" /\ then = "begin" /\ else = "pending"
           /\ ctl[c] = "refuse" => then = "ended" /\ else = "ended"
           /\ ctl[c] = "abort" => then = "settle" /\ else = "block"
    BY DEF Refuse, ConsumeArm, Own, Abort, At, CONFIRMED, Fails, OnlyTask, Step
  <1>2. UNCHANGED <<log, spec, left, side>>
    BY DEF Refuse, ConsumeArm, Own, Abort, OnlyCore, theTask, journal, backend, Fails, OnlyTask
  <1>3. s \in CoreStates
    BY DEF CoreStates, Core!States, CONFIRMED
  <1>4. PICK next \in {then, else} :
          /\ ctl' = [ctl EXCEPT ![c] = next]
          /\ \/ core' = core /\ copy' = copy /\ next = else
             \/ /\ s \in Core!Allowed(core.state) /\ core.state # "NONE"
                /\ core.flags \subseteq Flagged(c, s)
                /\ core'.state = s /\ core'.flags = Flagged(c, s)
                /\ \/ copy' = [copy EXCEPT ![c] = Flagged(c, s)] /\ next = then
                   \/ copy' = copy /\ next = else
    BY <1>1, <1>3, CoreWrites, ControllerAssumption
  <1>5. ctl'[c] = next /\ \A d \in Caller : d # c => ctl'[d] = ctl[d]
    BY <1>4, Steps, ControllerAssumption
  <1>6. /\ "attempted" \in Flagged(c, s) <=> "attempted" \in copy[c]
        /\ \A d \in Caller : d # c => copy'[d] = copy[d]
        /\ copy'[c] = copy[c] \/ (copy'[c] = Flagged(c, s) /\ next = then)
    BY <1>1, <1>4, ControllerAssumption DEF Flagged, CONFIRMED, OthersOK
  <1> USE ControllerAssumption, <1>2, <1>5, <1>1
  <1>7. StepTypes'
    BY DEF SInv, StepTypes, ExecuteSteps, CleanupSteps, Operator
  <1>8. Knowledge'
    BY <1>4, <1>6, Confirmed DEF SInv, StepTypes, Knowledge, Operator, Informed, Attempted, Order, CONFIRMED
  <1>9. Order'
    BY <1>4, <1>6, Confirmed DEF SInv, Order, Operator, Informed, CONFIRMED, Behind, Inserting, PastSteps, CleanupSteps
  <1>10. Endings'
    BY <1>4, <1>6, Confirmed DEF SInv, Order, Endings, Operator, CONFIRMED, STOPPED, Behind, Inserting, PastSteps, CleanupSteps, Closed, Fenced
  <1> QED BY <1>7, <1>8, <1>9, <1>10 DEF SInv

(* A step on the way that writes at most the sidecar, or none.             *)
LEMMA ControllerMovesOn ==
  ASSUME SInv, OthersOK, NEW next,
         ctl' = [ctl EXCEPT ![Controller] = next],
         UNCHANGED <<copy, log, spec, left>>,
         \/ core' = core
         \/ ctl[Controller] = "start" /\ core' = [core EXCEPT !.state = "PREPARED"],
         side' = CONFIRMED => side = CONFIRMED,
         \/ ctl[Controller] = "start" /\ core'.state = "PREPARED" /\ next = "reserve"
         \/ ctl[Controller] = "reserve" /\ next \in {"consume", "refuse"}
         \/ ctl[Controller] = "arm" /\ next = "watch"
         \/ ctl[Controller] = "ready" /\ next = "activate"
         \/ ctl[Controller] \in {"arm", "watch", "ready", "activate", "launch", "submit"}
            /\ next = "abort"
         \/ ctl[Controller] = "launch" /\ next = "launch"
         \/ ctl[Controller] = "intent" /\ next = "insert" /\ side' = "CREATE_INTENT"
         \/ ctl[Controller] \in {"intent", "bind", "begin", "work"} /\ next = "pending"
         \/ ctl[Controller] = "begin" /\ next = "work"
         \/ ctl[Controller] = "block" /\ next = "ended"
  PROVE  SInv'
  <1> DEFINE c == Controller
  <1> USE ControllerAssumption
  <1>1. ctl'[c] = next /\ \A d \in Caller : d # c => ctl'[d] = ctl[d]
    BY Steps
  <1>2. core'.flags = core.flags /\ (core'.state = core.state \/ core.state = "NONE")
    BY DEF OthersOK, SInv, Knowledge
  <1>3. StepTypes'
    BY <1>1 DEF SInv, StepTypes, ExecuteSteps, CleanupSteps, Operator
  <1>4. Knowledge'
    <2>1. /\ core'.state \in {"NONE", "PREPARED", "ARM_CONSUMED"} => ~Attempted'
          /\ core'.state \notin {"NONE", "PREPARED", "ARM_CONSUMED", CONFIRMED} => Attempted'
          /\ left' # {} => Attempted'
          /\ next # "start"
      BY <1>2 DEF SInv, Knowledge, Attempted, CONFIRMED
    <2>2. /\ next \in {"reserve", "consume", "watch", "activate", "launch"} =>
               "attempted" \notin copy[c]
          /\ next \in Informed => "attempted" \in copy[c]
      BY DEF SInv, Knowledge, Informed, OthersOK
    <2>3. \A o \in Operator : ctl[o] = "sidecar" => core'.state = CONFIRMED
      BY <1>2 DEF SInv, Knowledge, CONFIRMED
    <2> QED BY <1>1, <2>1, <2>2, <2>3 DEF SInv, Knowledge, Operator, Informed
  <1>5. Order'
    BY <1>1, <1>2
       DEF SInv, Order, Knowledge, Operator, Informed, CONFIRMED, Behind, Inserting, PastSteps, CleanupSteps
  <1>6. Endings'
    BY <1>1, <1>2
       DEF SInv, Order, Knowledge, Endings, Operator, CONFIRMED, STOPPED, Behind, Inserting,
           PastSteps, CleanupSteps, Closed, Fenced
  <1> QED BY <1>3, <1>4, <1>5, <1>6 DEF SInv

(* A write to the sidecar.                                                 *)
LEMMA SideWrites ==
  ASSUME NEW c, NEW s, NEW then, NEW else, WriteSide(c, s, then, else)
  PROVE  /\ ctl' = [ctl EXCEPT ![c] = then] \/ ctl' = [ctl EXCEPT ![c] = else]
         /\ side' = s \/ (side' = side /\ ctl' = [ctl EXCEPT ![c] = else])
         /\ side' # side => SideAllows(s)
  BY DEF WriteSide, Step

LEMMA ControllerWritesSide ==
  ASSUME SInv, OthersOK,
         \/ Prepare(Controller) \/ Reserve(Controller) \/ RecordArm(Controller)
         \/ RecordReady(Controller) \/ CreateIntent(Controller) \/ BeginWork(Controller)
         \/ Work(Controller) \/ Block(Controller)
  PROVE  SInv'
  <1> DEFINE c == Controller
  <1> USE ControllerMovesOn, SideWrites
          DEF OnlySide, OnlyCore, OnlyTask, theTask, journal, backend, At, Step, Refused,
              StopIfKilled, CONFIRMED
  <1>1. CASE Prepare(c)
    BY <1>1 DEF Prepare, OthersOK
  <1>2. CASE Reserve(c)
    BY <1>2 DEF Reserve
  <1>3. CASE RecordArm(c)
    BY <1>3 DEF RecordArm
  <1>4. CASE RecordReady(c)
    BY <1>4 DEF RecordReady
  <1>5. CASE CreateIntent(c)
    BY <1>5 DEF CreateIntent
  <1>6. CASE BeginWork(c)
    BY <1>6 DEF BeginWork
  <1>7. CASE Work(c)
    BY <1>7 DEF Work
  <1>8. CASE Block(c)
    BY <1>8 DEF Block
  <1> QED BY <1>1, <1>2, <1>3, <1>4, <1>5, <1>6, <1>7, <1>8

LEMMA SubmitKeeps ==
  ASSUME SInv, OthersOK, Submit(Controller)
  PROVE  SInv'
  <1> DEFINE c == Controller
  <1> USE ControllerAssumption
  <1>1. ctl[c] = "submit"
    BY DEF Submit, At
  <1>2. CASE Refused(c, "abort") \/ Fails(c, "abort")
    BY <1>1, <1>2, ControllerMovesOn
       DEF Refused, Fails, Step, OnlyTask, theTask, journal, backend, CONFIRMED
  <1>3. ASSUME WriteCore(c, "CREATE_SUBMITTED", "intent", "abort"), OnlyCore
        PROVE  SInv'
    <2>1. UNCHANGED <<log, spec, left, side>>
      BY <1>3 DEF OnlyCore, theTask, journal, backend
    <2>2. "CREATE_SUBMITTED" \in CoreStates
      BY DEF CoreStates, Core!States
    <2>3. CASE core' = core /\ copy' = copy /\ ctl' = [ctl EXCEPT ![c] = "abort"]
      BY <1>1, <2>1, <2>3, ControllerMovesOn DEF CONFIRMED
    <2>4. ASSUME core.state # CONFIRMED, core'.state = "CREATE_SUBMITTED",
                 "attempted" \in core'.flags, NEW next \in {"intent", "abort"},
                 ctl' = [ctl EXCEPT ![c] = next],
                 copy' = [copy EXCEPT ![c] = copy'[c]],
                 next = "intent" => "attempted" \in copy'[c]
          PROVE  SInv'
      <3>1. ctl'[c] = next /\ \A d \in Caller : d # c => ctl'[d] = ctl[d]
        BY <2>4, Steps
      <3>2. \A d \in Caller : d # c => copy'[d] = copy[d]
        BY <2>4 DEF OthersOK
      <3>3. StepTypes'
        BY <2>4, <3>1 DEF SInv, StepTypes, ExecuteSteps, CleanupSteps, Operator
      <3>4. Knowledge'
        BY <1>1, <2>1, <2>4, <3>1, <3>2
           DEF SInv, Knowledge, Operator, Informed, Attempted, Order, CONFIRMED
      <3>5. Order'
        BY <1>1, <2>1, <2>4, <3>1
           DEF SInv, Order, Operator, Informed, CONFIRMED, Behind, Inserting, PastSteps, CleanupSteps
      <3>6. Endings'
        BY <1>1, <2>1, <2>4, <3>1
           DEF SInv, Order, Endings, Operator, CONFIRMED, STOPPED, Behind, Inserting,
               PastSteps, CleanupSteps, Closed, Fenced
      <3> QED BY <3>3, <3>4, <3>5, <3>6 DEF SInv
    <2>5. "attempted" \in Flagged(c, "CREATE_SUBMITTED")
      BY DEF Flagged
    <2>6. \/ core' = core /\ copy' = copy /\ ctl' = [ctl EXCEPT ![c] = "abort"]
          \/ /\ core.state # CONFIRMED /\ core'.state = "CREATE_SUBMITTED"
             /\ core'.flags = Flagged(c, "CREATE_SUBMITTED")
             /\ \/ /\ copy' = [copy EXCEPT ![c] = Flagged(c, "CREATE_SUBMITTED")]
                   /\ ctl' = [ctl EXCEPT ![c] = "intent"]
                \/ copy' = copy /\ ctl' = [ctl EXCEPT ![c] = "abort"]
      BY <1>3, <2>2, Confirmed, CoreWrites DEF CONFIRMED
    <2>7. copy' = [copy EXCEPT ![c] = copy'[c]]
      BY <2>6 DEF OthersOK
    <2>8. copy' = [copy EXCEPT ![c] = Flagged(c, "CREATE_SUBMITTED")] =>
            copy'[c] = Flagged(c, "CREATE_SUBMITTED")
      BY DEF OthersOK
    <2> QED BY <2>3, <2>4, <2>5, <2>6, <2>7, <2>8
  <1> QED BY <1>2, <1>3 DEF Submit

(* The insert: whatever comes of it, the controller is behind it.          *)
LEMMA InsertKeeps ==
  ASSUME SInv, OthersOK, Insert(Controller)
  PROVE  SInv'
  <1> DEFINE c == Controller
  <1> USE ControllerAssumption
  <1>1. /\ ctl[c] = "insert" /\ UNCHANGED <<log, spec, copy, side>>
        /\ core'.state = core.state /\ core'.flags = core.flags
    BY DEF Insert, At, journal, OthersOK
  <1>2. PICK next \in {"bind", "pending"} : ctl' = [ctl EXCEPT ![c] = next]
    BY DEF Insert, Step
  <1>3. ctl'[c] = next /\ \A d \in Caller : d # c => ctl'[d] = ctl[d]
    BY <1>2, Steps
  <1>4. Behind' /\ core.state = "CREATE_SUBMITTED" /\ ~Closed
    BY <1>1, <1>3 DEF Behind, PastSteps, CleanupSteps, SInv, Order, Inserting, Closed
  <1>5. StepTypes'
    BY <1>3 DEF SInv, StepTypes, ExecuteSteps, CleanupSteps, Operator
  <1>6. Knowledge'
    BY <1>1, <1>3, <1>4 DEF SInv, Knowledge, Operator, Informed, Attempted, CONFIRMED
  <1>7. Order'
    BY <1>1, <1>3, <1>4 DEF SInv, Order, Inserting
  <1>8. Endings'
    BY <1>1, <1>3, <1>4 DEF SInv, Endings, CONFIRMED, STOPPED, Fenced
  <1> QED BY <1>5, <1>6, <1>7, <1>8 DEF SInv

-----------------------------------------------------------------------------
(* The steps of a cleanup and of a recovery, of any caller. *)

(* Somebody informed or about to close is the controller behind its        *)
(* insert, or an operator who comes after that.                            *)
LEMMA WhereTheyAre ==
  ASSUME SInv, NEW c \in Caller
  PROVE  /\ ctl[c] \in CleanupSteps \cup {"result", "resume"} =>
              Behind \/ (Closed /\ ctl[c] \in {"settle", "reconcile"})
         /\ ctl[c] \in {"absent", "result", "sidecar", "resume"} => c \in Operator
         /\ c = Controller => ctl[c] \in ExecuteSteps \cup CleanupSteps
         /\ c # Controller => c \in Operator
  BY ControllerAssumption
     DEF SInv, StepTypes, Order, Endings, Behind, PastSteps, CleanupSteps, ExecuteSteps,
         RecoverSteps, Informed, Operator

(* A step of a caller c to a next one, that may record that all is over    *)
(* when it is.                                                             *)
Onward(c, next) ==
  /\ ctl' = [ctl EXCEPT ![c] = next]
  /\ UNCHANGED spec /\ left' \subseteq left
  /\ Attempted => Attempted'
  /\ core'.flags # core.flags => core'.state \notin {"NONE", "PREPARED", "ARM_CONSUMED"}
  /\ core'.state # core.state =>
       \/ core'.state \in {"CLEANUP_PENDING", "ORPHANED"} /\ core.state # CONFIRMED
          /\ Behind /\ Attempted'
       \/ core'.state = CONFIRMED /\ (Behind \/ core.state # "CREATE_SUBMITTED")
          /\ left' = {}
  /\ core.state = "NONE" => core'.state = "NONE"
  /\ side' # side => Behind \/ core.state = CONFIRMED
  /\ side' = CONFIRMED => side = CONFIRMED \/ Closed'
  /\ log'.disk = log.disk
  /\ log.runner # NoRunner => log'.runner # NoRunner
  /\ log'.state \in {CONFIRMED, STOPPED} \/ Fenced' =>
       log.state \in {CONFIRMED, STOPPED} \/ Fenced \/ Closed
  /\ \A d \in Caller : d # c => copy'[d] = copy[d]
  /\ next \in Informed => "attempted" \in copy'[c] /\ Behind
  /\ next = "absent" => "attempted" \notin copy'[c]
  /\ next = "sidecar" => core'.state = CONFIRMED
  /\ next \in {"confirm", "settle", "reconcile", "result"} => Closed'
  /\ c = Controller =>
       ctl[c] \in CleanupSteps /\ next \in CleanupSteps \cup {"ended"}
  /\ c # Controller => next \in RecoverSteps \cup CleanupSteps

LEMMA OnwardKeeps ==
  ASSUME SInv, OthersOK, NEW c \in Caller, NEW next, Onward(c, next)
  PROVE  SInv'
  <1> USE ControllerAssumption
  <1>1. ctl'[c] = next /\ \A d \in Caller : d # c => ctl'[d] = ctl[d]
    BY Steps DEF Onward
  <1>2. /\ Behind => Behind'
        /\ Behind' => Behind
        /\ Inserting' => Inserting
        /\ ctl'[Controller] # ctl[Controller] =>
             Behind /\ ctl'[Controller] \in CleanupSteps \cup {"ended"}
    BY <1>1 DEF Onward, Behind, Inserting, PastSteps, CleanupSteps
  <1>3. core.state = CONFIRMED => core'.state = CONFIRMED
    BY DEF Onward
  <1>4. Closed => Closed'
    BY <1>2, <1>3 DEF Closed, Onward
  <1>5. StepTypes'
    BY <1>1 DEF SInv, StepTypes, Onward, ExecuteSteps, Operator
  <1>6. Knowledge'
    <2>1. /\ core'.state \in {"NONE", "PREPARED", "ARM_CONSUMED"} => ~Attempted'
          /\ core'.state \notin {"NONE", "PREPARED", "ARM_CONSUMED", CONFIRMED} => Attempted'
      BY DEF SInv, Knowledge, Onward, Attempted, CONFIRMED
    <2>2. left' # {} => Attempted'
      BY DEF SInv, Knowledge, Onward
    <2>3. \A o \in Operator : ctl'[o] = "sidecar" => core'.state = CONFIRMED
      BY <1>1, <1>3 DEF SInv, Knowledge, Onward, Operator
    <2>4. ctl'[Controller] \in CleanupSteps \cup {"ended"} \/ ctl'[Controller] = ctl[Controller]
      BY <1>2
    <2>5. ctl'[Controller] = "start" => core'.state = "NONE"
      BY <2>4 DEF SInv, Knowledge, Onward, CleanupSteps
    <2>6. ctl'[Controller] \in {"start", "reserve", "consume", "arm", "watch", "ready",
                               "activate", "launch", "submit"} =>
            "attempted" \notin copy'[Controller]
      BY <1>1, <2>4 DEF SInv, Knowledge, Onward, CleanupSteps
    <2>7. \A d \in Caller : ctl'[d] \in Informed => "attempted" \in copy'[d]
      BY <1>1 DEF SInv, Knowledge, Onward
    <2>8. \A o \in Operator : ctl'[o] = "absent" => "attempted" \notin copy'[o]
      BY <1>1 DEF SInv, Knowledge, Onward, Operator
    <2> QED BY <2>1, <2>2, <2>3, <2>5, <2>6, <2>7, <2>8 DEF Knowledge
  <1>7. Order'
    <2>1. left' # {} => Behind'
      BY <1>2 DEF SInv, Order, Onward
    <2>2. ctl'[Controller] \in {"refuse", "abort"} => left' = {}
      BY <1>2 DEF SInv, Order, Onward, CleanupSteps
    <2>3. Inserting' => core'.state = "CREATE_SUBMITTED"
      <3>1. ASSUME Inserting' PROVE Inserting /\ ~Behind /\ core.state = "CREATE_SUBMITTED"
        BY <1>2, <3>1 DEF SInv, Order, Inserting, Behind, PastSteps, CleanupSteps
      <3> QED BY <3>1 DEF Onward
    <2>4. ctl'[Controller] = "insert" => side' = "CREATE_INTENT"
      <3>1. ASSUME ctl'[Controller] = "insert"
            PROVE  ctl[Controller] = "insert" /\ ~Behind /\ core.state = "CREATE_SUBMITTED"
        BY <1>2, <3>1 DEF SInv, Order, Inserting, Behind, PastSteps, CleanupSteps
      <3> QED BY <3>1 DEF SInv, Order, Onward, CONFIRMED
    <2>5. ctl'[Controller] \in {"submit", "intent", "insert"} => log'.runner # NoRunner
      BY <1>2 DEF SInv, Order, Onward, CleanupSteps
    <2>6. log'.disk = "bound" => Behind'
      BY <1>2 DEF SInv, Order, Onward
    <2>7. ctl'[Controller] \in {"own", "begin", "work"} => log'.disk = "bound" /\ spec' = "bound"
      BY <1>2 DEF SInv, Order, Onward, CleanupSteps
    <2>8. \A o \in Operator : ctl'[o] \in Informed => Behind'
      BY <1>1, <1>2 DEF SInv, Order, Onward, Operator
    <2> QED BY <2>1, <2>2, <2>3, <2>4, <2>5, <2>6, <2>7, <2>8 DEF Order
  <1>8. Endings'
    <2>1. core'.state = CONFIRMED => Closed'
      <3>1. CASE core.state = CONFIRMED
        BY <1>4, <3>1 DEF SInv, Endings
      <3>2. CASE core.state # CONFIRMED /\ core'.state = CONFIRMED
        <4>1. left' = {} /\ (Behind \/ core.state # "CREATE_SUBMITTED")
          BY <3>2 DEF Onward, CONFIRMED
        <4>2. Behind' \/ ~Inserting'
          BY <1>2, <4>1 DEF SInv, Order
        <4> QED BY <3>2, <4>1, <4>2 DEF Closed
      <3> QED BY <3>1, <3>2
    <2>2. side' = CONFIRMED => Closed'
      BY <1>4 DEF SInv, Endings, Onward
    <2>3. log'.state \in {CONFIRMED, STOPPED} \/ Fenced' => Closed'
      BY <1>4 DEF SInv, Endings, Onward
    <2>4. \A d \in Caller :
            ctl'[d] \in {"confirm", "settle", "reconcile", "result"} => Closed'
      BY <1>1, <1>4 DEF SInv, Endings, Onward
    <2> QED BY <2>1, <2>2, <2>3, <2>4 DEF Endings
  <1> QED BY <1>5, <1>6, <1>7, <1>8 DEF SInv

(* A step of a caller that leaves the core journal, the task and what is   *)
(* left alone.                                                             *)
LEMMA SideOnly ==
  ASSUME SInv, OthersOK, NEW c \in Caller, NEW next,
         ctl' = [ctl EXCEPT ![c] = next],
         UNCHANGED <<log, spec, left, core, copy>>,
         side' # side => Behind \/ core.state = CONFIRMED,
         side' = CONFIRMED => side = CONFIRMED \/ Closed,
         next \in Informed => "attempted" \in copy[c] /\ Behind,
         next = "absent" => "attempted" \notin copy[c],
         next = "sidecar" => core.state = CONFIRMED,
         next \in {"confirm", "settle", "reconcile", "result"} => Closed,
         c = Controller => ctl[c] \in CleanupSteps /\ next \in CleanupSteps \cup {"ended"},
         c # Controller => next \in RecoverSteps \cup CleanupSteps
  PROVE  SInv'
  <1> USE ControllerAssumption
  <1>1. ctl'[Controller] = ctl[Controller] \/ (c = Controller /\ ctl'[Controller] = next)
    BY DEF OthersOK
  <1>2. Closed => Closed'
    BY <1>1 DEF Closed, Behind, Inserting, PastSteps, CleanupSteps
  <1>3. Onward(c, next)
    BY <1>2 DEF Onward, Attempted, Fenced
  <1> QED BY <1>3, OnwardKeeps

LEMMA CallersWriteCore ==
  ASSUME SInv, OthersOK, NEW c \in Caller,
         CleanupPending(c) \/ Confirm(c) \/ Orphan(c) \/ RecoverAbsent(c) \/ RecoverResult(c)
  PROVE  SInv'
  <1> USE ControllerAssumption
  <1>1. UNCHANGED <<log, spec, left, side>>
    BY DEF CleanupPending, Confirm, Orphan, RecoverAbsent, RecoverResult, OnlyCore, theTask,
           journal, backend
  <1>2. PICK s \in {CONFIRMED, "CLEANUP_PENDING", "ORPHANED"},
             then \in {"mark", "settle", "report", "sidecar", "result"},
             else \in {"mark", "settle", "report", "idle"} :
           /\ WriteCore(c, s, then, else)
           /\ s = CONFIRMED => ctl[c] \in {"confirm", "absent", "result"}
           /\ s # CONFIRMED => ctl[c] \in {"pending", "orphan", "result"}
           /\ ctl[c] = "pending" => then = "mark" /\ else = "mark"
           /\ ctl[c] = "confirm" => s = CONFIRMED /\ then = "settle" /\ else = "settle"
           /\ ctl[c] = "orphan" => then = "report" /\ else = "report"
           /\ ctl[c] = "absent" => s = CONFIRMED /\ then = "sidecar" /\ else = "idle"
           /\ ctl[c] = "result" => then \in {"sidecar", "result"} /\ else = "idle"
           /\ then = "sidecar" => s = CONFIRMED
           /\ ctl[c] \in {"pending", "confirm", "orphan", "absent", "result"}
    BY DEF CleanupPending, Confirm, Orphan, RecoverAbsent, RecoverResult, At, CONFIRMED
  <1>3. s \in CoreStates
    BY DEF CoreStates, Core!States, CONFIRMED
  <1>4. PICK next \in {then, else} :
          /\ ctl' = [ctl EXCEPT ![c] = next]
          /\ \/ core' = core /\ copy' = copy /\ next = else
             \/ /\ s \in Core!Allowed(core.state) /\ core.state # "NONE"
                /\ core.flags \subseteq Flagged(c, s)
                /\ core'.state = s /\ core'.flags = Flagged(c, s)
                /\ \/ copy' = [copy EXCEPT ![c] = Flagged(c, s)] /\ next = then
                   \/ copy' = copy /\ next = else
    BY <1>2, <1>3, CoreWrites
  <1>5. Flagged(c, s) = copy[c]
    BY <1>2 DEF Flagged, CONFIRMED
  <1>6. copy' = copy
    BY <1>4, <1>5 DEF OthersOK
  <1>7. \/ c \in Operator /\ c # Controller
        \/ c = Controller /\ ctl[c] \in {"pending", "confirm", "orphan"}
    BY <1>2, WhereTheyAre DEF ExecuteSteps, CleanupSteps, Operator
  <1>8. /\ ctl[c] \in {"pending", "orphan", "result", "confirm"} => Behind /\ "attempted" \in copy[c]
        /\ ctl[c] \in {"confirm", "result"} => Closed
    <2>1. ctl[c] \in Informed => "attempted" \in copy[c]
      BY DEF SInv, Knowledge
    <2>2. ctl[c] \in {"confirm", "result"} => Closed
      BY DEF SInv, Endings
    <2> QED BY <2>1, <2>2, WhereTheyAre DEF Informed, CleanupSteps
  <1>9. CASE core' = core /\ next = else
    <2>1. /\ next \in {"mark", "settle", "report", "idle"}
          /\ next \in Informed => "attempted" \in copy[c] /\ Behind
          /\ next \in {"confirm", "settle", "reconcile", "result"} => Closed
          /\ c = Controller => ctl[c] \in CleanupSteps /\ next \in CleanupSteps
          /\ next \in RecoverSteps \cup CleanupSteps
      BY <1>2, <1>7, <1>8, <1>9 DEF Informed, CleanupSteps, RecoverSteps
    <2> QED BY <1>1, <1>4, <1>6, <1>9, <2>1, SideOnly
  <1>10. ASSUME s \in Core!Allowed(core.state), core.state # "NONE",
                core.flags \subseteq copy[c], core'.state = s, core'.flags = copy[c]
         PROVE  SInv'
    <2>1. Attempted => Attempted'
      BY <1>10 DEF Attempted
    <2>2. ctl'[Controller] = ctl[Controller] \/ (c = Controller /\ ctl'[Controller] = next)
      BY <1>4 DEF OthersOK
    <2>3. CASE ctl[c] = "absent"
      <3>1. /\ ~Attempted /\ left = {} /\ core.state # "CREATE_SUBMITTED" /\ s = CONFIRMED
        BY <1>2, <1>7, <1>10, <2>3 DEF SInv, Knowledge, Attempted, CONFIRMED
      <3>2. next \in {"sidecar", "idle"} /\ c # Controller
        BY <1>2, <1>4, <1>7, <2>3
      <3>3. Onward(c, next)
        BY <1>1, <1>4, <1>6, <1>10, <2>1, <3>1, <3>2
           DEF Onward, CleanupSteps, RecoverSteps, Informed, CONFIRMED, Fenced
      <3> QED BY <3>3, OnwardKeeps
    <2>4. CASE ctl[c] \in {"confirm", "result"} /\ s = CONFIRMED
      <3>1. Closed /\ Closed'
        BY <1>1, <1>2, <1>4, <1>8, <1>10, <2>2, <2>4
           DEF Closed, Behind, PastSteps, CleanupSteps, Inserting
      <3> QED BY <1>1, <1>2, <1>4, <1>6, <1>7, <1>8, <1>10, <2>1, <2>4, <3>1, OnwardKeeps
              DEF Onward, CleanupSteps, RecoverSteps, Informed, CONFIRMED, Closed
    <2>5. CASE s # CONFIRMED
      <3>1. core.state # CONFIRMED /\ Attempted'
        BY <1>2, <1>8, <1>10, <2>5, Confirmed DEF Attempted
      <3>2. ctl[c] = "result" => Closed'
        BY <1>1, <1>4, <1>7, <1>8, <2>2 DEF Closed, Behind, Inserting
      <3>3. /\ Behind /\ next \in {"mark", "report", "result", "idle"}
            /\ next \in Informed => "attempted" \in copy[c]
            /\ next = "result" => ctl[c] = "result"
            /\ c = Controller => ctl[c] \in CleanupSteps /\ next \in CleanupSteps
            /\ s \in {"CLEANUP_PENDING", "ORPHANED"}
        BY <1>2, <1>4, <1>7, <1>8, <2>5 DEF Informed, CleanupSteps
      <3>4. Onward(c, next)
        BY <1>1, <1>4, <1>6, <1>10, <2>1, <3>1, <3>2, <3>3
           DEF Onward, CleanupSteps, RecoverSteps, Informed, CONFIRMED, Fenced
      <3> QED BY <3>4, OnwardKeeps
    <2> QED BY <1>2, <2>3, <2>4, <2>5
  <1> QED BY <1>4, <1>5, <1>9, <1>10

LEMMA CallersWriteSide ==
  ASSUME SInv, OthersOK, NEW c \in Caller,
         MarkPending(c) \/ Settle(c) \/ Report(c) \/ SettleSidecar(c) \/ ResumeCleanup(c)
  PROVE  SInv'
  <1> USE ControllerAssumption
  <1>0. /\ UNCHANGED <<log, spec, left, core, copy>>
        /\ ctl[c] \in {"mark", "settle", "report", "sidecar", "resume"}
    BY DEF MarkPending, Settle, Report, SettleSidecar, ResumeCleanup, At, OnlySide, theTask,
           journal, backend
  <1>1. /\ c = Controller => ctl[c] \in {"mark", "settle", "report"}
        /\ c # Controller => c \in Operator
        /\ ctl[c] \in {"mark", "report", "resume"} => Behind /\ "attempted" \in copy[c]
        /\ ctl[c] = "settle" => Closed
        /\ ctl[c] = "sidecar" => core.state = CONFIRMED /\ Closed
        /\ Closed => Behind \/ core.state = CONFIRMED
    BY <1>0, WhereTheyAre
       DEF SInv, Knowledge, Endings, Informed, CleanupSteps, Closed, Operator
  <1> USE <1>0, <1>1, SideOnly, SideWrites
          DEF At, Over, CleanupSteps, RecoverSteps, Informed, CONFIRMED, Step
  <1>2. CASE MarkPending(c)
    BY <1>2 DEF MarkPending
  <1>3. CASE Settle(c)
    BY <1>3 DEF Settle
  <1>4. CASE Report(c)
    BY <1>4 DEF Report
  <1>5. CASE SettleSidecar(c)
    BY <1>5 DEF SettleSidecar
  <1>6. CASE ResumeCleanup(c)
    BY <1>6 DEF ResumeCleanup
  <1> QED BY <1>2, <1>3, <1>4, <1>5, <1>6

LEMMA CleanLeaseKeeps ==
  ASSUME SInv, OthersOK, NEW c \in Caller, left \subseteq {"vm", "disk"}, CleanLease(c)
  PROVE  SInv'
  <1> USE ControllerAssumption
  <1>1. /\ ctl[c] = "clean" /\ UNCHANGED <<log, spec, copy, side>> /\ left' \subseteq left
        /\ core'.state = core.state /\ core'.flags = core.flags
    BY DEF CleanLease, At, journal, OthersOK
  <1>2. Behind /\ "attempted" \in copy[c]
    BY <1>1, WhereTheyAre DEF SInv, Knowledge, Informed, CleanupSteps
  <1>3. PICK next \in {"confirm", "orphan"} :
          ctl' = [ctl EXCEPT ![c] = next] /\ (next = "confirm" => left' = {})
    BY DEF CleanLease, Step
  <1>4. Behind'
    BY <1>2, <1>3 DEF OthersOK, Behind, PastSteps, CleanupSteps
  <1>5. next = "confirm" => Closed'
    BY <1>3, <1>4 DEF Closed
  <1>6. side = CONFIRMED \/ log.state \in {CONFIRMED, STOPPED} \/ Fenced => Closed
    BY DEF SInv, Endings
  <1>7. Onward(c, next)
    BY <1>1, <1>2, <1>3, <1>5, <1>6, WhereTheyAre
       DEF Onward, CleanupSteps, RecoverSteps, Informed, CONFIRMED, Fenced, Attempted
  <1> QED BY <1>7, OnwardKeeps

LEMMA ReconcileTaskKeeps ==
  ASSUME IInv, SInv, OthersOK, NEW c \in Caller, ReconcileTask(c)
  PROVE  SInv'
  <1> USE ControllerAssumption
  <1>1. /\ ctl[c] = "reconcile" /\ UNCHANGED <<core, copy, side>>
        /\ ctl' = [ctl EXCEPT ![c] = Over(c)]
    BY DEF ReconcileTask, At, OnlyTask, Step
  <1>2. left' = left /\ spec' = spec /\ log'.disk = log.disk /\ log'.runner = log.runner
    BY ReconcileWrites DEF ReconcileTask, theTask, journal, backend
  <1>3. Closed
    BY <1>1 DEF SInv, Endings
  <1>4. Onward(c, Over(c))
    BY <1>1, <1>2, <1>3, WhereTheyAre
       DEF Onward, Over, CleanupSteps, RecoverSteps, Informed, CONFIRMED, Attempted
  <1> QED BY <1>4, OnwardKeeps

LEMMA RecoverKeeps ==
  ASSUME IInv, SInv, OthersOK, NEW o \in Operator, Recover(o)
  PROVE  SInv'
  <1>1. /\ o \in Caller /\ o # Controller /\ core.state # "NONE"
        /\ UNCHANGED <<log, spec, left, core, side>>
        /\ copy' = [copy EXCEPT ![o] = core.flags]
    BY DEF Recover, Operator, theTask, journal, backend
  <1>2. copy'[o] = core.flags /\ \A d \in Caller : d # o => copy'[d] = copy[d]
    BY <1>1 DEF OthersOK
  <1>3. CASE core.state = "CLEANUP_CONFIRMED"
    <2>1. ctl' = [ctl EXCEPT ![o] = "sidecar"]
      BY <1>3 DEF Recover, Step
    <2>2. side = CONFIRMED \/ log.state \in {CONFIRMED, STOPPED} \/ Fenced => Closed
      BY DEF SInv, Endings
    <2>3. Onward(o, "sidecar")
      BY <1>1, <1>2, <1>3, <2>1, <2>2
         DEF Onward, CleanupSteps, RecoverSteps, Informed, CONFIRMED, Attempted, Fenced
    <2> QED BY <1>1, <2>3, OnwardKeeps
  <1>4. CASE core.state \in {"PREPARED", "ARM_CONSUMED"}
    <2>1. ctl' = [ctl EXCEPT ![o] = "absent"] /\ "attempted" \notin core.flags
      BY <1>4 DEF Recover, Step, SInv, Knowledge, Attempted
    <2>2. Onward(o, "absent")
      BY <1>1, <1>2, <2>1
         DEF Onward, CleanupSteps, RecoverSteps, Informed, CONFIRMED, Attempted, Fenced
    <2> QED BY <1>1, <2>2, OnwardKeeps
  <1>5. CASE core.state \notin {CONFIRMED, "PREPARED", "ARM_CONSUMED"}
    <2>1. Attempted
      BY <1>1, <1>5 DEF SInv, Knowledge
    <2>2. PICK next \in {"result", "resume"} :
            /\ ctl' = [ctl EXCEPT ![o] = next]
            /\ next = "result" => log.state = "CLEANUP_CONFIRMED"
            /\ log.state = "CLEANUP_CONFIRMED" \/ log.disk = "bound"
      BY <1>5 DEF Recover, Step, CONFIRMED
    <2>3. Behind
      BY <2>2 DEF IInv, Gone, ConfirmedIsGone, SInv, Order
    <2>4. ctl'[Controller] = ctl[Controller]
      BY <1>1, <2>2 DEF OthersOK
    <2>5. next = "result" => Closed'
      BY <1>1, <2>2, <2>4 DEF SInv, Endings, CONFIRMED, Closed, Behind, Inserting
    <2>6. Onward(o, next)
      BY <1>1, <1>2, <2>1, <2>2, <2>3, <2>5
         DEF Onward, CleanupSteps, RecoverSteps, Informed, CONFIRMED, Attempted, Fenced
    <2> QED BY <1>1, <2>6, OnwardKeeps
  <1> QED BY <1>3, <1>4, <1>5 DEF CONFIRMED

-----------------------------------------------------------------------------
(* The steps of the task. *)

(* A mild one, of a caller c that goes on to next; the spec may be written *)
(* by a controller that activates its task.                                *)
LEMMA TaskMoves ==
  ASSUME SInv, OthersOK, NEW c \in Caller, NEW next, ctl' = [ctl EXCEPT ![c] = next],
         left' \subseteq left,
         log'.disk = "bound" => log.disk = "bound",
         log.disk = "bound" => log'.disk = "bound",
         log.runner # NoRunner => log'.runner # NoRunner,
         Fenced' => Fenced,
         log'.state = STOPPED => log.state = STOPPED \/ Fenced,
         ConfirmedIsGone', UNCHANGED <<core, copy, side>>,
         spec' = spec \/ (c = Controller /\ next \in {"launch", "abort"}),
         \/ next = ctl[c]
         \/ c # Controller /\ next = "idle"
         \/ c = Controller /\
              \/ ctl[c] = "watch" /\ next \in {"ready", "abort"}
              \/ ctl[c] = "activate" /\ next \in {"launch", "abort"}
              \/ ctl[c] = "launch" /\ next \in {"launch", "abort"}
              \/ ctl[c] = "launch" /\ next = "submit" /\ log.runner # NoRunner
              \/ next = "ended"
  PROVE  SInv'
  <1> USE ControllerAssumption
  <1>1. ctl'[c] = next /\ \A d \in Caller : d # c => ctl'[d] = ctl[d]
    BY Steps
  <1>2. /\ Behind => Behind'
        /\ Inserting' => Inserting
        /\ ctl'[Controller] = "insert" => ctl[Controller] = "insert"
    BY <1>1 DEF Behind, Inserting, PastSteps, CleanupSteps
  <1>3. Closed => Closed'
    BY <1>2 DEF Closed
  <1>4. log'.state = CONFIRMED => Closed'
    BY <1>2 DEF ConfirmedIsGone, SInv, Order, Closed, CONFIRMED
  <1>5. StepTypes'
    BY <1>1 DEF SInv, StepTypes, ExecuteSteps, RecoverSteps, Operator
  <1>6. Knowledge'
    <2>1. \A d \in Caller : ctl'[d] \in Informed \cup {"absent", "sidecar", "start"} => ctl'[d] = ctl[d]
      BY <1>1 DEF Informed
    <2>2. /\ left' # {} => Attempted
          /\ Attempted' <=> Attempted
      BY DEF SInv, Knowledge, Attempted
    <2>3. ctl'[Controller] \in {"reserve", "consume", "arm", "watch", "ready",
                               "activate", "launch", "submit"} =>
            "attempted" \notin copy[Controller]
      BY <1>1 DEF SInv, Knowledge
    <2> QED BY <2>1, <2>2, <2>3 DEF SInv, Knowledge, Operator
  <1>7. Order'
    <2>1. left' # {} => Behind'
      BY <1>2 DEF SInv, Order
    <2>2. ctl'[Controller] \in {"refuse", "abort"} => left' = {}
      <3>1. ctl'[Controller] \in {"refuse", "abort"} =>
              ctl[Controller] \in {"refuse", "abort"} \/ ~Behind
        BY <1>1 DEF Behind, PastSteps, CleanupSteps
      <3> QED BY <3>1 DEF SInv, Order
    <2>3. ctl'[Controller] \in {"submit", "intent", "insert"} => log'.runner # NoRunner
      BY <1>1 DEF SInv, Order
    <2>4. ctl'[Controller] \in {"own", "begin", "work"} => log'.disk = "bound" /\ spec' = "bound"
      BY <1>1 DEF SInv, Order
    <2>5. \A o \in Operator : ctl'[o] \in Informed => Behind'
      BY <1>1, <1>2 DEF SInv, Order, Operator, Informed
    <2> QED BY <1>2, <2>1, <2>2, <2>3, <2>4, <2>5 DEF SInv, Order
  <1>8. Endings'
    <2>1. \A d \in Caller : ctl'[d] \in {"confirm", "settle", "reconcile", "result"} =>
            ctl'[d] = ctl[d]
      BY <1>1
    <2> QED BY <1>3, <1>4, <2>1 DEF SInv, Endings
  <1> QED BY <1>5, <1>6, <1>7, <1>8 DEF SInv

LEMMA TaskStays ==
  ASSUME SInv, OthersOK, Mild, ConfirmedIsGone', UNCHANGED <<core, copy, side, ctl>>
  PROVE  SInv'
  <1>1. ctl' = [ctl EXCEPT ![Controller] = ctl[Controller]]
    BY DEF OthersOK
  <1> QED BY <1>1, ControllerAssumption, TaskMoves DEF Mild

LEMMA ControllerWithTask ==
  ASSUME IInv, Started, SInv, OthersOK, ConfirmedIsGone',
         \/ ArmWatchdog(Controller) \/ ActivateTask(Controller) \/ LaunchTask(Controller)
  PROVE  SInv'
  <1> DEFINE c == Controller
  <1> USE ControllerAssumption
  <1>0. /\ StopIfKilled(c, "abort") \/ Refused(c, "abort") =>
             /\ ctl' = [ctl EXCEPT ![c] = "abort"]
             /\ UNCHANGED <<copy, log, spec, left, core>>
             /\ side' = CONFIRMED => side = CONFIRMED
        /\ ctl[c] \in {"watch", "activate", "launch"}
        /\ OnlyTask => UNCHANGED <<core, copy, side>>
    BY SideWrites
       DEF ArmWatchdog, ActivateTask, LaunchTask, At, StopIfKilled, Refused, Step, OnlySide,
           OnlyTask, theTask, journal, backend, CONFIRMED
  <1>1. CASE StopIfKilled(c, "abort") \/ Refused(c, "abort")
    BY <1>0, <1>1, ControllerMovesOn
  <1>2. ASSUME Arm(c), OnlyTask, ctl[c] = "watch", NEW next \in {"ready", "ended"},
               ctl' = [ctl EXCEPT ![c] = next]
        PROVE  SInv'
    <2>1. Mild
      BY <1>2, CallersAreMild
    <2> QED BY <1>0, <1>2, <2>1, TaskMoves DEF Mild
  <1>3. ASSUME Activate(c), OnlyTask, ctl[c] = "activate", NEW next \in {"launch", "abort"},
               ctl' = [ctl EXCEPT ![c] = next]
        PROVE  SInv'
    <2>1. /\ left' = left /\ log'.state = "ACTIVE" /\ log'.disk = log.disk
          /\ log'.runner = log.runner /\ log'.fence = log.fence
      BY <1>3, ActivateWrites
    <2> QED BY <1>0, <1>3, <2>1, TaskMoves DEF Fenced, STOPPED
  <1>4. ASSUME Launch(c) \/ Await(c), OnlyTask, ctl[c] = "launch",
               NEW next \in {"launch", "abort", "submit"},
               next = "submit" => Await(c),
               ctl' = [ctl EXCEPT ![c] = next]
        PROVE  SInv'
    <2>1. Mild
      BY <1>4, CallersAreMild
    <2>2. next = "submit" => log.runner # NoRunner
      BY <1>4 DEF Await, Started
    <2> QED BY <1>0, <1>4, <2>1, <2>2, TaskMoves DEF Mild
  <1>5. CASE ArmWatchdog(c)
    BY <1>1, <1>2, <1>5 DEF ArmWatchdog, At, Step
  <1>6. CASE ActivateTask(c)
    BY <1>1, <1>3, <1>6 DEF ActivateTask, At, Step
  <1>7. CASE LaunchTask(c)
    BY <1>4, <1>7 DEF LaunchTask, At, Step
  <1> QED BY <1>5, <1>6, <1>7

LEMMA BindDiskKeeps ==
  ASSUME IInv, SInv, OthersOK, BindDisk(Controller)
  PROVE  SInv'
  <1> DEFINE c == Controller
  <1> USE ControllerAssumption
  <1>1. ctl[c] = "bind" /\ UNCHANGED <<core, copy, side>>
    BY DEF BindDisk, At
  <1>2. CASE UNCHANGED theTask /\ Step(c, "pending")
    BY <1>1, <1>2, ControllerMovesOn DEF theTask, journal, backend, Step, CONFIRMED
  <1>3. ASSUME BindDiskCleanup(c), NEW next \in {"own", "pending"},
               ctl' = [ctl EXCEPT ![c] = next], next = "own" => faults' = faults
        PROVE  SInv'
    <2>1. /\ left' = left /\ log'.state = "DISK_BOUND" /\ log'.disk = "bound"
          /\ log'.runner = log.runner /\ log'.fence = log.fence
          /\ next = "own" => spec' = "bound"
      <3>1. Fault => faults' # faults
        BY DEF Fault, IInv, TaskTypeOK
      <3> QED BY <1>3, <3>1, BindWrites
    <2>2. ctl'[c] = next /\ \A d \in Caller : d # c => ctl'[d] = ctl[d]
      BY <1>3, Steps
    <2>3. Behind /\ Behind' /\ (Closed => Closed')
      BY <1>1, <2>1, <2>2 DEF Behind, PastSteps, CleanupSteps, Closed
    <2>4. StepTypes'
      BY <2>2 DEF SInv, StepTypes, ExecuteSteps, CleanupSteps, Operator
    <2>5. Knowledge'
      BY <1>1, <2>1, <2>2 DEF SInv, Knowledge, Operator, Informed, Attempted
    <2>6. Order'
      BY <1>1, <2>1, <2>2, <2>3 DEF SInv, Order, Operator, Inserting
    <2>7. Endings'
      BY <1>1, <2>1, <2>2, <2>3 DEF SInv, Endings, CONFIRMED, STOPPED, Fenced
    <2> QED BY <2>4, <2>5, <2>6, <2>7 DEF SInv
  <1> QED BY <1>2, <1>3 DEF BindDisk, Step

LEMMA CrashKeeps ==
  ASSUME IInv, SInv, OthersOK, ConfirmedIsGone', NEW w \in Worker, Crash(w)
  PROVE  SInv'
  <1>1. Mild
    BY WorkersAreMild DEF Crash
  <1>2. CASE w \in Caller
    <2>1. ctl' = [ctl EXCEPT ![w] = Over(w)] /\ UNCHANGED <<core, copy, side>>
      BY <1>2 DEF Crash, Step
    <2> QED BY <1>1, <1>2, <2>1, TaskMoves DEF Mild, Over
  <1>3. CASE w \notin Caller
    BY <1>1, <1>3, TaskStays DEF Crash
  <1> QED BY <1>2, <1>3

-----------------------------------------------------------------------------
(* The task under the lease: every step of the lease is one of the task's. *)
Idle == UNCHANGED theTask /\ (Fine \/ Fault)

(* The steps that only write a record, or fail before they write.          *)
LEMMA RecordsAreIdle ==
  ASSUME NEW c \in Caller,
         \/ Prepare(c) \/ Reserve(c) \/ Refuse(c) \/ ConsumeArm(c) \/ RecordArm(c)
         \/ RecordReady(c) \/ Submit(c) \/ CreateIntent(c) \/ Own(c) \/ BeginWork(c)
         \/ Work(c) \/ Abort(c) \/ Block(c)
         \/ CleanupPending(c) \/ MarkPending(c) \/ Confirm(c) \/ Settle(c) \/ Orphan(c)
         \/ Report(c) \/ RecoverAbsent(c) \/ RecoverResult(c) \/ SettleSidecar(c)
         \/ ResumeCleanup(c) \/ Recover(c) \/ StopIfKilled(c, "abort")
         \/ Refused(c, "abort")
  PROVE  Idle
  <1> USE DEF Idle, OnlyCore, OnlySide, WriteCore, WriteSide, Fine
  <1>1. CASE \/ Prepare(c) \/ Reserve(c) \/ Refuse(c) \/ ConsumeArm(c) \/ RecordArm(c)
             \/ RecordReady(c)
    BY <1>1 DEF Prepare, Reserve, Refuse, ConsumeArm, RecordArm, RecordReady, Fails
  <1>2. CASE \/ Submit(c) \/ CreateIntent(c) \/ Own(c) \/ BeginWork(c) \/ Work(c)
             \/ Abort(c) \/ Block(c) \/ StopIfKilled(c, "abort") \/ Refused(c, "abort")
    BY <1>2
       DEF Submit, CreateIntent, Own, BeginWork, Work, Abort, Block, StopIfKilled, Refused,
           Fails
  <1>3. CASE \/ CleanupPending(c) \/ MarkPending(c) \/ Confirm(c) \/ Settle(c) \/ Orphan(c)
             \/ Report(c)
    BY <1>3 DEF CleanupPending, MarkPending, Confirm, Settle, Orphan, Report
  <1>4. CASE \/ RecoverAbsent(c) \/ RecoverResult(c) \/ SettleSidecar(c)
             \/ ResumeCleanup(c) \/ Recover(c)
    BY <1>4 DEF RecoverAbsent, RecoverResult, SettleSidecar, ResumeCleanup, Recover
  <1> QED BY <1>1, <1>2, <1>3, <1>4

LEMMA IdleIsElsewhere == Idle => Elsewhere
  BY DEF Idle, Elsewhere, theTask, journal, backend

LEMMA EveryStepIsOfTheTask ==
  ASSUME IInv, SInv, [Next]_vars
  PROVE  [TaskNext]_taskVars
  <1> USE IdleIsElsewhere DEF TaskNext
  <1>1. ASSUME NEW c \in Caller, c = Controller, Executing(c)
        PROVE  TaskNext
    <2>1. CASE ArmWatchdog(c)
      BY <2>1, RecordsAreIdle DEF ArmWatchdog, CallerNext
    <2>2. CASE ActivateTask(c)
      BY <2>2, RecordsAreIdle DEF ActivateTask, CallerNext
    <2>3. CASE LaunchTask(c)
      BY <2>3 DEF LaunchTask, CallerNext
    <2>4. CASE Insert(c)
      <3>1. left = {} /\ log.disk # "bound"
        BY <1>1, <2>4 DEF SInv, Order, Behind, PastSteps, CleanupSteps, Insert, At
      <3>2. log.disk = "unknown"
        BY <3>1 DEF IInv, TaskTypeOK, Event
      <3> QED BY <2>4, <3>1, <3>2 DEF Insert, Elsewhere
    <2>5. CASE BindDisk(c)
      <3>1. BindDiskCleanup(c) \/ Idle
        BY <2>5 DEF BindDisk, Idle
      <3> QED BY <3>1 DEF CallerNext
    <2> QED BY <1>1, <2>1, <2>2, <2>3, <2>4, <2>5, RecordsAreIdle DEF Executing
  <1>2. ASSUME NEW c \in Caller, Calling(c)
        PROVE  TaskNext
    <2>1. CASE CleanLease(c)
      <3>1. left' \in SUBSET left /\ (Fine \/ Fault)
        BY <2>1 DEF CleanLease
      <3> QED BY <2>1, <3>1 DEF CleanLease, Elsewhere
    <2>2. CASE ReconcileTask(c)
      BY <2>2 DEF ReconcileTask, CallerNext, Idle
    <2> QED BY <1>2, <2>1, <2>2, RecordsAreIdle DEF Calling
  <1>3. ASSUME NEW o \in Operator, Recover(o) \/ Maintain(o)
        PROVE  TaskNext
    BY <1>3, RecordsAreIdle DEF Maintain, CallerNext, Operator, Worker
  <1>4. ASSUME NEW r \in Runner, RunnerNext(r) \/ Attempt(r)
        PROVE  TaskNext
    BY <1>4 DEF Worker
  <1>5. ASSUME NEW w \in Worker, Crash(w)
        PROVE  TaskNext
    BY <1>5 DEF Crash
  <1>6. CASE SetKillMarker \/ UNCHANGED vars
    BY <1>6 DEF SetKillMarker, vars
  <1>7. CASE Tick
    BY <1>7
  <1> QED BY <1>1, <1>2, <1>3, <1>4, <1>5, <1>6, <1>7, ControllerAssumption DEF Next

-----------------------------------------------------------------------------
(* The types of the rest.                                                  *)
LEMMA StepTyped ==
  ASSUME OthersOK, NEW c \in Caller, NEW s, Step(c, s),
         s \in ExecuteSteps \cup RecoverSteps \cup CleanupSteps
  PROVE  ctl' \in [Caller -> ExecuteSteps \cup RecoverSteps \cup CleanupSteps]
  BY DEF OthersOK, Step

LEMMA SideTyped ==
  ASSUME OthersOK, NEW c \in Caller, NEW s \in SideStates, NEW then, NEW else,
         WriteSide(c, s, then, else),
         then \in ExecuteSteps \cup RecoverSteps \cup CleanupSteps,
         else \in ExecuteSteps \cup RecoverSteps \cup CleanupSteps
  PROVE  /\ side' \in SideStates
         /\ ctl' \in [Caller -> ExecuteSteps \cup RecoverSteps \cup CleanupSteps]
  BY StepTyped DEF OthersOK, WriteSide

LEMMA CoreTyped ==
  ASSUME OthersOK, NEW c \in Caller, NEW s \in CoreStates, NEW then, NEW else,
         WriteCore(c, s, then, else), OnlyCore,
         then \in ExecuteSteps \cup RecoverSteps \cup CleanupSteps,
         else \in ExecuteSteps \cup RecoverSteps \cup CleanupSteps
  PROVE  OthersOK'
  <1>1. /\ core' \in [state : CoreStates, op : {"none", "unknown", "done"}, flags : SUBSET Flags]
        /\ copy' \in [Caller -> SUBSET Flags]
    BY CoreWrites
  <1>2. ctl' \in [Caller -> ExecuteSteps \cup RecoverSteps \cup CleanupSteps]
    BY StepTyped DEF WriteCore
  <1> QED BY <1>1, <1>2 DEF OthersOK, OnlyCore

(* A step of one caller that leaves the core journal.                      *)
LEMMA RestTyped ==
  ASSUME OthersOK, NEW c \in Caller,
         UNCHANGED <<core, copy, kill, target>>,
         \/ side' = side /\ \E s \in ExecuteSteps \cup RecoverSteps \cup CleanupSteps : Step(c, s)
         \/ \E s \in SideStates :
              \E then, else \in ExecuteSteps \cup RecoverSteps \cup CleanupSteps :
                WriteSide(c, s, then, else)
  PROVE  OthersOK'
  <1>1. /\ side' \in SideStates
        /\ ctl' \in [Caller -> ExecuteSteps \cup RecoverSteps \cup CleanupSteps]
    BY StepTyped, SideTyped DEF OthersOK
  <1> QED BY <1>1 DEF OthersOK

LEMMA ExecutingTyped ==
  ASSUME OthersOK, NEW c \in Caller, Executing(c)
  PROVE  OthersOK'
  <1> DEFINE A == ExecuteSteps \cup RecoverSteps \cup CleanupSteps
  <1>0. /\ {"CLEANUP_CONFIRMED", "ARM_CONSUMED", "CREATE_SUBMITTED", "OWNED", "PREPARED"}
             \subseteq CoreStates
        /\ {"ARM_CONSUMED", "KILLED", "WATCHDOG_READY", "CREATE_INTENT", "WORKING", "BLOCKED",
            "PREPARED"} \subseteq SideStates
        /\ {"reserve", "ended", "arm", "abort", "watch", "ready", "activate", "launch", "submit",
            "intent", "insert", "pending", "bind", "own", "begin", "work", "settle", "block",
            "consume", "refuse"} \subseteq A
    BY DEF CoreStates, Core!States, SideStates, ExecuteSteps, CleanupSteps
  <1>1. CASE Refuse(c) \/ Own(c) \/ Abort(c)
    BY <1>0, <1>1, CoreTyped DEF Refuse, Own, Abort
  <1>2. ASSUME NEW s \in A, Refused(c, s) \/ Fails(c, s)
        PROVE  OthersOK'
    BY <1>2, RestTyped DEF Refused, Fails, OnlyTask
  <1>3. CASE ConsumeArm(c) \/ Submit(c)
    BY <1>0, <1>2, <1>3, CoreTyped DEF ConsumeArm, Submit
  <1>4. CASE RecordArm(c) \/ RecordReady(c) \/ CreateIntent(c) \/ Block(c)
    BY <1>0, <1>2, <1>4, RestTyped DEF RecordArm, RecordReady, CreateIntent, Block, OnlySide
  <1>5. ASSUME NEW s \in A, StopIfKilled(c, s)
        PROVE  OthersOK'
    BY <1>0, <1>5, RestTyped DEF StopIfKilled, OnlySide
  <1>6. CASE BeginWork(c) \/ Work(c)
    BY <1>0, <1>2, <1>5, <1>6, RestTyped DEF BeginWork, Work, OnlySide
  <1>7. CASE Prepare(c)
    <2>1. core' \in [state : CoreStates, op : {"none", "unknown", "done"}, flags : SUBSET Flags]
      BY <1>0, <1>7 DEF Prepare, OthersOK
    <2> QED BY <1>0, <1>7, <2>1, StepTyped DEF Prepare, OthersOK, OnlyCore
  <1>8. CASE Reserve(c)
    <2>1. side' \in SideStates /\ ctl' \in [Caller -> A]
      BY <1>0, <1>8, StepTyped DEF Reserve, OthersOK
    <2> QED BY <1>8, <2>1 DEF Reserve, OthersOK, OnlySide
  <1>9. CASE ArmWatchdog(c) \/ ActivateTask(c) \/ LaunchTask(c)
    <2>1. CASE StopIfKilled(c, "abort") \/ Refused(c, "abort")
      BY <1>0, <1>2, <1>5, <2>1
    <2>2. CASE OnlyTask /\ \E s \in A : Step(c, s)
      BY <2>2, RestTyped DEF OnlyTask
    <2> QED BY <1>0, <1>9, <2>1, <2>2 DEF ArmWatchdog, ActivateTask, LaunchTask
  <1>10. CASE Insert(c)
    <2>1. core' \in [state : CoreStates, op : {"none", "unknown", "done"}, flags : SUBSET Flags]
      BY <1>10 DEF Insert, OthersOK
    <2> QED BY <1>0, <1>10, <2>1, StepTyped DEF Insert, OthersOK
  <1>11. CASE BindDisk(c)
    <2>1. target' \in [Caller -> {"unknown", "known"}]
      BY <1>11 DEF BindDisk, OthersOK
    <2> QED BY <1>0, <1>11, <2>1, StepTyped DEF BindDisk, OthersOK
  <1> QED BY <1>1, <1>3, <1>4, <1>6, <1>7, <1>8, <1>9, <1>10, <1>11 DEF Executing

LEMMA CallingTyped ==
  ASSUME OthersOK, NEW c \in Caller, Calling(c) \/ Recover(c)
  PROVE  OthersOK'
  <1> DEFINE A == ExecuteSteps \cup RecoverSteps \cup CleanupSteps
  <1>0. /\ {"CLEANUP_CONFIRMED", "CLEANUP_PENDING", "ORPHANED"} \subseteq CoreStates
        /\ {"CLEANUP_CONFIRMED", "CLEANUP_PENDING", "ORPHANED", "PREPARED"} \subseteq SideStates
        /\ {"mark", "clean", "settle", "report", "sidecar", "result", "idle", "orphan",
            "confirm", "reconcile", "ended", "pending", "absent", "resume"} \subseteq A
        /\ Over(c) \in A
    BY DEF CoreStates, Core!States, SideStates, ExecuteSteps, RecoverSteps, CleanupSteps, Over
  <1>1. CASE \/ CleanupPending(c) \/ Confirm(c) \/ Orphan(c) \/ RecoverAbsent(c)
             \/ RecoverResult(c)
    BY <1>0, <1>1, CoreTyped
       DEF CleanupPending, Confirm, Orphan, RecoverAbsent, RecoverResult
  <1>2. CASE MarkPending(c) \/ Settle(c) \/ Report(c)
    BY <1>0, <1>2, RestTyped DEF MarkPending, Settle, Report, OnlySide
  <1>3. CASE ResumeCleanup(c) \/ ReconcileTask(c)
    BY <1>0, <1>3, RestTyped DEF ResumeCleanup, ReconcileTask, OnlySide, OnlyTask
  <1>4. CASE SettleSidecar(c)
    <2>1. side' \in SideStates /\ ctl' \in [Caller -> A]
      <3>1. CASE side = "NONE"
        BY <1>0, <1>4, <3>1, StepTyped DEF SettleSidecar, OthersOK
      <3>2. CASE side = "CLEANUP_CONFIRMED"
        BY <1>0, <1>4, <3>2, StepTyped DEF SettleSidecar, OthersOK
      <3>3. CASE side \notin {"NONE", "CLEANUP_CONFIRMED"}
        BY <1>0, <1>4, <3>3, SideTyped DEF SettleSidecar
      <3> QED BY <3>1, <3>2, <3>3
    <2> QED BY <1>4, <2>1 DEF SettleSidecar, OthersOK, OnlySide
  <1>5. CASE CleanLease(c)
    <2>1. core' \in [state : CoreStates, op : {"none", "unknown", "done"}, flags : SUBSET Flags]
      BY <1>5 DEF CleanLease, OthersOK
    <2> QED BY <1>0, <1>5, <2>1, StepTyped DEF CleanLease, OthersOK
  <1>6. CASE Recover(c)
    <2>1. copy' \in [Caller -> SUBSET Flags] /\ UNCHANGED <<core, side, kill>>
      BY <1>6 DEF Recover, OthersOK
    <2>2. \E s \in A : Step(c, s)
      BY <1>0, <1>6 DEF Recover
    <2>3. target' \in [Caller -> {"unknown", "known"}]
      BY <1>6 DEF Recover, OthersOK
    <2> QED BY <2>1, <2>2, <2>3, StepTyped DEF OthersOK
  <1> QED BY <1>1, <1>2, <1>3, <1>4, <1>5, <1>6 DEF Calling

LEMMA OthersStay ==
  ASSUME OthersOK, [Next]_vars
  PROVE  OthersOK'
  <1>1. ASSUME NEW w \in Worker, Crash(w)
        PROVE  OthersOK'
    <2>1. w \in Caller => Over(w) \in ExecuteSteps \cup RecoverSteps \cup CleanupSteps
      BY DEF Over, ExecuteSteps, RecoverSteps
    <2>2. target' \in [Caller -> {"unknown", "known"}]
      BY <1>1 DEF Crash, OthersOK
    <2> QED BY <1>1, <2>1, <2>2, StepTyped DEF Crash, OthersOK
  <1>2. CASE SetKillMarker
    BY <1>2 DEF SetKillMarker, OthersOK
  <1>3. CASE UNCHANGED others \/ UNCHANGED vars
    BY <1>3 DEF others, vars, OthersOK
  <1> QED
    BY <1>1, <1>2, <1>3, ControllerAssumption, ExecutingTyped, CallingTyped
       DEF Next, Operator, Maintain

-----------------------------------------------------------------------------
(* The invariant. *)
LEMMA TypesOfOthers == IInv => (TypeOK <=> OthersOK)
  BY DEF IInv, TypeOK, OthersOK

LEMMA SInvKeeps ==
  ASSUME IInv, Started, SInv, OthersOK, ConfirmedIsGone', [Next]_vars
  PROVE  SInv'
  <1>1. CASE Executing(Controller)
    BY <1>1, ControllerWritesCore, ControllerWritesSide, ControllerWithTask, SubmitKeeps,
       InsertKeeps, BindDiskKeeps
       DEF Executing
  <1>2. ASSUME NEW c \in Caller, Calling(c)
        PROVE  SInv'
    <2>1. left \subseteq {"vm", "disk"}
      BY DEF IInv, TaskTypeOK
    <2> QED
      BY <1>2, <2>1, CallersWriteCore, CallersWriteSide, CleanLeaseKeeps, ReconcileTaskKeeps
         DEF Calling
  <1>3. ASSUME NEW o \in Operator, Maintain(o)
        PROVE  SInv'
    <2>1. o \in Caller /\ o \in Worker
      BY DEF Operator, Worker
    <2>2. UNCHANGED <<core, copy, side, ctl>>
      BY <1>3 DEF Maintain, others
    <2>3. Mild
      BY <1>3, <2>1, CallersAreMild, WorkersAreMild DEF Maintain
    <2> QED BY <2>2, <2>3, TaskStays
  <1>4. ASSUME NEW r \in Runner, RunnerNext(r) \/ Attempt(r), UNCHANGED others
        PROVE  SInv'
    BY <1>4, WorkersAreMild, TaskStays DEF others, Worker
  <1>5. CASE Tick /\ UNCHANGED others
    <2>1. Mild
      BY <1>5, SameLogIsMild DEF Tick, journal, backend
    <2> QED BY <1>5, <2>1, TaskStays DEF others
  <1>6. CASE SetKillMarker \/ UNCHANGED vars
    <2>1. left' = left /\ spec' = spec /\ log' = log /\ UNCHANGED <<core, copy, side, ctl>>
      BY <1>6 DEF SetKillMarker, vars, taskVars, journal, backend
    <2> QED BY <2>1, SameLogIsMild, TaskStays
  <1> QED
    BY <1>1, <1>2, <1>3, <1>4, <1>5, <1>6, RecoverKeeps, CrashKeeps DEF Next

LEMMA SupervisorIInvStays == SupervisorIInv /\ [Next]_vars => SupervisorIInv'
  <1> SUFFICES ASSUME SupervisorIInv, [Next]_vars
               PROVE  SupervisorIInv'
    OBVIOUS
  <1>1. IInv /\ Started /\ SInv /\ OthersOK
    BY TypesOfOthers DEF SupervisorIInv
  <1>2. [TaskNext]_taskVars
    BY <1>1, EveryStepIsOfTheTask
  <1>3. IInv' /\ Started'
    BY <1>1, <1>2, StepKeeps, StartedStays
  <1>4. OthersOK'
    BY <1>1, OthersStay
  <1>5. ConfirmedIsGone'
    BY <1>3 DEF IInv, Gone, ConfirmedIsGone
  <1>6. SInv'
    BY <1>1, <1>5, SInvKeeps
  <1>7. TypeOK'
    BY <1>3, <1>4 DEF IInv, TypeOK, OthersOK
  <1> QED BY <1>3, <1>6, <1>7 DEF SupervisorIInv

LEMMA SupervisorStarts == Init => SupervisorIInv
  <1> SUFFICES ASSUME Init
               PROVE  SupervisorIInv
    OBVIOUS
  <1>1. IInv
    BY InitEstablishes DEF Init
  <1>2. OthersOK
    BY DEF Init, OthersOK, CoreStates, SideStates, ExecuteSteps, RecoverSteps
  <1>3. Started
    BY Constants, WatchdogAssumption DEF Init, TaskInit, Started, Worker, WatchdogAssumption
  <1>4. /\ core.state = "NONE" /\ ~Attempted /\ left = {} /\ ~Closed /\ log.state = "NONE"
        /\ log.fence = NoFence /\ log.disk = "unknown" /\ side = "NONE"
        /\ ctl[Controller] = "start" /\ \A o \in Operator : ctl[o] = "idle"
        /\ \A c \in Caller : copy[c] = {}
    BY ControllerAssumption
       DEF Init, TaskInit, Attempted, Closed, Behind, PastSteps, CleanupSteps, Operator,
           CONFIRMED
  <1>5. StepTypes /\ Knowledge
    BY <1>4, ControllerAssumption
       DEF StepTypes, Knowledge, ExecuteSteps, RecoverSteps, Informed, Operator
  <1>6. Order /\ Endings
    BY <1>4, ControllerAssumption
       DEF Order, Endings, Informed, Operator, Inserting, CONFIRMED, STOPPED, Fenced
  <1> QED BY <1>1, <1>2, <1>3, <1>5, <1>6, TypesOfOthers DEF SupervisorIInv, SInv

LEMMA SupervisorIInvHolds == Spec => []SupervisorIInv
  BY SupervisorStarts, SupervisorIInvStays, PTL DEF Spec

(* Every variable of the lease and of its task has its type.               *)
THEOREM SupervisorTypeCorrect == Spec => []TypeOK
  <1>1. SupervisorIInv => TypeOK
    BY DEF SupervisorIInv
  <1> QED BY <1>1, SupervisorIInvHolds, PTL

(* Under the lease, with its controller and its operators, the task lives  *)
(* the life of GcpWatchdog: every step is one of the task's or leaves it.  *)
THEOREM SupervisorImplementsTask == Spec => ImplementsTask
  <1>1. SupervisorIInv /\ [Next]_vars => [TaskNext]_taskVars
    BY TypesOfOthers, EveryStepIsOfTheTask DEF SupervisorIInv
  <1>2. Init => TaskInit
    BY DEF Init
  <1> QED BY <1>1, <1>2, SupervisorIInvHolds, PTL DEF Spec, ImplementsTask

(* While anything is left of the machine, neither the core journal nor the *)
(* sidecar nor the task says that the cleanup is done.                     *)
THEOREM NobodyIsWrittenOff == Spec => []NobodyWritesOff
  <1>1. SupervisorIInv => NobodyWritesOff
    BY DEF SupervisorIInv, SInv, Endings, Closed, NobodyWritesOff, CONFIRMED, STOPPED
  <1> QED BY <1>1, SupervisorIInvHolds, PTL

(* The work runs on a machine whose disk the task on disk names, with the  *)
(* spec for it written.                                                    *)
THEOREM WorkStaysCovered == Spec => []WorkIsCovered
  <1>1. SupervisorIInv => WorkIsCovered
    BY DEF SupervisorIInv, SInv, Order, WorkIsCovered, At
  <1> QED BY <1>1, SupervisorIInvHolds, PTL

(* No step but the insert makes anything.                                  *)
LEMMA OnlyInsertCreates ==
  ASSUME IInv, Started, [Next]_vars
  PROVE  left' \subseteq left \/ Insert(Controller)
  <1> USE DEF theTask, backend
  <1>1. Idle => left' \subseteq left
    BY DEF Idle
  <1>2. ASSUME NEW c \in Caller, CallerNext(c)
        PROVE  left' \subseteq left
    BY <1>2, CallersAreMild, ActivateWrites, BindWrites, ReconcileWrites DEF CallerNext, Mild
  <1>3. ASSUME NEW c \in Caller, c = Controller, Executing(c), ~Insert(c)
        PROVE  left' \subseteq left
    <2>1. CASE ArmWatchdog(c) \/ ActivateTask(c) \/ LaunchTask(c)
      BY <1>1, <1>2, <2>1, RecordsAreIdle
         DEF ArmWatchdog, ActivateTask, LaunchTask, CallerNext
    <2>2. CASE BindDisk(c)
      BY <1>2, <2>2 DEF BindDisk, CallerNext
    <2> QED BY <1>1, <1>3, <2>1, <2>2, RecordsAreIdle DEF Executing
  <1>4. ASSUME NEW c \in Caller, Calling(c) \/ Recover(c)
        PROVE  left' \subseteq left
    <2>1. CASE CleanLease(c)
      BY <2>1 DEF CleanLease
    <2>2. CASE ReconcileTask(c)
      BY <1>2, <2>2 DEF ReconcileTask, CallerNext
    <2> QED BY <1>1, <1>4, <2>1, <2>2, RecordsAreIdle DEF Calling
  <1>5. ASSUME NEW w \in Worker, (w \in Runner /\ RunnerNext(w)) \/ Attempt(w) \/ Die(w) \/ Tick
        PROVE  left' \subseteq left
    BY <1>5, WorkersAreMild DEF Mild
  <1>6. ASSUME NEW o \in Operator, Maintain(o)
        PROVE  left' \subseteq left
    BY <1>2, <1>5, <1>6 DEF Maintain, CallerNext, Operator, Worker
  <1>7. CASE Tick \/ SetKillMarker \/ UNCHANGED vars
    BY <1>7 DEF Tick, SetKillMarker, vars, taskVars
  <1> QED
    BY <1>3, <1>4, <1>5, <1>6, <1>7, ControllerAssumption DEF Next, Crash, Operator, Worker

(* A machine is created with the intent in both journals, and under a task *)
(* whose runner has reported.                                              *)
THEOREM CreationsAreRecorded == Spec => CreationIsRecorded
  <1> DEFINE Recorded1 ==
        left # {"vm", "disk"} /\ left' = {"vm", "disk"} =>
          /\ core.state = "CREATE_SUBMITTED" /\ side = "CREATE_INTENT"
          /\ log.runner # NoRunner
  <1>1. SupervisorIInv /\ [Next]_vars => [Recorded1]_vars
    <2> SUFFICES ASSUME SupervisorIInv, [Next]_vars, left # {"vm", "disk"},
                        left' = {"vm", "disk"}
                 PROVE  /\ core.state = "CREATE_SUBMITTED" /\ side = "CREATE_INTENT"
                        /\ log.runner # NoRunner
      OBVIOUS
    <2>1. left \subseteq {"vm", "disk"}
      BY DEF SupervisorIInv, IInv, TaskTypeOK
    <2>2. ctl[Controller] = "insert"
      BY <2>1, OnlyInsertCreates DEF SupervisorIInv, Insert, At
    <2> QED BY <2>2 DEF SupervisorIInv, SInv, Order, Inserting
  <1>2. [][Recorded1]_vars => CreationIsRecorded
    BY PTL DEF CreationIsRecorded
  <1> QED BY <1>1, <1>2, SupervisorIInvHolds, PTL DEF Spec
=============================================================================
