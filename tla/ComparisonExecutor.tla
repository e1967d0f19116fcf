------------------------- MODULE ComparisonExecutor -------------------------
(***************************************************************************)
(* comparisons/executor.py: the frozen schedule of one comparison plan,    *)
(* executed by whoever runs comparison-plan execute, any number of times   *)
(* and at once, beside operators who use the same identifiers by hand.     *)
(* Nothing remembers an execution but what it left in the run, trial-set   *)
(* and result directories; each new one starts by reading those.           *)
(***************************************************************************)
EXTENDS Naturals, FiniteSets

CONSTANTS
  Executor,  \* processes that execute the plan
  N,         \* length of the schedule
  Baseline,  \* slots of the baseline arm; the others are the candidate's
  Times,     \* values of started_at; the wall clock may run backward
  ByHand,    \* what operators also do by hand
  MaxFaults  \* bound on the calls that fail or die

Slots == 1..N
CreatedAt == 0  \* the plan's created_at

ASSUME ScheduleAssumption == N \in Nat \ {0} /\ Baseline \subseteq Slots
ASSUME TimesAssumption == Times \subseteq Nat
ASSUME ByHandAssumption == ByHand \subseteq {"runs", "trial sets", "results"}
ASSUME FaultAssumption == MaxFaults \in Nat

Nobody == "nobody"
Operator == "operator"

ASSUME ExecutorAssumption == Executor \cap {Nobody, Operator} = {}

VARIABLES
  run,       \* PlannedRunState of each slot, "OPEN" for the nonterminal ones
  start,     \* started_at of the slots whose bundle is sealed
  worker,    \* the process whose run a slot is
  sets,      \* the trial set under each arm's planned identifier
  results,   \* the results that name the plan
  lock,      \* holder of the plan's flock
  planPc,        \* each executor's next step
  at,        \* the slot it is about
  last,      \* previous_start
  cancelled, \* executors whose token is requested
  reports,   \* executors that returned an ExecutedComparison
  faults     \* calls that failed or died so far

runs == <<run, start, worker>>
artifacts == <<sets, results>>
locals == <<planPc, at, last>>
planVars == <<runs, artifacts, lock, locals, cancelled, reports, faults>>

RunStates == {"PENDING", "OPEN", "COMPLETE", "FAILED", "INTERRUPTED", "INVALID"}
Arms == {"BASELINE", "CANDIDATE"}
PlanSteps == {"idle", "lock", "scan", "slot", "running", "check", "BASELINE",
          "CANDIDATE", "match", "create", "final"}

(* "planned": the deterministic identifier; "match" and "misfit": results  *)
(* made by hand that agree or disagree with the planned trial sets.        *)
ResultKinds == {"planned", "match", "misfit"}

PlanTypeOK ==
  /\ run \in [Slots -> RunStates]
  /\ start \in [Slots -> Times \cup {CreatedAt}]
  /\ worker \in [Slots -> Executor \cup {Nobody, Operator}]
  /\ sets \in [Arms -> {"none", "planned", "misfit"}]
  /\ results \subseteq ResultKinds
  /\ lock \in Executor \cup {Nobody}
  /\ planPc \in [Executor -> PlanSteps]
  /\ at \in [Executor -> 1..(N + 1)]
  /\ last \in [Executor -> Times \cup {CreatedAt}]
  /\ cancelled \subseteq Executor
  /\ reports \subseteq Executor
  /\ faults \in 0..MaxFaults

PlanInit ==
  /\ run = [i \in Slots |-> "PENDING"]
  /\ start = [i \in Slots |-> CreatedAt]
  /\ worker = [i \in Slots |-> Nobody]
  /\ sets = [arm \in Arms |-> "none"]
  /\ results = {}
  /\ lock = Nobody
  /\ planPc = [e \in Executor |-> "idle"]
  /\ at = [e \in Executor |-> 1]
  /\ last = [e \in Executor |-> CreatedAt]
  /\ cancelled = {}
  /\ reports = {}
  /\ faults = 0

-----------------------------------------------------------------------------
PlanGoto(e, step) == planPc' = [planPc EXCEPT ![e] = step]

(* The call ends; leaving the context manager releases the flock. *)
Leave(e) ==
  /\ planPc' = [planPc EXCEPT ![e] = "idle"]
  /\ at' = [at EXCEPT ![e] = 1]
  /\ last' = [last EXCEPT ![e] = CreatedAt]
  /\ lock' = IF lock = e THEN Nobody ELSE lock
  /\ cancelled' = cancelled \ {e}

(* The steps before which raise_if_requested is called. *)
EnterPlan(e, step) ==
  /\ planPc[e] = step
  /\ step \in {"slot", "BASELINE", "CANDIDATE", "match", "final"} => e \notin cancelled

Fault == faults < MaxFaults /\ faults' = faults + 1

Begin(e) ==
  /\ planPc[e] = "idle"
  /\ e \notin reports
  /\ PlanGoto(e, "lock")
  /\ UNCHANGED <<runs, artifacts, lock, at, last, cancelled, reports, faults>>

(* Variant: an executor that finds the plan locked goes on. *)
TryLockAnyway(e) ==
  /\ planPc[e] = "lock"
  /\ lock' = e
  /\ PlanGoto(e, "scan")
  /\ UNCHANGED <<runs, artifacts, at, last, cancelled, reports, faults>>

(* LOCK_NB: "another executor already holds this comparison plan" *)
TryLock(e) ==
  /\ planPc[e] = "lock"
  /\ \/ /\ lock = Nobody
        /\ lock' = e
        /\ PlanGoto(e, "scan")
        /\ UNCHANGED <<at, last, cancelled>>
     \/ lock # Nobody /\ Leave(e)
  /\ UNCHANGED <<runs, artifacts, reports, faults>>

(* Variant: only the schedule's start is checked against the plan. *)
InOrderOfPlan(i, previous) == start[i] > CreatedAt

(* _verify_completed_run and the chronology checks. *)
InOrder(i, previous) == start[i] > CreatedAt /\ start[i] > previous

Advance(e, i) ==
  /\ at' = [at EXCEPT ![e] = i + 1]
  /\ last' = [last EXCEPT ![e] = start[i]]

(* _existing_completed_prefix: the completed slots, up to the first that   *)
(* is missing, after which every slot must be missing.  A reserved slot    *)
(* stays reserved, so looking at the rest one by one is like looking once. *)
ScanSlot(e) ==
  /\ planPc[e] = "scan"
  /\ at[e] \in Slots
  /\ run[at[e]] = "COMPLETE" /\ InOrder(at[e], last[e])
  /\ Advance(e, at[e])
  /\ UNCHANGED <<runs, artifacts, lock, planPc, cancelled, reports, faults>>

(* Variant: a slot that did not complete is run again. *)
AcceptFailed(e) ==
  /\ planPc[e] = "scan"
  /\ \A i \in at[e]..N : run[i] \in {"PENDING", "FAILED"}
  /\ PlanGoto(e, IF at[e] = N + 1 THEN "BASELINE" ELSE "slot")
  /\ run' = [i \in Slots |-> IF run[i] = "FAILED" THEN "PENDING" ELSE run[i]]
  /\ UNCHANGED <<start, worker, artifacts, lock, at, last, cancelled, reports,
                 faults>>

AcceptPrefix(e) ==
  /\ planPc[e] = "scan"
  /\ \A i \in at[e]..N : run[i] = "PENDING"
  /\ PlanGoto(e, IF at[e] = N + 1 THEN "BASELINE" ELSE "slot")
  /\ UNCHANGED <<runs, artifacts, lock, at, last, cancelled, reports, faults>>

RefusePrefix(e) ==
  /\ planPc[e] = "scan"
  /\ at[e] \in Slots
  /\ IF run[at[e]] = "PENDING"
       THEN \E i \in at[e]..N : run[i] # "PENDING"
       ELSE run[at[e]] # "COMPLETE" \/ ~InOrder(at[e], last[e])
  /\ Leave(e)
  /\ UNCHANGED <<runs, artifacts, reports, faults>>

-----------------------------------------------------------------------------
(* One slot: run_resolved_experiment and the checks after it. *)

ReserveSlot(e) ==
  /\ EnterPlan(e, "slot")
  /\ run[at[e]] = "PENDING"
  /\ run' = [run EXCEPT ![at[e]] = "OPEN"]
  /\ worker' = [worker EXCEPT ![at[e]] = e]
  /\ PlanGoto(e, "running")
  /\ UNCHANGED <<start, artifacts, lock, at, last, cancelled, reports, faults>>

(* The identifier was used by hand since the scan. *)
FindReserved(e) ==
  /\ EnterPlan(e, "slot")
  /\ run[at[e]] # "PENDING"
  /\ Leave(e)
  /\ UNCHANGED <<runs, artifacts, reports, faults>>

(* A run that seals its bundle shows when its benchmark started. *)
Ends(i, state) ==
  /\ run' = [run EXCEPT ![i] = state]
  /\ \E t \in Times :
       start' = [start EXCEPT ![i] = IF state = "COMPLETE" THEN t ELSE start[i]]
  /\ worker' = [worker EXCEPT ![i] = Nobody]

CompleteSlot(e) ==
  /\ planPc[e] = "running"
  /\ Ends(at[e], "COMPLETE")
  /\ PlanGoto(e, "check")
  /\ UNCHANGED <<artifacts, lock, at, last, cancelled, reports, faults>>

(* The run raised: see RunOrchestrator for the states it may leave. *)
FailSlot(e) ==
  /\ planPc[e] = "running"
  /\ \E state \in {"OPEN", "INVALID", "FAILED", "INTERRUPTED", "COMPLETE"} :
       Ends(at[e], state)
  /\ \/ Fault
     \/ e \in cancelled /\ UNCHANGED faults
  /\ Leave(e)
  /\ UNCHANGED <<artifacts, reports>>

CheckSlot(e) ==
  /\ planPc[e] = "check"
  /\ \/ /\ InOrder(at[e], last[e])
        /\ Advance(e, at[e])
        /\ PlanGoto(e, IF at[e] = N THEN "BASELINE" ELSE "slot")
        /\ UNCHANGED <<lock, cancelled>>
     \/ ~InOrder(at[e], last[e]) /\ Leave(e)
  /\ UNCHANGED <<runs, artifacts, reports, faults>>

-----------------------------------------------------------------------------
(* The artifacts, each created or reused. *)

(* Variant: an existing trial set is taken without comparing its members. *)
AnySet(arm) == TRUE

(* _validate_trial_set *)
Fits(arm) == sets[arm] \in {"none", "planned"}

(* _get_or_create_trial_set: a publication that loses a race, or that      *)
(* raises after the rename, ends like a trial set that was there before.   *)
GetTrialSet(e, arm, next) ==
  /\ EnterPlan(e, arm)
  /\ \/ /\ Fits(arm)
        /\ sets' = [sets EXCEPT ![arm] = IF @ = "none" THEN "planned" ELSE @]
        /\ PlanGoto(e, next)
        /\ UNCHANGED <<lock, at, last, cancelled>>
     \/ ~Fits(arm) /\ Leave(e) /\ UNCHANGED sets
  /\ UNCHANGED <<runs, results, reports, faults>>

(* Variant: results that exist are not looked for. *)
MatchNothing(e) ==
  /\ EnterPlan(e, "match")
  /\ PlanGoto(e, "create")
  /\ UNCHANGED <<runs, artifacts, lock, at, last, cancelled, reports, faults>>

(* _get_or_create_result: the scan for results that name the plan. *)
MatchResults(e) ==
  /\ EnterPlan(e, "match")
  /\ \/ results = {} /\ PlanGoto(e, "create") /\ UNCHANGED <<lock, at, last, cancelled>>
     \/ /\ Cardinality(results) = 1 /\ results # {"misfit"}
        /\ PlanGoto(e, "final")
        /\ UNCHANGED <<lock, at, last, cancelled>>
     \/ (Cardinality(results) > 1 \/ results = {"misfit"}) /\ Leave(e)
  /\ UNCHANGED <<runs, artifacts, reports, faults>>

CreateResult(e) ==
  /\ planPc[e] = "create"
  /\ \/ /\ "planned" \notin results
        /\ results' = results \cup {"planned"}
        /\ PlanGoto(e, "final")
        /\ UNCHANGED <<lock, at, last, cancelled>>
     \/ "planned" \in results /\ Leave(e) /\ UNCHANGED results
  /\ UNCHANGED <<runs, sets, reports, faults>>

Return(e) ==
  /\ EnterPlan(e, "final")
  /\ reports' = reports \cup {e}
  /\ Leave(e)
  /\ UNCHANGED <<runs, artifacts, faults>>

-----------------------------------------------------------------------------
(* Failure, cancellation, death. *)

PlanCancelled(e) ==
  /\ planPc[e] \in {"slot", "BASELINE", "CANDIDATE", "match", "final"}
  /\ e \in cancelled
  /\ Leave(e)
  /\ UNCHANGED <<runs, artifacts, reports, faults>>

(* A verification, a resolution or a publication raises; a reservation     *)
(* that raises may leave a directory that is no workspace.                 *)
FailPlan(e) ==
  /\ planPc[e] \notin {"idle", "running"}
  /\ Fault
  /\ \/ UNCHANGED run
     \/ /\ EnterPlan(e, "slot") /\ run[at[e]] = "PENDING"
        /\ run' = [run EXCEPT ![at[e]] = "INVALID"]
  /\ Leave(e)
  /\ UNCHANGED <<start, worker, artifacts, reports>>

(* The process dies; the kernel drops its flock and nobody ends its run. *)
CrashExecutor(e) ==
  /\ planPc[e] # "idle"
  /\ Fault
  /\ worker' = [i \in Slots |-> IF worker[i] = e THEN Nobody ELSE worker[i]]
  /\ Leave(e)
  /\ UNCHANGED <<run, start, artifacts, reports>>

CancelPlan(e) ==
  /\ planPc[e] # "idle"
  /\ e \notin cancelled
  /\ Fault
  /\ cancelled' = cancelled \cup {e}
  /\ UNCHANGED <<runs, artifacts, lock, locals, reports>>

-----------------------------------------------------------------------------
(* Operators, who take no part in the plan's lock. *)

RunByHand(i) ==
  /\ "runs" \in ByHand
  /\ run[i] = "PENDING"
  /\ run' = [run EXCEPT ![i] = "OPEN"]
  /\ worker' = [worker EXCEPT ![i] = Operator]
  /\ UNCHANGED <<start, artifacts, lock, locals, cancelled, reports, faults>>

(* INVALID also stands for the other states that no executor accepts, and   *)
(* for a run of another experiment.                                        *)
EndByHand(i) ==
  /\ worker[i] = Operator
  /\ \E state \in {"OPEN", "COMPLETE", "INVALID"} : Ends(i, state)
  /\ UNCHANGED <<artifacts, lock, locals, cancelled, reports, faults>>

(* A trial set is made of runs that have a bundle, at least two of them. *)
Arm(arm) == IF arm = "BASELINE" THEN Baseline ELSE Slots \ Baseline

TrialSetByHand(arm, kind) ==
  /\ "trial sets" \in ByHand
  /\ sets[arm] = "none"
  /\ kind = "planned" => \A i \in Arm(arm) : run[i] = "COMPLETE"
  /\ sets' = [sets EXCEPT ![arm] = kind]
  /\ UNCHANGED <<runs, results, lock, locals, cancelled, reports, faults>>

ResultByHand(kind) ==
  /\ "results" \in ByHand
  /\ kind # "misfit" => \A arm \in Arms : sets[arm] = "planned"
  /\ results' = results \cup {kind}
  /\ UNCHANGED <<runs, sets, lock, locals, cancelled, reports, faults>>

-----------------------------------------------------------------------------
Execute(e) ==
  \/ TryLock(e) \/ ScanSlot(e) \/ AcceptPrefix(e) \/ RefusePrefix(e)
  \/ ReserveSlot(e) \/ FindReserved(e) \/ CompleteSlot(e) \/ CheckSlot(e)
  \/ GetTrialSet(e, "BASELINE", "CANDIDATE") \/ GetTrialSet(e, "CANDIDATE", "match")
  \/ MatchResults(e) \/ CreateResult(e) \/ Return(e) \/ PlanCancelled(e)

Hands ==
  \/ \E i \in Slots : RunByHand(i) \/ EndByHand(i)
  \/ \E arm \in Arms, kind \in {"planned", "misfit"} : TrialSetByHand(arm, kind)
  \/ \E kind \in ResultKinds : ResultByHand(kind)

PlanNext ==
  \/ \E e \in Executor : \/ Begin(e) \/ Execute(e) \/ FailSlot(e) \/ FailPlan(e)
                         \/ CrashExecutor(e) \/ CancelPlan(e)
  \/ Hands

PlanSpec == PlanInit /\ [][PlanNext]_planVars

(* Executors run, and an operator who still has no report starts another.  *)
PlanFairSpec == PlanSpec /\ \A e \in Executor : WF_planVars(Begin(e) \/ Execute(e))

-----------------------------------------------------------------------------
(* inspect_comparison_execution, at one instant. *)

ExactSchedulePrefix ==
  \A i \in Slots :
    /\ run[i] # "PENDING" => \A j \in 1..(i - 1) : run[j] # "PENDING"
    /\ run[i] = "COMPLETE" =>
         /\ start[i] > CreatedAt
         /\ \A j \in 1..(i - 1) : run[j] = "COMPLETE" /\ start[i] > start[j]

PlanStatus ==
  IF ~ExactSchedulePrefix
     \/ \E i \in Slots : run[i] \in {"FAILED", "INTERRUPTED", "INVALID"}
    THEN "BLOCKED"
  ELSE IF \A i \in Slots : run[i] = "COMPLETE" THEN "EVIDENCE_COMPLETE"
  ELSE IF \A i \in Slots : run[i] = "PENDING" THEN "NOT_STARTED"
  ELSE "PARTIAL"

NextSequenceIndex ==
  IF PlanStatus \in {"NOT_STARTED", "PARTIAL"}
    THEN CHOOSE i \in Slots : /\ run[i] # "COMPLETE"
                              /\ \A j \in 1..(i - 1) : run[j] = "COMPLETE"
    ELSE 0

-----------------------------------------------------------------------------
(* Properties. *)

EvidenceComplete ==
  \A i \in Slots : /\ run[i] = "COMPLETE"
                   /\ start[i] > CreatedAt
                   /\ \A j \in 1..(i - 1) : start[j] < start[i]

(* However many executors are started, at most one slot is being run by    *)
(* one of them, it holds the plan's lock, and every slot before it is      *)
(* COMPLETE and started in schedule order.                                 *)
SlotsRunInOrder ==
  \A i \in Slots :
    worker[i] \in Executor =>
      /\ lock = worker[i]
      /\ \A j \in Slots : worker[j] \in Executor => i = j
      /\ \A j \in 1..(i - 1) :
           /\ run[j] = "COMPLETE"
           /\ \A k \in 1..(j - 1) : start[k] < start[j]

(* An executor reports success only for a schedule that ran completely and *)
(* in order, with the planned trial sets and a result; whatever operators  *)
(* do by hand, then or later.                                              *)
ReportIsEarned ==
  reports # {} =>
    /\ EvidenceComplete
    /\ \A arm \in Arms : sets[arm] = "planned"
    /\ results # {}

(* A run that somebody started is never started again, by an executor that *)
(* resumes least of all: nothing changes it once its process is done.      *)
NoRetry ==
  [][\A i \in Slots : run[i] # "PENDING" /\ worker[i] = Nobody =>
       run'[i] = run[i] /\ start'[i] = start[i]]_planVars

(* Where nobody interferes by hand, the read-only progress tells what the  *)
(* executor does: the slot it starts is the next one, and its artifacts    *)
(* are made of complete evidence.                                          *)
ProgressIsTrue ==
  \A e \in Executor :
    /\ planPc[e] \in {"slot", "running"} => NextSequenceIndex = at[e]
    /\ planPc[e] \in Arms \cup {"match", "create", "final"} =>
         PlanStatus = "EVIDENCE_COMPLETE"

(* Executions that are started again whenever one fails, dies or is        *)
(* cancelled end with a report, or with a plan that nobody may resume: it  *)
(* is BLOCKED, or a process died or gave up in the middle of a run.        *)
Abandoned == \E i \in Slots : run[i] = "OPEN" /\ worker[i] = Nobody

PlanEnds == <>(reports # {} \/ PlanStatus = "BLOCKED" \/ Abandoned)
=============================================================================
