---------------------- MODULE ComparisonExecutor_proof ----------------------
(***************************************************************************)
(* Executions of a plan run it in order and report only complete evidence, *)
(* for any number of executors, any schedule and any clocks, and whatever  *)
(* operators do by hand.                                                   *)
(***************************************************************************)
EXTENDS ComparisonExecutor, FiniteSetTheorems, TLAPS

Active(e) == planPc[e] \notin {"idle", "lock"}
Assembling == {"BASELINE", "CANDIDATE", "match", "create", "final"}

(* What is on disk: an open run may have a process, no other has one. *)
WorkersAreOpen == \A i \in Slots : worker[i] # Nobody => run[i] = "OPEN"

(* The executor in the plan's lock runs the slot it is about, no other.    *)
RunsItsSlot(e) ==
  \A i \in Slots : worker[i] = e <=> planPc[e] = "running" /\ i = at[e]

(* The slots before the one it is about are complete and in order, and the *)
(* last of them started no later than it remembers.                        *)
Behind(e) ==
  \A i \in 1..(at[e] - 1) :
    /\ run[i] = "COMPLETE"
    /\ CreatedAt < start[i] /\ start[i] <= last[e]
    /\ \A j \in 1..(i - 1) : start[j] < start[i]

FitsSlot(e) ==
  /\ ~Active(e) => at[e] = 1
  /\ planPc[e] \in {"slot", "running", "check"} => at[e] \in Slots
  /\ planPc[e] = "check" => run[at[e]] = "COMPLETE"
  /\ planPc[e] \in Assembling => at[e] = N + 1

(* Once the artifacts are being made, the trial sets are the planned ones  *)
(* and a result exists before the final verification.                      *)
HasArtifacts(e) ==
  /\ planPc[e] \in {"CANDIDATE", "match", "create", "final"} => sets["BASELINE"] = "planned"
  /\ planPc[e] \in {"match", "create", "final"} => sets["CANDIDATE"] = "planned"
  /\ planPc[e] = "final" => results # {}

Sound(e) == /\ Active(e) => lock = e /\ Behind(e)
            /\ RunsItsSlot(e) /\ FitsSlot(e) /\ HasArtifacts(e)

IInv == /\ PlanTypeOK /\ WorkersAreOpen /\ ReportIsEarned
        /\ \A e \in Executor : Sound(e)

-----------------------------------------------------------------------------
(* Types. *)

LEMMA LeavingTypes ==
  ASSUME PlanTypeOK, NEW e \in Executor, Leave(e)
  PROVE  /\ planPc' \in [Executor -> PlanSteps]
         /\ at' \in [Executor -> 1..(N + 1)]
         /\ last' \in [Executor -> Times \cup {CreatedAt}]
         /\ lock' \in Executor \cup {Nobody}
         /\ cancelled' \subseteq Executor
  BY ScheduleAssumption DEF PlanTypeOK, Leave, PlanSteps, Nobody, CreatedAt

LEMMA EndingTypes ==
  ASSUME PlanTypeOK, NEW i \in Slots, NEW state \in RunStates, Ends(i, state)
  PROVE  /\ run' \in [Slots -> RunStates]
         /\ start' \in [Slots -> Times \cup {CreatedAt}]
         /\ worker' \in [Slots -> Executor \cup {Nobody, Operator}]
  BY DEF PlanTypeOK, Ends

LEMMA FaultTypes == PlanTypeOK /\ Fault => faults' \in 0..MaxFaults
  BY FaultAssumption DEF PlanTypeOK, Fault

LEMMA TypeStep ==
  ASSUME PlanTypeOK, \A e \in Executor : FitsSlot(e), [PlanNext]_planVars
  PROVE  PlanTypeOK'
<1> USE DEF runs, artifacts, locals
<1>1. ASSUME NEW e \in Executor, Begin(e) PROVE PlanTypeOK'
  BY <1>1 DEF PlanTypeOK, Begin, PlanGoto, PlanSteps
<1>2. ASSUME NEW e \in Executor, TryLock(e) PROVE PlanTypeOK'
  <2>1. CASE Leave(e)
    BY <1>2, <2>1, LeavingTypes DEF PlanTypeOK, TryLock
  <2>2. CASE lock' = e /\ PlanGoto(e, "scan") /\ UNCHANGED <<at, last, cancelled>>
    BY <1>2, <2>2 DEF PlanTypeOK, TryLock, PlanGoto, PlanSteps
  <2> QED
    BY <1>2, <2>1, <2>2 DEF TryLock
<1>3. ASSUME NEW e \in Executor, ScanSlot(e) PROVE PlanTypeOK'
  BY <1>3, ScheduleAssumption DEF PlanTypeOK, ScanSlot, Advance, Slots
<1>4. ASSUME NEW e \in Executor, AcceptPrefix(e) PROVE PlanTypeOK'
  BY <1>4 DEF PlanTypeOK, AcceptPrefix, PlanGoto, PlanSteps
<1>5. ASSUME NEW e \in Executor, RefusePrefix(e) PROVE PlanTypeOK'
  BY <1>5, LeavingTypes DEF PlanTypeOK, RefusePrefix
<1>6. ASSUME NEW e \in Executor, ReserveSlot(e) PROVE PlanTypeOK'
  BY <1>6 DEF PlanTypeOK, ReserveSlot, EnterPlan, FitsSlot, PlanGoto, PlanSteps, RunStates
<1>7. ASSUME NEW e \in Executor, FindReserved(e) PROVE PlanTypeOK'
  BY <1>7, LeavingTypes DEF PlanTypeOK, FindReserved
<1>8. ASSUME NEW e \in Executor, CompleteSlot(e) PROVE PlanTypeOK'
  <2>1. at[e] \in Slots /\ "COMPLETE" \in RunStates
    BY <1>8 DEF CompleteSlot, FitsSlot, RunStates
  <2> QED
    BY <1>8, <2>1, EndingTypes DEF PlanTypeOK, CompleteSlot, PlanGoto, PlanSteps
<1>9. ASSUME NEW e \in Executor, CheckSlot(e) PROVE PlanTypeOK'
  <2>1. CASE Leave(e)
    BY <1>9, <2>1, LeavingTypes DEF PlanTypeOK, CheckSlot
  <2>2. CASE /\ Advance(e, at[e])
             /\ PlanGoto(e, IF at[e] = N THEN "BASELINE" ELSE "slot")
             /\ UNCHANGED <<lock, cancelled>>
    <3>1. at[e] \in Slots
      BY <1>9 DEF CheckSlot, FitsSlot
    <3> QED
      BY <1>9, <2>2, <3>1, ScheduleAssumption
      DEF PlanTypeOK, CheckSlot, Advance, PlanGoto, PlanSteps, Slots
  <2> QED
    BY <1>9, <2>1, <2>2 DEF CheckSlot
<1>10. ASSUME NEW e \in Executor, NEW arm \in Arms, NEW next \in PlanSteps,
              GetTrialSet(e, arm, next)
       PROVE  PlanTypeOK'
  <2>1. CASE Leave(e) /\ UNCHANGED sets
    BY <1>10, <2>1, LeavingTypes DEF PlanTypeOK, GetTrialSet
  <2>2. CASE /\ sets' = [sets EXCEPT ![arm] = IF @ = "none" THEN "planned" ELSE @]
             /\ PlanGoto(e, next)
             /\ UNCHANGED <<lock, at, last, cancelled>>
    <3>1. sets' \in [Arms -> {"none", "planned", "misfit"}]
      BY <2>2 DEF PlanTypeOK
    <3> QED
      BY <1>10, <2>2, <3>1 DEF PlanTypeOK, GetTrialSet, PlanGoto
  <2> QED
    BY <1>10, <2>1, <2>2 DEF GetTrialSet
<1>11. ASSUME NEW e \in Executor, MatchResults(e) PROVE PlanTypeOK'
  <2>1. CASE Leave(e)
    BY <1>11, <2>1, LeavingTypes DEF PlanTypeOK, MatchResults
  <2>2. CASE /\ PlanGoto(e, "create") \/ PlanGoto(e, "final")
             /\ UNCHANGED <<lock, at, last, cancelled>>
    BY <1>11, <2>2 DEF PlanTypeOK, MatchResults, PlanGoto, PlanSteps
  <2> QED
    BY <1>11, <2>1, <2>2 DEF MatchResults
<1>12. ASSUME NEW e \in Executor, CreateResult(e) PROVE PlanTypeOK'
  <2>1. CASE Leave(e) /\ UNCHANGED results
    BY <1>12, <2>1, LeavingTypes DEF PlanTypeOK, CreateResult
  <2>2. CASE /\ results' = results \cup {"planned"}
             /\ PlanGoto(e, "final")
             /\ UNCHANGED <<lock, at, last, cancelled>>
    BY <1>12, <2>2 DEF PlanTypeOK, CreateResult, PlanGoto, PlanSteps, ResultKinds
  <2> QED
    BY <1>12, <2>1, <2>2 DEF CreateResult
<1>13. ASSUME NEW e \in Executor, Return(e) PROVE PlanTypeOK'
  BY <1>13, LeavingTypes DEF PlanTypeOK, Return
<1>14. ASSUME NEW e \in Executor, PlanCancelled(e) PROVE PlanTypeOK'
  BY <1>14, LeavingTypes DEF PlanTypeOK, PlanCancelled
<1>15. ASSUME NEW e \in Executor, FailSlot(e) PROVE PlanTypeOK'
  <2>1. at[e] \in Slots
    BY <1>15 DEF FailSlot, FitsSlot
  <2>2. PICK state \in RunStates : Ends(at[e], state)
    BY <1>15 DEF FailSlot, RunStates
  <2> QED
    BY <1>15, <2>1, <2>2, EndingTypes, LeavingTypes, FaultTypes
    DEF PlanTypeOK, FailSlot
<1>16. ASSUME NEW e \in Executor, FailPlan(e) PROVE PlanTypeOK'
  <2>1. run' \in [Slots -> RunStates]
    BY <1>16 DEF FailPlan, PlanTypeOK, RunStates
  <2> QED
    BY <1>16, <2>1, LeavingTypes, FaultTypes DEF PlanTypeOK, FailPlan
<1>17. ASSUME NEW e \in Executor, CrashExecutor(e) PROVE PlanTypeOK'
  BY <1>17, LeavingTypes, FaultTypes DEF PlanTypeOK, CrashExecutor
<1>18. ASSUME NEW e \in Executor, CancelPlan(e) PROVE PlanTypeOK'
  BY <1>18, FaultTypes DEF PlanTypeOK, CancelPlan
<1>19. CASE Hands
  <2>1. ASSUME NEW i \in Slots, RunByHand(i) PROVE PlanTypeOK'
    BY <2>1 DEF PlanTypeOK, RunByHand, RunStates
  <2>2. ASSUME NEW i \in Slots, EndByHand(i) PROVE PlanTypeOK'
    <3>1. PICK state \in RunStates : Ends(i, state)
      BY <2>2 DEF EndByHand, RunStates
    <3> QED
      BY <2>2, <3>1, EndingTypes DEF PlanTypeOK, EndByHand
  <2>3. ASSUME NEW arm \in Arms, NEW kind \in {"planned", "misfit"},
               TrialSetByHand(arm, kind)
        PROVE  PlanTypeOK'
    BY <2>3 DEF PlanTypeOK, TrialSetByHand
  <2>4. ASSUME NEW kind \in ResultKinds, ResultByHand(kind) PROVE PlanTypeOK'
    BY <2>4 DEF PlanTypeOK, ResultByHand
  <2> QED
    BY <1>19, <2>1, <2>2, <2>3, <2>4 DEF Hands
<1>20. CASE UNCHANGED planVars
  BY <1>20 DEF PlanTypeOK, planVars
<1>21. {"BASELINE", "CANDIDATE"} \subseteq Arms /\ {"CANDIDATE", "match"} \subseteq PlanSteps
  BY DEF Arms, PlanSteps
<1> QED
  BY <1>1, <1>2, <1>3, <1>4, <1>5, <1>6, <1>7, <1>8, <1>9, <1>10, <1>11,
     <1>12, <1>13, <1>14, <1>15, <1>16, <1>17, <1>18, <1>19, <1>20, <1>21
  DEF PlanNext, Execute

-----------------------------------------------------------------------------
(* What the steps have in common. *)

(* Sealed evidence stays as it is. *)
Kept == \A i \in Slots : run[i] = "COMPLETE" => run'[i] = "COMPLETE" /\ start'[i] = start[i]

(* e is done with the plan, and the others are where they were. *)
LEMMA Leaving ==
  ASSUME PlanTypeOK, NEW e \in Executor, Leave(e)
  PROVE  /\ planPc'[e] = "idle" /\ at'[e] = 1
         /\ \A f \in Executor \ {e} :
              planPc'[f] = planPc[f] /\ at'[f] = at[f] /\ last'[f] = last[f]
         /\ lock # e => lock' = lock
  BY DEF PlanTypeOK, Leave

(* Only a run that somebody is running ends. *)
LEMMA Ending ==
  ASSUME PlanTypeOK, WorkersAreOpen, NEW i \in Slots, worker[i] # Nobody,
         NEW state, Ends(i, state)
  PROVE  /\ Kept
         /\ run[i] = "OPEN" /\ run'[i] = state /\ worker'[i] = Nobody
         /\ \A j \in Slots \ {i} : run'[j] = run[j] /\ worker'[j] = worker[j]
         /\ start' \in [Slots -> Times \cup {CreatedAt}]
  BY DEF PlanTypeOK, WorkersAreOpen, Ends, Kept

(* What was behind an executor stays behind it while it stays where it is. *)
LEMMA StillBehind ==
  ASSUME PlanTypeOK, PlanTypeOK', Kept, NEW f \in Executor, Behind(f),
         at'[f] = at[f], last'[f] = last[f]
  PROVE  Behind(f)'
<1>1. at[f] \in 1..(N + 1)
  BY DEF PlanTypeOK
<1>2. 1..(at[f] - 1) \subseteq Slots
  BY <1>1, ScheduleAssumption DEF Slots
<1>3. ASSUME NEW i \in 1..(at[f] - 1)
      PROVE  /\ run'[i] = "COMPLETE" /\ start'[i] = start[i]
             /\ CreatedAt < start[i] /\ start[i] <= last[f]
             /\ \A j \in 1..(i - 1) : start'[j] = start[j] /\ start[j] < start[i]
  <2>1. 1..(i - 1) \subseteq 1..(at[f] - 1)
    BY <1>1
  <2>2. \A j \in 1..(at[f] - 1) : start'[j] = start[j] /\ run'[j] = "COMPLETE"
    BY <1>2 DEF Kept, Behind
  <2> QED
    BY <2>1, <2>2 DEF Behind
<1> QED
  BY <1>3 DEF Behind, CreatedAt

LEMMA Clocks ==
  ASSUME PlanTypeOK
  PROVE  (\A i \in Slots : start[i] \in Nat) /\ (\A e \in Executor : last[e] \in Nat)
<1>1. Times \cup {CreatedAt} \subseteq Nat
  BY TimesAssumption DEF CreatedAt
<1> QED
  BY <1>1 DEF PlanTypeOK

(* An executor moves on from a slot whose run started after the others. *)
LEMMA Advancing ==
  ASSUME PlanTypeOK, NEW e \in Executor, at[e] \in Slots, Behind(e),
         run[at[e]] = "COMPLETE", InOrder(at[e], last[e]), Advance(e, at[e]),
         UNCHANGED runs
  PROVE  Behind(e)'
<1>1. at'[e] = at[e] + 1 /\ last'[e] = start[at[e]]
  BY DEF PlanTypeOK, Advance
<1>2. start[at[e]] > CreatedAt /\ start[at[e]] > last[e] /\ last[e] \in Nat
  BY Clocks DEF InOrder
<1>3. \A i \in Slots : start[i] \in Nat
  BY Clocks
<1>4. ASSUME NEW i \in 1..(at'[e] - 1)
      PROVE  /\ run[i] = "COMPLETE"
             /\ CreatedAt < start[i] /\ start[i] <= start[at[e]]
             /\ \A j \in 1..(i - 1) : start[j] < start[i]
  <2>1. at[e] \in Nat /\ i \in Slots /\ 1..(i - 1) \subseteq Slots
    BY <1>1, ScheduleAssumption DEF Slots
  <2>2. CASE i = at[e]
    <3>1. \A j \in 1..(i - 1) : j \in 1..(at[e] - 1) /\ start[j] <= last[e] /\ start[j] \in Nat
      BY <2>1, <2>2, <1>3 DEF Behind
    <3> QED
      BY <3>1, <2>2, <1>2, <1>3, <2>1 DEF CreatedAt
  <2>3. CASE i # at[e]
    <3>1. i \in 1..(at[e] - 1)
      BY <2>1, <2>3, <1>1
    <3> QED
      BY <3>1, <1>2, <1>3, <2>1 DEF Behind
  <2> QED
    BY <2>2, <2>3
<1> QED
  BY <1>1, <1>4 DEF Behind, runs

(* A report that was earned stays earned. *)
LEMMA StillEarned ==
  ASSUME PlanTypeOK, ReportIsEarned, Kept, UNCHANGED reports,
         \A arm \in Arms : sets[arm] = "planned" => sets'[arm] = "planned",
         results \subseteq results'
  PROVE  ReportIsEarned'
<1> SUFFICES ASSUME reports # {} PROVE EvidenceComplete' /\ (\A arm \in Arms : sets'[arm] = "planned") /\ results' # {}
  BY DEF ReportIsEarned
<1>1. EvidenceComplete'
  <2>1. \A i \in Slots : 1..(i - 1) \subseteq Slots
    BY ScheduleAssumption DEF Slots
  <2> QED
    BY <2>1 DEF ReportIsEarned, Kept, EvidenceComplete
<1> QED
  BY <1>1 DEF ReportIsEarned

-----------------------------------------------------------------------------
(* The steps. *)

(* A step of one executor leaves the others sound. *)
LEMMA Others ==
  ASSUME IInv, PlanTypeOK', NEW e \in Executor, Kept,
         \A f \in Executor \ {e} :
           planPc'[f] = planPc[f] /\ at'[f] = at[f] /\ last'[f] = last[f],
         lock \in {e, Nobody} \/ UNCHANGED lock,
         \A i \in Slots, f \in Executor \ {e} : worker'[i] = f <=> worker[i] = f,
         \A arm \in Arms : sets[arm] = "planned" => sets'[arm] = "planned",
         results \subseteq results'
  PROVE  \A f \in Executor \ {e} : Sound(f)'
<1> SUFFICES ASSUME NEW f \in Executor \ {e} PROVE Sound(f)'
  OBVIOUS
<1>1. ASSUME Active(f)' PROVE lock' = f /\ Behind(f)'
  <2>1. lock = f /\ Behind(f)
    BY <1>1 DEF IInv, Sound, Active
  <2> QED
    BY <2>1, StillBehind, ExecutorAssumption DEF IInv
<1>2. RunsItsSlot(f)'
  BY ExecutorAssumption DEF IInv, Sound, RunsItsSlot
<1>3. FitsSlot(f)'
  <2>1. planPc[f] = "check" => at[f] \in Slots /\ run'[at[f]] = "COMPLETE"
    BY DEF IInv, Sound, FitsSlot, Kept
  <2> QED
    BY <2>1 DEF IInv, Sound, FitsSlot, Active
<1>4. HasArtifacts(f)'
  BY DEF IInv, Sound, HasArtifacts, Arms
<1> QED
  BY <1>1, <1>2, <1>3, <1>4 DEF Sound

(* An executor that goes on, at the same slot or the next. *)
LEMMA GoingOn ==
  ASSUME IInv, PlanTypeOK', NEW e \in Executor, NEW step \in PlanSteps, PlanGoto(e, step),
         \/ UNCHANGED <<at, last>>
         \/ \E i \in Slots : Advance(e, i),
         Kept, WorkersAreOpen', UNCHANGED reports,
         lock \in {e, Nobody} \/ UNCHANGED lock,
         \A i \in Slots, f \in Executor \ {e} : worker'[i] = f <=> worker[i] = f,
         \A arm \in Arms : sets[arm] = "planned" => sets'[arm] = "planned",
         results \subseteq results',
         Sound(e)'
  PROVE  IInv'
<1>1. \A f \in Executor \ {e} : planPc'[f] = planPc[f] /\ at'[f] = at[f] /\ last'[f] = last[f]
  BY DEF IInv, PlanTypeOK, PlanGoto, Advance
<1> QED
  BY <1>1, Others, StillEarned DEF IInv

(* An executor that ends: its run, if it has one, has ended before. *)
LEMMA GivingWay ==
  ASSUME IInv, PlanTypeOK', NEW e \in Executor, Leave(e), Kept, WorkersAreOpen', ReportIsEarned',
         \A i \in Slots : worker'[i] # e,
         \A i \in Slots, f \in Executor \ {e} : worker'[i] = f <=> worker[i] = f,
         UNCHANGED artifacts
  PROVE  IInv'
<1>1. Sound(e)'
  BY Leaving DEF IInv, Sound, Active, RunsItsSlot, FitsSlot, HasArtifacts,
     Assembling
<1>2. \A f \in Executor \ {e} : Sound(f)'
  BY Leaving, Others DEF IInv, artifacts
<1> QED
  BY <1>1, <1>2 DEF IInv

(* The same of a step that changes nothing else. *)
LEMMA GivingUp ==
  ASSUME IInv, PlanTypeOK', NEW e \in Executor, Leave(e), planPc[e] # "running",
         UNCHANGED <<runs, artifacts, reports>>
  PROVE  IInv'
<1>1. Kept /\ WorkersAreOpen' /\ ReportIsEarned'
  BY StillEarned DEF IInv, Kept, WorkersAreOpen, runs, artifacts
<1>2. \A i \in Slots : worker'[i] # e
  BY DEF IInv, Sound, RunsItsSlot, runs
<1> QED
  BY <1>1, <1>2, GivingWay DEF runs

-----------------------------------------------------------------------------
(* The steps. *)

LEMMA ExecutorPreserves ==
  ASSUME IInv, PlanTypeOK', NEW e \in Executor, Begin(e) \/ Execute(e)
  PROVE  IInv'
<1> USE DEF runs, artifacts, locals
<1>0. /\ PlanTypeOK /\ WorkersAreOpen /\ ReportIsEarned /\ Sound(e)
      /\ UNCHANGED <<run, start>> => Kept
      /\ UNCHANGED <<run, worker>> => WorkersAreOpen'
  BY DEF IInv, Kept, WorkersAreOpen
<1>1. CASE Begin(e)
  <2>1. Sound(e)'
    BY <1>0, <1>1 DEF Begin, PlanGoto, PlanTypeOK, Sound, Active, RunsItsSlot,
       FitsSlot, HasArtifacts, Assembling, Behind
  <2> QED
    BY <1>0, <1>1, <2>1, GoingOn DEF Begin, PlanSteps
<1>2. CASE TryLock(e)
  <2>1. CASE Leave(e)
    BY <1>2, <2>1, GivingUp DEF TryLock
  <2>2. CASE lock = Nobody /\ lock' = e /\ PlanGoto(e, "scan") /\ UNCHANGED <<at, last, cancelled>>
    <3>1. planPc'[e] = "scan"
      BY <1>0, <2>2 DEF PlanTypeOK, PlanGoto
    <3>2. at'[e] = 1 /\ Behind(e)'
      BY <1>0, <1>2, <2>2 DEF TryLock, Sound, Active, FitsSlot, Behind
    <3>3. Sound(e)'
      BY <1>0, <1>2, <2>2, <3>1, <3>2 DEF TryLock, Sound, Active, RunsItsSlot,
         FitsSlot, HasArtifacts, Assembling
    <3> QED
      BY <1>0, <1>2, <2>2, <3>3, GoingOn DEF TryLock, PlanSteps
  <2> QED
    BY <1>2, <2>1, <2>2 DEF TryLock
<1>3. CASE ScanSlot(e)
  <2>1. PlanGoto(e, "scan") /\ planPc' = planPc /\ planPc[e] = "scan"
    BY <1>0, <1>3 DEF ScanSlot, PlanGoto, PlanTypeOK
  <2>2. Behind(e)'
    BY <1>0, <1>3, Advancing DEF ScanSlot, Sound, Active
  <2>3. Sound(e)'
    BY <1>0, <1>3, <2>1, <2>2 DEF ScanSlot, Sound, Active, RunsItsSlot,
       FitsSlot, HasArtifacts, Assembling
  <2> QED
    BY <1>0, <1>3, <2>1, <2>3, GoingOn DEF ScanSlot, PlanSteps
<1>4. CASE AcceptPrefix(e)
  <2>1. PICK step \in {"BASELINE", "slot"} : PlanGoto(e, step) /\ (step = "BASELINE" <=> at[e] = N + 1)
    BY <1>4 DEF AcceptPrefix
  <2>2. at[e] \in 1..(N + 1) /\ planPc'[e] = step /\ Behind(e)
    BY <1>0, <1>4, <2>1 DEF AcceptPrefix, PlanTypeOK, PlanGoto, Sound, Active
  <2>3. Behind(e)' /\ (at[e] # N + 1 => at[e] \in Slots)
    BY <1>4, <2>2, ScheduleAssumption DEF AcceptPrefix, Behind, Slots
  <2>4. Sound(e)'
    BY <1>0, <1>4, <2>1, <2>2, <2>3 DEF AcceptPrefix, Sound, Active,
       RunsItsSlot, FitsSlot, HasArtifacts, Assembling
  <2> QED
    BY <1>0, <1>4, <2>1, <2>4, GoingOn DEF AcceptPrefix, PlanSteps
<1>5. CASE RefusePrefix(e)
  BY <1>5, GivingUp DEF RefusePrefix
<1>6. CASE ReserveSlot(e)
  <2>1. at[e] \in Slots /\ run[at[e]] = "PENDING" /\ planPc'[e] = "running"
    BY <1>0, <1>6 DEF ReserveSlot, EnterPlan, Sound, FitsSlot, PlanTypeOK, PlanGoto
  <2>2. Kept /\ WorkersAreOpen'
    BY <1>0, <1>6, <2>1 DEF ReserveSlot, Kept, WorkersAreOpen, PlanTypeOK
  <2>3. Behind(e)'
    BY <1>0, <1>6, <2>2, StillBehind DEF ReserveSlot, EnterPlan, Sound, Active
  <2>4. /\ \A i \in Slots : worker'[i] = IF i = at[e] THEN e ELSE worker[i]
        /\ worker[at[e]] = Nobody
    BY <1>0, <1>6, <2>1 DEF ReserveSlot, PlanTypeOK, WorkersAreOpen
  <2>5. Sound(e)'
    <3>1. planPc[e] = "slot" /\ lock = e /\ at' = at
      BY <1>0, <1>6 DEF ReserveSlot, EnterPlan, Sound, Active
    <3>2. RunsItsSlot(e)'
      BY <1>0, <2>1, <2>4, <3>1 DEF Sound, RunsItsSlot
    <3> QED
      BY <1>0, <1>6, <2>1, <2>3, <3>1, <3>2
      DEF ReserveSlot, Sound, Active, FitsSlot, HasArtifacts, Assembling
  <2> QED
    BY <1>0, <1>6, <2>2, <2>4, <2>5, GoingOn, ExecutorAssumption
    DEF ReserveSlot, PlanSteps
<1>7. CASE FindReserved(e)
  BY <1>7, GivingUp DEF FindReserved, EnterPlan
<1>8. CASE CompleteSlot(e)
  <2>1. at[e] \in Slots /\ planPc'[e] = "check" /\ worker[at[e]] = e
    BY <1>0, <1>8 DEF CompleteSlot, Sound, RunsItsSlot, FitsSlot, PlanTypeOK, PlanGoto
  <2>2. /\ Kept /\ run'[at[e]] = "COMPLETE" /\ worker'[at[e]] = Nobody
        /\ \A i \in Slots \ {at[e]} : run'[i] = run[i] /\ worker'[i] = worker[i]
    BY <1>0, <1>8, <2>1, Ending, ExecutorAssumption DEF CompleteSlot
  <2>3. Behind(e)'
    BY <1>0, <1>8, <2>2, StillBehind DEF CompleteSlot, Sound, Active
  <2>4. WorkersAreOpen'
    BY <1>0, <2>2 DEF WorkersAreOpen
  <2>5. Sound(e)'
    BY <1>0, <1>8, <2>1, <2>2, <2>3, ExecutorAssumption
    DEF CompleteSlot, Sound, Active, RunsItsSlot, FitsSlot, HasArtifacts,
        Assembling
  <2> QED
    BY <1>0, <1>8, <2>1, <2>2, <2>4, <2>5, GoingOn, ExecutorAssumption
    DEF CompleteSlot, PlanSteps
<1>9. CASE CheckSlot(e)
  <2>1. CASE Leave(e)
    BY <1>9, <2>1, GivingUp DEF CheckSlot
  <2>2. CASE /\ InOrder(at[e], last[e]) /\ Advance(e, at[e])
             /\ PlanGoto(e, IF at[e] = N THEN "BASELINE" ELSE "slot")
             /\ UNCHANGED <<lock, cancelled>>
    <3>1. at[e] \in Slots /\ run[at[e]] = "COMPLETE" /\ Behind(e) /\ lock = e
      BY <1>0, <1>9 DEF CheckSlot, Sound, Active, FitsSlot
    <3>2. Behind(e)' /\ at'[e] = at[e] + 1
      BY <1>0, <1>9, <2>2, <3>1, Advancing DEF CheckSlot, Advance, PlanTypeOK
    <3>3. PICK step \in {"BASELINE", "slot"} : PlanGoto(e, step) /\ (step = "BASELINE" <=> at[e] = N)
      BY <2>2
    <3>4. planPc'[e] = step /\ (at[e] # N => at'[e] \in Slots)
      BY <1>0, <3>1, <3>2, <3>3, ScheduleAssumption DEF PlanTypeOK, PlanGoto, Slots
    <3>5. Sound(e)'
      BY <1>0, <1>9, <2>2, <3>1, <3>2, <3>3, <3>4
      DEF CheckSlot, Sound, Active, RunsItsSlot, FitsSlot, HasArtifacts,
          Assembling
    <3> QED
      BY <1>0, <1>9, <2>2, <3>1, <3>3, <3>5, GoingOn DEF CheckSlot, PlanSteps
  <2> QED
    BY <1>9, <2>1, <2>2 DEF CheckSlot
<1>10. CASE GetTrialSet(e, "BASELINE", "CANDIDATE")
  <2>1. CASE Leave(e) /\ UNCHANGED sets
    BY <1>10, <2>1, GivingUp DEF GetTrialSet, EnterPlan
  <2>2. CASE /\ Fits("BASELINE")
             /\ sets' = [sets EXCEPT !["BASELINE"] = IF @ = "none" THEN "planned" ELSE @]
             /\ PlanGoto(e, "CANDIDATE") /\ UNCHANGED <<lock, at, last, cancelled>>
    <3>1. /\ sets'["BASELINE"] = "planned" /\ planPc[e] = "BASELINE" /\ planPc'[e] = "CANDIDATE"
          /\ \A arm \in Arms : sets[arm] = "planned" => sets'[arm] = "planned"
      BY <1>0, <1>10, <2>2 DEF GetTrialSet, EnterPlan, Fits, PlanTypeOK, Arms, PlanGoto
    <3>2. Behind(e)'
      BY <1>0, <1>10, <2>2, <3>1, StillBehind DEF GetTrialSet, Sound, Active
    <3>3. Sound(e)'
      BY <1>0, <1>10, <2>2, <3>1, <3>2 DEF GetTrialSet, Arms, Sound, Active,
         RunsItsSlot, FitsSlot, HasArtifacts, Assembling
    <3> QED
      BY <1>0, <1>10, <2>2, <3>1, <3>3, GoingOn DEF GetTrialSet, PlanSteps
  <2> QED
    BY <1>10, <2>1, <2>2 DEF GetTrialSet
<1>11. CASE GetTrialSet(e, "CANDIDATE", "match")
  <2>1. CASE Leave(e) /\ UNCHANGED sets
    BY <1>11, <2>1, GivingUp DEF GetTrialSet, EnterPlan
  <2>2. CASE /\ Fits("CANDIDATE")
             /\ sets' = [sets EXCEPT !["CANDIDATE"] = IF @ = "none" THEN "planned" ELSE @]
             /\ PlanGoto(e, "match") /\ UNCHANGED <<lock, at, last, cancelled>>
    <3>1. /\ sets'["CANDIDATE"] = "planned" /\ planPc[e] = "CANDIDATE" /\ planPc'[e] = "match"
          /\ \A arm \in Arms : sets[arm] = "planned" => sets'[arm] = "planned"
      BY <1>0, <1>11, <2>2 DEF GetTrialSet, EnterPlan, Fits, PlanTypeOK, Arms, PlanGoto
    <3>2. Behind(e)'
      BY <1>0, <1>11, <2>2, <3>1, StillBehind DEF GetTrialSet, Sound, Active
    <3>3. Sound(e)'
      BY <1>0, <1>11, <2>2, <3>1, <3>2 DEF GetTrialSet, Arms, Sound, Active,
         RunsItsSlot, FitsSlot, HasArtifacts, Assembling
    <3> QED
      BY <1>0, <1>11, <2>2, <3>1, <3>3, GoingOn DEF GetTrialSet, PlanSteps
  <2> QED
    BY <1>11, <2>1, <2>2 DEF GetTrialSet
<1>12. CASE MatchResults(e)
  <2>1. CASE Leave(e)
    BY <1>12, <2>1, GivingUp DEF MatchResults, EnterPlan
  <2>2. ASSUME NEW step \in {"create", "final"}, PlanGoto(e, step),
               step = "final" => results # {},
               UNCHANGED <<lock, at, last, cancelled>>
        PROVE  IInv'
    <3>1. planPc[e] = "match" /\ planPc'[e] = step
      BY <1>0, <1>12, <2>2 DEF MatchResults, EnterPlan, PlanTypeOK, PlanGoto
    <3>2. Behind(e)'
      BY <1>0, <1>12, <2>2, <3>1, StillBehind DEF MatchResults, Sound, Active
    <3>3. Sound(e)'
      BY <1>0, <1>12, <2>2, <3>1, <3>2 DEF MatchResults, Sound, Active,
         RunsItsSlot, FitsSlot, HasArtifacts, Assembling
    <3> QED
      BY <1>0, <1>12, <2>2, <3>3, GoingOn DEF MatchResults, PlanSteps
  <2>3. Cardinality({}) = 0
    BY FS_EmptySet
  <2> QED
    BY <1>12, <2>1, <2>2, <2>3 DEF MatchResults
<1>13. CASE CreateResult(e)
  <2>1. CASE Leave(e) /\ UNCHANGED results
    BY <1>13, <2>1, GivingUp DEF CreateResult
  <2>2. CASE /\ results' = results \cup {"planned"} /\ PlanGoto(e, "final")
             /\ UNCHANGED <<lock, at, last, cancelled>>
    <3>1. planPc[e] = "create" /\ planPc'[e] = "final" /\ results' # {}
      BY <1>0, <1>13, <2>2 DEF CreateResult, PlanTypeOK, PlanGoto
    <3>2. Behind(e)'
      BY <1>0, <1>13, <2>2, <3>1, StillBehind DEF CreateResult, Sound, Active
    <3>3. Sound(e)'
      BY <1>0, <1>13, <2>2, <3>1, <3>2 DEF CreateResult, Sound, Active,
         RunsItsSlot, FitsSlot, HasArtifacts, Assembling
    <3> QED
      BY <1>0, <1>13, <2>2, <3>3, GoingOn DEF CreateResult, PlanSteps
  <2> QED
    BY <1>13, <2>1, <2>2 DEF CreateResult
<1>14. CASE Return(e)
  <2>1. planPc[e] = "final" /\ Leave(e)
    BY <1>14 DEF Return, EnterPlan
  <2>2. EvidenceComplete
    <3>1. at[e] = N + 1 /\ Behind(e)
      BY <1>0, <2>1 DEF Sound, Active, FitsSlot, Assembling
    <3>2. 1..(at[e] - 1) = Slots
      BY <3>1, ScheduleAssumption DEF Slots
    <3>3. \A i \in Slots : 1..(i - 1) \subseteq Slots
      BY ScheduleAssumption DEF Slots
    <3> QED
      BY <3>1, <3>2 DEF Behind, EvidenceComplete
  <2>3. (\A arm \in Arms : sets[arm] = "planned") /\ results # {}
    BY <1>0, <2>1 DEF Sound, HasArtifacts, Arms
  <2>4. ReportIsEarned'
    BY <1>14, <2>2, <2>3 DEF Return, ReportIsEarned, EvidenceComplete
  <2>5. \A i \in Slots : worker'[i] # e
    BY <1>0, <1>14, <2>1 DEF Return, Sound, RunsItsSlot
  <2> QED
    BY <1>0, <1>14, <2>1, <2>4, <2>5, GivingWay DEF Return
<1>15. CASE PlanCancelled(e)
  BY <1>15, GivingUp DEF PlanCancelled
<1> QED
  BY <1>1, <1>2, <1>3, <1>4, <1>5, <1>6, <1>7, <1>8, <1>9, <1>10, <1>11,
     <1>12, <1>13, <1>14, <1>15
  DEF Execute

LEMMA FaultPreserves ==
  ASSUME IInv, PlanTypeOK', NEW e \in Executor,
         FailSlot(e) \/ FailPlan(e) \/ CrashExecutor(e) \/ CancelPlan(e)
  PROVE  IInv'
<1> USE DEF runs, artifacts, locals
<1>0. PlanTypeOK /\ WorkersAreOpen /\ ReportIsEarned /\ Sound(e)
  BY DEF IInv
<1>1. CASE FailSlot(e)
  <2>1. at[e] \in Slots /\ worker[at[e]] = e /\ worker[at[e]] # Nobody
    BY <1>0, <1>1, ExecutorAssumption DEF FailSlot, Sound, RunsItsSlot, FitsSlot
  <2>2. PICK state : Ends(at[e], state)
    BY <1>1 DEF FailSlot
  <2>3. /\ Kept /\ worker'[at[e]] = Nobody
        /\ \A i \in Slots \ {at[e]} : run'[i] = run[i] /\ worker'[i] = worker[i]
    BY <1>0, <2>1, <2>2, Ending
  <2>4. WorkersAreOpen'
    BY <1>0, <2>3 DEF WorkersAreOpen
  <2>5. ReportIsEarned'
    BY <1>0, <1>1, <2>3, StillEarned DEF FailSlot
  <2>6. /\ \A i \in Slots : worker'[i] # e
        /\ \A i \in Slots, f \in Executor \ {e} : worker'[i] = f <=> worker[i] = f
    BY <1>0, <2>1, <2>3, ExecutorAssumption DEF Sound, RunsItsSlot
  <2> QED
    BY <1>1, <2>3, <2>4, <2>5, <2>6, GivingWay DEF FailSlot
<1>2. CASE FailPlan(e)
  <2>1. Kept /\ WorkersAreOpen'
    BY <1>0, <1>2 DEF FailPlan, PlanTypeOK, Kept, WorkersAreOpen
  <2>2. ReportIsEarned'
    BY <1>0, <1>2, <2>1, StillEarned DEF FailPlan
  <2>3. \A i \in Slots : worker'[i] # e
    BY <1>0, <1>2 DEF FailPlan, Sound, RunsItsSlot
  <2> QED
    BY <1>2, <2>1, <2>2, <2>3, GivingWay DEF FailPlan
<1>3. CASE CrashExecutor(e)
  <2>1. \A i \in Slots : worker'[i] = IF worker[i] = e THEN Nobody ELSE worker[i]
    BY <1>3 DEF CrashExecutor
  <2>2. Kept /\ WorkersAreOpen'
    BY <1>0, <1>3, <2>1 DEF CrashExecutor, Kept, WorkersAreOpen
  <2>3. ReportIsEarned'
    BY <1>0, <1>3, <2>2, StillEarned DEF CrashExecutor
  <2> QED
    BY <1>3, <2>1, <2>2, <2>3, GivingWay, ExecutorAssumption DEF CrashExecutor
<1>4. CASE CancelPlan(e)
  BY <1>0, <1>4, ScheduleAssumption DEF CancelPlan, IInv,
     WorkersAreOpen, ReportIsEarned, EvidenceComplete,
     Behind, Sound, Active, RunsItsSlot, FitsSlot, HasArtifacts, Assembling
<1> QED
  BY <1>1, <1>2, <1>3, <1>4

LEMMA HandsPreserve ==
  ASSUME IInv, PlanTypeOK', Hands
  PROVE  IInv'
<1> USE DEF runs, artifacts, locals
<1>0. PlanTypeOK /\ WorkersAreOpen /\ ReportIsEarned /\ \A e \in Executor : Sound(e)
  BY DEF IInv
<1>1. ASSUME Kept, WorkersAreOpen', UNCHANGED <<lock, planPc, at, last, reports>>,
             \A i \in Slots, f \in Executor : worker'[i] = f <=> worker[i] = f,
             \A arm \in Arms : sets[arm] = "planned" => sets'[arm] = "planned",
             results \subseteq results'
      PROVE  IInv'
  <2>1. ReportIsEarned'
    BY <1>0, <1>1, StillEarned
  <2>2. ASSUME NEW e \in Executor PROVE Sound(e)'
    <3>1. Active(e)' => lock' = e /\ Behind(e)'
      BY <1>0, <1>1, StillBehind DEF Sound, Active
    <3>2. RunsItsSlot(e)'
      BY <1>0, <1>1 DEF Sound, RunsItsSlot
    <3>3. FitsSlot(e)' /\ HasArtifacts(e)'
      BY <1>0, <1>1 DEF Sound, Active, FitsSlot, HasArtifacts, Kept, Arms
    <3> QED
      BY <3>1, <3>2, <3>3 DEF Sound
  <2> QED
    BY <1>1, <2>1, <2>2 DEF IInv
<1>2. ASSUME NEW i \in Slots, RunByHand(i) PROVE IInv'
  <2>1. Kept /\ WorkersAreOpen'
    BY <1>0, <1>2 DEF RunByHand, Kept, PlanTypeOK, WorkersAreOpen
  <2>2. \A j \in Slots, f \in Executor : worker'[j] = f <=> worker[j] = f
    BY <1>0, <1>2, ExecutorAssumption DEF RunByHand, PlanTypeOK, WorkersAreOpen
  <2> QED
    BY <1>1, <1>2, <2>1, <2>2 DEF RunByHand
<1>3. ASSUME NEW i \in Slots, EndByHand(i) PROVE IInv'
  <2>1. PICK state : Ends(i, state)
    BY <1>3 DEF EndByHand
  <2>2. worker[i] = Operator /\ worker[i] # Nobody
    BY <1>3 DEF EndByHand, Operator, Nobody
  <2>3. /\ Kept /\ worker'[i] = Nobody
        /\ \A j \in Slots \ {i} : run'[j] = run[j] /\ worker'[j] = worker[j]
    BY <1>0, <2>1, <2>2, Ending
  <2>4. WorkersAreOpen'
    BY <1>0, <2>3 DEF WorkersAreOpen
  <2>5. \A j \in Slots, f \in Executor : worker'[j] = f <=> worker[j] = f
    BY <2>2, <2>3, ExecutorAssumption
  <2> QED
    BY <1>1, <1>3, <2>3, <2>4, <2>5 DEF EndByHand
<1>4. ASSUME NEW arm \in Arms, NEW kind \in {"planned", "misfit"}, TrialSetByHand(arm, kind)
      PROVE  IInv'
  BY <1>0, <1>1, <1>4 DEF TrialSetByHand, PlanTypeOK, Kept, WorkersAreOpen
<1>5. ASSUME NEW kind \in ResultKinds, ResultByHand(kind) PROVE IInv'
  BY <1>0, <1>1, <1>5 DEF ResultByHand, Kept, WorkersAreOpen
<1> QED
  BY <1>2, <1>3, <1>4, <1>5 DEF Hands

LEMMA InitEstablishes == PlanInit => IInv
<1> SUFFICES ASSUME PlanInit PROVE IInv
  OBVIOUS
<1>1. PlanTypeOK
  BY ScheduleAssumption, FaultAssumption DEF PlanInit, PlanTypeOK, RunStates, PlanSteps,
     ResultKinds, Arms, CreatedAt
<1>2. WorkersAreOpen /\ ReportIsEarned
  BY DEF PlanInit, WorkersAreOpen, ReportIsEarned
<1>3. \A e \in Executor : Sound(e)
  BY ExecutorAssumption DEF PlanInit, Sound, Active, RunsItsSlot, FitsSlot,
     HasArtifacts, Assembling
<1> QED
  BY <1>1, <1>2, <1>3 DEF IInv

LEMMA StepPreserves == IInv /\ [PlanNext]_planVars => IInv'
<1> SUFFICES ASSUME IInv, [PlanNext]_planVars PROVE IInv'
  OBVIOUS
<1>1. PlanTypeOK'
  BY TypeStep DEF IInv, Sound
<1>2. CASE PlanNext
  BY <1>1, <1>2, ExecutorPreserves, FaultPreserves, HandsPreserve DEF PlanNext
<1>3. CASE UNCHANGED planVars
  BY <1>3 DEF planVars, runs, artifacts, locals, IInv, PlanTypeOK, WorkersAreOpen,
     ReportIsEarned,
     EvidenceComplete, Behind, Sound, Active, RunsItsSlot, FitsSlot, HasArtifacts, Assembling
<1> QED
  BY <1>2, <1>3

-----------------------------------------------------------------------------
(* Every value keeps its type, for every number of executors and slots. *)
THEOREM TypeCorrect == PlanSpec => []PlanTypeOK
<1>1. IInv => PlanTypeOK
  BY DEF IInv
<1> QED
  BY <1>1, InitEstablishes, StepPreserves, PTL DEF PlanSpec

(* At most one executor runs a slot, behind the plan's lock and with the   *)
(* schedule complete and in order before that slot: execute_comparison_plan*)
(* under _execution_lock.                                                  *)
THEOREM SlotsInOrder == PlanSpec => []SlotsRunInOrder
<1>1. IInv => SlotsRunInOrder
  <2> SUFFICES ASSUME IInv, NEW i \in Slots, NEW e \in Executor, worker[i] = e
               PROVE  /\ lock = e
                      /\ \A j \in Slots : worker[j] \in Executor => i = j
                      /\ \A j \in 1..(i - 1) :
                           /\ run[j] = "COMPLETE"
                           /\ \A k \in 1..(j - 1) : start[k] < start[j]
    BY DEF SlotsRunInOrder
  <2>1. lock = e /\ Behind(e) /\ i = at[e]
    BY DEF IInv, Sound, Active, RunsItsSlot
  <2>2. ASSUME NEW j \in Slots, worker[j] \in Executor PROVE i = j
    <3>1. lock = worker[j] /\ j = at[worker[j]]
      BY <2>2 DEF IInv, Sound, Active, RunsItsSlot
    <3> QED
      BY <2>1, <3>1
  <2> QED
    BY <2>1, <2>2 DEF Behind
<1> QED
  BY <1>1, InitEstablishes, StepPreserves, PTL DEF PlanSpec

(* A returned report stands for a complete, ordered schedule and its       *)
(* planned artifacts, whatever operators do by hand.                       *)
THEOREM ReportsAreEarned == PlanSpec => []ReportIsEarned
<1>1. IInv => ReportIsEarned
  BY DEF IInv
<1> QED
  BY <1>1, InitEstablishes, StepPreserves, PTL DEF PlanSpec

(* Resuming a plan never starts again, or alters, what was started before. *)
THEOREM RunsAreNotRetried == PlanSpec => NoRetry
<1>1. IInv /\ [PlanNext]_planVars =>
        [\A i \in Slots : run[i] # "PENDING" /\ worker[i] = Nobody =>
           run'[i] = run[i] /\ start'[i] = start[i]]_planVars
  <2> SUFFICES ASSUME IInv, PlanNext, NEW i \in Slots, run[i] # "PENDING", worker[i] = Nobody
               PROVE  run'[i] = run[i] /\ start'[i] = start[i]
    OBVIOUS
  <2> USE DEF runs, artifacts, locals
  <2>1. ASSUME NEW j \in Slots, j # i, NEW state, Ends(j, state)
        PROVE  run'[i] = run[i] /\ start'[i] = start[i]
    BY <2>1 DEF Ends, IInv, PlanTypeOK
  <2>2. ASSUME NEW e \in Executor, CompleteSlot(e) \/ FailSlot(e)
        PROVE  run'[i] = run[i] /\ start'[i] = start[i]
    <3>1. at[e] \in Slots /\ at[e] # i
      BY <2>2, ExecutorAssumption
      DEF IInv, Sound, RunsItsSlot, FitsSlot, CompleteSlot, FailSlot
    <3> QED
      BY <2>1, <2>2, <3>1 DEF CompleteSlot, FailSlot
  <2>3. ASSUME NEW e \in Executor, ReserveSlot(e) \/ FailPlan(e)
        PROVE  run'[i] = run[i] /\ start'[i] = start[i]
    BY <2>3 DEF IInv, PlanTypeOK, ReserveSlot, FailPlan
  <2>4. ASSUME NEW j \in Slots, RunByHand(j) \/ EndByHand(j)
        PROVE  run'[i] = run[i] /\ start'[i] = start[i]
    <3>1. CASE RunByHand(j)
      BY <3>1 DEF IInv, PlanTypeOK, RunByHand
    <3>2. CASE EndByHand(j)
      BY <2>1, <3>2 DEF EndByHand, Operator, Nobody
    <3> QED
      BY <2>4, <3>1, <3>2
  <2>5. ASSUME NEW e \in Executor,
               \/ Begin(e) \/ TryLock(e) \/ ScanSlot(e) \/ AcceptPrefix(e) \/ RefusePrefix(e)
               \/ FindReserved(e) \/ CheckSlot(e)
               \/ GetTrialSet(e, "BASELINE", "CANDIDATE") \/ GetTrialSet(e, "CANDIDATE", "match")
               \/ MatchResults(e) \/ CreateResult(e) \/ Return(e) \/ PlanCancelled(e)
               \/ CrashExecutor(e) \/ CancelPlan(e)
        PROVE  UNCHANGED <<run, start>>
    BY <2>5 DEF Begin, TryLock, ScanSlot, AcceptPrefix, RefusePrefix,
       FindReserved, CheckSlot,
         GetTrialSet, MatchResults, CreateResult, Return, PlanCancelled, CrashExecutor, CancelPlan
  <2>6. ASSUME \/ \E arm \in Arms, kind \in {"planned", "misfit"} : TrialSetByHand(arm, kind)
               \/ \E kind \in ResultKinds : ResultByHand(kind)
        PROVE  UNCHANGED <<run, start>>
    BY <2>6 DEF TrialSetByHand, ResultByHand
  <2> QED
    BY <2>2, <2>3, <2>4, <2>5, <2>6 DEF PlanNext, Execute, Hands
<1> QED
  BY <1>1, InitEstablishes, StepPreserves, PTL DEF PlanSpec, NoRetry

-----------------------------------------------------------------------------
(* The read-only progress, where nobody interferes by hand. *)

(* What an executor that is past the scan has before it has not begun.     *)
Ahead(e) ==
  /\ planPc[e] = "slot" => \A i \in Slots : i >= at[e] => run[i] = "PENDING"
  /\ planPc[e] \in {"running", "check"} => \A i \in Slots : i > at[e] => run[i] = "PENDING"

ProgressIInv ==
  /\ \A e \in Executor : Ahead(e)
  /\ \A i \in Slots : worker[i] # Operator

(* One executor moves; whoever changes a run has the plan to itself.       *)
LEMMA OneMoves ==
  ASSUME IInv, ProgressIInv, NEW e \in Executor,
         \A f \in Executor \ {e} : planPc'[f] = planPc[f] /\ at'[f] = at[f],
         run' = run \/ Active(e),
         Ahead(e)',
         \A i \in Slots : worker'[i] \in {worker[i], e, Nobody}
  PROVE  ProgressIInv'
<1>1. ASSUME NEW f \in Executor \ {e} PROVE Ahead(f)'
  <2>1. Ahead(f)
    BY DEF ProgressIInv
  <2>2. CASE run' = run
    BY <2>1, <2>2 DEF Ahead
  <2>3. CASE Active(e)
    <3>1. ~Active(f)
      BY <2>3 DEF IInv, Sound
    <3> QED
      BY <3>1 DEF Active, Ahead
  <2> QED
    BY <2>2, <2>3
<1>2. \A i \in Slots : worker'[i] # Operator
  BY ExecutorAssumption DEF ProgressIInv, Nobody, Operator
<1> QED
  BY <1>1, <1>2 DEF ProgressIInv

(* An executor that leaves has nothing before it. *)
LEMMA LeaversMove ==
  ASSUME IInv, ProgressIInv, NEW e \in Executor, Leave(e),
         run' = run \/ Active(e),
         \A i \in Slots : worker'[i] \in {worker[i], e, Nobody}
  PROVE  ProgressIInv'
<1>1. Ahead(e)'
  BY Leaving DEF IInv, Ahead
<1> QED
  BY <1>1, Leaving, OneMoves DEF IInv

LEMMA GoersMove ==
  ASSUME IInv, ProgressIInv, NEW e \in Executor, NEW step, PlanGoto(e, step), at' = at,
         run' = run \/ Active(e),
         step = "slot" => \A i \in Slots : i >= at[e] => run'[i] = "PENDING",
         step \in {"running", "check"} => \A i \in Slots : i > at[e] => run'[i] = "PENDING",
         \A i \in Slots : worker'[i] \in {worker[i], e, Nobody}
  PROVE  ProgressIInv'
<1>1. /\ planPc'[e] = step
      /\ \A f \in Executor \ {e} : planPc'[f] = planPc[f]
  BY DEF IInv, PlanTypeOK, PlanGoto
<1>2. Ahead(e)'
  BY <1>1 DEF Ahead
<1> QED
  BY <1>1, <1>2, OneMoves

LEMMA ExecutorsMove ==
  ASSUME IInv, ProgressIInv, NEW e \in Executor, Execute(e)
  PROVE  ProgressIInv'
<1> USE DEF runs, artifacts
<1>0. PlanTypeOK /\ Sound(e) /\ Ahead(e)
  BY DEF IInv, ProgressIInv
<1>1. CASE TryLock(e)
  BY <1>1, LeaversMove, GoersMove DEF TryLock
<1>2. CASE RefusePrefix(e) \/ FindReserved(e) \/ PlanCancelled(e) \/ Return(e)
  BY <1>2, LeaversMove DEF RefusePrefix, FindReserved, PlanCancelled, Return
<1>3. CASE ScanSlot(e)
  <2>1. /\ planPc[e] = "scan" /\ planPc' = planPc /\ UNCHANGED <<run, worker>>
        /\ \A f \in Executor \ {e} : at'[f] = at[f]
    BY <1>0, <1>3 DEF ScanSlot, Advance, PlanTypeOK
  <2> QED
    BY <2>1, OneMoves DEF Ahead
<1>4. CASE AcceptPrefix(e)
  <2>1. PICK step \in {"BASELINE", "slot"} : PlanGoto(e, step)
    BY <1>4 DEF AcceptPrefix
  <2>2. \A i \in Slots : i >= at[e] => run[i] = "PENDING"
    BY <1>0, <1>4, ScheduleAssumption DEF AcceptPrefix, Slots, PlanTypeOK
  <2> QED
    BY <1>4, <2>1, <2>2, GoersMove DEF AcceptPrefix
<1>5. CASE ReserveSlot(e)
  <2>1. planPc[e] = "slot" /\ at[e] \in Slots /\ PlanGoto(e, "running") /\ at' = at
    BY <1>0, <1>5 DEF ReserveSlot, EnterPlan, Sound, FitsSlot
  <2>2. /\ \A i \in Slots : i > at[e] => run'[i] = "PENDING"
        /\ \A i \in Slots : worker'[i] \in {worker[i], e}
    BY <1>0, <1>5, <2>1, ScheduleAssumption DEF ReserveSlot, PlanTypeOK, Ahead, Slots
  <2> QED
    BY <2>1, <2>2, GoersMove DEF Active
<1>6. CASE CompleteSlot(e)
  <2>1. /\ planPc[e] = "running" /\ at[e] \in Slots /\ PlanGoto(e, "check") /\ at' = at
        /\ Ends(at[e], "COMPLETE")
    BY <1>0, <1>6 DEF CompleteSlot, Sound, FitsSlot
  <2>2. /\ \A i \in Slots : i > at[e] => run'[i] = "PENDING"
        /\ \A i \in Slots : worker'[i] \in {worker[i], Nobody}
    BY <1>0, <2>1, ScheduleAssumption DEF Ends, PlanTypeOK, Ahead, Slots
  <2> QED
    BY <2>1, <2>2, GoersMove DEF Active
<1>7. CASE CheckSlot(e)
  <2>1. CASE Leave(e)
    BY <1>7, <2>1, LeaversMove DEF CheckSlot
  <2>2. CASE Advance(e, at[e]) /\ PlanGoto(e, IF at[e] = N THEN "BASELINE" ELSE "slot")
    <3>1. /\ at'[e] = at[e] + 1 /\ at[e] \in Nat
          /\ planPc'[e] = "BASELINE" \/ planPc'[e] = "slot"
          /\ \A f \in Executor \ {e} : at'[f] = at[f] /\ planPc'[f] = planPc[f]
      BY <1>0, <2>2, ScheduleAssumption DEF Advance, PlanGoto, PlanTypeOK
    <3>2. \A i \in Slots : i > at[e] => run[i] = "PENDING"
      BY <1>0, <1>7 DEF CheckSlot, Ahead
    <3>3. \A i \in Slots : i >= at'[e] => i > at[e]
      BY <3>1, ScheduleAssumption DEF Slots
    <3>4. Ahead(e)'
      BY <1>7, <3>1, <3>2, <3>3 DEF CheckSlot, Ahead
    <3> QED
      BY <1>7, <3>1, <3>4, OneMoves DEF CheckSlot
  <2> QED
    BY <1>7, <2>1, <2>2 DEF CheckSlot
<1>8. CASE GetTrialSet(e, "BASELINE", "CANDIDATE") \/ GetTrialSet(e, "CANDIDATE", "match")
  BY <1>8, LeaversMove, GoersMove DEF GetTrialSet
<1>9. CASE MatchResults(e) \/ CreateResult(e)
  BY <1>9, LeaversMove, GoersMove DEF MatchResults, CreateResult
<1> QED
  BY <1>1, <1>2, <1>3, <1>4, <1>5, <1>6, <1>7, <1>8, <1>9 DEF Execute

LEMMA FaultsMove ==
  ASSUME IInv, ProgressIInv, NEW e \in Executor,
         Begin(e) \/ FailSlot(e) \/ FailPlan(e) \/ CrashExecutor(e) \/ CancelPlan(e)
  PROVE  ProgressIInv'
<1> USE DEF runs, artifacts, locals
<1>0. PlanTypeOK /\ Sound(e) /\ Ahead(e)
  BY DEF IInv, ProgressIInv
<1>1. CASE Begin(e)
  BY <1>1, GoersMove DEF Begin
<1>2. CASE FailSlot(e)
  <2>1. /\ planPc[e] = "running" /\ at[e] \in Slots /\ Leave(e)
        /\ \E state : Ends(at[e], state)
    BY <1>0, <1>2 DEF FailSlot, Sound, FitsSlot
  <2>2. \A i \in Slots : worker'[i] \in {worker[i], Nobody}
    BY <1>0, <2>1 DEF Ends, PlanTypeOK
  <2> QED
    BY <2>1, <2>2, LeaversMove DEF Active
<1>3. CASE FailPlan(e)
  BY <1>3, LeaversMove DEF FailPlan, EnterPlan, Active
<1>4. CASE CrashExecutor(e)
  <2>1. \A i \in Slots : worker'[i] \in {worker[i], Nobody}
    BY <1>0, <1>4 DEF CrashExecutor, PlanTypeOK
  <2> QED
    BY <1>4, <2>1, LeaversMove DEF CrashExecutor
<1>5. CASE CancelPlan(e)
  BY <1>0, <1>5, OneMoves DEF CancelPlan, Ahead
<1> QED
  BY <1>1, <1>2, <1>3, <1>4, <1>5

LEMMA ProgressStays ==
  ASSUME ByHand = {}
  PROVE  IInv /\ ProgressIInv /\ [PlanNext]_planVars => ProgressIInv'
<1> SUFFICES ASSUME IInv, ProgressIInv, [PlanNext]_planVars PROVE ProgressIInv'
  OBVIOUS
<1>1. ASSUME NEW e \in Executor,
             \/ Begin(e) \/ Execute(e) \/ FailSlot(e) \/ FailPlan(e)
             \/ CrashExecutor(e) \/ CancelPlan(e)
      PROVE  ProgressIInv'
  BY <1>1, ExecutorsMove, FaultsMove
<1>2. ~Hands
  BY DEF Hands, RunByHand, EndByHand, TrialSetByHand, ResultByHand, ProgressIInv
<1>3. CASE UNCHANGED planVars
  BY <1>3 DEF planVars, runs, locals, ProgressIInv, Ahead
<1> QED
  BY <1>1, <1>2, <1>3 DEF PlanNext

(* The slot an executor is about is the one the progress names. *)
LEMMA NextIsTold ==
  ASSUME IInv, ProgressIInv, NEW e \in Executor, planPc[e] \in {"slot", "running"}
  PROVE  NextSequenceIndex = at[e]
<1>1. /\ PlanTypeOK /\ Active(e) /\ Behind(e) /\ at[e] \in Slots /\ Ahead(e)
      /\ planPc[e] = "running" => run[at[e]] = "OPEN"
  BY ExecutorAssumption
  DEF IInv, ProgressIInv, Sound, Active, FitsSlot, RunsItsSlot, WorkersAreOpen
<1> DEFINE k == at[e]
<1>2. /\ k \in Slots /\ N \in Nat /\ run[k] \in {"PENDING", "OPEN"}
      /\ \A i \in Slots : i > k => run[i] = "PENDING"
  BY <1>1, ScheduleAssumption DEF Ahead, Slots
<1>3. \A i \in Slots : i < k =>
        /\ run[i] = "COMPLETE" /\ CreatedAt < start[i]
        /\ \A j \in 1..(i - 1) : start[j] < start[i]
  BY <1>1, ScheduleAssumption DEF Behind, Slots
<1> HIDE DEF k
<1>4. \A i, j \in Slots : i = k \/ i < k \/ i > k
  BY <1>2 DEF Slots
<1>5. ASSUME NEW i \in Slots, NEW j \in 1..(i - 1)
      PROVE  j \in Slots /\ j < i /\ j \in Int /\ i \in Int /\ k \in Int
  BY <1>2, ScheduleAssumption DEF Slots
<1>6. ExactSchedulePrefix
  <2> SUFFICES ASSUME NEW i \in Slots
               PROVE  /\ run[i] # "PENDING" => \A j \in 1..(i - 1) : run[j] # "PENDING"
                      /\ run[i] = "COMPLETE" =>
                           /\ start[i] > CreatedAt
                           /\ \A j \in 1..(i - 1) : run[j] = "COMPLETE" /\ start[i] > start[j]
    BY DEF ExactSchedulePrefix
  <2>1. run[i] # "PENDING" => i <= k
    BY <1>2, <1>4 DEF Slots
  <2>2. run[i] = "COMPLETE" => i < k
    BY <1>2, <1>4 DEF Slots
  <2>3. \A j \in 1..(i - 1) : i <= k => run[j] = "COMPLETE"
    BY <1>2, <1>3, <1>5
  <2>4. /\ start[i] \in Nat /\ \A j \in 1..(i - 1) : start[j] \in Nat
    BY <1>1, <1>5, Clocks
  <2>5. i < k => start[i] > CreatedAt /\ \A j \in 1..(i - 1) : start[i] > start[j]
    BY <1>3, <2>4 DEF CreatedAt
  <2>6. i < k => i <= k
    BY <1>2 DEF Slots
  <2> QED
    BY <2>1, <2>2, <2>3, <2>5, <2>6
<1>7. PlanStatus \in {"NOT_STARTED", "PARTIAL"}
  <2>1. \A i \in Slots : run[i] \notin {"FAILED", "INTERRUPTED", "INVALID"}
    BY <1>2, <1>3, <1>4
  <2>2. run[k] # "COMPLETE"
    BY <1>2
  <2> QED
    BY <1>2, <1>6, <2>1, <2>2 DEF PlanStatus
<1>8. \A i \in Slots : /\ run[i] # "COMPLETE"
                       /\ \A j \in 1..(i - 1) : run[j] = "COMPLETE"
                       <=> i = k
  <2> SUFFICES ASSUME NEW i \in Slots
               PROVE  (run[i] # "COMPLETE" /\ \A j \in 1..(i - 1) : run[j] = "COMPLETE") <=> i = k
    OBVIOUS
  <2>1. i < k => run[i] = "COMPLETE"
    BY <1>3
  <2>2. i > k => k \in 1..(i - 1)
    BY <1>2, ScheduleAssumption DEF Slots
  <2>3. \A j \in 1..(k - 1) : run[j] = "COMPLETE"
    BY <1>2, <1>3, <1>5
  <2> QED
    BY <1>2, <1>4, <2>1, <2>2, <2>3
<1>9. NextSequenceIndex = k
  BY <1>2, <1>7, <1>8 DEF NextSequenceIndex
<1> QED
  BY <1>9 DEF k

(* Where nobody interferes by hand, inspect_comparison_execution names the *)
(* slot that the executor in the lock starts or runs, and shows complete   *)
(* evidence once artifacts are made of it: after the scan no slot from     *)
(* that one on has begun, however many executions failed or died before.   *)
THEOREM ProgressIsTold ==
  ASSUME ByHand = {}
  PROVE  PlanSpec => []ProgressIsTrue
<1>1. PlanInit => ProgressIInv
  BY ExecutorAssumption DEF PlanInit, ProgressIInv, Ahead, Nobody, Operator
<1>2. IInv /\ ProgressIInv => ProgressIsTrue
  <2> SUFFICES ASSUME IInv, ProgressIInv, NEW e \in Executor, planPc[e] \in Assembling
               PROVE  PlanStatus = "EVIDENCE_COMPLETE"
    BY NextIsTold DEF ProgressIsTrue, Assembling, Arms
  <2>1. Behind(e) /\ at[e] = N + 1 /\ PlanTypeOK
    BY DEF IInv, Sound, Active, FitsSlot, Assembling
  <2>2. \A i \in Slots :
          /\ i \in 1..(at[e] - 1) /\ start[i] \in Nat
          /\ \A j \in 1..(i - 1) : j \in Slots
    BY <2>1, Clocks, ScheduleAssumption DEF Slots
  <2>3. \A i \in Slots : /\ run[i] = "COMPLETE" /\ CreatedAt < start[i]
                         /\ \A j \in 1..(i - 1) : start[j] < start[i]
    BY <2>1, <2>2 DEF Behind
  <2>4. ExactSchedulePrefix
    BY <2>2, <2>3 DEF ExactSchedulePrefix, CreatedAt
  <2> QED
    BY <2>3, <2>4 DEF PlanStatus
<1> QED
  BY <1>1, <1>2, InitEstablishes, StepPreserves, ProgressStays, PTL DEF PlanSpec
=============================================================================
