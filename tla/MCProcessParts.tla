--------------------------- MODULE MCProcessParts ---------------------------
(***************************************************************************)
(* Six parts of the program that share no state of these models, checked   *)
(* side by side on small instances: each behaviour is one part's behaviour.*)
(***************************************************************************)
EXTENDS CancellationToken, ProcessSupervisor, LifecycleCoordinator,
        ComparisonExecutor, RunOrchestrator, RunWorkspace, TLC

CONSTANT Parts  \* the parts that a run is about

VARIABLE part   \* the part that runs in this behaviour

MCTimes == 0..4
MCShortTimes == 0..3
MCOneTime == {0}
MCBaseline == {1, 4}

(* The provider adapter looks its resource up by the deployment's identity; *)
(* LocalMockRuntimeAdapter.stop confirms when it is given no handle.       *)
MCFindable == {"provider"}

(* Processes are alike: the first call of a behaviour is a given one's. Of *)
(* the states that are no completion, FAILED is the one claimed valid.     *)
MCFirst == CHOOSE p \in Proc : TRUE
WorkspaceBound ==
  /\ stage = 0 => call'[MCFirst] = "reserve"
  /\ \A p \in Proc : goal'[p].valid => goal'[p].state \in {"COMPLETE", "FAILED"}

PartsInit ==
  /\ part \in Parts
  /\ TokenInit /\ ChildInit /\ DeployInit /\ PlanInit /\ Init /\ WorkspaceInit
  /\ part # "run" => mode = "fake"

PartsNext ==
  /\ UNCHANGED part
  /\ \/ /\ part = "token" /\ TokenNext
        /\ UNCHANGED <<childVars, deployVars, planVars, vars, workspaceVars>>
     \/ /\ part = "child" /\ ChildNext
        /\ UNCHANGED <<tokenVars, deployVars, planVars, vars, workspaceVars>>
     \/ /\ part = "deployment" /\ DeployNext
        /\ UNCHANGED <<tokenVars, childVars, planVars, vars, workspaceVars>>
     \/ /\ part = "plan" /\ PlanNext
        /\ UNCHANGED <<tokenVars, childVars, deployVars, vars, workspaceVars>>
     \/ /\ part = "run" /\ Next
        /\ UNCHANGED <<tokenVars, childVars, deployVars, planVars, workspaceVars>>
     \/ /\ part = "workspace" /\ WorkspaceNext
        /\ WorkspaceBound
        /\ UNCHANGED <<tokenVars, childVars, deployVars, planVars, vars>>

partsVars == <<part, tokenVars, childVars, deployVars, planVars, vars, workspaceVars>>

(* The fairness of each part, owed to the part that runs. *)
PartsFairness ==
  /\ \A t \in Thread : /\ WF_tokenVars(part = "token" /\ Running(t))
                       /\ SF_tokenVars(part = "token" /\ Acquiring(t))
  /\ WF_childVars(part = "child" /\ Supervise)
  /\ WF_childVars(part = "child" /\ Expire)
  /\ \A e \in Executor : WF_planVars(part = "plan" /\ (Begin(e) \/ Execute(e)))
  /\ WF_vars(part = "run" /\ Run)
  /\ \A p \in Proc :
       /\ WF_workspaceVars(part = "workspace"
            /\ (ReserveWrite(p) \/ FinishReserve(p) \/ FailReserve(p)))
       /\ WF_workspaceVars(part = "workspace" /\ ReadingState(p))
       /\ WF_workspaceVars(part = "workspace" /\ Persisting(p))
       /\ SF_workspaceVars(part = "workspace" /\ AcquireLock(p))

PartsSpec == PartsInit /\ [][PartsNext]_partsVars /\ PartsFairness

-----------------------------------------------------------------------------
(* CallReturns of ProcessSupervisor: a call of run_captured_process        *)
(* returns, whatever the child and its descendants do.                     *)
ChildCallReturns == part = "child" => CallReturns

(* PlanEnds of ComparisonExecutor: executions that are started again end   *)
(* with a report or with a plan that nobody may resume.                    *)
PlanComesToAnEnd == part = "plan" => PlanEnds

(* RunEnds of RunOrchestrator: every run ends, although its server may     *)
(* never do.                                                               *)
RunComesToAnEnd == part = "run" => RunEnds

(* CallsReturn of RunWorkspace: every call of the workspace returns.       *)
WorkspaceCallsReturn == part = "workspace" => CallsReturn
=============================================================================
