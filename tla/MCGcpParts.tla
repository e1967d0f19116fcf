------------------------------ MODULE MCGcpParts ------------------------------
(***************************************************************************)
(* The two families of leases that share no code of these models: the      *)
(* supervised one with its task, and the private campaign. Each behaviour  *)
(* is one part's behaviour:                                                *)
(*   "supervisor": the controller, one operator, one runner and the work;  *)
(*   "restart": a campaign whose watchdog may be started again;            *)
(*   "rescue": a campaign that an operator tries to clean up meanwhile.    *)
(***************************************************************************)
EXTENDS GcpSupervisor, GcpCampaign

CONSTANT Parts

VARIABLE part

PartsInit == part \in Parts /\ Init /\ CampaignInit

(* In a rescue the creator hangs in its create at the latest: that is when *)
(* an operator is needed, and the watchdog too.                            *)
CampaignPart ==
  /\ part # "supervisor" /\ CampaignNext /\ UNCHANGED vars
  /\ part = "restart" => \A o \in Rescuer : step'[o] = step[o]
  /\ part = "rescue" =>
       step'[Creator] # "created" /\ \A w \in Successor : step'[w] = step[w]

SupervisorPart == part = "supervisor" /\ Next /\ UNCHANGED campaignVars

PartsNext == UNCHANGED part /\ (SupervisorPart \/ CampaignPart)

partsVars == <<part, vars, campaignVars>>

(* The fairness of each part, owed to the part that runs. *)
PartsFairness ==
  /\ WF_vars(part = "supervisor" /\ Tick /\ UNCHANGED others)
  /\ \A r \in Runner :
       WF_vars(part = "supervisor" /\ (RunnerNext(r) \/ Attempt(r)) /\ UNCHANGED others)
  /\ \A o \in Operator :
       /\ SF_vars(part = "supervisor" /\ Recover(o))
       /\ WF_vars(part = "supervisor" /\ Calling(o))
       /\ WF_vars(part = "supervisor" /\ Maintain(o) /\ pc[o] # "idle")
  /\ \A w \in Cleaner :
       WF_campaignVars(part # "supervisor" /\ step[w] # "unborn" /\ Serve(w))
  /\ WF_campaignVars(part # "supervisor" /\ Pass)

PartsSpec == PartsInit /\ [][PartsNext]_partsVars /\ PartsFairness

-----------------------------------------------------------------------------
(* RecoveryConverges of GcpSupervisor: what the core journal confirmed is  *)
(* in the end what the sidecar and the task say, too.                      *)
JournalsConverge == part = "supervisor" => RecoveryConverges

(* CleanersEnd of GcpCampaign: a watchdog, or a successor of it, that has   *)
(* started comes to an end.                                                *)
CleanersComeToAnEnd == part # "supervisor" => CleanersEnd
=============================================================================
