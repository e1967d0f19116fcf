---------------------------- MODULE GcpCampaign ----------------------------
(***************************************************************************)
(* deployment/gcp_private_campaign_v2.py and                               *)
(* gcp_private_campaign_watchdog_v3.py with the live transport of          *)
(* gcp_private_campaign_google.py: one private campaign, its creator, the  *)
(* detached watchdog that may kill the creator and clean up for it, a      *)
(* watchdog restarted after both died, and operators who run               *)
(* recover-cleanup. They meet in the campaign's journal, one locked event  *)
(* at a time, and at the provider, without any lock.                       *)
(*                                                                         *)
(* A read of the journal is one step with the write or the choice that     *)
(* follows it, except where the code does something slow in between. The   *)
(* provider's machine is the instance with its disk, the disk alone, or    *)
(* nothing; an insert on its way may reach it late.                        *)
(***************************************************************************)
EXTENDS Integers, Sequences

CONSTANTS
  Creator,     \* the process that runs execute
  Watchdog,    \* the worker it activates
  Successor,   \* workers that resume_cleanup_only may start
  Rescuer,     \* calls of recover_exact_cleanup
  MaxMishaps   \* bound on crashes, failed calls and lost answers

Cleaner == {Watchdog} \cup Successor
Actor == {Creator} \cup Cleaner \cup Rescuer

ASSUME CampaignAssumption ==
  /\ MaxMishaps \in Nat
  /\ Creator \notin Cleaner \cup Rescuer /\ Watchdog \notin Successor
  /\ Cleaner \cap Rescuer = {}

VARIABLES
  last,      \* the journal: the state it recorded last
  marks,     \* the states in it that anyone asks for later
  phase,     \* _cleanup_resume_phase, and whether
  renewed,   \* its last event is an intent that says nothing new
  readable,  \* no half line at its end and no time that runs backward
  insert,    \* "none", "pending", "made" or "refused"
  machine,   \* "none", "vm" with its disk, or the "disk" alone
  sidecar,   \* the watchdog's own record: its last event
  told,      \* cleaners that have recorded RECOVERY_ATTEMPT
  step,      \* what each actor does next
  bound,     \* exact_resource_binding: it knows both identities
  retry,     \* retry_without_new_event
  todo,      \* the events it has decided to record, in order
  hour,      \* 0, 1: the execution deadline has passed, 2: the cleanup horizon
  mishaps

history == <<last, marks, phase, renewed, readable>>
site == <<insert, machine>>
worklog == <<sidecar, told>>
memory == <<bound, retry, todo>>
campaignVars == <<history, site, worklog, step, memory, hour, mishaps>>

-----------------------------------------------------------------------------
(* The journal. *)

(* The receipt of readiness counts as readiness, and what follows the      *)
(* hand-off as the hand-off: nobody treats them differently.               *)
Stages == <<"BOOT_DISK_IDENTITY_BOUND", "PROVIDER_BACKSTOP_VERIFIED",
            "READINESS_VERIFIED", "CAMPAIGN_HANDED_OFF">>

Stage == {Stages[i] : i \in DOMAIN Stages}
Late == "EXECUTION_DEADLINE_EXCEEDED"

(* CREATE_RECONCILING without the digest of the request, as those who bind *)
(* a machine they found record it.                                         *)
Bare == "CREATE_RECONCILING, bare"

Submitted == {"CREATE_SUBMITTED", "CREATE_RECONCILING", Bare, "CREATE_FENCE_PENDING"}
Deletions == {"INSTANCE_DELETE_SUBMITTED", "INSTANCE_DELETE_RECONCILING",
              "BOOT_DISK_DELETE_INTENT", "BOOT_DISK_DELETE_SUBMITTED"}
Cleaning == {"CLEANUP_INTENT", "CLEANUP_UNCONFIRMED"} \cup Deletions

(* _TRANSITIONS *)
Successors(s) ==
  CASE s = "NONE" -> {"CREATE_INTENT_DURABLE"}
    [] s = "CREATE_INTENT_DURABLE" -> {"CREATE_INTENT", "CLEANUP_INTENT", "BLOCKED"}
    [] s = "CREATE_INTENT" -> {"CREATE_CLAIMED", "CREATE_SUBMITTED",
         "CREATE_RECONCILING", "CLEANUP_INTENT", Late, "BLOCKED"}
    [] s = "CREATE_CLAIMED" -> {"CREATE_SUBMITTED", "CLEANUP_INTENT", "BLOCKED"}
    [] s = "CREATE_SUBMITTED" -> {"CREATE_FENCE_PENDING", "CREATE_RECONCILING",
         "CREATED", "BLOCKED"}
    [] s = "CREATE_FENCE_PENDING" -> {"CLEANUP_INTENT", "BLOCKED"}
    [] s \in {"CREATE_RECONCILING", Bare} -> {"CREATE_FENCE_PENDING", "CREATED"}
    [] s = "CREATED" -> {"INSTANCE_IDENTITY_BOUND", "CLEANUP_INTENT", "BLOCKED"}
    [] s = "INSTANCE_IDENTITY_BOUND" -> {Stages[1], "CLEANUP_INTENT", "BLOCKED"}
    [] s \in Stage ->
         {Stages[i + 1] : i \in {j \in 1..3 : Stages[j] = s}}
         \cup {"CLEANUP_INTENT", "BLOCKED"}
         \cup (IF s \in {Stages[1], Stages[2]} THEN {} ELSE {Late})
    [] s = "CLEANUP_INTENT" -> {"CREATE_RECONCILING", "CLEANUP_CONFIRMED",
         "INSTANCE_DELETE_SUBMITTED", "INSTANCE_DELETE_RECONCILING",
         "BOOT_DISK_DELETE_INTENT", Late, "CLEANUP_UNCONFIRMED", "BLOCKED"}
    [] s = "INSTANCE_DELETE_SUBMITTED" -> {"INSTANCE_DELETE_RECONCILING",
         "BOOT_DISK_DELETE_INTENT", Late, "CLEANUP_CONFIRMED",
         "CLEANUP_UNCONFIRMED", "BLOCKED"}
    [] s = "INSTANCE_DELETE_RECONCILING" -> {"BOOT_DISK_DELETE_INTENT", Late,
         "CLEANUP_CONFIRMED", "CLEANUP_UNCONFIRMED", "BLOCKED"}
    [] s = "BOOT_DISK_DELETE_INTENT" -> {"BOOT_DISK_DELETE_SUBMITTED", Late,
         "CLEANUP_UNCONFIRMED", "BLOCKED"}
    [] s = "BOOT_DISK_DELETE_SUBMITTED" -> {"CLEANUP_CONFIRMED", Late,
         "CLEANUP_UNCONFIRMED", "BLOCKED"}
    [] s = "CLEANUP_UNCONFIRMED" -> {"CREATE_RECONCILING", "CLEANUP_INTENT",
         "CLEANUP_CONFIRMED", "CLEANUP_UNCONFIRMED", "BLOCKED"}
    [] s = Late -> {"CREATE_RECONCILING", "CLEANUP_INTENT",
         "CLEANUP_UNCONFIRMED", "BLOCKED"}
    [] s = "BLOCKED" -> {"CLEANUP_INTENT", "CLEANUP_UNCONFIRMED", "BLOCKED"}
    [] s = "CLEANUP_CONFIRMED" -> {"CLEANUP_CONFIRMED"}

Mishap == mishaps < MaxMishaps /\ mishaps' = mishaps + 1
NoMishap == UNCHANGED mishaps
Move(a, to) == step' = [step EXCEPT ![a] = to]

Identities == {"INSTANCE_IDENTITY_BOUND", Stages[1]}
Early == {"CREATE_INTENT_DURABLE", "CREATE_INTENT", "CREATE_CLAIMED", "BLOCKED"}
Asked == {"CREATE_SUBMITTED", "CLEANUP_INTENT", "CLEANUP_CONFIRMED"} \cup Identities

Has(s) == s \in marks

(* What a later reader of the journal learns from one more event.          *)
MarksOf(s) ==
  (IF s \in Asked THEN {s} ELSE {}) \cup (IF s \notin Early THEN {"past"} ELSE {})
  \cup (IF s \in Identities /\ Has(s) THEN {"twice"} ELSE {})

Appended(s) ==
  /\ last' = s /\ marks' = marks \cup MarksOf(s)
  /\ renewed' = (s = "CLEANUP_INTENT" /\ last \in {"CLEANUP_UNCONFIRMED", Late})
  /\ phase' = CASE s \in {"CLEANUP_INTENT"} \cup Deletions /\ ~renewed' -> s
                [] s \notin {"CLEANUP_INTENT"} \cup Deletions /\ renewed -> last
                [] OTHER -> phase

CanRecord(s) ==
  readable /\ (IF s = Bare THEN "CREATE_RECONCILING" ELSE s) \in Successors(last)

(* append: the event, a refusal, or a failure that may leave half a line.  *)
(* The event's time was read before the lock was taken: it may be earlier  *)
(* than the last event's, and nobody accepts the journal from then on.     *)
Note(a, s, ok, no) ==
  \/ /\ CanRecord(s) /\ Appended(s) /\ Move(a, ok)
     /\ \/ NoMishap /\ UNCHANGED readable
        \/ Mishap /\ readable' = FALSE
  \/ /\ CanRecord(s) /\ UNCHANGED <<last, marks, phase, renewed>> /\ Move(a, no)
     /\ Mishap /\ readable' \in BOOLEAN
  \/ ~CanRecord(s) /\ UNCHANGED history /\ Move(a, no) /\ NoMishap

(* What a call or a process knew is gone with it.                          *)
Forget(a) ==
  /\ bound' = [bound EXCEPT ![a] = FALSE] /\ retry' = [retry EXCEPT ![a] = FALSE]

Skip(a, to) == UNCHANGED history /\ Move(a, to) /\ NoMishap
Slip(a, to) == UNCHANGED history /\ Move(a, to) /\ Mishap

(* revoke_create_for_cleanup: a create that may still reach the provider   *)
(* is not revoked.                                                         *)
Revoke(a, ok, no) ==
  CASE readable /\ last \in Cleaning -> Skip(a, ok)
    [] readable /\ last \in Submitted -> Skip(a, no)
    [] OTHER -> Note(a, "CLEANUP_INTENT", ok, no)

(* exact_resource_binding: both identities, one of each.                   *)
BindingInvalid == Has("twice")
BindingKnown == Identities \subseteq marks

CampaignInit ==
  /\ last = "NONE" /\ marks = {} /\ phase = "NONE" /\ renewed = FALSE
  /\ readable = TRUE
  /\ insert = "none" /\ machine = "none" /\ sidecar = "NONE" /\ told = {}
  /\ step = [a \in Actor |-> CASE a = Creator -> "new"
                               [] a \in Cleaner -> "unborn"
                               [] OTHER -> "idle"]
  /\ bound = [a \in Actor |-> FALSE] /\ retry = [a \in Actor |-> FALSE]
  /\ todo = [a \in Actor |-> <<>>]
  /\ hour = 0 /\ mishaps = 0

-----------------------------------------------------------------------------
(* execute, up to the insert. *)

Dead == step[Creator] = "gone"
Gone == {"unborn", "gone"}
Guarded == step[Watchdog] \notin Gone

(* The two events before anything exists; a failure ends the process.      *)
OpenCampaign ==
  \/ step[Creator] = "new" /\ Note(Creator, "CREATE_INTENT_DURABLE", "intent", "gone")
  \/ step[Creator] = "intent" /\ Note(Creator, "CREATE_INTENT", "arm", "gone")

(* _assert_execution_deadline, when it has passed.                         *)
Expire(to) ==
  IF readable /\ last # Late THEN Note(Creator, Late, to, to)
  ELSE Skip(Creator, to)

(* GcpPrivateCampaignWatchdog.activate, after the deadline was looked at;  *)
(* it may still pass before the activation looks at its own.               *)
ActivateCleaner ==
  /\ step[Creator] = "arm"
  /\ \/ hour = 0 /\ readable /\ NoMishap /\ UNCHANGED history
        /\ step' = [step EXCEPT ![Creator] = "await", ![Watchdog] = "starting"]
     \/ hour > 0 /\ Expire("block")
     \/ (hour > 0 \/ ~readable) /\ Skip(Creator, "block")
     \/ Slip(Creator, "block")

(* _CLEANUP_WORKER_CORE_STATES *)
WorkerStates(s) == s \notin {"NONE", "CREATE_INTENT_DURABLE", "CLEANUP_CONFIRMED"}

(* _assert_active, before the request is submitted, and                    *)
(* _assert_submitted_create after it.                                      *)
MayCreate(s) == readable /\ last = s /\ Guarded /\ hour = 0

(* Only a worker that is ready and nothing more is accepted; any other is  *)
(* killed, and so is one that takes too long to say so.                    *)
AwaitReady ==
  LET ready == sidecar = "READY" /\ Guarded /\ readable /\ WorkerStates(last) IN
  /\ step[Creator] = "await" /\ UNCHANGED history
  /\ \/ /\ ready /\ NoMishap
        /\ Move(Creator, IF MayCreate("CREATE_INTENT") THEN "claim" ELSE "block")
     \/ /\ step' = [step EXCEPT ![Creator] = "block", ![Watchdog] = "gone"]
        /\ IF ready \/ (sidecar = "NONE" /\ Guarded) THEN Mishap ELSE NoMishap

BlockCreate ==
  /\ step[Creator] = "block"
  /\ IF last = "BLOCKED" THEN Skip(Creator, "gone")
     ELSE Note(Creator, "BLOCKED", "gone", "gone")

(* The factory of the live transport takes the capability and claims the   *)
(* create. Without it nothing is written down.                             *)
ClaimCreate ==
  /\ step[Creator] = "claim"
  /\ IF MayCreate("CREATE_INTENT")
       THEN Note(Creator, "CREATE_CLAIMED", "guard", "gone")
       ELSE Skip(Creator, "gone")

BindTransport ==
  /\ step[Creator] = "guard"
  /\ \/ hour = 0 /\ Skip(Creator, IF readable THEN "submit" ELSE "block")
     \/ hour > 0 /\ Expire("block")
     \/ Slip(Creator, "block")

(* The pre-insert guards and begin_create_submission.                      *)
SubmitCreate ==
  /\ step[Creator] = "submit"
  /\ \/ hour > 0 /\ Expire("intend")
     \/ Slip(Creator, "intend")
     \/ /\ hour = 0
        /\ IF MayCreate("CREATE_CLAIMED")
             THEN Note(Creator, "CREATE_SUBMITTED", "recheck", "intend")
             ELSE Skip(Creator, "intend")

(* _assert_submitted_create and assert_create_submission_live, the last    *)
(* look before the provider: the process may be slow after it.             *)
Recheck ==
  /\ step[Creator] = "recheck"
  /\ Skip(Creator, IF MayCreate("CREATE_SUBMITTED") THEN "insert" ELSE "intend")

PrepareCreate ==
  /\ \/ OpenCampaign \/ ActivateCleaner \/ AwaitReady \/ BlockCreate
     \/ ClaimCreate \/ BindTransport \/ SubmitCreate \/ Recheck
  /\ UNCHANGED <<site, worklog, memory, hour>>

-----------------------------------------------------------------------------
(* execute, from the insert on. *)

SendInsert ==
  /\ step[Creator] = "insert" /\ insert' = "pending"
  /\ Skip(Creator, "answer")
  /\ UNCHANGED <<machine, memory>>

(* An answer that is lost, or an error, leaves the insert in doubt.        *)
AnswerInsert ==
  /\ step[Creator] = "answer"
  /\ \/ /\ insert # "refused"
        /\ Skip(Creator, IF readable /\ last = "CREATE_SUBMITTED" THEN "wait"
                         ELSE "intend")
     \/ insert = "refused" /\ Skip(Creator, "reconcile")
     \/ Slip(Creator, "reconcile") \/ Slip(Creator, "intend")
  /\ UNCHANGED <<site, memory>>

WaitCreate ==
  /\ step[Creator] = "wait"
  /\ \/ insert = "made" /\ Skip(Creator, "created")
     \/ insert = "refused" /\ Skip(Creator, "intend")
     \/ Slip(Creator, "intend") \/ Slip(Creator, "reconcile")
  /\ UNCHANGED <<site, memory>>

(* begin_create_reconciliation. The live transport would insert again      *)
(* under the same request, with a capability that is spent: the            *)
(* reconciliation it begins never succeeds.                                *)
ReconcileCreate ==
  /\ step[Creator] = "reconcile"
  /\ IF last = "CREATE_SUBMITTED"
       THEN Note(Creator, "CREATE_RECONCILING", "intend", "intend")
       ELSE Skip(Creator, "intend")
  /\ UNCHANGED <<site, memory>>

(* The identities are known from here on, written down or not.             *)
Observe ==
  /\ step[Creator] = "observe"
  /\ \/ /\ machine = "vm" /\ Skip(Creator, "name")
        /\ bound' = [bound EXCEPT ![Creator] = TRUE]
     \/ machine # "vm" /\ Skip(Creator, "intend") /\ UNCHANGED bound
     \/ Slip(Creator, "intend") /\ UNCHANGED bound
  /\ UNCHANGED <<site, retry, todo>>

RecordIdentity ==
  /\ \/ step[Creator] = "created" /\ Note(Creator, "CREATED", "observe", "intend")
     \/ step[Creator] = "name"
        /\ Note(Creator, "INSTANCE_IDENTITY_BOUND", Stages[1], "intend")
  /\ UNCHANGED <<site, memory>>

(* The disk's identity, the backstop, readiness and the hand-off.          *)
RecordStage ==
  /\ \E i \in 1..4 :
       /\ step[Creator] = Stages[i]
       /\ \/ i = 4 /\ hour > 0 /\ Expire("intend")
          \/ /\ i = 4 => hour = 0
             /\ Note(Creator, Stages[i], IF i = 4 THEN "intend" ELSE Stages[i + 1], "intend")
  /\ UNCHANGED <<site, memory>>

RunCreate ==
  /\ \/ SendInsert \/ AnswerInsert \/ WaitCreate \/ ReconcileCreate \/ Observe
     \/ RecordIdentity \/ RecordStage
  /\ UNCHANGED <<worklog, hour>>

-----------------------------------------------------------------------------
(* _cleanup_after_transport, for the creator, a cleaner or a rescuer.      *)

CleanupOver(a) == IF a = Creator THEN "gone" ELSE IF a \in Cleaner THEN "after" ELSE "done"
CleanupDone(a) == IF a \in Cleaner THEN "settle" ELSE CleanupOver(a)

Erasing == {"BOOT_DISK_DELETE_INTENT", "BOOT_DISK_DELETE_SUBMITTED"}

(* _ensure_cleanup_intent, and what it finds in the journal after it: an   *)
(* attempt that follows one left unconfirmed records no events on its way. *)
IntendCleanup(a) ==
  /\ step[a] = "intend"
  /\ Revoke(a, IF readable /\ bound[a] THEN "list" ELSE "fail", "fail")
  /\ retry' = [retry EXCEPT ![a] = last' = "CLEANUP_UNCONFIRMED"]

(* A deletion of the instance that was under way is taken up again.        *)
ChooseDelete(a) ==
  IF phase \notin Deletions \ Erasing THEN Skip(a, "delete")
  ELSE IF retry[a] \/ last = "INSTANCE_DELETE_RECONCILING" THEN Skip(a, "finish")
  ELSE Note(a, "INSTANCE_DELETE_RECONCILING", "finish", "fail")

ChooseErase(a) ==
  IF phase \in Erasing THEN Skip(a, "erased")
  ELSE IF retry[a] THEN Skip(a, "erase")
  ELSE Note(a, "BOOT_DISK_DELETE_INTENT", "erase", "fail")

(* list_exact_owned_residuals, and the way on from what is left.           *)
ListResiduals(a) ==
  /\ step[a] = "list"
  /\ \/ Slip(a, "fail")
     \/ machine = "none" /\ Skip(a, "absent")
     \/ machine # "none" /\ ~readable /\ Skip(a, "fail")
     \/ machine = "vm" /\ readable /\ ChooseDelete(a)
     \/ machine = "disk" /\ readable /\ ChooseErase(a)

(* auto_delete takes the boot disk along, as a rule.                       *)
Deleted == IF machine = "vm" THEN {"disk", "none"} ELSE {machine}

DeleteInstance(a) ==
  /\ step[a] = "delete"
  /\ machine' \in Deleted \cup {machine}
  /\ \/ Skip(a, "deleted") \/ Slip(a, "lost") \/ Slip(a, "fail")

RecordDelete(a) ==
  \/ /\ step[a] = "deleted"
     /\ IF retry[a] THEN Skip(a, "finish")
        ELSE Note(a, "INSTANCE_DELETE_SUBMITTED", "finish", "fail")
  \/ /\ step[a] = "lost"
     /\ IF readable /\ last = "INSTANCE_DELETE_RECONCILING" THEN Skip(a, "finish")
        ELSE Note(a, "INSTANCE_DELETE_RECONCILING", "finish", "fail")

(* wait_operation or reconcile_delete_instance; the inventory is repeated. *)
FinishDelete(a) ==
  /\ step[a] = "finish"
  /\ \/ /\ machine' = "disk" /\ machine' \in Deleted
        /\ IF readable THEN ChooseErase(a) ELSE Skip(a, "fail")
     \/ machine' = "none" /\ machine' \in Deleted /\ Skip(a, "absent")
     \/ machine' \in Deleted \cup {machine} /\ Slip(a, "fail")

EraseDisk(a) ==
  /\ machine' \in {machine, "none"}
  /\ \/ step[a] = "erase" /\ (Skip(a, "erasing") \/ Slip(a, "fail"))
     \/ step[a] = "erased" /\ ((machine' = "none" /\ Skip(a, "absent")) \/ Slip(a, "fail"))

RecordErase(a) ==
  /\ step[a] = "erasing"
  /\ IF retry[a] THEN Skip(a, "erased")
     ELSE Note(a, "BOOT_DISK_DELETE_SUBMITTED", "erased", "fail")

ConfirmCleanup(a) ==
  \/ /\ step[a] = "absent"
     /\ Skip(a, IF machine = "none" THEN "confirm" ELSE "fail") \/ Slip(a, "fail")
  \/ step[a] = "confirm" /\ Note(a, "CLEANUP_CONFIRMED", CleanupDone(a), "fail")

(* _record_cleanup_unconfirmed: written once, and failing to is no error.  *)
LeaveUnconfirmed(a) ==
  /\ step[a] = "fail"
  /\ IF readable /\ last = "CLEANUP_UNCONFIRMED" THEN Skip(a, CleanupOver(a))
     ELSE Note(a, "CLEANUP_UNCONFIRMED", CleanupOver(a), CleanupOver(a))

CleanUp(a) ==
  /\ \/ /\ IntendCleanup(a) \/ ListResiduals(a) \/ RecordDelete(a) \/ RecordErase(a)
           \/ ConfirmCleanup(a) \/ LeaveUnconfirmed(a)
        /\ UNCHANGED machine
     \/ DeleteInstance(a) \/ FinishDelete(a) \/ EraseDisk(a)
  /\ IF step'[a] \in {CleanupOver(a), CleanupDone(a)} THEN Forget(a)
     ELSE UNCHANGED bound /\ (step[a] # "intend" => UNCHANGED retry)
  /\ UNCHANGED <<insert, worklog, todo, hour>>

-----------------------------------------------------------------------------
(* _record_watchdog_exact_binding, for a cleaner or a rescuer that sees    *)
(* the machine.                                                            *)

Chain == <<Bare, "CREATED", "INSTANCE_IDENTITY_BOUND", Stages[1], Stages[2]>>

(* What it decides to record after one look at the journal; a state that   *)
(* leads nowhere, or an identity recorded before, ends in a refusal.       *)
Plan ==
  LET start == CASE last \in {"CREATE_INTENT", "CREATE_SUBMITTED", "CLEANUP_INTENT",
                               "CLEANUP_UNCONFIRMED", Late} -> 1
                 [] last \in {"CREATE_RECONCILING", Bare} -> 2
                 [] last = "CREATED" -> 3
                 [] last = "INSTANCE_IDENTITY_BOUND" -> 4
                 [] last = Stages[1] -> 5
                 [] last \in Stage \ {Stages[1]} -> 6
                 [] OTHER -> 0
      known == CASE start \in 1..3 /\ Has("INSTANCE_IDENTITY_BOUND") -> 3
                 [] start \in 1..4 /\ Has(Stages[1]) -> 4
                 [] OTHER -> 6
  IN IF start = 0 \/ BindingInvalid THEN <<"INVALID">>
     ELSE SubSeq(Chain, start, known - 1) \o (IF known < 6 THEN <<"INVALID">> ELSE <<>>)

BindFails(a) == IF a \in Rescuer THEN "give up" ELSE "after"

Bind(a) ==
  /\ step[a] = "bind"
  /\ IF todo[a] = <<>>
       THEN /\ Skip(a, IF a \in Rescuer THEN "own" ELSE "intend") /\ UNCHANGED todo
            /\ bound' = [bound EXCEPT ![a] = TRUE]
       ELSE /\ IF Head(todo[a]) = "INVALID" THEN Skip(a, BindFails(a))
               ELSE Note(a, Head(todo[a]), "bind", BindFails(a))
            /\ UNCHANGED bound
            /\ todo' = [todo EXCEPT ![a] = IF step'[a] = "bind" THEN Tail(@) ELSE <<>>]
  /\ UNCHANGED <<site, worklog, retry, hour>>

-----------------------------------------------------------------------------
(* _worker_main. *)

Terminal == {"CONFIRMED", "UNCONFIRMED", "STOPPED"}

(* append_event of the sidecar: what has ended does not begin again.       *)
Tell(w, s, to) ==
  \/ /\ sidecar \in Terminal \ {s} /\ Skip(w, "gone") /\ UNCHANGED sidecar
  \/ /\ sidecar \notin Terminal \ {s} /\ Skip(w, to) /\ sidecar' = s
  \/ Slip(w, "gone") /\ UNCHANGED sidecar

Due == Dead \/ hour > 0

(* resume_cleanup_only, once the creator's process is gone.                *)
ResumeCleanupOnly(w) ==
  /\ w \in Successor /\ step[w] = "unborn" /\ Dead
  /\ step[Watchdog] # "unborn" /\ sidecar \notin Terminal
  /\ Skip(w, "starting") /\ UNCHANGED <<worklog, bound, todo>>

StartCleaner(w) ==
  /\ step[w] = "starting" /\ UNCHANGED <<told, bound, todo>>
  /\ IF readable /\ WorkerStates(last) THEN Tell(w, "READY", "poll")
     ELSE Skip(w, "gone") /\ UNCHANGED sidecar

(* One round of the loop, up to the fence or the recovery. A creator that  *)
(* still has time is left alone.                                           *)
Poll(w) ==
  /\ step[w] = "poll" /\ UNCHANGED <<told, bound, todo>>
  /\ IF readable /\ last = "CLEANUP_CONFIRMED" THEN Tell(w, "STOPPED", "gone")
     ELSE /\ Due /\ UNCHANGED sidecar
          /\ Skip(w, CASE ~readable \/ last \notin Submitted -> "recover"
                       [] readable /\ last = "CREATE_FENCE_PENDING" -> "kill"
                       [] OTHER -> "fencing")

(* _fence_submitted_creator_before_cleanup reads the journal twice more: a *)
(* create that is no longer submitted needs no fence, but one that ceases  *)
(* to be submitted between the two reads ends the worker.                  *)
FenceSubmittedCreate(w) ==
  /\ step[w] = "fencing"
  /\ CASE readable /\ last = "CREATE_FENCE_PENDING" -> Skip(w, "kill")
       [] readable /\ last \in {"CREATE_SUBMITTED", "CREATE_RECONCILING"} ->
            Note(w, "CREATE_FENCE_PENDING", "kill", "gone")
       [] ~readable \/ last = Bare -> Skip(w, "gone")
       [] OTHER -> Skip(w, "recover") \/ Skip(w, "gone")

(* Variant: the fence on paper is enough.                                  *)
KillNobody(w) ==
  /\ step[w] = "kill" /\ Skip(w, "release") /\ UNCHANGED <<sidecar, bound, retry>>

(* _fence_exact_creator: the worker the creator started kills it, any      *)
(* other has been started after its death; past the horizon it does not    *)
(* wait to see it die.                                                     *)
KillCreator(w) ==
  /\ step[w] = "kill" /\ UNCHANGED history
  /\ \/ Dead /\ Move(w, "release") /\ NoMishap /\ UNCHANGED sidecar
     \/ /\ ~Dead /\ w = Watchdog /\ NoMishap /\ UNCHANGED sidecar
        /\ step' = [step EXCEPT ![w] = "release", ![Creator] = "gone"]
     \/ /\ ~Dead /\ w = Watchdog /\ hour = 2 /\ NoMishap
        /\ Move(w, "gone") \/ step' = [step EXCEPT ![w] = "gone", ![Creator] = "gone"]
        /\ sidecar' = IF sidecar \in Terminal THEN sidecar ELSE "UNCONFIRMED"
     \/ ~Dead /\ w = Watchdog /\ Move(w, "poll") /\ Mishap /\ UNCHANGED sidecar
  /\ IF step'[Creator] # step[Creator] THEN Forget(Creator) ELSE UNCHANGED <<bound, retry>>

(* release_fenced_create_for_cleanup                                       *)
ReleaseFenced(w) ==
  /\ step[w] = "release"
  /\ CASE readable /\ last \in Cleaning -> Skip(w, "recover")
       [] readable /\ last = "CREATE_FENCE_PENDING" ->
            Note(w, "CLEANUP_INTENT", "recover", "gone")
       [] OTHER -> Skip(w, "gone")

(* recover_watchdog_cleanup, up to the provider.                           *)
RecoverWatchdogCleanup(w) ==
  /\ step[w] = "recover" /\ UNCHANGED todo
  /\ IF w \notin told /\ sidecar \in Terminal
       THEN Skip(w, "gone") /\ UNCHANGED <<worklog, bound>>
       ELSE /\ sidecar' = IF w \in told THEN sidecar ELSE "RECOVERY"
            /\ told' = told \cup {w}
            /\ CASE ~readable -> Skip(w, "gone")
                 [] readable /\ last = "CLEANUP_CONFIRMED" -> Skip(w, "settle")
                 [] readable /\ last # "CLEANUP_CONFIRMED" ->
                      \/ Slip(w, "gone") \/ Slip(w, "after")
                      \/ BindingInvalid /\ Skip(w, "after")
                      \/ ~BindingInvalid /\ BindingKnown /\ Skip(w, "intend")
                      \/ /\ ~BindingInvalid /\ ~BindingKnown
                         /\ Revoke(w, "look", "after")
            /\ bound' = [bound EXCEPT ![w] = step'[w] = "intend"]

(* Variant: what cannot be seen before it was ever bound is gone.          *)
TrustAbsence(a) ==
  /\ step[a] = "look" /\ UNCHANGED <<worklog, bound>>
  /\ \/ /\ machine = "vm" /\ readable /\ Skip(a, "bind")
        /\ todo' = [todo EXCEPT ![a] = Plan]
     \/ machine = "vm" /\ ~readable /\ Skip(a, BindFails(a)) /\ UNCHANGED todo
     \/ machine # "vm" /\ Skip(a, "confirm") /\ UNCHANGED todo
     \/ Slip(a, BindFails(a)) /\ UNCHANGED todo

(* An instance that does not run yet is left for the next round, and one   *)
(* that cannot be seen proves nothing: its insert may be on its way. A     *)
(* worker notes the absence, if what others noted meanwhile lets it.       *)
Look(a) ==
  /\ step[a] = "look" /\ UNCHANGED <<worklog, bound>>
  /\ \/ /\ machine = "vm" /\ readable /\ Skip(a, "bind")
        /\ todo' = [todo EXCEPT ![a] = Plan]
     \/ machine = "vm" /\ ~readable /\ Skip(a, BindFails(a)) /\ UNCHANGED todo
     \/ machine # "vm" /\ a \in Rescuer /\ Skip(a, "done") /\ UNCHANGED todo
     \/ /\ machine # "vm" /\ a \in Cleaner /\ UNCHANGED todo
        /\ \/ Skip(a, "after")
           \/ (sidecar # "RECOVERY" \/ told # {a}) /\ Skip(a, "gone")
     \/ Slip(a, BindFails(a)) /\ UNCHANGED todo

(* Variant: a cleanup that fails is tried again, however late it is.       *)
TryForEver(w) ==
  /\ UNCHANGED <<told, bound, todo>>
  /\ \/ step[w] = "settle" /\ Tell(w, "CONFIRMED", "gone")
     \/ step[w] = "after" /\ Skip(w, "poll") /\ UNCHANGED sidecar

(* The worker's own record of how it went; past the horizon it writes the  *)
(* campaign off.                                                           *)
EndRound(w) ==
  /\ UNCHANGED <<told, bound, todo>>
  /\ \/ step[w] = "settle" /\ Tell(w, "CONFIRMED", "gone")
     \/ step[w] = "after" /\ hour < 2 /\ Skip(w, "poll") /\ UNCHANGED sidecar
     \/ /\ step[w] = "after" /\ hour = 2 /\ UNCHANGED sidecar
        /\ Revoke(w, "mark", "write off")
     \/ /\ step[w] = "mark" /\ UNCHANGED sidecar
        /\ IF readable /\ last = "CLEANUP_UNCONFIRMED" THEN Skip(w, "write off")
           ELSE Note(w, "CLEANUP_UNCONFIRMED", "write off", "write off")
     \/ step[w] = "write off" /\ Tell(w, "UNCONFIRMED", "gone")

Watch(w) ==
  \/ /\ \/ ResumeCleanupOnly(w) \/ StartCleaner(w) \/ Poll(w) \/ RecoverWatchdogCleanup(w) \/ Look(w) \/ EndRound(w)
     /\ UNCHANGED <<site, retry, hour>>
  \/ /\ \/ (FenceSubmittedCreate(w) \/ ReleaseFenced(w)) /\ UNCHANGED sidecar
           /\ UNCHANGED <<bound, retry>>
        \/ KillCreator(w)
     /\ UNCHANGED <<site, told, todo, hour>>

-----------------------------------------------------------------------------
(* recover_exact_cleanup. *)

ByAbsence == <<"CLEANUP_CONFIRMED">>

(* What it reads here decides on the whole call: a history without a trace *)
(* of a submission needs no machine to be found.                           *)
BeginRescue(o) ==
  /\ step[o] = "idle" /\ last # "NONE"
  /\ CASE ~readable \/ last = "CLEANUP_CONFIRMED" \/ BindingInvalid ->
               Skip(o, "done") /\ UNCHANGED <<bound, todo>>
       [] OTHER ->
               \/ Slip(o, "done") /\ UNCHANGED <<bound, todo>>
               \/ /\ BindingKnown /\ Skip(o, "intend") /\ UNCHANGED todo
                  /\ bound' = [bound EXCEPT ![o] = TRUE]
               \/ /\ ~BindingKnown /\ Has("past") /\ Skip(o, "look")
                  /\ UNCHANGED <<bound, todo>>
               \/ /\ ~BindingKnown /\ ~Has("past") /\ Skip(o, "revoke") /\ UNCHANGED bound
                  /\ todo' = [todo EXCEPT ![o] = ByAbsence]

RevokeCreate(o) ==
  \/ step[o] = "revoke" /\ Revoke(o, "nothing", "give up")
  \/ step[o] = "own" /\ Revoke(o, "intend", "give up")
  \/ step[o] = "give up" /\ Revoke(o, "fail", "fail")

ConfirmAbsence(o) ==
  \/ /\ step[o] = "nothing"
     /\ Skip(o, IF machine = "none" THEN "again" ELSE "give up") \/ Slip(o, "give up")
  \/ step[o] = "again" /\ Revoke(o, "conclude", "give up")
  \/ step[o] = "conclude" /\ Note(o, "CLEANUP_CONFIRMED", "done", "give up")

Rescue(o) ==
  /\ \/ BeginRescue(o) \/ Look(o)
     \/ /\ (RevokeCreate(o) \/ ConfirmAbsence(o)) /\ UNCHANGED bound
        /\ todo' = [todo EXCEPT ![o] = IF step'[o] = "give up" THEN <<>> ELSE @]
  /\ UNCHANGED <<site, worklog, retry, hour>>

-----------------------------------------------------------------------------
(* The provider and time. *)

(* The insert arrives, or the provider refuses it.                         *)
Materialise ==
  /\ insert = "pending"
  /\ \/ insert' = "made" /\ machine' = "vm"
     \/ insert' = "refused" /\ UNCHANGED machine
  /\ UNCHANGED <<history, worklog, step, memory, hour, mishaps>>

(* maxRunDuration with DELETE                                              *)
Backstop ==
  /\ hour > 0 /\ machine = "vm" /\ machine' \in Deleted
  /\ UNCHANGED <<history, insert, worklog, step, memory, hour, mishaps>>

Pass ==
  /\ hour < 2 /\ last \notin {"NONE", "CREATE_INTENT_DURABLE"} /\ hour' = hour + 1
  /\ UNCHANGED <<history, site, worklog, step, memory, mishaps>>

CampaignCrash(a) ==
  /\ step[a] \notin Gone \cup {"new", "idle", "done"}
  /\ Slip(a, IF a \in Rescuer THEN "done" ELSE "gone")
  /\ Forget(a) /\ todo' = [todo EXCEPT ![a] = <<>>]
  /\ UNCHANGED <<site, worklog, hour>>

-----------------------------------------------------------------------------
Serve(w) == Watch(w) \/ CleanUp(w) \/ Bind(w)

CampaignNext ==
  \/ PrepareCreate \/ RunCreate \/ CleanUp(Creator)
  \/ \E w \in Cleaner : Serve(w)
  \/ \E o \in Rescuer : Rescue(o) \/ CleanUp(o) \/ Bind(o)
  \/ Materialise \/ Backstop \/ Pass
  \/ \E a \in Actor : CampaignCrash(a)

(* A cleaner keeps polling and time passes. Nothing makes the creator go   *)
(* on: it may hang in a call for ever, which is what a watchdog is for.    *)
CampaignFairness ==
  /\ \A w \in Cleaner : WF_campaignVars(step[w] # "unborn" /\ Serve(w))
  /\ WF_campaignVars(Pass)

CampaignSpec == CampaignInit /\ [][CampaignNext]_campaignVars /\ CampaignFairness

-----------------------------------------------------------------------------
(* A campaign that is recorded as cleaned up is gone for good: no machine  *)
(* is left and no insert may still bring one. Only a recover-cleanup that  *)
(* read the journal before the create was submitted can be wrong.          *)
CampaignConfirmedIsGone ==
  Has("CLEANUP_CONFIRMED") =>
    \/ machine = "none" /\ insert # "pending"
    \/ \E o \in Rescuer : todo[o] = ByAbsence

(* Once anyone has recorded the intent to clean up, no insert is sent:     *)
(* cleanup has revoked the claim, or the fence was up and the creator dead.*)
NothingInsertedAfterCleanup ==
  [][Has("CLEANUP_INTENT") => (UNCHANGED insert \/ insert = "pending")]_campaignVars

(* Every cleaner that has started comes to an end of its own, whatever the *)
(* creator does, and also when it never does anything again.               *)
CleanersEnd == \A w \in Cleaner : step[w] # "unborn" ~> step[w] \in Gone

(* What a rescue promises: a machine that cannot be seen is no proof that  *)
(* a submitted create is over. No cleanup is confirmed while the insert    *)
(* is on its way.                                                          *)
AbsenceIsNoProof == Has("CLEANUP_CONFIRMED") => insert # "pending"
=============================================================================
