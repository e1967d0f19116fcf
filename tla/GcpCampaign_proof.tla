------------------------- MODULE GcpCampaign_proof -------------------------
(***************************************************************************)
(* Why nothing is inserted after a cleanup began and why a confirmed one   *)
(* is over, for any number of cleaners, rescuers and mishaps. Between      *)
(* its last look at the journal and the provider the creator may be slow;  *)
(* whoever then moves the journal on either leaves it at the fence or      *)
(* knows the creator dead.                                                 *)
(***************************************************************************)
EXTENDS GcpCampaign, SequenceTheorems, TLAPS

Others == Cleaner \cup Rescuer

(* The states before anyone may have recorded the intent to clean up.      *)
Fresh == {"NONE", "CREATE_INTENT_DURABLE", "CREATE_INTENT", "CREATE_CLAIMED",
          "CREATE_SUBMITTED"}

States == Fresh \cup Stage \cup Cleaning
          \cup {"CREATE_RECONCILING", Bare, "CREATE_FENCE_PENDING", "CREATED",
                "INSTANCE_IDENTITY_BOUND", Late, "BLOCKED", "CLEANUP_CONFIRMED"}

(* What would move the journal of a submitted create past its fence.       *)
Loud == {"CREATE_RECONCILING", Bare, "CREATED", "BLOCKED", "CLEANUP_INTENT"}

(* Where the creator is before its insert.                                 *)
Before == {"new", "intent", "arm", "await", "claim", "guard", "submit", "recheck", "insert"}

StepTyped == step = [a \in Actor |-> step[a]]

MachineWasMade == machine # "none" => insert = "made"

NotYetInserted == step[Creator] \in Before => insert = "none"

ReleasedWhenDead == \A w \in Cleaner : step[w] = "release" => Dead

BindersSawIt == \A a \in Others : step[a] = "bind" => insert = "made"

FreshIsUntouched == last \in States /\ (Has("CLEANUP_INTENT") => last \notin Fresh)

InsertIsFenced ==
  step[Creator] = "insert" =>
    last \in {"CREATE_SUBMITTED", "CREATE_FENCE_PENDING"} /\ ~Has("CLEANUP_INTENT")

CampaignIInv ==
  /\ StepTyped /\ MachineWasMade /\ NotYetInserted /\ ReleasedWhenDead
  /\ BindersSawIt /\ FreshIsUntouched /\ InsertIsFenced

-----------------------------------------------------------------------------
(* The graph of the journal. *)

LEMMA StageStates ==
  Stage = {"BOOT_DISK_IDENTITY_BOUND", "PROVIDER_BACKSTOP_VERIFIED",
           "READINESS_VERIFIED", "CAMPAIGN_HANDED_OFF"}
  BY DEF Stage, Stages

LEMMA StageNames ==
  /\ Stages[1] = "BOOT_DISK_IDENTITY_BOUND" /\ Stages[2] = "PROVIDER_BACKSTOP_VERIFIED"
  /\ Stages[3] = "READINESS_VERIFIED" /\ Stages[4] = "CAMPAIGN_HANDED_OFF"
  BY DEF Stages

(* From a stage the journal goes on to another, or to an end.              *)
LEMMA AfterStage ==
  ASSUME NEW l \in Stage, NEW s \in Successors(l)
  PROVE  s \in Stage \cup {"CLEANUP_INTENT", "BLOCKED", Late}
  <1>1. Successors(l) \subseteq {Stages[i + 1] : i \in {j \in 1..3 : Stages[j] = l}}
                                \cup {"CLEANUP_INTENT", "BLOCKED", Late}
    BY StageStates, StageNames DEF Successors, Late, Bare
  <1>2. \A i \in 1..3 : Stages[i + 1] \in Stage
    BY StageStates, StageNames
  <1> QED BY <1>1, <1>2

(* The fresh states are left for good.                                     *)
LEMMA FreshIsLeft ==
  ASSUME NEW l \in States, NEW s \in Successors(l)
  PROVE  /\ s \in States
         /\ s \in Fresh => l \in Fresh /\ s # "NONE"
         /\ l \in {"CREATE_SUBMITTED", "CREATE_FENCE_PENDING"} =>
              s \in Loud \cup {"CREATE_FENCE_PENDING"}
         /\ l = "CREATE_FENCE_PENDING" => s \in {"CLEANUP_INTENT", "BLOCKED"}
  <1>1. CASE l \in Stage
    BY <1>1, AfterStage, StageStates DEF States, Fresh, Cleaning, Deletions, Late
  <1>2. CASE l \notin Stage
    BY <1>2, StageStates, StageNames
      DEF States, Fresh, Cleaning, Deletions, Late, Bare, Successors, Loud
  <1> QED BY <1>1, <1>2

-----------------------------------------------------------------------------
(* What nearly every step is: one actor goes on, and records at most one   *)
(* event that an insert about to be sent survives.                         *)

Fine(a, to) ==
  /\ a # Creator => (to = "release" => Dead) /\ (to = "bind" => insert = "made")
  /\ a = Creator => ~Dead /\ to # "insert" /\ (to \in Before => step[Creator] \in Before)

Moves(a) == \E to : Move(a, to) /\ Fine(a, to)

Recorded(s) ==
  /\ CanRecord(s) /\ last' = s /\ marks' = marks \cup MarksOf(s)
  /\ s \in Loud => step[Creator] # "insert"

Writes == UNCHANGED <<last, marks>> \/ \E s : Recorded(s)

Calm(a) ==
  Moves(a) /\ Writes /\ UNCHANGED insert /\ (machine' # "none" => machine # "none")

LEMMA WritesKeep ==
  ASSUME CampaignIInv, Writes
  PROVE  /\ FreshIsUntouched'
         /\ step'[Creator] = "insert" /\ step[Creator] = "insert" => InsertIsFenced'
  <1>1. CASE UNCHANGED <<last, marks>>
    BY <1>1 DEF CampaignIInv, FreshIsUntouched, InsertIsFenced, Has
  <1>2. CASE \E s : Recorded(s)
    <2>1. PICK s : Recorded(s)
      BY <1>2
    <2> DEFINE t == IF s = Bare THEN "CREATE_RECONCILING" ELSE s
    <2>2. last \in States /\ t \in Successors(last)
      BY <2>1 DEF Recorded, CanRecord, CampaignIInv, FreshIsUntouched
    <2>3. /\ t \in States
          /\ t \in Fresh => last \in Fresh /\ t # "NONE"
          /\ last \in {"CREATE_SUBMITTED", "CREATE_FENCE_PENDING"} =>
               t \in Loud \cup {"CREATE_FENCE_PENDING"}
      BY <2>2, FreshIsLeft
    <2>4. FreshIsUntouched'
      BY <2>1, <2>3
        DEF Recorded, CampaignIInv, FreshIsUntouched, Has, MarksOf, Asked, Identities,
            Fresh, States, Bare
    <2>5. ASSUME step'[Creator] = "insert", step[Creator] = "insert"
          PROVE  InsertIsFenced'
      <3>1. last \in {"CREATE_SUBMITTED", "CREATE_FENCE_PENDING"} /\ ~Has("CLEANUP_INTENT")
        BY <2>5 DEF CampaignIInv, InsertIsFenced
      <3>2. s = "CREATE_FENCE_PENDING"
        BY <2>1, <2>3, <2>5, <3>1 DEF Recorded, Loud, Bare
      <3> QED BY <2>1, <3>1, <3>2, StageNames
                DEF Recorded, InsertIsFenced, Has, MarksOf, Asked, Identities
    <2> QED BY <2>4, <2>5
  <1> QED BY <1>1, <1>2 DEF Writes

LEMMA CalmKeeps ==
  ASSUME CampaignIInv, NEW a \in Actor, Calm(a)
  PROVE  CampaignIInv'
  <1>1. PICK to : step' = [step EXCEPT ![a] = to] /\ Fine(a, to)
    BY DEF Calm, Moves, Move
  <1>2. /\ StepTyped'
        /\ step'[a] = to
        /\ \A b \in Actor : b # a => step'[b] = step[b]
    BY <1>1 DEF CampaignIInv, StepTyped
  <1>3. Creator \in Actor /\ \A b \in Others : b \in Actor /\ b # Creator
    BY CampaignAssumption DEF Actor, Others
  <1>4. MachineWasMade'
    BY DEF Calm, CampaignIInv, MachineWasMade
  <1>5. /\ step'[Creator] \in Before => step[Creator] \in Before
        /\ step'[Creator] = "insert" => step[Creator] = "insert"
        /\ Dead => Dead'
    BY <1>1, <1>2, <1>3 DEF Fine, Dead
  <1>6. NotYetInserted'
    BY <1>5 DEF Calm, CampaignIInv, NotYetInserted
  <1>7. \A b \in Others : (step'[b] = "release" => step[b] = "release" \/ Dead)
                         /\ (step'[b] = "bind" => step[b] = "bind" \/ insert = "made")
    BY <1>1, <1>2, <1>3 DEF Fine
  <1>8. ReleasedWhenDead'
    BY <1>5, <1>7 DEF CampaignIInv, ReleasedWhenDead, Others
  <1>9. BindersSawIt'
    BY <1>7 DEF Calm, CampaignIInv, BindersSawIt
  <1>10. FreshIsUntouched' /\ InsertIsFenced'
    <2>1. Writes
      BY DEF Calm
    <2>2. InsertIsFenced' \/ (step'[Creator] = "insert" /\ step[Creator] = "insert")
      BY <1>5 DEF InsertIsFenced
    <2> QED BY <2>1, <2>2, WritesKeep
  <1> QED BY <1>2, <1>4, <1>6, <1>8, <1>9, <1>10 DEF CampaignIInv

-----------------------------------------------------------------------------
(* The steps on the journal are calm, whoever takes them. *)

Lone(a) == Moves(a) /\ Writes

LEMMA SkipIsCalm ==
  ASSUME NEW a \in Actor, NEW to, Skip(a, to) \/ Slip(a, to), Fine(a, to)
  PROVE  Lone(a)
  BY DEF Skip, Slip, Lone, Moves, Writes, history

LEMMA NoteIsCalm ==
  ASSUME NEW a \in Actor, NEW s, NEW ok, NEW no, Note(a, s, ok, no),
         Fine(a, ok), Fine(a, no), s \in Loud => step[Creator] # "insert"
  PROVE  Lone(a)
  <1>1. Moves(a)
    BY DEF Note, Moves
  <1>2. UNCHANGED <<last, marks>> \/ Recorded(s)
    BY DEF Note, history, Recorded, Appended
  <1> QED BY <1>1, <1>2 DEF Lone, Writes

LEMMA RevokeIsCalm ==
  ASSUME CampaignIInv, NEW a \in Actor, NEW ok, NEW no, Revoke(a, ok, no),
         Fine(a, ok), Fine(a, no)
  PROVE  Lone(a)
  <1>1. CASE Skip(a, ok) \/ Skip(a, no)
    BY <1>1, SkipIsCalm
  <1>2. CASE Note(a, "CLEANUP_INTENT", ok, no) /\ ~(readable /\ last \in Submitted)
    <2>1. CASE readable
      <3>1. step[Creator] # "insert"
        BY <1>2, <2>1 DEF CampaignIInv, InsertIsFenced, Submitted
      <3> QED BY <1>2, <3>1, NoteIsCalm
    <2>2. CASE ~readable
      BY <1>2, <2>2 DEF Note, CanRecord, history, Lone, Moves, Writes
    <2> QED BY <2>1, <2>2
  <1> QED BY <1>1, <1>2 DEF Revoke

-----------------------------------------------------------------------------
(* Cleaning up. *)

Tidy == {"list", "fail", "delete", "finish", "deleted", "lost", "erase", "erasing",
         "erased", "absent", "confirm", "settle", "gone", "after", "done"}

LEMMA TidyIsFine ==
  ASSUME NEW a \in Actor, NEW to \in Tidy, a = Creator => ~Dead
  PROVE  Fine(a, to)
  BY DEF Tidy, Fine, Before

LEMMA CleanUpIsCalm ==
  ASSUME CampaignIInv, NEW a \in Actor, CleanUp(a)
  PROVE  Calm(a)
  <1> DEFINE Told == Deletions \cup {"CLEANUP_UNCONFIRMED", "CLEANUP_CONFIRMED"}
  <1>1. a = Creator => ~Dead
    BY DEF CleanUp, IntendCleanup, ListResiduals, RecordDelete, RecordErase,
           ConfirmCleanup, LeaveUnconfirmed, DeleteInstance, FinishDelete, EraseDisk, Dead
  <1>2. CleanupOver(a) \in Tidy /\ CleanupDone(a) \in Tidy
    BY DEF CleanupOver, CleanupDone, Tidy
  <1>3. \A to \in Tidy : Skip(a, to) \/ Slip(a, to) => Lone(a)
    BY <1>1, TidyIsFine, SkipIsCalm
  <1>4. \A s \in Told : s \notin Loud
    BY DEF Deletions, Loud, Bare
  <1>5. \A s \in Told : \A ok, no \in Tidy : Note(a, s, ok, no) => Lone(a)
    BY <1>1, <1>4, TidyIsFine, NoteIsCalm
  <1> HIDE DEF Told
  <1> SUFFICES Lone(a)
    BY DEF CleanUp, DeleteInstance, FinishDelete, EraseDisk, Deleted, Calm, Lone
  <1>6. ChooseErase(a) => Lone(a)
    BY <1>3, <1>5 DEF ChooseErase, Tidy, Told, Deletions
  <1>7. CASE IntendCleanup(a)
    BY <1>1, <1>7, TidyIsFine, RevokeIsCalm DEF IntendCleanup, Tidy
  <1>8. CASE ListResiduals(a)
    BY <1>3, <1>5, <1>6, <1>8 DEF ListResiduals, ChooseDelete, Tidy, Told, Deletions
  <1>9. CASE RecordDelete(a)
    BY <1>3, <1>5, <1>9 DEF RecordDelete, Tidy, Told, Deletions
  <1>10. CASE RecordErase(a)
    BY <1>3, <1>5, <1>10 DEF RecordErase, Tidy, Told, Deletions
  <1>11. CASE ConfirmCleanup(a)
    BY <1>2, <1>3, <1>5, <1>11 DEF ConfirmCleanup, Tidy, Told
  <1>12. CASE LeaveUnconfirmed(a)
    BY <1>2, <1>3, <1>5, <1>12 DEF LeaveUnconfirmed, Tidy, Told
  <1>13. CASE DeleteInstance(a)
    BY <1>3, <1>13 DEF DeleteInstance, Tidy
  <1>14. CASE FinishDelete(a)
    BY <1>3, <1>6, <1>14 DEF FinishDelete, Tidy
  <1>15. CASE EraseDisk(a)
    BY <1>3, <1>15 DEF EraseDisk, Tidy
  <1> QED BY <1>7, <1>8, <1>9, <1>10, <1>11, <1>12, <1>13, <1>14, <1>15 DEF CleanUp

-----------------------------------------------------------------------------
(* Binding what is there, and watching. *)

LEMMA BindIsCalm ==
  ASSUME CampaignIInv, NEW a \in Others, Bind(a)
  PROVE  Calm(a)
  <1>1. a \in Actor /\ a # Creator
    BY CampaignAssumption DEF Actor, Others
  <1>2. insert = "made" /\ step[Creator] # "insert"
    BY DEF Bind, CampaignIInv, BindersSawIt, NotYetInserted, Before
  <1>3. \A to : to # "release" => Fine(a, to)
    BY <1>1, <1>2 DEF Fine
  <1>4. BindFails(a) # "release"
    BY DEF BindFails
  <1>5. Lone(a)
    BY <1>1, <1>2, <1>3, <1>4, SkipIsCalm, NoteIsCalm DEF Bind
  <1> QED BY <1>5 DEF Bind, site, Calm, Lone

LEMMA LookIsCalm ==
  ASSUME CampaignIInv, NEW a \in Others, Look(a), UNCHANGED site
  PROVE  Calm(a)
  <1>1. a \in Actor /\ a # Creator
    BY CampaignAssumption DEF Actor, Others
  <1>2. machine = "vm" => insert = "made"
    BY DEF CampaignIInv, MachineWasMade
  <1>3. BindFails(a) \notin {"release", "bind"}
    BY DEF BindFails
  <1>4. Lone(a)
    BY <1>1, <1>2, <1>3, SkipIsCalm DEF Look, Fine
  <1> QED BY <1>4 DEF site, Calm, Lone

LEMMA RescueIsCalm ==
  ASSUME CampaignIInv, NEW a \in Rescuer, Rescue(a)
  PROVE  Calm(a)
  <1>1. a \in Actor /\ a \in Others /\ a # Creator
    BY CampaignAssumption DEF Actor, Others
  <1> DEFINE Plain == {"done", "intend", "look", "revoke", "nothing", "again", "conclude",
                      "give up", "fail"}
  <1>2. \A to \in Plain : Skip(a, to) \/ Slip(a, to) => Lone(a)
    BY <1>1, SkipIsCalm DEF Fine
  <1>3. \A ok, no \in Plain : Revoke(a, ok, no) => Lone(a)
    BY <1>1, RevokeIsCalm DEF Fine
  <1>4. \A ok, no \in Plain : Note(a, "CLEANUP_CONFIRMED", ok, no) => Lone(a)
    BY <1>1, NoteIsCalm DEF Fine, Loud, Bare
  <1> SUFFICES Lone(a) \/ Calm(a)
    BY DEF Rescue, site, Calm, Lone
  <1>5. CASE Look(a)
    BY <1>1, <1>5, LookIsCalm DEF Rescue
  <1>6. CASE BeginRescue(a)
    <2>1. Skip(a, "done") \/ Slip(a, "done") \/ \E to \in {"intend", "look", "revoke"} : Skip(a, to)
      BY <1>6 DEF BeginRescue
    <2> QED BY <1>2, <2>1
  <1>7. CASE RevokeCreate(a)
    BY <1>3, <1>7 DEF RevokeCreate
  <1>8. CASE ConfirmAbsence(a)
    <2>1. \/ \E to \in {"again", "give up"} : Skip(a, to) \/ Slip(a, to)
          \/ Revoke(a, "conclude", "give up") \/ Note(a, "CLEANUP_CONFIRMED", "done", "give up")
      BY <1>8 DEF ConfirmAbsence
    <2>2. CASE \E to \in {"again", "give up"} : Skip(a, to) \/ Slip(a, to)
      BY <1>2, <2>2
    <2>3. CASE Revoke(a, "conclude", "give up")
      BY <1>3, <2>3
    <2>4. CASE Note(a, "CLEANUP_CONFIRMED", "done", "give up")
      BY <1>4, <2>4
    <2> QED BY <2>1, <2>2, <2>3, <2>4
  <1> QED BY <1>5, <1>6, <1>7, <1>8 DEF Rescue

LEMMA TellIsCalm ==
  ASSUME NEW a \in Actor, NEW s, NEW to, Tell(a, s, to), Fine(a, to), Fine(a, "gone")
  PROVE  Lone(a)
  BY SkipIsCalm DEF Tell

LEMMA WatchIsCalm ==
  ASSUME CampaignIInv, NEW w \in Cleaner, Watch(w), ~KillCreator(w)
  PROVE  Calm(w)
  <1>1. w \in Actor /\ w \in Others /\ w # Creator
    BY CampaignAssumption DEF Actor, Others
  <1> DEFINE Plain == {"starting", "poll", "recover", "fencing", "kill", "look", "intend",
                      "settle", "after", "mark", "write off", "gone"}
  <1>2. UNCHANGED site
    BY DEF Watch
  <1> SUFFICES Lone(w) \/ Calm(w)
    BY <1>2 DEF site, Calm, Lone
  <1>3. \A to \in Plain : Skip(w, to) \/ Slip(w, to) => Lone(w)
    BY <1>1, SkipIsCalm DEF Fine
  <1>4. \A s : \A to \in Plain : Tell(w, s, to) => Lone(w)
    BY <1>1, TellIsCalm DEF Fine
  <1>5. \A ok, no \in Plain : Revoke(w, ok, no) => Lone(w)
    BY <1>1, RevokeIsCalm DEF Fine
  <1>6. \A s \in {"CREATE_FENCE_PENDING", "CLEANUP_UNCONFIRMED"} :
          \A ok, no \in Plain : Note(w, s, ok, no) => Lone(w)
    BY <1>1, NoteIsCalm DEF Fine, Loud, Bare
  <1>7. CASE ResumeCleanupOnly(w)
    BY <1>3, <1>7 DEF ResumeCleanupOnly
  <1>8. CASE StartCleaner(w)
    BY <1>3, <1>4, <1>8 DEF StartCleaner
  <1>9. CASE Poll(w)
    BY <1>3, <1>4, <1>9 DEF Poll
  <1>10. CASE RecoverWatchdogCleanup(w)
    <2>1. \/ \E to \in {"gone", "settle", "after", "intend"} : Skip(w, to) \/ Slip(w, to)
          \/ Revoke(w, "look", "after")
      BY <1>10 DEF RecoverWatchdogCleanup
    <2>2. CASE \E to \in {"gone", "settle", "after", "intend"} : Skip(w, to) \/ Slip(w, to)
      BY <1>3, <2>2
    <2>3. CASE Revoke(w, "look", "after")
      BY <1>5, <2>3
    <2> QED BY <2>1, <2>2, <2>3
  <1>11. CASE Look(w)
    BY <1>1, <1>2, <1>11, LookIsCalm
  <1>12. CASE EndRound(w)
    <2>1. \/ Tell(w, "CONFIRMED", "gone") \/ Tell(w, "UNCONFIRMED", "gone")
          \/ Skip(w, "poll") \/ Skip(w, "write off") \/ Revoke(w, "mark", "write off")
          \/ Note(w, "CLEANUP_UNCONFIRMED", "write off", "write off")
      BY <1>12 DEF EndRound
    <2> QED BY <1>3, <1>4, <1>5, <1>6, <2>1
  <1>13. CASE FenceSubmittedCreate(w)
    BY <1>3, <1>6, <1>13 DEF FenceSubmittedCreate
  <1>14. CASE ReleaseFenced(w)
    <2>1. step[Creator] # "insert"
      BY <1>14 DEF ReleaseFenced, CampaignIInv, ReleasedWhenDead, Dead
    <2>2. \A ok, no \in Plain : Note(w, "CLEANUP_INTENT", ok, no) => Lone(w)
      BY <1>1, <2>1, NoteIsCalm DEF Fine
    <2> QED BY <1>3, <1>14, <2>2 DEF ReleaseFenced
  <1> QED BY <1>7, <1>8, <1>9, <1>10, <1>11, <1>12, <1>13, <1>14 DEF Watch

(* The fence's other half: the creator is dead when its worker goes on.    *)
LEMMA KillingKeeps ==
  ASSUME CampaignIInv, NEW w \in Cleaner, KillCreator(w), UNCHANGED site
  PROVE  CampaignIInv'
  <1>1. Creator \in Actor /\ w \in Actor /\ w # Creator
    BY CampaignAssumption DEF Actor
  <1>2. UNCHANGED <<last, marks, insert, machine>>
    BY DEF KillCreator, history, site
  <1>3. PICK to, end : /\ step' = [step EXCEPT ![w] = to, ![Creator] = end]
                       /\ end \in {"gone", step[Creator]}
                       /\ to \in {"release", "gone", "poll"}
                       /\ to = "release" => end = "gone"
    BY <1>1 DEF KillCreator, Move, CampaignIInv, StepTyped, Dead
  <1>4. /\ StepTyped' /\ step'[w] = to /\ step'[Creator] = end
        /\ \A b \in Actor \ {w, Creator} : step'[b] = step[b]
    BY <1>1, <1>3 DEF CampaignIInv, StepTyped
  <1>5. MachineWasMade' /\ NotYetInserted' /\ InsertIsFenced' /\ FreshIsUntouched'
    BY <1>2, <1>3, <1>4
      DEF CampaignIInv, MachineWasMade, NotYetInserted, InsertIsFenced, FreshIsUntouched,
          Before, Has
  <1>6. ReleasedWhenDead' /\ BindersSawIt'
    BY <1>1, <1>2, <1>3, <1>4, CampaignAssumption
      DEF CampaignIInv, ReleasedWhenDead, BindersSawIt, Dead, Others, Actor
  <1> QED BY <1>4, <1>5, <1>6 DEF CampaignIInv

-----------------------------------------------------------------------------
(* The creator's own steps. *)

LEMMA PrepareKeeps ==
  ASSUME CampaignIInv, PrepareCreate
  PROVE  CampaignIInv'
  <1>1. /\ Creator \in Actor /\ Watchdog \in Actor /\ Watchdog # Creator
        /\ Watchdog \in Cleaner
    BY CampaignAssumption DEF Actor, Cleaner
  <1>2. UNCHANGED <<insert, machine>>
    BY DEF PrepareCreate, site
  <1> SUFFICES CampaignIInv' \/ Lone(Creator)
    BY <1>1, <1>2, CalmKeeps DEF Calm, Lone
  <1> DEFINE Plain == {"intent", "arm", "block", "gone", "guard", "submit", "intend",
                      "recheck"}
  <1>3. step[Creator] \in Before /\ ~Dead =>
          \A to \in Plain : Skip(Creator, to) \/ Slip(Creator, to) => Lone(Creator)
    BY <1>1, SkipIsCalm DEF Fine
  <1>4. step[Creator] \in Before /\ step[Creator] # "insert" /\ ~Dead =>
          \A s : \A ok, no \in Plain : Note(Creator, s, ok, no) => Lone(Creator)
    BY <1>1, NoteIsCalm DEF Fine
  <1>5. step[Creator] \in Before /\ step[Creator] # "insert" /\ ~Dead =>
          \A to \in Plain : Expire(to) => Lone(Creator)
    BY <1>3, <1>4 DEF Expire
  <1>6. CASE OpenCampaign
    BY <1>4, <1>6 DEF OpenCampaign, Before, Dead
  <1>7. CASE ActivateCleaner
    <2>1. CASE UNCHANGED history
               /\ step' = [step EXCEPT ![Creator] = "await", ![Watchdog] = "starting"]
      BY <1>1, <1>2, <1>7, <2>1
        DEF ActivateCleaner, history, CampaignIInv, StepTyped, MachineWasMade,
            NotYetInserted, ReleasedWhenDead, BindersSawIt, FreshIsUntouched,
            InsertIsFenced, Before, Dead, Has, Others, Actor
    <2>2. CASE Expire("block") \/ Skip(Creator, "block") \/ Slip(Creator, "block")
      BY <1>3, <1>5, <1>7, <2>2 DEF ActivateCleaner, Before, Dead
    <2> QED BY <1>7, <2>1, <2>2 DEF ActivateCleaner
  <1>8. CASE AwaitReady
    <2>1. CASE step' = [step EXCEPT ![Creator] = "block", ![Watchdog] = "gone"]
      BY <1>1, <1>2, <1>8, <2>1
        DEF AwaitReady, history, CampaignIInv, StepTyped, MachineWasMade,
            NotYetInserted, ReleasedWhenDead, BindersSawIt, FreshIsUntouched,
            InsertIsFenced, Before, Dead, Has, Others, Actor
    <2>2. CASE Move(Creator, "claim") \/ Move(Creator, "block")
      BY <1>1, <1>8, <2>2
        DEF AwaitReady, history, Lone, Moves, Writes, Fine, Before, Dead
    <2> QED BY <1>8, <2>1, <2>2 DEF AwaitReady
  <1>9. CASE BlockCreate
    <2>1. step[Creator] = "block" /\ Fine(Creator, "gone")
      BY <1>9 DEF BlockCreate, Fine, Before, Dead
    <2> QED BY <1>1, <1>9, <2>1, SkipIsCalm, NoteIsCalm DEF BlockCreate
  <1>10. CASE ClaimCreate
    BY <1>3, <1>4, <1>10 DEF ClaimCreate, Before, Dead
  <1>11. CASE BindTransport
    BY <1>3, <1>5, <1>11 DEF BindTransport, Before, Dead
  <1>12. CASE SubmitCreate
    BY <1>3, <1>4, <1>5, <1>12 DEF SubmitCreate, Before, Dead
  <1>13. CASE Recheck
    <2>1. CASE MayCreate("CREATE_SUBMITTED")
      <3>1. /\ step' = [step EXCEPT ![Creator] = "insert"] /\ UNCHANGED <<last, marks>>
            /\ last = "CREATE_SUBMITTED" /\ step[Creator] = "recheck"
        BY <1>13, <2>1 DEF Recheck, Skip, Move, MayCreate, history
      <3> QED BY <1>1, <1>2, <3>1, CampaignAssumption
            DEF CampaignIInv, StepTyped, MachineWasMade, NotYetInserted,
                ReleasedWhenDead, BindersSawIt, FreshIsUntouched, InsertIsFenced,
                Fresh, Before, Dead, Has, Others, Actor
    <2>2. CASE ~MayCreate("CREATE_SUBMITTED")
      BY <1>3, <1>13, <2>2 DEF Recheck, Before, Dead
    <2> QED BY <2>1, <2>2
  <1> QED BY <1>6, <1>7, <1>8, <1>9, <1>10, <1>11, <1>12, <1>13 DEF PrepareCreate

(* Sending it is the one step that is not calm; nothing else depends on    *)
(* the journal from then on.                                               *)
LEMMA RunKeeps ==
  ASSUME CampaignIInv, RunCreate
  PROVE  CampaignIInv'
  <1>1. Creator \in Actor
    BY DEF Actor
  <1>2. CASE SendInsert
    <2>1. /\ step' = [step EXCEPT ![Creator] = "answer"]
          /\ UNCHANGED <<last, marks, machine>> /\ insert = "none"
      BY <1>2 DEF SendInsert, Skip, Move, history, CampaignIInv, NotYetInserted, Before
    <2>2. /\ StepTyped' /\ step'[Creator] = "answer" /\ step[Creator] = "insert"
          /\ \A b \in Others : b \in Actor /\ step'[b] = step[b]
      BY <1>1, <1>2, <2>1, CampaignAssumption
        DEF SendInsert, CampaignIInv, StepTyped, Others, Actor
    <2>3. MachineWasMade' /\ NotYetInserted' /\ InsertIsFenced' /\ FreshIsUntouched'
      BY <2>1, <2>2
        DEF CampaignIInv, MachineWasMade, NotYetInserted, InsertIsFenced,
            FreshIsUntouched, Before, Has
    <2>4. ReleasedWhenDead' /\ BindersSawIt'
      BY <2>1, <2>2 DEF CampaignIInv, ReleasedWhenDead, BindersSawIt, Dead, Others
    <2> QED BY <2>2, <2>3, <2>4 DEF CampaignIInv
  <1>3. CASE ~SendInsert
    <2>1. UNCHANGED <<insert, machine>>
      BY <1>3 DEF RunCreate, AnswerInsert, WaitCreate, ReconcileCreate, Observe,
                  RecordIdentity, RecordStage, site
    <2> SUFFICES Lone(Creator)
      BY <1>1, <2>1, CalmKeeps DEF Calm, Lone
    <2> DEFINE Plain == {"wait", "reconcile", "intend", "created", "name", "observe"} \cup Stage
    <2>2. step[Creator] \notin {"gone", "insert"}
      BY <1>3, StageNames
        DEF RunCreate, AnswerInsert, WaitCreate, ReconcileCreate, Observe,
            RecordIdentity, RecordStage
    <2>3. \A to \in Plain : Fine(Creator, to)
      BY <2>2, StageStates DEF Fine, Before, Dead
    <2>4. \A to \in Plain : Skip(Creator, to) \/ Slip(Creator, to) => Lone(Creator)
      BY <1>1, <2>3, SkipIsCalm
    <2>5. \A s : \A ok, no \in Plain : Note(Creator, s, ok, no) => Lone(Creator)
      BY <1>1, <2>2, <2>3, NoteIsCalm
    <2>6. CASE AnswerInsert
      BY <2>4, <2>6 DEF AnswerInsert
    <2>7. CASE WaitCreate
      BY <2>4, <2>7 DEF WaitCreate
    <2>8. CASE ReconcileCreate
      BY <2>4, <2>5, <2>8 DEF ReconcileCreate
    <2>9. CASE Observe
      BY <2>4, <2>9 DEF Observe
    <2>10. CASE RecordIdentity
      BY <2>5, <2>10, StageStates, StageNames DEF RecordIdentity
    <2>11. CASE RecordStage
      <3>1. PICK i \in 1..4 :
              /\ step[Creator] = Stages[i]
              /\ \/ i = 4 /\ hour > 0 /\ Expire("intend")
                 \/ /\ i = 4 => hour = 0
                    /\ Note(Creator, Stages[i], IF i = 4 THEN "intend" ELSE Stages[i + 1], "intend")
        BY <2>11 DEF RecordStage
      <3>2. Expire("intend") => Lone(Creator)
        BY <2>4, <2>5 DEF Expire
      <3>3. (IF i = 4 THEN "intend" ELSE Stages[i + 1]) \in Plain
        BY StageStates, StageNames
      <3> QED BY <2>5, <3>1, <3>2, <3>3
    <2> QED BY <1>3, <2>6, <2>7, <2>8, <2>9, <2>10, <2>11 DEF RunCreate
  <1> QED BY <1>2, <1>3

-----------------------------------------------------------------------------
(* The whole. *)

LEMMA CampaignInitHolds == CampaignInit => CampaignIInv
  <1> SUFFICES ASSUME CampaignInit PROVE CampaignIInv
    OBVIOUS
  <1>1. /\ step = [a \in Actor |-> CASE a = Creator -> "new" [] a \in Cleaner -> "unborn"
                                    [] OTHER -> "idle"]
        /\ last = "NONE" /\ marks = {} /\ insert = "none" /\ machine = "none"
    BY DEF CampaignInit
  <1>2. /\ step[Creator] = "new"
        /\ \A a \in Others : step[a] \in {"unborn", "idle"}
    BY <1>1, CampaignAssumption DEF Actor, Others
  <1>3. StepTyped
    BY <1>1 DEF StepTyped
  <1> QED BY <1>1, <1>2, <1>3
        DEF CampaignIInv, MachineWasMade, NotYetInserted, ReleasedWhenDead, BindersSawIt,
            FreshIsUntouched, InsertIsFenced, States, Fresh, Has, Others

LEMMA CampaignNextKeeps ==
  ASSUME CampaignIInv, [CampaignNext]_campaignVars
  PROVE  CampaignIInv'
  <1>1. Creator \in Actor /\ Cleaner \cup Rescuer \subseteq Actor \cap Others
    BY DEF Actor, Others
  <1>2. CASE PrepareCreate \/ RunCreate
    BY <1>2, PrepareKeeps, RunKeeps
  <1>3. ASSUME NEW a \in Actor, CleanUp(a)
        PROVE  CampaignIInv'
    BY <1>3, CleanUpIsCalm, CalmKeeps
  <1>4. ASSUME NEW a \in Others, Bind(a)
        PROVE  CampaignIInv'
    BY <1>4, BindIsCalm, CalmKeeps DEF Actor, Others
  <1>5. ASSUME NEW w \in Cleaner, Watch(w)
        PROVE  CampaignIInv'
    <2>1. CASE KillCreator(w)
      BY <1>5, <2>1, KillingKeeps DEF Watch
    <2>2. CASE ~KillCreator(w)
      BY <1>1, <1>5, <2>2, WatchIsCalm, CalmKeeps
    <2> QED BY <2>1, <2>2
  <1>6. ASSUME NEW o \in Rescuer, Rescue(o)
        PROVE  CampaignIInv'
    BY <1>1, <1>6, RescueIsCalm, CalmKeeps
  <1>7. CASE Materialise
    BY <1>7
      DEF Materialise, history, CampaignIInv, StepTyped, MachineWasMade, NotYetInserted,
          ReleasedWhenDead, BindersSawIt, FreshIsUntouched, InsertIsFenced, Dead, Has
  <1>8. CASE Backstop \/ Pass \/ UNCHANGED campaignVars
    BY <1>8
      DEF Backstop, Deleted, Pass, campaignVars, history, site, CampaignIInv, StepTyped,
          MachineWasMade, NotYetInserted, ReleasedWhenDead, BindersSawIt,
          FreshIsUntouched, InsertIsFenced, Dead, Has
  <1>9. ASSUME NEW a \in Actor, CampaignCrash(a)
        PROVE  CampaignIInv'
    <2>1. PICK to \in {"done", "gone"} : Slip(a, to) /\ Fine(a, to)
      BY <1>9 DEF CampaignCrash, Fine, Before, Gone, Dead
    <2>2. Calm(a)
      BY <1>9, <2>1, SkipIsCalm DEF CampaignCrash, site, Calm, Lone
    <2> QED BY <2>2, CalmKeeps
  <1> QED BY <1>1, <1>2, <1>3, <1>4, <1>5, <1>6, <1>7, <1>8, <1>9 DEF CampaignNext, Serve

(* Only the creator sends an insert, and not once a cleanup has begun.     *)
LEMMA SendsBeforeCleanup ==
  ASSUME CampaignIInv, [CampaignNext]_campaignVars
  PROVE  Has("CLEANUP_INTENT") => (UNCHANGED insert \/ insert = "pending")
  <1> SUFFICES ASSUME insert' # insert, insert # "pending"
               PROVE  ~Has("CLEANUP_INTENT")
    OBVIOUS
  <1>1. SendInsert
    BY DEF CampaignNext, campaignVars, site, PrepareCreate, RunCreate, SendInsert,
           AnswerInsert, WaitCreate, ReconcileCreate, Observe, RecordIdentity,
           RecordStage, CleanUp, Serve, Watch, Bind, Rescue, Materialise, Backstop, Pass,
           CampaignCrash
  <1> QED BY <1>1 DEF SendInsert, CampaignIInv, InsertIsFenced

(* Once anyone has recorded the intent to clean up, no insert is sent: the *)
(* cleanup revoked the claim, or the fence was up and the creator dead.    *)
THEOREM InsertsPrecedeCleanup == CampaignSpec => NothingInsertedAfterCleanup
  <1>1. CampaignInit => CampaignIInv
    BY CampaignInitHolds
  <1>2. CampaignIInv /\ [CampaignNext]_campaignVars => CampaignIInv'
    BY CampaignNextKeeps
  <1>3. CampaignIInv /\ [CampaignNext]_campaignVars =>
          [Has("CLEANUP_INTENT") => (UNCHANGED insert \/ insert = "pending")]_campaignVars
    BY SendsBeforeCleanup
  <1> QED BY <1>1, <1>2, <1>3, PTL DEF CampaignSpec, NothingInsertedAfterCleanup

-----------------------------------------------------------------------------
(* Why a confirmed cleanup is one. A second invariant, with the first: who *)
(* tidies up, or names the machine, has the identities of one that was     *)
(* made, and what was made once and is gone stays gone. A rescuer that     *)
(* trusts to absence read a journal without a trace of a submission: what  *)
(* it confirms is the exception that the property names.                   *)

Made == insert = "made"
Over == Made /\ machine = "none"

Tidying == {"list", "delete", "deleted", "lost", "finish", "erase", "erasing", "erased",
            "absent", "confirm"}
Naming == {"name"} \cup Stage
Trusting == {"revoke", "nothing", "again", "conclude"}
Binding == {Bare, "CREATED", "INVALID"} \cup Identities \cup {Stages[2]}

(* What an actor may build on where it is.                                 *)
Grounded(a, at) ==
  /\ at \in Tidying \cup Naming => Made
  /\ at = "confirm" => Over
  /\ at \in Trusting => a \in Rescuer /\ todo[a] = ByAbsence
  /\ at = "bind" => todo[a] \in Seq(Binding)

MemoryTyped ==
  /\ bound = [a \in Actor |-> bound[a]]
  /\ todo = [a \in Actor |-> todo[a]]

Named == Identities \cap marks # {}

WrongRescue == \E o \in Rescuer : step[o] = "done" /\ todo[o] = ByAbsence

ConfirmedIInv ==
  /\ MemoryTyped
  /\ Named => Made
  /\ \A a \in Actor : bound[a] => Made
  /\ \A a \in Actor : Grounded(a, step[a])
  /\ Has("CLEANUP_CONFIRMED") => Over \/ WrongRescue

(* What every step does, and that it keeps the invariant.                  *)
Founded ==
  /\ Made => Made'
  /\ Over => Over'
  /\ MemoryTyped'
  /\ Named' => Named \/ Made'
  /\ \A b \in Actor : bound'[b] => bound[b] \/ Made'
  /\ \A b \in Actor : \/ step'[b] = step[b] /\ todo'[b] = todo[b]
                      \/ (b \in Rescuer => step[b] # "done") /\ Grounded(b, step[b])'
  /\ Has("CLEANUP_CONFIRMED")' => Has("CLEANUP_CONFIRMED") \/ Over' \/ WrongRescue'

LEMMA FoundedKeeps ==
  ASSUME ConfirmedIInv, Founded
  PROVE  ConfirmedIInv'
  <1>1. MemoryTyped' /\ (Named' => Made') /\ \A b \in Actor : bound'[b] => Made'
    BY DEF ConfirmedIInv, Founded
  <1>2. \A b \in Actor : Grounded(b, step[b])'
    BY DEF ConfirmedIInv, Founded, Grounded
  <1>3. WrongRescue => WrongRescue'
    BY DEF WrongRescue, Founded, Actor
  <1> QED BY <1>1, <1>2, <1>3 DEF ConfirmedIInv, Founded

(* An actor that only touches what is its own.                             *)
Own(a) ==
  /\ Calm(a) /\ step[a] # "done" /\ MemoryTyped'
  /\ \A b \in Actor \ {a} : todo'[b] = todo[b] /\ bound'[b] = bound[b]
  /\ bound'[a] => bound[a] \/ Made

LEMMA OwnStepIsFounded ==
  ASSUME CampaignIInv, NEW a \in Actor, Own(a), Grounded(a, step[a])',
         Named' => Named \/ Made,
         Has("CLEANUP_CONFIRMED")' => Has("CLEANUP_CONFIRMED") \/ Over' \/ WrongRescue'
  PROVE  Founded
  <1>1. \A b \in Actor \ {a} : step'[b] = step[b]
    BY DEF Own, Calm, Moves, Move, CampaignIInv, StepTyped
  <1>2. (Made => Made') /\ (Over => Over')
    BY DEF Own, Calm, Made, Over
  <1> QED BY <1>1, <1>2 DEF Own, Founded

(* Most steps tell nothing of identities or of an end.                     *)
Telling == Identities \cup {"CLEANUP_CONFIRMED"}
GoTo(a, to) == Move(a, to) /\ Telling \cap marks' = Telling \cap marks

LEMMA GoingIsFounded ==
  ASSUME CampaignIInv, NEW a \in Actor, Own(a), NEW to, GoTo(a, to), Grounded(a, to)'
  PROVE  Founded
  <1>1. step'[a] = to
    BY DEF GoTo, Move, CampaignIInv, StepTyped
  <1>2. Grounded(a, step[a])'
    BY <1>1 DEF Grounded
  <1>3. (Named' => Named) /\ (Has("CLEANUP_CONFIRMED")' => Has("CLEANUP_CONFIRMED"))
    BY DEF GoTo, Telling, Named, Has
  <1> QED BY <1>2, <1>3, OwnStepIsFounded

LEMMA SkipGoes ==
  ASSUME NEW a, NEW to, Skip(a, to) \/ Slip(a, to)
  PROVE  GoTo(a, to)
  BY DEF Skip, Slip, GoTo, history

LEMMA NoteGoes ==
  ASSUME NEW a, NEW s, NEW ok, NEW no, Note(a, s, ok, no), s \notin Telling
  PROVE  GoTo(a, ok) \/ GoTo(a, no)
  <1>1. Telling \cap MarksOf(s) = {}
    BY StageNames DEF Telling, MarksOf, Identities, Asked
  <1> QED BY <1>1 DEF Note, Appended, GoTo, history

LEMMA RevokeGoes ==
  ASSUME NEW a, NEW ok, NEW no, Revoke(a, ok, no)
  PROVE  GoTo(a, ok) \/ GoTo(a, no)
  <1>1. "CLEANUP_INTENT" \notin Telling
    BY StageNames DEF Telling, Identities
  <1> QED BY <1>1, SkipGoes, NoteGoes DEF Revoke

(* Where nothing needs to be known.                                        *)
LEMMA LightIsGrounded ==
  ASSUME NEW a, NEW to, to \notin Tidying \cup Naming \cup Trusting \cup {"bind"}
  PROVE  Grounded(a, to)'
  BY DEF Grounded, Tidying

-----------------------------------------------------------------------------
(* Cleaning up: from its list on, the actor knows what was made.           *)

LEMMA CleanUpIsOwn ==
  ASSUME CampaignIInv, ConfirmedIInv, NEW a \in Actor, CleanUp(a)
  PROVE  Own(a) /\ todo' = todo
  <1>1. step[a] # "done"
    BY DEF CleanUp, IntendCleanup, ListResiduals, RecordDelete, RecordErase,
           ConfirmCleanup, LeaveUnconfirmed, DeleteInstance, FinishDelete, EraseDisk
  <1>2. todo' = todo /\ (bound' = bound \/ bound' = [bound EXCEPT ![a] = FALSE])
    BY DEF CleanUp, Forget
  <1> QED BY <1>1, <1>2, CleanUpIsCalm DEF Own, ConfirmedIInv, MemoryTyped

LEMMA CleanUpIsFounded ==
  ASSUME CampaignIInv, ConfirmedIInv, NEW a \in Actor, CleanUp(a)
  PROVE  Founded
  <1> DEFINE Ends == {"fail", "gone", "after", "done", "settle"}
             Working == Tidying \ {"confirm"}
             Told == Deletions \cup {"CLEANUP_UNCONFIRMED"}
  <1>1. Own(a) /\ insert' = insert
    BY CleanUpIsOwn DEF Own, Calm
  <1>2. \A to : GoTo(a, to) /\ Grounded(a, to)' => Founded
    BY <1>1, GoingIsFounded
  <1>3. \A to \in Ends : Grounded(a, to)'
    BY LightIsGrounded, StageStates DEF Tidying, Naming, Trusting
  <1>4. step[a] \in Tidying \/ bound[a] => \A to \in Working : Grounded(a, to)'
    BY <1>1, StageStates DEF ConfirmedIInv, Grounded, Tidying, Trusting, Made
  <1>5. CleanupOver(a) \in Ends /\ CleanupDone(a) \in Ends
    BY DEF CleanupOver, CleanupDone
  <1>6. \A s \in Told : s \notin Telling
    BY StageNames DEF Deletions, Telling, Identities
  <1>7. \A to \in Ends : Skip(a, to) \/ Slip(a, to) => Founded
    BY <1>2, <1>3, SkipGoes
  <1>8. ASSUME step[a] \in Tidying
        PROVE  /\ \A to \in Working : Skip(a, to) \/ Slip(a, to) => Founded
               /\ \A s \in Told : \A ok, no \in Working \cup Ends :
                    Note(a, s, ok, no) => Founded
    BY <1>2, <1>3, <1>4, <1>6, <1>8, SkipGoes, NoteGoes
  <1>9. \A s \in Told : \A ok, no \in Ends : Note(a, s, ok, no) => Founded
    BY <1>2, <1>3, <1>6, NoteGoes
  <1> HIDE DEF Told
  <1>10. ASSUME step[a] \in Tidying, ChooseErase(a)
         PROVE  Founded
    BY <1>7, <1>8, <1>10 DEF ChooseErase, Tidying, Told, Deletions
  <1>11. CASE IntendCleanup(a)
    <2>1. /\ GoTo(a, "list") \/ GoTo(a, "fail")
          /\ ~bound[a] => GoTo(a, "fail")
      BY <1>11, RevokeGoes DEF IntendCleanup
    <2> QED BY <1>2, <1>3, <1>4, <2>1 DEF Tidying
  <1>12. CASE ListResiduals(a)
    BY <1>7, <1>8, <1>10, <1>12 DEF ListResiduals, ChooseDelete, Tidying, Told, Deletions
  <1>13. CASE RecordDelete(a)
    BY <1>7, <1>8, <1>13 DEF RecordDelete, Tidying, Told, Deletions
  <1>14. CASE RecordErase(a)
    BY <1>7, <1>8, <1>14 DEF RecordErase, Tidying, Told, Deletions
  <1>15. CASE ConfirmCleanup(a) /\ UNCHANGED machine
    <2>1. CASE step[a] = "absent"
      <3>1. Made' /\ (machine = "none" => Grounded(a, "confirm")')
        BY <1>1, <1>15, <2>1, StageStates
          DEF ConfirmedIInv, Grounded, Tidying, Trusting, Made, Over
      <3>2. \/ GoTo(a, "confirm") /\ machine = "none"
            \/ GoTo(a, "fail")
        BY <1>15, <2>1, SkipGoes DEF ConfirmCleanup
      <3> QED BY <1>2, <1>3, <3>1, <3>2
    <2>2. CASE step[a] = "confirm"
      <3>1. Over'
        BY <1>1, <1>15, <2>2 DEF ConfirmedIInv, Grounded, Made, Over
      <3>2. /\ \E to \in Ends : Move(a, to)
            /\ marks' = marks \/ marks' = marks \cup MarksOf("CLEANUP_CONFIRMED")
        BY <1>5, <1>15, <2>2 DEF ConfirmCleanup, Note, Appended, history
      <3>3. Named' => Named
        BY <3>2, StageNames DEF MarksOf, Identities, Named, Asked
      <3>4. Grounded(a, step[a])'
        BY <1>3, <3>2 DEF Move, CampaignIInv, StepTyped, Grounded
      <3> QED BY <1>1, <3>1, <3>3, <3>4, OwnStepIsFounded
    <2> QED BY <1>15, <2>1, <2>2 DEF ConfirmCleanup
  <1>16. CASE LeaveUnconfirmed(a)
    BY <1>5, <1>7, <1>9, <1>16 DEF LeaveUnconfirmed, Told
  <1>17. CASE DeleteInstance(a)
    BY <1>7, <1>8, <1>17 DEF DeleteInstance, Tidying
  <1>18. CASE FinishDelete(a)
    BY <1>7, <1>8, <1>10, <1>18 DEF FinishDelete, Tidying
  <1>19. CASE EraseDisk(a)
    BY <1>7, <1>8, <1>19 DEF EraseDisk, Tidying
  <1> QED BY <1>11, <1>12, <1>13, <1>14, <1>15, <1>16, <1>17, <1>18, <1>19 DEF CleanUp

-----------------------------------------------------------------------------
(* Binding what is there: what is planned are events of a binding.         *)

LEMMA PlanIsBinding == Plan \in Seq(Binding)
  <1>1. Chain \in Seq(Binding) /\ Len(Chain) = 5
    BY DEF Chain, Binding, Identities
  <1>2. \A i \in 1..6, j \in 2..5 : SubSeq(Chain, i, j) \in Seq(Binding)
    <2> SUFFICES ASSUME NEW i \in 1..6, NEW j \in 2..5
                 PROVE  SubSeq(Chain, i, j) \in Seq(Binding)
      OBVIOUS
    <2> QED BY <1>1, SubSeqProperties
  <1>3. "INVALID" \in Binding
    BY DEF Binding
  <1>4. \A s, t \in Seq(Binding) : s \o t \in Seq(Binding)
    OBVIOUS
  <1>5. <<>> \in Seq(Binding) /\ <<"INVALID">> \in Seq(Binding)
    BY <1>3
  <1> DEFINE start == CASE last \in {"CREATE_INTENT", "CREATE_SUBMITTED", "CLEANUP_INTENT",
                               "CLEANUP_UNCONFIRMED", Late} -> 1
                 [] last \in {"CREATE_RECONCILING", Bare} -> 2
                 [] last = "CREATED" -> 3
                 [] last = "INSTANCE_IDENTITY_BOUND" -> 4
                 [] last = Stages[1] -> 5
                 [] last \in Stage \ {Stages[1]} -> 6
                 [] OTHER -> 0
             known == CASE start \in 1..3 /\ Has("INSTANCE_IDENTITY_BOUND") -> 3
                 [] start \in 1..4 /\ Has(Stages[1]) -> 4
                 [] OTHER -> 6
  <1>6. start \in 0..6
    OBVIOUS
  <1>7. known \in 3..6
    <2> HIDE DEF start
    <2> QED OBVIOUS
  <1>8. Plan = IF start = 0 \/ BindingInvalid THEN <<"INVALID">>
               ELSE SubSeq(Chain, start, known - 1)
                    \o (IF known < 6 THEN <<"INVALID">> ELSE <<>>)
    BY DEF Plan
  <1> HIDE DEF start, known
  <1> QED BY <1>2, <1>4, <1>5, <1>6, <1>7, <1>8

LEMMA BindIsFounded ==
  ASSUME CampaignIInv, ConfirmedIInv, NEW a \in Others, Bind(a)
  PROVE  Founded
  <1>1. a \in Actor /\ step[a] = "bind" /\ Made /\ todo[a] \in Seq(Binding)
    BY DEF Bind, Others, Actor, CampaignIInv, BindersSawIt, Made, ConfirmedIInv, Grounded
  <1>2. Own(a)
    <2>1. Calm(a)
      BY BindIsCalm
    <2>2. /\ bound' = [bound EXCEPT ![a] = bound'[a]]
          /\ todo' = [todo EXCEPT ![a] = todo'[a]]
      <3>1. CASE todo[a] = <<>>
        <4>1. bound' = [bound EXCEPT ![a] = TRUE] /\ todo' = todo
          BY <3>1 DEF Bind
        <4> QED BY <1>1, <4>1 DEF ConfirmedIInv, MemoryTyped
      <3>2. CASE todo[a] # <<>>
        <4>1. /\ bound' = bound
              /\ todo' = [todo EXCEPT ![a] = IF step'[a] = "bind" THEN Tail(@) ELSE <<>>]
          BY <3>2 DEF Bind
        <4> QED BY <1>1, <4>1 DEF ConfirmedIInv, MemoryTyped
      <3> QED BY <3>1, <3>2
    <2> QED BY <1>1, <2>1, <2>2 DEF Own, ConfirmedIInv, MemoryTyped
  <1>3. Made'
    BY <1>1, <1>2 DEF Own, Calm, Made
  <1> DEFINE Ends == {"own", "intend", "give up", "after"}
  <1>4. \A to \in Ends : Grounded(a, to)'
    BY LightIsGrounded, StageStates DEF Tidying, Naming, Trusting
  <1>5. CASE todo[a] = <<>> \/ Head(todo[a]) = "INVALID"
    <2>1. \E to \in Ends : Skip(a, to)
      BY <1>5 DEF Bind, BindFails
    <2> QED BY <1>1, <1>2, <1>4, <2>1, SkipGoes, GoingIsFounded
  <1>6. CASE ~(todo[a] = <<>> \/ Head(todo[a]) = "INVALID")
    <2>1. /\ Note(a, Head(todo[a]), "bind", BindFails(a))
          /\ todo' = [todo EXCEPT ![a] = IF step'[a] = "bind" THEN Tail(@) ELSE <<>>]
      BY <1>6 DEF Bind
    <2>2. Head(todo[a]) \in Binding /\ Tail(todo[a]) \in Seq(Binding)
      BY <1>1, <1>6
    <2>3. PICK to \in Ends \cup {"bind"} : Move(a, to)
      BY <2>1 DEF Note, BindFails
    <2>4. step'[a] = to
      BY <1>1, <2>3 DEF Move, CampaignIInv, StepTyped
    <2>5. Grounded(a, step[a])'
      <3>1. CASE to = "bind"
        <4>1. todo'[a] \in Seq(Binding)
          BY <1>1, <2>1, <2>2, <2>4, <3>1 DEF ConfirmedIInv, MemoryTyped
        <4> QED BY <1>3, <2>4, <3>1, <4>1, StageStates
              DEF Grounded, Tidying, Naming, Trusting
      <3>2. CASE to \in Ends
        BY <1>4, <2>4, <3>2 DEF Grounded
      <3> QED BY <3>1, <3>2
    <2>6. Has("CLEANUP_CONFIRMED")' => Has("CLEANUP_CONFIRMED")
      <3>1. "CLEANUP_CONFIRMED" \notin MarksOf(Head(todo[a]))
        BY <2>2, StageNames DEF MarksOf, Binding, Identities, Bare
      <3> QED BY <2>1, <3>1 DEF Note, Appended, history, Has
    <2> QED BY <1>1, <1>2, <2>5, <2>6, OwnStepIsFounded
  <1> QED BY <1>5, <1>6

-----------------------------------------------------------------------------
(* Rescuing and watching. *)

LEMMA LookIsFounded ==
  ASSUME CampaignIInv, ConfirmedIInv, NEW a \in Others, Look(a), UNCHANGED site
  PROVE  Founded
  <1>1. a \in Actor /\ step[a] = "look" /\ bound' = bound
    BY DEF Look, Others, Actor
  <1>2. machine = "vm" => Made'
    BY DEF CampaignIInv, MachineWasMade, Made, site
  <1>3. todo' = todo \/ todo' = [todo EXCEPT ![a] = Plan]
    BY DEF Look
  <1>4. Own(a)
    BY <1>1, <1>3, LookIsCalm DEF Own, ConfirmedIInv, MemoryTyped
  <1> DEFINE Ends == {"done", "give up", "after", "gone"}
  <1>5. \A to \in Ends : Grounded(a, to)'
    BY LightIsGrounded, StageStates DEF Tidying, Naming, Trusting
  <1>6. CASE \E to \in Ends : Skip(a, to) \/ Slip(a, to)
    BY <1>1, <1>4, <1>5, <1>6, SkipGoes, GoingIsFounded
  <1>7. CASE machine = "vm" /\ Skip(a, "bind") /\ todo' = [todo EXCEPT ![a] = Plan]
    <2>1. todo'[a] \in Seq(Binding)
      BY <1>1, <1>7, PlanIsBinding DEF ConfirmedIInv, MemoryTyped
    <2>2. Grounded(a, "bind")'
      BY <1>2, <1>7, <2>1, StageStates DEF Grounded, Tidying, Naming, Trusting
    <2> QED BY <1>1, <1>4, <1>7, <2>2, SkipGoes, GoingIsFounded
  <1>8. \/ \E to \in Ends : Skip(a, to) \/ Slip(a, to)
        \/ machine = "vm" /\ Skip(a, "bind") /\ todo' = [todo EXCEPT ![a] = Plan]
    BY DEF Look, BindFails
  <1> QED BY <1>6, <1>7, <1>8

LEMMA BeginRescueIsFounded ==
  ASSUME CampaignIInv, ConfirmedIInv, NEW o \in Rescuer, BeginRescue(o), Calm(o)
  PROVE  Founded
  <1>1. o \in Actor /\ step[o] = "idle"
    BY DEF BeginRescue, Actor
  <1> DEFINE Ends == {"done", "intend", "look"}
  <1>2. \A to \in Ends : Grounded(o, to)'
    BY LightIsGrounded, StageStates DEF Tidying, Naming, Trusting
  <1>3. CASE (\E to \in Ends : Skip(o, to) \/ Slip(o, to)) /\ UNCHANGED <<bound, todo>>
    <2>1. Own(o)
      BY <1>1, <1>3 DEF Own, ConfirmedIInv, MemoryTyped
    <2> QED BY <1>1, <1>2, <1>3, <2>1, SkipGoes, GoingIsFounded
  <1>4. CASE BindingKnown /\ Skip(o, "intend") /\ UNCHANGED todo
             /\ bound' = [bound EXCEPT ![o] = TRUE]
    <2>1. Made
      BY <1>4 DEF BindingKnown, ConfirmedIInv, Named, Identities
    <2>2. Own(o)
      BY <1>1, <1>4, <2>1 DEF Own, ConfirmedIInv, MemoryTyped
    <2> QED BY <1>1, <1>2, <1>4, <2>2, SkipGoes, GoingIsFounded
  <1>5. CASE Skip(o, "revoke") /\ UNCHANGED bound
             /\ todo' = [todo EXCEPT ![o] = ByAbsence]
    <2>1. Own(o) /\ todo'[o] = ByAbsence
      BY <1>1, <1>5 DEF Own, ConfirmedIInv, MemoryTyped
    <2>2. Grounded(o, "revoke")'
      BY <2>1, StageStates DEF Grounded, Tidying, Naming, Trusting
    <2> QED BY <1>1, <1>5, <2>1, <2>2, SkipGoes, GoingIsFounded
  <1>6. \/ (\E to \in Ends : Skip(o, to) \/ Slip(o, to)) /\ UNCHANGED <<bound, todo>>
        \/ /\ BindingKnown /\ Skip(o, "intend") /\ UNCHANGED todo
           /\ bound' = [bound EXCEPT ![o] = TRUE]
        \/ /\ Skip(o, "revoke") /\ UNCHANGED bound
           /\ todo' = [todo EXCEPT ![o] = ByAbsence]
    BY DEF BeginRescue
  <1> QED BY <1>3, <1>4, <1>5, <1>6

(* A rescuer that gives up forgets on what it relied; one that trusts to   *)
(* absence to the end still knows.                                         *)
LEMMA TrustIsFounded ==
  ASSUME CampaignIInv, ConfirmedIInv, NEW o \in Rescuer,
         RevokeCreate(o) \/ ConfirmAbsence(o), Rescue(o), Calm(o)
  PROVE  Founded
  <1>1. o \in Actor /\ step[o] \in Trusting \cup {"own", "give up"} /\ bound' = bound
    BY DEF RevokeCreate, ConfirmAbsence, Rescue, BeginRescue, Look, Actor, Trusting
  <1>2. todo' = [todo EXCEPT ![o] = IF step'[o] = "give up" THEN <<>> ELSE @]
    BY <1>1 DEF Rescue, BeginRescue, Look, Trusting
  <1>3. /\ step'[o] # "give up" => todo'[o] = todo[o]
        /\ Own(o)
    BY <1>1, <1>2 DEF Own, Trusting, ConfirmedIInv, MemoryTyped
  <1>4. step[o] \in Trusting => todo[o] = ByAbsence
    BY <1>1 DEF ConfirmedIInv, Grounded
  <1>5. \A to : Move(o, to) => step'[o] = to
    BY <1>1 DEF Move, CampaignIInv, StepTyped
  <1> DEFINE Ends == {"intend", "give up", "fail", "done"}
  <1>6. \A to \in Ends : Grounded(o, to)'
    BY LightIsGrounded, StageStates DEF Tidying, Naming, Trusting
  <1>7. \A to \in Ends : GoTo(o, to) => Founded
    BY <1>1, <1>3, <1>6, GoingIsFounded
  <1>8. ASSUME step[o] \in Trusting, NEW to \in Trusting, GoTo(o, to)
        PROVE  Founded
    <2>1. todo'[o] = ByAbsence
      BY <1>3, <1>4, <1>5, <1>8 DEF GoTo, Trusting
    <2>2. Grounded(o, to)'
      BY <1>8, <2>1, StageStates DEF Grounded, Tidying, Naming, Trusting
    <2> QED BY <1>1, <1>3, <1>8, <2>2, GoingIsFounded
  <1>9. CASE RevokeCreate(o)
    <2>1. \/ step[o] = "revoke" /\ (GoTo(o, "nothing") \/ GoTo(o, "give up"))
          \/ \E to \in Ends : GoTo(o, to)
      BY <1>9, RevokeGoes DEF RevokeCreate
    <2> QED BY <1>7, <1>8, <2>1 DEF Trusting
  <1>10. CASE step[o] = "nothing" /\ ConfirmAbsence(o)
    <2>1. GoTo(o, "again") \/ GoTo(o, "give up")
      BY <1>10, SkipGoes DEF ConfirmAbsence
    <2> QED BY <1>7, <1>8, <1>10, <2>1 DEF Trusting
  <1>11. CASE step[o] = "again" /\ ConfirmAbsence(o)
    <2>1. GoTo(o, "conclude") \/ GoTo(o, "give up")
      BY <1>11, RevokeGoes DEF ConfirmAbsence
    <2> QED BY <1>7, <1>8, <1>11, <2>1 DEF Trusting
  <1>12. CASE step[o] = "conclude" /\ ConfirmAbsence(o)
    <2>1. Note(o, "CLEANUP_CONFIRMED", "done", "give up")
      BY <1>12 DEF ConfirmAbsence
    <2>2. \/ marks' = marks /\ (Move(o, "done") \/ Move(o, "give up"))
          \/ marks' = marks \cup MarksOf("CLEANUP_CONFIRMED") /\ Move(o, "done")
      BY <2>1 DEF Note, Appended, history
    <2>3. CASE marks' = marks
      BY <1>7, <2>2, <2>3 DEF GoTo
    <2>4. CASE marks' = marks \cup MarksOf("CLEANUP_CONFIRMED") /\ Move(o, "done")
      <3>1. step'[o] = "done" /\ todo'[o] = ByAbsence
        BY <1>3, <1>4, <1>5, <1>12, <2>4 DEF Trusting
      <3>2. WrongRescue' /\ Grounded(o, step[o])'
        BY <1>6, <3>1 DEF WrongRescue, Grounded
      <3>3. Named' => Named
        BY <2>4, StageNames DEF MarksOf, Asked, Identities, Named
      <3> QED BY <1>1, <1>3, <3>2, <3>3, OwnStepIsFounded
    <2> QED BY <2>2, <2>3, <2>4
  <1> QED BY <1>9, <1>10, <1>11, <1>12 DEF ConfirmAbsence

LEMMA RescueIsFounded ==
  ASSUME CampaignIInv, ConfirmedIInv, NEW o \in Rescuer, Rescue(o)
  PROVE  Founded
  <1>1. Calm(o) /\ o \in Others
    BY RescueIsCalm DEF Others
  <1>2. CASE Look(o)
    BY <1>1, <1>2, LookIsFounded DEF Rescue
  <1>3. CASE BeginRescue(o)
    BY <1>1, <1>3, BeginRescueIsFounded
  <1>4. CASE RevokeCreate(o) \/ ConfirmAbsence(o)
    BY <1>1, <1>4, TrustIsFounded
  <1> QED BY <1>2, <1>3, <1>4 DEF Rescue

(* A watching cleaner only moves between places where nothing is known;    *)
(* KillCreator may end the creator besides.                                *)
Watching == {"starting", "poll", "recover", "fencing", "kill", "release", "look",
             "intend", "settle", "after", "mark", "write off", "gone"}

LEMMA WatchIsFounded ==
  ASSUME CampaignIInv, ConfirmedIInv, NEW w \in Cleaner, Watch(w), ~KillCreator(w)
  PROVE  Founded
  <1>1. Calm(w) /\ w \in Actor /\ w \in Others
    BY WatchIsCalm DEF Actor, Others
  <1>2. \A to \in Watching : Grounded(w, to)'
    BY LightIsGrounded, StageStates DEF Watching, Tidying, Naming, Trusting
  <1>3. CASE Look(w)
    BY <1>1, <1>3, LookIsFounded DEF Watch
  <1>4. CASE ~Look(w)
    <2> DEFINE Going == \E to \in Watching : GoTo(w, to)
    <2>1. \A to \in Watching : Skip(w, to) \/ Slip(w, to) => Going
      BY SkipGoes
    <2>2. \A s : \A to \in Watching : Tell(w, s, to) => Going
      <3>1. "gone" \in Watching
        BY DEF Watching
      <3> QED BY <2>1, <3>1 DEF Tell
    <2>3. \A ok, no \in Watching : Revoke(w, ok, no) => Going
      BY RevokeGoes
    <2>4. \A s \in {"CREATE_FENCE_PENDING", "CLEANUP_UNCONFIRMED", "CLEANUP_INTENT"} :
            \A ok, no \in Watching : Note(w, s, ok, no) => Going
      <3>1. \A s \in {"CREATE_FENCE_PENDING", "CLEANUP_UNCONFIRMED", "CLEANUP_INTENT"} :
              s \notin Telling
        BY StageNames DEF Telling, Identities
      <3> QED BY <3>1, NoteGoes
    <2> HIDE DEF Going
    <2>5. Going /\ todo' = todo /\ (bound'[w] => bound[w] \/ Made)
          /\ bound' \in {bound, [bound EXCEPT ![w] = bound'[w]]}
      <3>1. CASE ResumeCleanupOnly(w)
        BY <2>1, <3>1 DEF ResumeCleanupOnly, Watching
      <3>2. CASE StartCleaner(w)
        BY <2>1, <2>2, <3>2 DEF StartCleaner, Watching
      <3>3. CASE Poll(w)
        BY <2>1, <2>2, <3>3 DEF Poll, Watching
      <3>4. CASE RecoverWatchdogCleanup(w)
        <4>1. Going
          <5>1. \/ \E to \in {"gone", "settle", "after", "intend"} : Skip(w, to) \/ Slip(w, to)
                \/ Revoke(w, "look", "after")
            BY <3>4 DEF RecoverWatchdogCleanup
          <5> QED BY <2>1, <2>3, <5>1 DEF Watching
        <4>2. step'[w] = "intend" => bound'[w] = bound[w] \/ Made
          <5>1. \A to : Move(w, to) => step'[w] = to
            BY <1>1 DEF Move, CampaignIInv, StepTyped
          <5>2. CASE BindingKnown
            BY <5>2 DEF BindingKnown, ConfirmedIInv, Named, Identities
          <5>3. CASE ~BindingKnown
            BY <3>4, <5>1, <5>3 DEF RecoverWatchdogCleanup, Skip, Slip, Revoke, Note
          <5> QED BY <5>2, <5>3
        <4> QED BY <1>1, <3>4, <4>1, <4>2
              DEF RecoverWatchdogCleanup, ConfirmedIInv, MemoryTyped
      <3>5. CASE EndRound(w)
        <4>1. \/ Tell(w, "CONFIRMED", "gone") \/ Tell(w, "UNCONFIRMED", "gone")
              \/ Skip(w, "poll") \/ Skip(w, "write off") \/ Revoke(w, "mark", "write off")
              \/ Note(w, "CLEANUP_UNCONFIRMED", "write off", "write off")
          BY <3>5 DEF EndRound
        <4>2. UNCHANGED <<bound, todo>>
          BY <3>5 DEF EndRound
        <4> QED BY <2>1, <2>2, <2>3, <2>4, <4>1, <4>2 DEF Watching
      <3>6. CASE FenceSubmittedCreate(w) /\ UNCHANGED <<bound, todo>>
        BY <2>1, <2>4, <3>6 DEF FenceSubmittedCreate, Watching
      <3>7. CASE ReleaseFenced(w) /\ UNCHANGED <<bound, todo>>
        BY <2>1, <2>4, <3>7 DEF ReleaseFenced, Watching
      <3> QED BY <1>4, <3>1, <3>2, <3>3, <3>4, <3>5, <3>6, <3>7 DEF Watch
    <2>6. step[w] # "done"
      BY DEF Watch, ResumeCleanupOnly, StartCleaner, Poll, RecoverWatchdogCleanup, Look,
             EndRound, FenceSubmittedCreate, ReleaseFenced, KillCreator
    <2>7. Own(w)
      BY <1>1, <2>5, <2>6 DEF Own, ConfirmedIInv, MemoryTyped
    <2> QED BY <1>1, <1>2, <2>5, <2>7, GoingIsFounded DEF Going
  <1> QED BY <1>3, <1>4

LEMMA KillingIsFounded ==
  ASSUME CampaignIInv, ConfirmedIInv, NEW w \in Cleaner, KillCreator(w),
         UNCHANGED <<site, todo>>
  PROVE  Founded
  <1>1. Creator \in Actor /\ w \in Actor /\ w # Creator
    BY CampaignAssumption DEF Actor
  <1>2. UNCHANGED <<marks, insert, machine>>
    BY DEF KillCreator, history, site
  <1>3. bound' = bound \/ bound' = [bound EXCEPT ![Creator] = FALSE]
    BY DEF KillCreator, Forget
  <1>4. \E to \in {"release", "gone", "poll"} :
          \/ step' = [step EXCEPT ![w] = to]
          \/ step' = [step EXCEPT ![w] = to, ![Creator] = "gone"] /\ step[Creator] # "gone"
    BY DEF KillCreator, Move, Dead
  <1>5. \A b \in Actor : \/ step'[b] = step[b]
                         \/ b \in {w, Creator} /\ step'[b] \in {"release", "gone", "poll"}
    BY <1>1, <1>4 DEF CampaignIInv, StepTyped
  <1>6. \A b \in Actor, to \in {"release", "gone", "poll"} : Grounded(b, to)'
    BY LightIsGrounded, StageStates DEF Tidying, Naming, Trusting
  <1>7. \A b \in Actor : \/ step'[b] = step[b] /\ todo'[b] = todo[b]
                         \/ b \notin Rescuer /\ Grounded(b, step[b])'
    BY <1>1, <1>5, <1>6, CampaignAssumption DEF Grounded
  <1>8. MemoryTyped' /\ \A b \in Actor : bound'[b] => bound[b]
    BY <1>1, <1>3 DEF ConfirmedIInv, MemoryTyped
  <1> QED BY <1>2, <1>7, <1>8 DEF Founded, Made, Over, Named, Has, WrongRescue

-----------------------------------------------------------------------------
(* The creator, the provider and time. *)

(* Steps that change no memory and tell nothing, of actors that go where   *)
(* nothing is known.                                                       *)
LEMMA QuietIsFounded ==
  ASSUME ConfirmedIInv, UNCHANGED <<marks, bound, todo>>, Made => Made', Over => Over',
         \A b \in Actor : \/ step'[b] = step[b]
                          \/ b \notin Rescuer /\ Grounded(b, step[b])'
  PROVE  Founded
  BY DEF Founded, ConfirmedIInv, MemoryTyped, Named, Has, Grounded

LEMMA PrepareIsFounded ==
  ASSUME CampaignIInv, ConfirmedIInv, PrepareCreate
  PROVE  Founded
  <1>1. /\ Creator \in Actor /\ Watchdog \in Actor
        /\ Creator \notin Rescuer /\ Watchdog \notin Rescuer
    BY CampaignAssumption DEF Actor, Cleaner
  <1>2. UNCHANGED <<insert, machine, bound, todo>>
    BY DEF PrepareCreate, site, memory
  <1> DEFINE Plain == Before \cup {"block", "gone", "intend", "starting"}
  <1>3. \A b \in Actor, to \in Plain : Grounded(b, to)'
    BY LightIsGrounded, StageStates DEF Before, Tidying, Naming, Trusting
  <1>4. Telling \cap marks' = Telling \cap marks
    <2>1. \A s, ok, no : s \notin Telling /\ Note(Creator, s, ok, no) =>
            Telling \cap marks' = Telling \cap marks
      BY NoteGoes DEF GoTo
    <2>2. {"CREATE_INTENT_DURABLE", "CREATE_INTENT", "BLOCKED", "CREATE_CLAIMED", Late,
           "CREATE_SUBMITTED"} \cap Telling = {}
      BY StageNames DEF Telling, Identities, Late
    <2>3. \A to : Skip(Creator, to) \/ Slip(Creator, to) => marks' = marks
      BY DEF Skip, Slip, history
    <2> QED BY <2>1, <2>2, <2>3
          DEF PrepareCreate, OpenCampaign, ActivateCleaner, AwaitReady, BlockCreate,
              ClaimCreate, BindTransport, Expire, SubmitCreate, Recheck, history
  <1>5. \E to, end \in Plain :
          \/ step' = [step EXCEPT ![Creator] = to]
          \/ step' = [step EXCEPT ![Creator] = to, ![Watchdog] = end]
    <2>1. \A s : \A ok, no \in Plain : Note(Creator, s, ok, no) =>
            \E to \in Plain : step' = [step EXCEPT ![Creator] = to]
      BY DEF Note, Move
    <2>2. \A to \in Plain : Skip(Creator, to) \/ Slip(Creator, to) =>
            step' = [step EXCEPT ![Creator] = to]
      BY DEF Skip, Slip, Move
    <2>3. CASE OpenCampaign \/ BlockCreate \/ ClaimCreate
      BY <2>1, <2>2, <2>3 DEF OpenCampaign, BlockCreate, ClaimCreate, Before
    <2>4. CASE ActivateCleaner
      BY <2>1, <2>2, <2>4 DEF ActivateCleaner, Expire, Before
    <2>6. CASE AwaitReady
      BY <2>6 DEF AwaitReady, Move, Before
    <2>5. CASE BindTransport \/ SubmitCreate \/ Recheck
      BY <2>1, <2>2, <2>5 DEF BindTransport, SubmitCreate, Recheck, Expire, Before
    <2> QED BY <2>3, <2>4, <2>5, <2>6 DEF PrepareCreate
  <1>6. \A b \in Actor : step'[b] = step[b] \/ (b \notin Rescuer /\ step'[b] \in Plain)
    BY <1>1, <1>5 DEF CampaignIInv, StepTyped
  <1>7. \A b \in Actor : \/ step'[b] = step[b]
                         \/ b \notin Rescuer /\ Grounded(b, step[b])'
    BY <1>3, <1>6 DEF Grounded
  <1>8. (Named' => Named) /\ (Has("CLEANUP_CONFIRMED")' => Has("CLEANUP_CONFIRMED"))
    BY <1>4 DEF Telling, Named, Has
  <1> QED BY <1>2, <1>7, <1>8 DEF Founded, ConfirmedIInv, MemoryTyped, Made, Over

LEMMA RunIsFounded ==
  ASSUME CampaignIInv, ConfirmedIInv, RunCreate
  PROVE  Founded
  <1>1. Creator \in Actor /\ Creator \notin Rescuer
    BY CampaignAssumption DEF Actor
  <1>2. CASE SendInsert
    <2>1. /\ step' = [step EXCEPT ![Creator] = "answer"]
          /\ UNCHANGED <<marks, machine, bound, todo>> /\ insert = "none"
      BY <1>2 DEF SendInsert, Skip, Move, history, memory, CampaignIInv, NotYetInserted,
                  Before
    <2>2. Grounded(Creator, "answer")'
      BY LightIsGrounded, StageStates DEF Tidying, Naming, Trusting
    <2>3. \A b \in Actor : step'[b] = step[b] \/ (b = Creator /\ step'[b] = "answer")
      BY <1>1, <2>1 DEF CampaignIInv, StepTyped
    <2> QED BY <1>1, <2>1, <2>2, <2>3, QuietIsFounded DEF Made, Over, Grounded
  <1>3. CASE ~SendInsert
    <2>1. /\ UNCHANGED <<insert, machine, todo>>
          /\ \/ bound' = bound
             \/ machine = "vm" /\ bound' = [bound EXCEPT ![Creator] = TRUE]
      BY <1>3 DEF RunCreate, AnswerInsert, WaitCreate, ReconcileCreate, Observe,
                  RecordIdentity, RecordStage, site, memory
    <2>2. MemoryTyped' /\ \A b \in Actor : bound'[b] => bound[b] \/ Made
      <3>1. machine = "vm" => Made
        BY DEF CampaignIInv, MachineWasMade, Made
      <3> QED BY <1>1, <2>1, <3>1 DEF ConfirmedIInv, MemoryTyped
    <2> DEFINE Plain == {"wait", "reconcile", "intend", "created", "observe"}
               Known == {"name"} \cup Stage
               Place == \E to \in Plain \cup Known :
                          /\ Move(Creator, to) /\ (to \in Known => Made)
    <2>3. Place
      <3>1. \A to \in Plain \cup Known : Skip(Creator, to) \/ Slip(Creator, to) => Move(Creator, to)
        BY DEF Skip, Slip
      <3>2. \A s, ok, no : Note(Creator, s, ok, no) => Move(Creator, ok) \/ Move(Creator, no)
        BY DEF Note
      <3>3. \A s : \A ok, no \in Plain : Note(Creator, s, ok, no) => Place
        BY <3>2, StageStates
      <3>4. \A to \in Plain : Skip(Creator, to) \/ Slip(Creator, to) => Place
        BY <3>1, StageStates
      <3>5. step[Creator] \in Known => Made
        BY <1>1 DEF ConfirmedIInv, Grounded, Naming
      <3>6. CASE AnswerInsert \/ WaitCreate \/ ReconcileCreate
        BY <3>3, <3>4, <3>6 DEF AnswerInsert, WaitCreate, ReconcileCreate
      <3>7. CASE Observe
        <4>1. machine = "vm" => Made
          BY DEF CampaignIInv, MachineWasMade, Made
        <4>2. Skip(Creator, "name") => Move(Creator, "name")
          BY DEF Skip
        <4> QED BY <3>4, <3>7, <4>1, <4>2 DEF Observe
      <3>8. CASE RecordIdentity
        <4>1. CASE step[Creator] = "created" /\ Note(Creator, "CREATED", "observe", "intend")
          BY <3>3, <4>1
        <4>2. CASE step[Creator] = "name"
                   /\ Note(Creator, "INSTANCE_IDENTITY_BOUND", Stages[1], "intend")
          BY <3>2, <3>5, <4>2, StageStates, StageNames
        <4> QED BY <3>8, <4>1, <4>2 DEF RecordIdentity
      <3>9. CASE RecordStage
        <4>1. PICK i \in 1..4 :
                /\ step[Creator] = Stages[i]
                /\ \/ i = 4 /\ hour > 0 /\ Expire("intend")
                   \/ Note(Creator, Stages[i], IF i = 4 THEN "intend" ELSE Stages[i + 1], "intend")
          BY <3>9 DEF RecordStage
        <4>2. Expire("intend") => Place
          BY <3>3, <3>4 DEF Expire
        <4>3. Made /\ (IF i = 4 THEN "intend" ELSE Stages[i + 1]) \in Plain \cup Known
          BY <3>5, <4>1, StageStates, StageNames
        <4>4. Note(Creator, Stages[i], IF i = 4 THEN "intend" ELSE Stages[i + 1], "intend")
                => Place
          BY <3>2, <4>3
        <4> QED BY <4>1, <4>2, <4>4
      <3> QED BY <1>3, <3>6, <3>7, <3>8, <3>9 DEF RunCreate
    <2>4. \A b \in Actor : \/ step'[b] = step[b]
                           \/ b \notin Rescuer /\ Grounded(b, step[b])'
      <3>1. PICK to \in Plain \cup Known :
              step' = [step EXCEPT ![Creator] = to] /\ (to \in Known => Made)
        BY <2>3 DEF Move
      <3>2. Grounded(Creator, to)'
        BY <2>1, <3>1, StageStates DEF Grounded, Tidying, Naming, Trusting, Made
      <3> QED BY <1>1, <3>1, <3>2 DEF CampaignIInv, StepTyped, Grounded
    <2>5. /\ Named' => Named \/ Made
          /\ Has("CLEANUP_CONFIRMED")' => Has("CLEANUP_CONFIRMED")
      <3>1. \A to : Skip(Creator, to) \/ Slip(Creator, to) => marks' = marks
        BY DEF Skip, Slip, history
      <3>2. \A s, ok, no : Note(Creator, s, ok, no) =>
              marks' = marks \/ marks' = marks \cup MarksOf(s)
        BY DEF Note, Appended, history
      <3>3. \A s : /\ s # "CLEANUP_CONFIRMED" => "CLEANUP_CONFIRMED" \notin MarksOf(s)
                   /\ s \notin Identities => Identities \cap MarksOf(s) = {}
        BY StageNames DEF MarksOf, Identities, Asked
      <3>4. \/ marks' = marks
            \/ \E s : /\ marks' = marks \cup MarksOf(s) /\ s # "CLEANUP_CONFIRMED"
                      /\ s \in Identities => step[Creator] \in Naming
        <4>1. CASE AnswerInsert \/ WaitCreate \/ ReconcileCreate \/ Observe
          BY <3>1, <3>2, <4>1, StageNames
            DEF AnswerInsert, WaitCreate, ReconcileCreate, Observe, Identities
        <4>2. CASE RecordIdentity
          BY <3>2, <4>2, StageNames DEF RecordIdentity, Identities, Naming
        <4>3. CASE RecordStage
          <5>1. PICK i \in 1..4 :
                  /\ step[Creator] = Stages[i]
                  /\ \/ Expire("intend")
                     \/ Note(Creator, Stages[i],
                             IF i = 4 THEN "intend" ELSE Stages[i + 1], "intend")
            BY <4>3 DEF RecordStage
          <5>2. Stages[i] \in Naming /\ Stages[i] # "CLEANUP_CONFIRMED"
            BY StageStates, StageNames DEF Naming
          <5>3. marks' = marks \/ marks' = marks \cup MarksOf(Late)
                \/ marks' = marks \cup MarksOf(Stages[i])
            BY <3>1, <3>2, <5>1 DEF Expire
          <5> QED BY <5>1, <5>2, <5>3, StageNames DEF Late, Identities
        <4> QED BY <1>3, <4>1, <4>2, <4>3 DEF RunCreate
      <3>5. step[Creator] \in Naming => Made
        BY <1>1 DEF ConfirmedIInv, Grounded
      <3> QED BY <3>3, <3>4, <3>5 DEF Named, Has
    <2> QED BY <2>1, <2>2, <2>4, <2>5 DEF Founded, Made, Over
  <1> QED BY <1>2, <1>3

LEMMA CrashIsFounded ==
  ASSUME CampaignIInv, ConfirmedIInv, NEW a \in Actor, CampaignCrash(a)
  PROVE  Founded
  <1>1. PICK to \in {"done", "gone"} : Slip(a, to)
    BY DEF CampaignCrash
  <1>2. Fine(a, to) /\ step[a] # "done"
    BY <1>1 DEF CampaignCrash, Fine, Before, Gone, Dead
  <1>3. Calm(a)
    BY <1>1, <1>2, SkipIsCalm DEF CampaignCrash, site, Calm, Lone
  <1>4. Own(a)
    BY <1>2, <1>3 DEF CampaignCrash, Forget, Own, ConfirmedIInv, MemoryTyped
  <1>5. Grounded(a, to)'
    BY LightIsGrounded, StageStates DEF Tidying, Naming, Trusting
  <1> QED BY <1>1, <1>4, <1>5, SkipGoes, GoingIsFounded

LEMMA ConfirmedInitHolds == CampaignInit => ConfirmedIInv
  <1> SUFFICES ASSUME CampaignInit PROVE ConfirmedIInv
    OBVIOUS
  <1>1. /\ step = [a \in Actor |-> CASE a = Creator -> "new" [] a \in Cleaner -> "unborn"
                                    [] OTHER -> "idle"]
        /\ bound = [a \in Actor |-> FALSE] /\ todo = [a \in Actor |-> <<>>] /\ marks = {}
    BY DEF CampaignInit
  <1>2. \A a \in Actor : Grounded(a, step[a])
    <2>1. \A a \in Actor : step[a] \in {"new", "unborn", "idle"}
      BY <1>1
    <2> QED BY <2>1, StageStates DEF Grounded, Tidying, Naming, Trusting
  <1> QED BY <1>1, <1>2 DEF ConfirmedIInv, MemoryTyped, Named, Has

LEMMA ConfirmedNextKeeps ==
  ASSUME CampaignIInv, ConfirmedIInv, [CampaignNext]_campaignVars
  PROVE  ConfirmedIInv'
  <1> SUFFICES Founded
    BY FoundedKeeps
  <1>1. Creator \in Actor /\ Cleaner \cup Rescuer \subseteq Actor \cap Others
    BY DEF Actor, Others
  <1>2. CASE PrepareCreate \/ RunCreate
    BY <1>2, PrepareIsFounded, RunIsFounded
  <1>3. ASSUME NEW a \in Actor, CleanUp(a)
        PROVE  Founded
    BY <1>3, CleanUpIsFounded
  <1>4. ASSUME NEW a \in Others, Bind(a)
        PROVE  Founded
    BY <1>4, BindIsFounded
  <1>5. ASSUME NEW w \in Cleaner, Watch(w)
        PROVE  Founded
    <2>1. CASE KillCreator(w)
      <3>1. UNCHANGED <<site, todo>>
        BY <1>5, <2>1 DEF Watch, KillCreator, ResumeCleanupOnly, StartCleaner, Poll,
             RecoverWatchdogCleanup, Look, EndRound, Revoke, Skip, Slip, Note, Move
      <3> QED BY <2>1, <3>1, KillingIsFounded
    <2>2. CASE ~KillCreator(w)
      BY <1>5, <2>2, WatchIsFounded
    <2> QED BY <2>1, <2>2
  <1>6. ASSUME NEW o \in Rescuer, Rescue(o)
        PROVE  Founded
    BY <1>6, RescueIsFounded
  <1>7. CASE Materialise \/ Backstop \/ Pass \/ UNCHANGED campaignVars
    <2>1. UNCHANGED <<marks, bound, todo, step>>
      BY <1>7 DEF Materialise, Backstop, Pass, campaignVars, history, memory
    <2>2. (Made => Made') /\ (Over => Over')
      BY <1>7 DEF Materialise, Backstop, Pass, campaignVars, site, Made, Over
    <2> QED BY <2>1, <2>2, QuietIsFounded
  <1>8. ASSUME NEW a \in Actor, CampaignCrash(a)
        PROVE  Founded
    BY <1>8, CrashIsFounded
  <1> QED BY <1>1, <1>2, <1>3, <1>4, <1>5, <1>6, <1>7, <1>8 DEF CampaignNext, Serve

(* A campaign recorded as cleaned up is gone for good: no machine is left  *)
(* and no insert may still bring one, unless a recover-cleanup confirmed   *)
(* that had read the journal before the create was submitted.              *)
THEOREM ConfirmationIsTrue == CampaignSpec => []CampaignConfirmedIsGone
  <1>1. CampaignInit => CampaignIInv /\ ConfirmedIInv
    BY CampaignInitHolds, ConfirmedInitHolds
  <1>2. CampaignIInv /\ ConfirmedIInv /\ [CampaignNext]_campaignVars =>
          CampaignIInv' /\ ConfirmedIInv'
    BY CampaignNextKeeps, ConfirmedNextKeeps
  <1>3. ConfirmedIInv => CampaignConfirmedIsGone
    BY DEF ConfirmedIInv, CampaignConfirmedIsGone, Over, Made, WrongRescue
  <1> QED BY <1>1, <1>2, <1>3, PTL DEF CampaignSpec
=============================================================================
