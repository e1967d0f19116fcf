-------------------------- MODULE ProcessSupervisor --------------------------
(***************************************************************************)
(* run_captured_process (execution/subprocess_runner.py) with the          *)
(* terminate_bounded of execution/cancellation.py: one supervisor, one     *)
(* child that leads a process group of its own, the descendants it spawns, *)
(* the threads that drain its pipes, and whoever requests cancellation.    *)
(***************************************************************************)
EXTENDS FiniteSets

CONSTANTS
  Leader,     \* the child that Popen returns
  Descendant  \* processes the child may spawn

ASSUME LeaderAssumption == Leader \notin Descendant

Member == {Leader} \cup Descendant

VARIABLES
  childPc,           \* the supervisor's next step
  termination,  \* the ProcessTermination it will report
  childNotice,       \* the cancellation token's notice
  latched,      \* what has happened once and for all
  unborn,       \* members not yet spawned
  alive,        \* members still running
  group,        \* members in the leader's process group
  holding,      \* members with a write end of a captured pipe
  killed        \* members that SIGKILL was sent to

children == <<unborn, alive, group, holding>>
childVars == <<childPc, termination, childNotice, latched, children, killed>>

(* "drains": the drain threads run; "excess": a child wrote more than the  *)
(* output limit; "overflow": a drain noticed; "expired": the runtime limit *)
(* has passed; "termed": SIGTERM was sent to the group; "eof": both drains *)
(* ended; "error": one on OSError.                                         *)
Latches == {"drains", "excess", "overflow", "expired", "termed", "eof", "error"}

ChildSteps == {"start", "observe", "poll", "overflow", "notice", "clock",
               "term", "grace", "force", "join", "sweep", "rejoin", "judge",
               "done", "failed", "interrupted"}

(* "REFUSED" stands for the path that stops a child whose observer failed. *)
Terminations == {"EXITED", "CANCELLED", "DEADLINE", "OUTPUT_LIMIT",
                 "ORPHANED_DESCENDANTS", "REFUSED"}

ChildTypeOK ==
  /\ childPc \in ChildSteps
  /\ termination \in Terminations
  /\ childNotice \in {"none", "CANCELLED", "DEADLINE"}
  /\ latched \subseteq Latches
  /\ unborn \subseteq Descendant
  /\ alive \subseteq Member
  /\ group \subseteq Member
  /\ holding \subseteq Member
  /\ killed \subseteq Member
  /\ alive \cap unborn = {}

ChildInit ==
  /\ childPc = "start"
  /\ termination = "EXITED"
  /\ childNotice = "none"
  /\ latched = {}
  /\ unborn = Descendant
  /\ alive = {}
  /\ group = {}
  /\ holding = {}
  /\ killed = {}

-----------------------------------------------------------------------------
(* The supervisor. *)

ChildGoto(step) == childPc' = step

(* raise_if_requested, and a Popen that may fail. *)
Refuse ==
  /\ childPc = "start"
  /\ ChildGoto("failed")
  /\ UNCHANGED <<termination, childNotice, latched, children, killed>>

StartChild ==
  /\ childPc = "start"
  /\ childNotice = "none"
  /\ alive' = {Leader} /\ group' = {Leader} /\ holding' = {Leader}
  /\ ChildGoto("observe")
  /\ UNCHANGED <<termination, childNotice, latched, unborn, killed>>

(* on_start, which may raise; then the drain threads are started. *)
Observe ==
  /\ childPc = "observe"
  /\ \/ /\ ChildGoto("poll")
        /\ latched' = latched \cup {"drains"}
        /\ UNCHANGED termination
     \/ /\ ChildGoto("term")
        /\ termination' = "REFUSED"
        /\ UNCHANGED latched
  /\ UNCHANGED <<childNotice, children, killed>>

Poll ==
  /\ childPc = "poll"
  /\ ChildGoto(IF Leader \in alive THEN "overflow" ELSE "join")
  /\ UNCHANGED <<termination, childNotice, latched, children, killed>>

StopChild(reason) == termination' = reason /\ ChildGoto("term")

CheckOverflow ==
  /\ childPc = "overflow"
  /\ IF "overflow" \in latched
       THEN StopChild("OUTPUT_LIMIT")
       ELSE ChildGoto("notice") /\ UNCHANGED termination
  /\ UNCHANGED <<childNotice, latched, children, killed>>

CheckNotice ==
  /\ childPc = "notice"
  /\ IF childNotice # "none"
       THEN StopChild(childNotice)
       ELSE ChildGoto("clock") /\ UNCHANGED termination
  /\ UNCHANGED <<childNotice, latched, children, killed>>

(* Variant: the runtime limit is not checked in the loop. *)
CheckClockNever ==
  /\ childPc = "clock"
  /\ ChildGoto("poll")
  /\ UNCHANGED <<termination, childNotice, latched, children, killed>>

(* An expired run requests DEADLINE, which loses to an earlier request;    *)
(* otherwise the supervisor pauses and polls again.                        *)
CheckClock ==
  /\ childPc = "clock"
  /\ IF "expired" \in latched
       THEN /\ childNotice' = IF childNotice = "none" THEN "DEADLINE" ELSE childNotice
            /\ StopChild("DEADLINE")
       ELSE ChildGoto("poll") /\ UNCHANGED <<termination, childNotice>>
  /\ UNCHANGED <<latched, children, killed>>

(* Where terminate_bounded returns to. *)
ChildStopped == IF termination = "REFUSED" THEN "failed" ELSE "join"

Terminate ==
  /\ childPc = "term"
  /\ IF Leader \in alive
       THEN ChildGoto("grace") /\ latched' = latched \cup {"termed"}
       ELSE ChildGoto(ChildStopped) /\ UNCHANGED latched
  /\ UNCHANGED <<termination, childNotice, children, killed>>

(* The leader has exited within the bound of a wait. *)
Reaped ==
  /\ childPc \in {"grace", "force"}
  /\ Leader \notin alive
  /\ ChildGoto(ChildStopped)
  /\ UNCHANGED <<termination, childNotice, latched, children, killed>>

(* Variant: an unresponsive child is given up without a kill. *)
GiveUp ==
  /\ childPc = "grace"
  /\ Leader \in alive
  /\ ChildGoto("failed")
  /\ UNCHANGED <<termination, childNotice, latched, children, killed>>

KillGroup == killed' = killed \cup (group \cap alive)

GraceExpires ==
  /\ childPc = "grace"
  /\ Leader \in alive
  /\ KillGroup
  /\ ChildGoto("force")
  /\ UNCHANGED <<termination, childNotice, latched, children>>

(* "process did not exit after bounded kill" *)
ForceExpires ==
  /\ childPc = "force"
  /\ Leader \in alive
  /\ ChildGoto("failed")
  /\ UNCHANGED <<termination, childNotice, latched, children, killed>>

Joined ==
  /\ childPc \in {"join", "rejoin"}
  /\ "eof" \in latched
  /\ ChildGoto("judge")
  /\ UNCHANGED <<termination, childNotice, latched, children, killed>>

(* Variant: drains that do not end are abandoned with their output. *)
JoinExpiresQuietly ==
  /\ childPc = "join"
  /\ "eof" \notin latched
  /\ ChildGoto("judge")
  /\ UNCHANGED <<termination, childNotice, latched, children, killed>>

JoinExpires ==
  /\ childPc = "join"
  /\ "eof" \notin latched
  /\ ChildGoto("sweep")
  /\ UNCHANGED <<termination, childNotice, latched, children, killed>>

(* kill_remaining: true when the group still had a member to signal. *)
Sweep ==
  /\ childPc = "sweep"
  /\ KillGroup
  /\ termination' = IF group \cap alive # {} /\ termination = "EXITED"
                      THEN "ORPHANED_DESCENDANTS" ELSE termination
  /\ ChildGoto("rejoin")
  /\ UNCHANGED <<childNotice, latched, children>>

(* "subprocess diagnostic capture did not finish" *)
RejoinExpires ==
  /\ childPc = "rejoin"
  /\ "eof" \notin latched
  /\ ChildGoto("failed")
  /\ UNCHANGED <<termination, childNotice, latched, children, killed>>

(* Drain errors and credential-shaped output are refused; overflow that    *)
(* the loop did not see in time is reported after all.                     *)
JudgeChild ==
  /\ childPc = "judge"
  /\ termination' = IF "overflow" \in latched /\ termination = "EXITED"
                      THEN "OUTPUT_LIMIT" ELSE termination
  /\ \/ ChildGoto("failed")
     \/ "error" \notin latched /\ ChildGoto("done")
  /\ UNCHANGED <<childNotice, latched, children, killed>>

(* An exception that nothing here catches: a KeyboardInterrupt, or a drain *)
(* thread that cannot be started. Only an Exception of on_start is caught, *)
(* the loop has no finally, and terminate_bounded catches the expiry of    *)
(* its waits alone: the call ends at whatever step it has reached, and the *)
(* child, its group and the drains are left as they are.                   *)
InterruptChild ==
  /\ childPc \notin {"done", "failed", "interrupted"}
  /\ ChildGoto("interrupted")
  /\ UNCHANGED <<termination, childNotice, latched, children, killed>>

-----------------------------------------------------------------------------
(* The drain threads. *)

Draining == "drains" \in latched /\ "eof" \notin latched

NoticeExcess ==
  /\ Draining
  /\ "excess" \in latched
  /\ latched' = latched \cup {"overflow"}
  /\ UNCHANGED <<childPc, termination, childNotice, children, killed>>

(* The pipes end when nobody holds them and everything was read. *)
ReachEof ==
  /\ Draining
  /\ alive \cap holding = {}
  /\ "excess" \in latched => "overflow" \in latched
  /\ latched' = latched \cup {"eof"}
  /\ UNCHANGED <<childPc, termination, childNotice, children, killed>>

DrainFails ==
  /\ Draining
  /\ latched' = latched \cup {"eof", "error"}
  /\ UNCHANGED <<childPc, termination, childNotice, children, killed>>

-----------------------------------------------------------------------------
(* The processes, the clock, and cancellation by another thread. *)

(* A fork inherits the group and, unless redirected, the pipes; a process  *)
(* with SIGKILL pending executes nothing more.                             *)
Spawn(m) ==
  /\ m \in unborn
  /\ \E parent \in alive \ killed :
       /\ group' = IF parent \in group THEN group \cup {m} ELSE group
       /\ \/ parent \in holding /\ holding' = holding \cup {m}
          \/ UNCHANGED holding
  /\ unborn' = unborn \ {m}
  /\ alive' = alive \cup {m}
  /\ UNCHANGED <<childPc, termination, childNotice, latched, killed>>

(* A member closes its pipes, starts a session of its own, or exits: by    *)
(* itself, on SIGTERM, or because it was killed.                           *)
ClosePipes(m) ==
  /\ m \in (alive \cap holding) \ killed
  /\ holding' = holding \ {m}
  /\ UNCHANGED <<childPc, termination, childNotice, latched, unborn, alive, group, killed>>

LeaveGroup(m) ==
  /\ m \in (alive \cap group) \ ({Leader} \cup killed)
  /\ group' = group \ {m}
  /\ UNCHANGED <<childPc, termination, childNotice, latched, unborn, alive, holding, killed>>

Exit(m) ==
  /\ m \in alive
  /\ alive' = alive \ {m}
  /\ UNCHANGED <<childPc, termination, childNotice, latched, unborn, group, holding, killed>>

Write ==
  /\ (alive \cap holding) \ killed # {}
  /\ latched' = latched \cup {"excess"}
  /\ UNCHANGED <<childPc, termination, childNotice, children, killed>>

Expire ==
  /\ childPc # "start"
  /\ latched' = latched \cup {"expired"}
  /\ UNCHANGED <<childPc, termination, childNotice, children, killed>>

CancelChild(reason) ==
  /\ childNotice = "none"
  /\ childNotice' = reason
  /\ UNCHANGED <<childPc, termination, latched, children, killed>>

-----------------------------------------------------------------------------
Supervise ==
  \/ Refuse \/ StartChild \/ Observe \/ Poll \/ CheckOverflow \/ CheckNotice \/ CheckClock
  \/ Terminate \/ Reaped \/ GraceExpires \/ ForceExpires
  \/ Joined \/ JoinExpires \/ Sweep \/ RejoinExpires \/ JudgeChild

Environment ==
  \/ NoticeExcess \/ ReachEof \/ DrainFails
  \/ \E m \in Member : Spawn(m) \/ ClosePipes(m) \/ LeaveGroup(m) \/ Exit(m)
  \/ Write \/ Expire \/ \E reason \in {"CANCELLED", "DEADLINE"} : CancelChild(reason)

ChildNext == Supervise \/ InterruptChild \/ Environment

ChildSpec == ChildInit /\ [][ChildNext]_childVars

(* The supervisor runs and time passes; no process is obliged to exit, not *)
(* even when killed.                                                       *)
ChildFairSpec == ChildSpec /\ WF_childVars(Supervise) /\ WF_childVars(Expire)

-----------------------------------------------------------------------------
Returned == childPc \in {"done", "failed"}

(* EXITED is reported only for a child that ended by itself and whose      *)
(* output was read to the end within the limit, with no process left that  *)
(* could still have written to it.                                         *)
ExitedIsClean ==
  childPc = "done" /\ termination = "EXITED" =>
    /\ Leader \notin alive
    /\ "termed" \notin latched /\ killed = {}
    /\ latched \cap {"excess", "overflow", "error"} = {}
    /\ alive \cap holding = {}

(* The caller of a run that was stopped for cancellation or time finds the *)
(* token requested, and a user's cancellation is never invented.           *)
StopHasNotice ==
  /\ childPc = "done" /\ termination \in {"CANCELLED", "DEADLINE"} => childNotice # "none"
  /\ childPc = "done" /\ termination = "CANCELLED" => childNotice = "CANCELLED"

(* A call that returns or fails by itself leaves no child that SIGKILL was *)
(* not sent to, and a captured result no process that holds its pipes. The *)
(* exception is real: an interrupted call leaves the child running.        *)
NoAbandonedChild ==
  /\ Returned => Leader \notin alive \/ Leader \in killed
  /\ childPc = "done" => alive \cap holding = {}

(* ORPHANED_DESCENDANTS means exactly that a leader that exited by itself  *)
(* left group members behind, and that those were killed.                  *)
OrphansAreKilled ==
  termination = "ORPHANED_DESCENDANTS" =>
    /\ "termed" \notin latched
    /\ Leader \notin alive
    /\ killed # {}
    /\ group \cap alive \subseteq killed

(* Whatever happened between two checks of the supervisor, the termination *)
(* it reports is true of the child, of its group and of the token.         *)
TerminationIsTrue == ExitedIsClean /\ StopHasNotice /\ OrphansAreKilled

(* The call comes back, whatever the child and its descendants do: with a  *)
(* result, with an error of its own, or with the exception of an interrupt.*)
CallReturns == <>(Returned \/ childPc = "interrupted")
=============================================================================
