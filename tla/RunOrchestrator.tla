--------------------------- MODULE RunOrchestrator ---------------------------
(***************************************************************************)
(* run_resolved_experiment (execution/orchestrator.py) with seal_bundle    *)
(* (bundle/writer.py): one run driven from its reservation to a sealed     *)
(* bundle or to a terminal state, in its three modes, with the managed     *)
(* vLLM server beside it.  Any step may raise, a KeyboardInterrupt may     *)
(* arrive anywhere, another thread may request cancellation, the server    *)
(* may exit, the staging directory is writable by others until it is made  *)
(* read-only, and the process may die.  The workspace is its register      *)
(* (RunRegister), whose journal a failed transition may cut short.         *)
(***************************************************************************)
EXTENDS RunStates

VARIABLES
  mode,      \* "fake", "attached" or "managed"
  pc,        \* the orchestrator's next step
  state,     \* the run state that the workspace's snapshot shows
  journal,   \* "cut" once a transition was cut short: nothing is accepted
  token,     \* "requested" once cancellation is requested
  cause,     \* the exception that propagates
  server,    \* the managed server's process and its supervisor
  managed,   \* whether the orchestrator holds the server's object
  capture,   \* how the benchmark process ended
  bundle,    \* where the bundle is
  content,   \* whether its files are what was sealed
  hindered   \* "yes" if the environment kept the failure from being marked

workspace == <<state, journal>>
servers == <<server, managed>>
sealed == <<bundle, content>>
vars == <<mode, pc, workspace, token, cause, servers, capture, sealed, hindered>>

Modes == {"fake", "attached", "managed"}

(* The try block of _run_vllm whose exceptions stop the managed server. *)
Guarded == {"launch", "keep", "ready", "invoke", "warmup", "measuring",
            "measure"}
Working == Guarded \cup {"preflight", "await", "judge", "finalize", "seal",
                         "verify", "freeze", "publish", "confirm", "commit"}
Ended == {"returned", "raised", "crashed"}
Steps == Working \cup Ended \cup {"reserve", "stop", "rescue", "drain", "mark"}

TypeOK ==
  /\ mode \in Modes
  /\ pc \in Steps
  /\ state \in RunState \cup {Absent}
  /\ journal \in {"whole", "cut"}
  /\ token \in {"clear", "requested"}
  /\ cause \in {"none", "error", "cancel", "interrupt"}
  /\ server \in {"absent", "running", "stopping", "cancelled", "exited"}
  /\ managed \in {"none", "held", "lost"}
  /\ capture \in {"none", "clean", "failed", "cancelled"}
  /\ bundle \in {"none", "staging", "frozen", "final"}
  /\ content \in {"good", "bad"}
  /\ hindered \in {"no", "yes"}

Init ==
  /\ mode \in Modes
  /\ pc = "reserve"
  /\ state = Absent /\ journal = "whole"
  /\ token = "clear"
  /\ cause = "none"
  /\ server = "absent" /\ managed = "none"
  /\ capture = "none"
  /\ bundle = "none" /\ content = "good"
  /\ hindered = "no"

-----------------------------------------------------------------------------
(* How a step goes on. *)

(* Variant: only exceptions that derive from Exception stop the server. *)
ThrowExceptions(what) ==
  /\ cause' = what
  /\ pc' = IF pc \in Guarded /\ managed = "held" /\ what # "interrupt"
             THEN "rescue" ELSE "mark"

Throw(what) ==
  /\ cause' = what
  /\ pc' = IF pc \in Guarded /\ managed = "held" THEN "rescue" ELSE "mark"

(* The steps that begin with cancellation.raise_if_requested. *)
Checked ==
  IF mode = "fake"
    THEN {"preflight", "warmup", "measuring", "finalize", "seal"}
    ELSE {"preflight", "ready", "invoke", "warmup", "seal"}

Enter(step) == pc = step /\ (step \in Checked => token = "clear")

Cancel ==
  /\ pc \in Checked
  /\ token = "requested"
  /\ Throw("cancel")
  /\ UNCHANGED <<mode, workspace, token, servers, capture, sealed, hindered>>

(* RunWorkspace.transition.  Past its checks it may still raise after it   *)
(* wrote the event, or after it replaced the snapshot.                     *)
Transition(step, target, next) ==
  /\ Enter(step)
  /\ journal = "whole"
  /\ ValidTransition(state, target)
  /\ \/ /\ state' = target
        /\ pc' = next
        /\ UNCHANGED <<journal, cause>>
     \/ /\ \/ journal' = "cut" /\ UNCHANGED state
           \/ state' = target /\ UNCHANGED journal
        /\ Throw("error") \/ Throw("interrupt")
  /\ UNCHANGED <<mode, token, servers, capture, sealed, hindered>>

-----------------------------------------------------------------------------
(* From the reservation to the measurement. *)

(* A reservation that fails is not marked: the run may stay CREATED. *)
Reserve ==
  /\ pc = "reserve"
  /\ \/ /\ token = "clear"
        /\ state' = "CREATED"
        /\ pc' = "preflight"
        /\ UNCHANGED <<cause, hindered>>
     \/ /\ token = "clear"
        /\ state' \in {Absent, "CREATED"}
        /\ pc' = "raised"
        /\ hindered' = "yes"
        /\ cause' \in {"error", "interrupt"}
     \/ /\ token = "requested"
        /\ pc' = "raised"
        /\ cause' = "cancel"
        /\ UNCHANGED <<state, hindered>>
  /\ UNCHANGED <<mode, journal, token, servers, capture, sealed>>

ToPreflight ==
  Transition("preflight", "PREFLIGHT",
             IF mode = "fake" THEN "warmup" ELSE "launch")

(* ManagedVllmServer.start, or the preflight of an attached endpoint. *)
Launch ==
  /\ Enter("launch")
  /\ IF mode = "managed"
       THEN server' = "running" /\ pc' = "keep"
       ELSE pc' = "invoke" /\ UNCHANGED server
  /\ UNCHANGED <<mode, workspace, token, cause, managed, capture, sealed,
                 hindered>>

(* The server exits while it starts, or its start times out and is given   *)
(* up with a request to its own token.                                     *)
LaunchFails ==
  /\ Enter("launch")
  /\ mode = "managed"
  /\ server' \in {"exited", "stopping"}
  /\ Throw("error")
  /\ UNCHANGED <<mode, workspace, token, managed, capture, sealed, hindered>>

Keep ==
  /\ Enter("keep")
  /\ managed' = "held"
  /\ pc' = "ready"
  /\ UNCHANGED <<mode, workspace, token, cause, server, capture, sealed,
                 hindered>>

WaitReady ==
  /\ Enter("ready")
  /\ server = "running"
  /\ pc' = "invoke"
  /\ UNCHANGED <<mode, workspace, token, cause, servers, capture, sealed,
                 hindered>>

Invoke ==
  /\ Enter("invoke")
  /\ pc' = "warmup"
  /\ UNCHANGED <<mode, workspace, token, cause, servers, capture, sealed,
                 hindered>>

(* Variant: the warmup is not recorded. *)
ToWarmupSilently ==
  /\ Enter("warmup")
  /\ pc' = "measuring"
  /\ state' = "MEASURING"
  /\ UNCHANGED <<mode, journal, token, cause, servers, capture, sealed, hindered>>

ToWarmup == Transition("warmup", "WARMUP", "measuring")

ToMeasuring == Transition("measuring", "MEASURING", "measure")

(* The benchmark process ends by itself or is stopped by the token; the    *)
(* managed server must still run afterwards.                               *)
Measure ==
  /\ Enter("measure")
  /\ capture' \in IF mode = "fake" THEN {"clean"}
                  ELSE {"clean", "failed"}
                       \cup (IF token = "requested" THEN {"cancelled"} ELSE {})
  /\ IF mode = "managed" /\ server # "running"
       THEN Throw("error")
       ELSE /\ pc' = CASE mode = "fake" -> "finalize"
                       [] mode = "attached" -> "judge"
                       [] OTHER -> "stop"
            /\ UNCHANGED cause
  /\ UNCHANGED <<mode, workspace, token, servers, sealed, hindered>>

-----------------------------------------------------------------------------
(* ManagedVllmServer.stop, on the normal path and in the except block. *)

RequestStop ==
  /\ pc \in {"stop", "rescue"}
  /\ server' = IF server = "running" THEN "stopping" ELSE server
  /\ pc' = IF pc = "stop" THEN "await" ELSE "drain"
  /\ UNCHANGED <<mode, workspace, token, cause, managed, capture, sealed,
                 hindered>>

(* A run is accepted only if its server ended because it was asked to. *)
Stopped ==
  /\ Enter("await")
  /\ server = "cancelled"
  /\ pc' = "judge"
  /\ UNCHANGED <<mode, workspace, token, cause, servers, capture, sealed,
                 hindered>>

(* Variant: stop waits for the server without a limit. *)
DrainPatiently ==
  /\ pc = "drain"
  /\ server # "stopping"
  /\ pc' = "mark"
  /\ UNCHANGED <<mode, workspace, token, cause, servers, capture, sealed,
                 hindered>>

(* stop returns or gives up after its limit; its errors are dropped. *)
Drain ==
  /\ pc = "drain"
  /\ pc' = "mark"
  /\ UNCHANGED <<mode, workspace, token, cause, servers, capture, sealed,
                 hindered>>

Judge ==
  /\ Enter("judge")
  /\ capture = "clean"
  /\ pc' = "finalize"
  /\ UNCHANGED <<mode, workspace, token, cause, servers, capture, sealed,
                 hindered>>

-----------------------------------------------------------------------------
(* Finalization and seal_bundle. *)

ToFinalizing == Transition("finalize", "FINALIZING", "seal")

Stage ==
  /\ Enter("seal")
  /\ state = "FINALIZING"
  /\ bundle = "none"
  /\ bundle' = "staging"
  /\ pc' = "verify"
  /\ UNCHANGED <<mode, workspace, token, cause, servers, capture, content,
                 hindered>>

VerifyStaging ==
  /\ Enter("verify")
  /\ content = "good"
  /\ pc' = "freeze"
  /\ UNCHANGED <<mode, workspace, token, cause, servers, capture, sealed,
                 hindered>>

Freeze ==
  /\ Enter("freeze")
  /\ bundle' = "frozen"
  /\ pc' = "publish"
  /\ UNCHANGED <<mode, workspace, token, cause, servers, capture, content,
                 hindered>>

Publish ==
  /\ Enter("publish")
  /\ bundle' = "final"
  /\ pc' = "confirm"
  /\ UNCHANGED <<mode, workspace, token, cause, servers, capture, content,
                 hindered>>

(* Variant: the published bundle is not verified again. *)
ConfirmBlindly ==
  /\ Enter("confirm")
  /\ pc' = "commit"
  /\ UNCHANGED <<mode, workspace, token, cause, servers, capture, sealed,
                 hindered>>

Confirm ==
  /\ Enter("confirm")
  /\ content = "good"
  /\ pc' = "commit"
  /\ UNCHANGED <<mode, workspace, token, cause, servers, capture, sealed,
                 hindered>>

Commit == Transition("commit", "COMPLETE", "returned")

-----------------------------------------------------------------------------
(* Failure. *)

(* An exception in a step before it took effect; keeping the server is an  *)
(* assignment and raises nothing.                                          *)
Break ==
  /\ pc \in Working \ {"keep"}
  /\ Throw("error")
  /\ UNCHANGED <<mode, workspace, token, servers, capture, sealed, hindered>>

(* Before the stop request is made, an interrupt loses the server. *)
Interrupt ==
  /\ pc \in Working \cup {"stop", "rescue", "drain", "mark"}
  /\ IF pc = "mark"
       THEN /\ pc' = "raised"
            /\ hindered' = "yes"
            /\ UNCHANGED cause
       ELSE Throw("interrupt") /\ UNCHANGED hindered
  /\ managed' = IF pc \in {"keep", "stop", "rescue"} THEN "lost" ELSE managed
  /\ UNCHANGED <<mode, workspace, token, server, capture, sealed>>

(* Variant: only a CancellationRequested counts as a cancellation. *)
TerminalStateByClass ==
  IF cause \in {"cancel", "interrupt"} THEN "INTERRUPTED" ELSE "FAILED"

TerminalState ==
  IF cause \in {"cancel", "interrupt"} \/ token = "requested"
    THEN "INTERRUPTED" ELSE "FAILED"

(* _mark_terminal. *)
Mark ==
  /\ pc = "mark"
  /\ pc' = "raised"
  /\ \/ /\ state \in TerminalStates
        /\ UNCHANGED <<workspace, hindered>>
     \/ /\ state \notin TerminalStates
        /\ journal = "whole"
        /\ state' = TerminalState
        /\ UNCHANGED <<journal, hindered>>
     \/ /\ state \notin TerminalStates
        /\ journal' \in {journal, "cut"}
        /\ hindered' = "yes"
        /\ UNCHANGED state
  /\ UNCHANGED <<mode, token, cause, servers, capture, sealed>>

-----------------------------------------------------------------------------
(* The environment. *)

RequestCancellation ==
  /\ token = "clear"
  /\ token' = "requested"
  /\ UNCHANGED <<mode, pc, workspace, cause, servers, capture, sealed, hindered>>

ServerEnds ==
  /\ \/ server = "running" /\ server' = "exited"
     \/ server = "stopping" /\ server' \in {"cancelled", "exited"}
  /\ UNCHANGED <<mode, pc, workspace, token, cause, managed, capture, sealed,
                 hindered>>

Corrupt ==
  /\ bundle = "staging"
  /\ content' = "bad"
  /\ UNCHANGED <<mode, pc, workspace, token, cause, servers, capture, bundle,
                 hindered>>

Crash ==
  /\ pc \notin Ended
  /\ pc' = "crashed"
  /\ UNCHANGED <<mode, workspace, token, cause, servers, capture, sealed,
                 hindered>>

-----------------------------------------------------------------------------
Measuring == \/ Reserve \/ ToPreflight \/ Launch \/ LaunchFails \/ Keep
             \/ WaitReady \/ Invoke \/ ToWarmup \/ ToMeasuring \/ Measure
Stopping == RequestStop \/ Stopped \/ Drain \/ Judge
Sealing == \/ ToFinalizing \/ Stage \/ VerifyStaging \/ Freeze \/ Publish
           \/ Confirm \/ Commit
Failing == Cancel \/ Break \/ Mark

Run == Measuring \/ Stopping \/ Sealing \/ Failing

Next == \/ Run \/ Interrupt
        \/ RequestCancellation \/ ServerEnds \/ Corrupt \/ Crash

Spec == Init /\ [][Next]_vars

(* The interpreter keeps running the orchestrator, whose waits are all     *)
(* bounded; nothing obliges the server to end.                             *)
FairSpec == Spec /\ WF_vars(Run)

-----------------------------------------------------------------------------
(* Properties. *)

(* A run is COMPLETE only with a published bundle whose content was        *)
(* verified after it could no longer change, from a benchmark that ended   *)
(* cleanly next to a server that ended because it was asked to; so also    *)
(* after a crash or a failure later on.                                    *)
CompleteIsVerified ==
  state = "COMPLETE" =>
    /\ bundle = "final"
    /\ content = "good"
    /\ capture = "clean"
    /\ server = IF mode = "managed" THEN "cancelled" ELSE "absent"

(* However a run ends short of a crash, its managed server has exited or   *)
(* was told to, unless an interrupt hit before the request could be made;  *)
(* and a run that returns a result leaves no server at all.                *)
ServerIsStopped ==
  /\ pc \in {"returned", "raised"} /\ managed # "lost" => server # "running"
  /\ pc = "returned" => server \in {"absent", "cancelled"}

(* A benchmark that was stopped by a cancellation is neither a failed run  *)
(* nor a result, although the benchmark only reports a bad exit.           *)
CancelledIsInterrupted ==
  capture = "cancelled" => state \notin {"FAILED", "COMPLETE"}

(* A run that raises is in a terminal state, whatever raised, unless the   *)
(* workspace itself could not be written; a run that returns is COMPLETE.  *)
EndIsMarked ==
  /\ pc = "raised" /\ hindered = "no" =>
       state \in TerminalStates \cup {Absent} \/ journal = "cut"
  /\ pc = "returned" => state = "COMPLETE" /\ journal = "whole"

(* The run's state moves only along the frozen graph. *)
Register == INSTANCE RunRegister
ImplementsRegister == Register!Spec

(* docs/CLI.md:365: a failure is recorded as INTERRUPTED or FAILED, and     *)
(* COMPLETE only follows a successful sealing: a run that raises is not     *)
(* COMPLETE.                                                               *)
RaisedIsNotComplete == pc = "raised" => state # "COMPLETE"

(* Every run ends, although its server may never do. *)
RunEnds == <>(pc \in Ended)
=============================================================================
