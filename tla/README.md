# Inferdrome verification

TLA+ specifications of Inferdrome, the program in this repository that runs
LLM inference benchmarks, seals what they produced into immutable evidence
bundles, compares such bundles, and manages the machines and servers they run
on. Each module here is a model of source code under `src/inferdrome`; TLC
checks it on small instances and, where that is possible, TLAPS proves the same
properties for every instance.

## Inventory

### Parts of the system

| Part | State | Operations | Interacts with |
| --- | --- | --- | --- |
| Run workspace (`workspace/run_workspace.py`) | one directory per run: frozen inputs, `metadata.json`, event journal, `state.json`, flock file | reserve, open, current_state, transition | every process that knows the path, through the file system |
| Cancellation token (`execution/cancellation.py`, `cli.py` handlers) | a notice, a `threading.Event`, a lock | request, notice, wait, raise_if_requested | signal handlers, benchmark threads, the supervisor |
| Process supervisor (`execution/subprocess_runner.py`) | the child, its process group, two drain threads | run_captured_process, terminate_bounded, kill_remaining | token, operating system |
| Managed vLLM server (`execution/managed_vllm.py`) | a thread with a supervised process, its result or error | start, wait_until_ready, assert_running, stop | supervisor, orchestrator |
| Run orchestrator (`execution/orchestrator.py`) and bundle writer (`bundle/writer.py`) | one run in progress, its staging and final bundle directories | run_resolved_experiment, seal_bundle, _mark_terminal | workspace, token, managed server, verifier |
| Comparison executor (`comparisons/executor.py`) | none of its own: everything is derived from run, trial-set and result directories; one flock per plan | execute_comparison_plan, inspect_comparison_execution | orchestrator, workspaces, trial sets, results |
| Trial sets, comparison plans and results (`trials`, `comparisons/service.py`, `immutable.py`) | immutable directories | create, verify | verified bundles |
| Deployment lifecycle (`deployment/lifecycle.py`) | handles, trace and error codes of one deployment | LifecycleCoordinator.run | provider, runtime and benchmark adapters |
| GCP guarded lifecycle (`deployment/gcp_lifecycle.py`) | one hash-chained lease journal per controller, arm markers, a machine and its disk | execute, recover_cleanup, journal reserve and update | Compute Engine, other controllers through the journal |
| GCP supervisor (`deployment/gcp_supervisor.py` GcpLifecycleSupervisor, sidecar journal, kill switch) | one sidecar journal per lease, a kill marker | arm_watchdog, issue_future_mutation_activation_guard, create_intent, before_work, cleanup_terminal, reconcile_* | the guarded lifecycle, the file watchdog |
| GCP file watchdog (`FileGcpWatchdog`, `gcp_watchdog_worker.py`, `gcp_watchdog_backend.py`) | one hash-chained task journal per lease under an flock, a worker spec, a runner process | arm, activate, resume_runner, bind_disk_cleanup, run_due, reconcile_core_terminal | the supervisor, runner processes, Compute Engine |
| GCP private campaigns (`gcp_private_campaign_v2.py`, `gcp_private_campaign_watchdog_v3.py`, `gcp_private_campaign_google.py`) | one journal of states per campaign under an flock, the watchdog's sidecar, a creator and worker processes | execute, recover_exact_cleanup, activate, resume_cleanup_only, the worker's loop | Compute Engine, each other through the journal and by signals |
| GCP transport, cost guard, exact disk cleanup (other `deployment/gcp_*.py`) | budgets, a cleanup journal | translation of requests, deletion by exact identity | the guarded lifecycle, Compute Engine |
| Evaluation (`evaluation/*`) | request schedules, delayed observations, fault plans | runner, study, load calibration | endpoints |
| Routing (`routing_*`, `external_router`, `breakpoint*`) | telemetry, endpoint load, campaign packages | executor, replay, qualification | endpoints through a tunnel |
| Dashboard (`dashboard/*`) | an index snapshot, shared work budgets, sessions | refresh, list, detail | verified directories |
| Pure parts (`resolution`, `normalization`, `metrics`, `domain`, `bundle/verifier.py`, adapters' command lines) | none | parse, validate, compute | - |

`PROJECT.json` lists the same parts as components, with their status.

### What is hard here

* *Unlocked readers against a locked writer*: `current_state` compares two
  files at two instants while a transition replaces one and adds the other.
* *Death and failure between two writes*: a transition, a reservation and the
  sealing of a bundle each take several system calls, any of which can be the
  last.
* *Signal handlers on the main thread* run on top of whatever lock that thread
  holds.
* *Children that do not cooperate*: they ignore SIGTERM, fork descendants that
  keep the pipes, write too much, or end just as they are stopped.
* *A cause that is only known elsewhere*: a cancelled benchmark shows up as a
  bad exit; a cleanup failure hides the failure before it; a write that took
  effect still raises.
* *Work that is resumed by another process*: a comparison is re-entered after
  an interruption and must neither repeat nor skip a planned run.
* *A provider that answers late, wrongly or not at all*: an operation may still
  bring a machine after its controller died, and only the journal can say so.
* *Three journals for one lease*: the core journal, the sidecar and the
  watchdog's task each have a lock of their own and nothing writes two of them
  at once, so a death between any two writes leaves them apart, and recovery has
  to bring them together again.
* *A watchdog that acts beside the controller it watches*: runners and callers
  claim cleanup attempts from one journal, with clocks that were read before the
  lock was taken.
* *A creator that hangs in its create*: its watchdog must kill it before it
  cleans up, the insert may still be on its way after that, and an operator may
  clean up at the same time.

The hazards in `PROJECT.json` name the line where each of these bites and the
properties that watch it.

## Modules

| Module | Models | Checked by | Proved in |
| --- | --- | --- | --- |
| `RunStates` | the state graph of `domain/states.py` | its users | - |
| `RunRegister` | abstract: a register that moves along the graph | as a refinement target | - |
| `RunWorkspace` | one run directory and the processes that use it | `MCProcessParts`, `MCRunWorkspace` | `RunWorkspace_proof` |
| `CancellationToken` | the token, its event and signal handlers | `MCProcessParts`, `MCCancellationToken` | `ProcessParts_proof` |
| `ProcessSupervisor` | one supervised child and its descendants | `MCProcessParts` | `ProcessParts_proof` |
| `RunOrchestrator` | one run from reservation to sealed bundle | `MCProcessParts`, `MCRunOrchestrator` | `RunOrchestrator_proof` |
| `ComparisonExecutor` | one plan, its executors and the operators beside them | `MCProcessParts` | `ComparisonExecutor_proof` |
| `LifecycleCoordinator` | one deployment from validation to confirmation | `MCProcessParts` | `ProcessParts_proof` |
| `GcpLeaseJournal` | a lease record and the rules by which the journal takes the next | `MCGcpLifecycle`, `MCGcpSupervisor` | - |
| `GcpLifecycle` | controllers, their leases and the provider | `MCGcpLifecycle` | `GcpLifecycle_proof` |
| `GcpWatchdog` | one watchdog task: its journal, callers and runners | `MCGcpWatchdog` | `GcpWatchdog_proof` |
| `GcpSupervisor` | composes: a supervised lease over its three journals, around `GcpWatchdog` | `MCGcpParts`, `MCGcpSupervisor` | `GcpSupervisor_proof` |
| `GcpCampaign` | one private campaign: its journal, creator, watchdog, successors and operators | `MCGcpParts` | `GcpCampaign_proof` |

The six parts of `MCProcessParts` share no state, nor do the two of
`MCGcpParts`. These modules put them side by side so that one run checks them: a behaviour picks a part (`part`) and is a behaviour
of that part alone, while the others do not move. Where names would meet, a
module's carry a prefix (`token`, `child`, `deploy`, `plan`, `workspace`,
`campaign`).

In a module, a comment that starts with "Variant:" marks a definition that is
*not* the code: it is the neighbouring definition with a plausible bug, and
`PROJECT.json` uses it to show that the run would notice.

### RunWorkspace

State: how many of the five reservation writes exist, the journal
(`control/events`), a possibly incomplete last event file, `state.json`,
whether the frozen inputs still match, the flock, and for each process where it
is in its call and what it has read. One action per system call that another
process could see: `ReserveWrite` for each file, `LoadSnapshot` and the scan
(`AcceptRead`, `RejectHistory`) for `current_state`, `AcquireLock` to
`ReplaceSnapshot` for `transition`. Any write may fail (`PersistFails`,
`FailReserve`), any process may die (`ProcessDies`), clocks differ between
processes (`ClockTimes`), and inputs may be changed from outside (`TamperInputs`).

Properties: the journal is always a path of the graph that readers can accept
in length (`JournalSound`); a read without the lock that succeeds is current
(`ReadIsCurrent`); a workspace whose last transition was cut short never moves
again (`CutShortIsFinal`); `state.json` implements the abstract register
(`WorkspaceIsRegister`); every call returns (`CallsReturn`, checked as
`WorkspaceCallsReturn`).

Two processes are enough for every race, since a transition excludes all
others and a reader meets one writer at a time. TLC runs with one clock value,
which keeps liveness within reach; that a clock may show anything is covered by
the theorems, which hold for every `ClockTimes`. Nor does TLC try what differs
in nothing (`WorkspaceBound`): it gives the first call to a certain process, and
of the states other than COMPLETE it lets only FAILED be claimed with valid
evidence. The journal needs no bound: the graph ends after six events.

### CancellationToken

State: notice, flag, the token's lock, the event's condition lock, and for each
thread a stack of calls, because a signal handler runs on top of the main
thread's current call. A request publishes the notice, then enters the
condition and raises the flag; a wait enters the condition, tests, sleeps and
enters it again.

Properties: the first request wins and exactly one is told so
(`FirstWriterWins`); without signals a request raises the flag and nobody stays
in a call (`CancellationSpreads`). With signals a handler can wait for a lock
that its own thread holds: see Findings. `MaxSignals` bounds the handlers on the
stack; two show a handler on top of a handler. Three threads give a requester, a
waiter and a second requester.

### ProcessSupervisor

State: the supervisor's program counter, the termination it will report, the
notice, events that happen once (`latched`), and for each process whether it is
alive, in the group, holding a pipe or sent SIGKILL. Each check of the polling
loop is an action of its own, so that the child, its descendants, the drains,
the clock and a canceller act in between. The bounded waits end by their
condition or by time, whichever the environment chooses. An exception that
nothing in the call catches may come at any step (`InterruptChild`): a
KeyboardInterrupt, or a drain thread that cannot be started. The call then ends
where it is.

Properties: whatever termination the call reports is what happened
(`TerminationIsTrue`: EXITED is a child that ended by itself with all its output
read, ORPHANED_DESCENDANTS are killed descendants, a stop for cancellation or
time is backed by the token); a call that returns or fails by itself leaves no
child behind that SIGKILL was not sent to (`NoAbandonedChild`); the call comes
back, with a result, an error of its own or an interrupt (`ChildCallReturns`,
which is `CallReturns` when the child is the part that runs). `NoAbandonedChild`
excepts the interrupted call on purpose: between `Popen` and `process.wait` only
an `Exception` of `on_start` is caught and there is no `finally`, so the child
runs on. The handlers of `cli.py` keep SIGINT and SIGTERM away from this, because
they request cancellation of the token instead; a caller without them is
exposed. The run has one descendant,
which can outlive the leader, leave the group or keep the pipes; the theorems
hold for any set of them.

### RunOrchestrator

State: the mode, the step, the run's state and whether its journal is whole,
the token, the propagating exception, the managed server, how the benchmark
ended, where the bundle is and whether its content is still what was sealed.
The workspace is used through its register: `RunWorkspace` shows that it
implements one, and a transition that raises may have left the journal cut
short or have taken effect after all, the two results `RunWorkspace` allows.
Steps follow `_run_fake` and `_run_vllm`; `Stage` to `Commit` follow
`seal_bundle`. Every step may raise, an interrupt may come at any step, and the
process may die at any step.

Properties: COMPLETE implies a published bundle that was verified after it
became immutable, from a clean benchmark beside a server that stopped when
asked (`CompleteIsVerified`); no ended run leaves a server running
(`ServerIsStopped`); a benchmark stopped by a cancellation is INTERRUPTED
(`CancelledIsInterrupted`); the run follows the graph
(`ImplementsRegister`); that an ended run is marked unless its workspace could
not be written is a theorem (`EndsAreMarked`); a run ends (`RunEnds`, checked as
`RunComesToAnEnd`). The model has no parameter:
one run is a finite system and the runs are exhaustive.

### ComparisonExecutor

State: for each slot of the schedule the state its run directory shows, its
`started_at` and the process that runs it; the trial set under each arm's
planned identifier; the results that name the plan; who holds the plan's flock;
and each executor's step, slot and `previous_start`. A run is one action to
reserve it and one to end it, in any state that `RunOrchestrator` may leave.
`ScanSlot`, `AcceptPrefix` and `RefusePrefix` are
`_existing_completed_prefix`: the slots are looked at one after another until
the first that is missing, and the rest at once, which no later state can
contradict because a reserved slot stays reserved. `Fail` stands for every
verification, resolution and publication that raises, `Crash` for the death of
the process, and the actions of `Hands` for `inferdrome run --run-id`,
`create_trial_set` and `create_comparison_result` used by an operator, none of
which takes the plan's lock. Their runs need not be runs of the plan's
experiment, nor their trial sets and results agree with it ("INVALID",
"misfit").

Properties: at most one slot is run by an executor, behind the lock and after a
complete prefix in order (`SlotsRunInOrder`); a report stands for a complete
schedule in order, both planned trial sets and a result, then and ever after
(`ReportIsEarned`); what was started and ended is never started again
(`NoRetry`); the read-only progress names the slot that is run next
(`ProgressIsTrue`); an
execution that is started again after each failure ends in a report, a blocked
plan or an abandoned run (`PlanEnds`, checked as `PlanComesToAnEnd`). The progress is
judged by an inspection
at one instant. `inspect_comparison_execution` reads slot after slot without
the lock, so one that is overtaken by an executor can show BLOCKED for a moment.

Four slots are the least a plan can have, two repetitions of each arm, and
enough for a prefix, a gap and a rest. Two executors contend for one lock.
Clocks show 0 to 4, so that a full schedule in order exists as well as every
tie and every step backward. `MaxFaults` bounds failures, crashes and
cancellations together: two without operators. Beside operators, who multiply
what the directories may hold, there are three slots, clocks of 0 to 3 and one
fault; a real plan is never that short, but no rule depends on it, and the
theorems hold for every length.

### LifecycleCoordinator

State: the phase, the recorded trace, which resources were attempted, whose
handles are held, which exist, the token, the two error codes and the cleanup
phases that were not confirmed. Each adapter call may succeed, fail with or
without leaving a resource, or be interrupted. A KeyboardInterrupt may arrive at
any instant. In the forward phases it becomes the cause, whether or not the phase
has an event yet (`InterruptBetween`, `InterruptKeeping`, `FailPhase`); this
includes the instant after a resource was created and before its handle was
kept. While the cause is being stored it is raised after the cleanup
(`InterruptHandler`). Inside a cleanup phase it is swallowed like a failure of
that phase (`InterruptPhase`, beside `ConfirmPhase` and `Unconfirm` in every
phase): before the adapter was called or before the event was recorded there is
no event, later there may be a success or another failure. Between two cleanup
phases it ends the call (`InterruptCleanup`). `Findable` is the set of resources an adapter can find without a handle.

Properties: a returned outcome never hides a resource that its adapter can see
(`LiveIsReported`); it accounts for every cleanup phase owed to what was
attempted and for no other, in order and at most once: a phase that it does not
report as unconfirmed has a success in the trace (`AttemptedIsReleased`); the
cleanup error and the cause are the first failures of the trace or an interrupt
that took their place, a failed phase never counts as confirmed, an orphan and a
cleanup error come together, and success means all eight phases in order
(`OutcomeMatchesTrace`). That each phase owed has an event at all is *not* true
of the code, see "Seen while reading". The trace
has at most eight events, so nothing is bounded.

### GcpLeaseJournal and GcpLifecycle

State: for each lease how far its reservation got (`prefix`), the last record
of its event chain (`head`), whether that event was a delete intent and what
time it carries; the arms that were consumed; at the provider the instances,
boot disks and operations; for each controller its step, its record in memory,
the operation it waits for and the time it read when its call began. A record
keeps the state, the operation and its status, the number of delete attempts
and the flags. `Valid` is the record's own validation and `Accepts` the
journal's, with the two-event sequence of every delete. The snapshot file is
not modelled, because every reader takes the chain for the authority.

`Reserve` to `Work` follow `execute`; `StartCleanup` to `Orphan` follow
`_cleanup`, which `RecoverCleanup` enters too. Every call of the provider may
fail, be lost on the way there or on the way back; every journal write may be
refused, or fail before or after it took effect (`Unrecorded`), and what the
code then keeps is a copy in memory (`RecordResilient`); a controller may die
at any step; an operation may end as done or as an error at any time after it
was accepted, a delete may leave the disk, and the provider deletes a machine
whose duration is over. As in `FakeGcpComputeTransport`, each accepted delete
is an operation of its own. A reservation that is refused changes nothing and
is no step.

Properties: a lease that is CLEANUP_CONFIRMED stands for no machine, no disk
and no insert in flight (`ConfirmedMeansGone`); at most one machine is paid for
(`OneMachineAtMost`); the provider takes no more deletes than the journal
counts (`DeleteBudget`); a run without faults within one second leaves nothing
behind (`LeftoversNeedAFault`). The last two leave out leases on which two
controllers work at once: the journal takes the same delete intent twice when
nothing else changed, so two concurrent recoveries can spend more deletes than
one record counts.

Two leases contend for the journal, two controllers for a lease. The run allows
one delete attempt, one recovery, and two faults of any kind or one and a tick of
the clock (`MCNext`): enough for a controller that dies with an answer lost and
another that recovers the lease, during its predecessor's cleanup or after it.
`MaxCalls` only bounds the names of delete operations. The theorems have none of
these bounds.

### GcpWatchdog

State: the task's journal as its last event, its length, how many of its events
are resumes and whether it still reads (`log`, `len`, `resumes`, `chain`); the
worker spec on disk; what the provider still has of the machine (`left`); and
for each process its step, the length of the journal when it last looked
(`ticket`, which is the digest it compares), the time at which it claimed an
attempt and the runner it has started. The whole history is not kept, because
the code validates the chain and then acts on its last event.

A caller arms the task, activates it in the steps another process can see
(`Activate`, `Launch`, `Await`: the event, the spec and the process; the event
with its pid; the acknowledgement), resumes a runner (`Resume`, `Relaunch`),
binds the disk, or tells the task that the core journal is done
(`ReconcileCoreTerminal`). Runners and callers alike give a task up, claim an
attempt, clean and write down what it came to (`Attempt`). Any process may die at
any step and leave half a line behind, which callers cut off and runners take
for the end. `Elsewhere` is the controller's own work on the machine.

The clock is read before the lock is taken. `Times` therefore lets every event
carry a time up to `Lag` seconds old, and two processes may write times in the
wrong order. `_append_locked` does not compare the new time with the last one,
so such a journal is written, and every later reader refuses it
(`chain = "broken"`).

Properties: of two workers that clean up at once, the earlier has overrun its
lease (`ClaimsDoNotOverlap`; where the chain broke, nothing is promised, because
the event that broke it may have been the claim); a confirmed task has nothing
left of the machine (`ConfirmedIsGone`); a settled task is not taken up again
and a fenced one gets no further attempt (`SettledStays`); a runner that polls
settles the task, unless it is fenced or no runner is left (`TaskSettles`).

Bounds: one caller, two runners (the first and the one that replaces it), two
attempts, one resume, a lag of one second, a clock to 4, so that attempts, their
leases and the deadline at 3 all come to pass, and one fault. The proof has
none of these bounds.

### GcpSupervisor

The composition of a lease's three journals. It extends `GcpWatchdog` and adds
the core journal's last record (its states and their order come from
`GcpLeaseJournal`), the flags each caller's copy of that record has, the
sidecar's state, the kill marker, each caller's step, and whether it knows the
disk to delete. Each journal write is an action with three outcomes: taken,
refused by the journal's rules, or failed with or without effect (`WriteCore`,
`WriteSide`).

`Prepare` to `Work` follow `execute` with a supervisor, `Abort` and `Block`
`abort_before_provider`, `CleanupPending` to `Report` `_cleanup`, and `Recover`
to `ResumeCleanup` the four ways through `recover_cleanup`. What `GcpLifecycle`
says of provider operations in detail is here whether an operation is unknown.
Operators may also call the watchdog itself (`Maintain`).

Properties: no journal says that the cleanup is done while the machine exists
(`NobodyWritesOff`); work begins only when the task on disk names the machine's
disk (`WorkIsCovered`); a machine is created only under a task whose runner has
reported and with the intent in both journals (`CreationIsRecorded`); once the
core journal has confirmed, recovery ends the sidecar and the task too
(`RecoveryConverges`, checked as `JournalsConverge`); and the task lives as `GcpWatchdog` says
(`ImplementsTask`), so that what is proved of the task holds of it here.

Bounds: a controller, one operator, one runner, one attempt, one fault, a clock
to 2, at which the deadline has come. Resumes are left to `gcp_watchdog` (`MaxResumes = 0`).

### GcpCampaign

State: the journal's last event, the events that somebody asks for later
(`marks`), the phase that `_cleanup_resume_phase` finds (`phase`, `renewed`) and
whether the journal still reads; at the provider the insert (not sent, on its
way, made, refused) and what is left of the machine; the sidecar's last event;
and for each actor its step, whether it knows both identities (`bound`), whether
it repeats a cleanup without new events (`retry`) and the events it has decided
to record (`todo`). `Successors` is the journal's `_TRANSITIONS`, with the
stages that nobody tells apart put together. `Note` is one locked append: it is
taken, refused, or fails and may leave half a line; the event's time was read
before the lock was taken, so an append may also make the journal unreadable
for everyone (`readable`).

`PrepareCreate` and `RunCreate` follow `execute`: the first to the last look at
the journal before the insert (`Recheck`), the second from the insert
(`SendInsert`) to the hand-off. The creator may stop between the two for as long
as it likes. `CleanUp` is `_cleanup_after_transport`, which the creator, the
workers and operators all call; `Bind` is `_record_watchdog_exact_binding` for
those who find a machine that nobody has named yet. `Watch` is the worker's
loop: it waits until the creator is dead or late (`Due`), fences a submitted
create (`FenceSubmittedCreate`), kills the creator (`KillCreator`), lets the
cleanup begin (`ReleaseFenced`) and recovers. `Rescue` is
`recover_exact_cleanup`; its first read decides on the whole call.

Properties: once an intent to clean up is recorded no insert is sent
(`NothingInsertedAfterCleanup`); a campaign whose cleanup is confirmed has no
machine and no insert on its way, except that an operator may have read the
journal before the submission (`CampaignConfirmedIsGone`; see Findings for the
exception); every watchdog or successor that started ends (`CleanersEnd`, checked as
`CleanersComeToAnEnd`), also when the creator hangs for ever.

Bounds: one failure, lost answer, crash or late clock (`MaxMishaps`); two
deadlines (`hour` 1 is the execution deadline, 2 the cleanup horizon). In the
part "restart" the watchdog may be started again once and no operator acts; in
"rescue" one operator acts, the watchdog is not started again, and the creator
does not get beyond its create, which is when a rescue is needed. Together they
have every pair of actors at work at once. The theorem has none of these bounds.

## Runs

Properties of different parts share a run when the parts share no state.

| Run | Question | Bounds |
| --- | --- | --- |
| `workspace_crash_readable` | is the state readable after every crash (it is not) | 2 processes, 1 clock value |
| `process_parts_end` | the token with signals, and does a request reach every waiter; what the reports of the supervisor guarantee, does the call return; does the progress tell what executors do, do repeated executions end; what a run's state guarantees, does a run end | token: 3 threads, 2 signals; child: 1 descendant; plan: 2 executors, 4 slots, 5 clock values, 2 faults, nobody by hand; run: none needed |
| `process_parts_fail` | what a returned deployment outcome guarantees; order, one run per slot and earned reports beside operators; safety of a run directory under races, crashes and failures, does every call on it return | deployment: none needed; plan: 2 executors, 3 slots, 4 clock values, 1 fault, everything by hand; workspace: 2 processes, 1 clock value |
| `token_signal` | does a signal cancel (not always) | 2 threads, 1 signal |
| `orchestrator_raise` | is a run that raised never COMPLETE (it may be) | none needed |
| `gcp_lease` | what the journal guarantees about machines, disks and budgets | 2 leases, 2 controllers, 1 attempt, 1 recovery, 2 faults or 1 and a tick |
| `gcp_default_clock` | does a run without faults confirm its lease (not when a second passes) | the same, no faults |
| `gcp_watchdog` | do attempts exclude each other, is what is settled true and final, does a polling runner settle | 1 caller, 2 runners, 2 attempts, 1 resume, lag 1, clock to 4, 1 fault |
| `gcp_parts` | are three journals enough to never write a machine off, and does recovery bring them together; is a private campaign's cleanup final, and does every worker end | supervisor: 2 callers, 1 runner, 1 attempt, clock to 2, 1 fault; campaign: a creator, its watchdog and a successor or an operator, 1 mishap |
| `campaign_absence` | is absence never taken as proof (it may be) | the campaign with an operator, no mishap |
| `gcp_kill_switch` | does a kill marker stop the create intent (it does not) | as the supervisor of `gcp_parts`, with a clock to 3 |
| `gcp_memory_only` | does only a confirmed core journal stop the task (no) | as the supervisor of `gcp_parts`, with a clock to 3 |

Most configurations switch deadlock checking off, because the systems they
model end: a finished run, a returned call, a settled task.

## Fairness

* `RunWorkspace`: a call in progress keeps running, and the kernel eventually
  grants an flock that is released again and again (strong fairness of
  `AcquireLock`). Nobody is obliged to make a call.
* `CancellationToken`: threads run, and locks that are released again and again
  are eventually granted; nothing obliges a thread to call or a wait to time
  out.
* `ProcessSupervisor`: the supervisor runs and the clock advances. No child is
  obliged to exit, not even after SIGKILL (a process in uninterruptible sleep
  does not), and no interrupt is obliged to come.
* `RunOrchestrator`: the interpreter runs the orchestrator; its waits all have
  deadlines in the code, so a wait that ends by its deadline is a step of the
  orchestrator. The server is never obliged to end.
* `GcpLifecycle`: none; only safety is checked.
* `GcpWatchdog`: time passes and a runner polls for ever (its loop sleeps and
  looks again until the task is settled). No caller is obliged to call.
* `GcpSupervisor`: the same; an operator finishes the call it has begun, and
  does not stop recovering (strong fairness of `Recover`, which other calls of
  the same operator disable in between). The controller is obliged to nothing.
* `GcpCampaign`: a worker that has started keeps running (its loop polls until
  it ends, and every provider call has a timeout), and time passes. Nothing is
  assumed of the creator, which may hang for ever, nor of operators.
* `MCProcessParts`, `MCGcpParts`: each part's own fairness, owed to the part
  that runs.
* `ComparisonExecutor`: an executor keeps running, a run it waits for ends, and
  an operator whose execution left no report starts another. No fault is
  obliged to happen or not to, but there are finitely many (`MaxFaults`).

## Proofs

The proofs use only the assumptions stated in the modules: `ClockTimes` is a set
of naturals with 0, `Times` a set of naturals, no process, thread or lease is
named like the absence of one, the main thread is a thread, the leader is not
one of its descendants, `Findable` is a set of resources, a schedule has at
least one slot, no executor is named like an operator or like nobody, a
campaign's creator, workers and operators are different, and for
the watchdog `WatchdogAssumption`: attempts, lease and deadlines are positive,
the runtime deadline precedes the cleanup deadline, runners and callers are
different processes. The code's own limits (`max_cleanup_attempts` of 1 to 3,
three resumes) are stronger.

* `RunWorkspace_proof`. `JournalSound` alone is not inductive: it does not say
  why the writer that is about to append may do so. The inductive invariant adds
  that a process in a locked step holds the flock and its view is the snapshot,
  that the record it will write follows that view, that only the lock holder
  can have an incomplete file, and what the reservation has written so far.
  Readers need that snapshots only grow: a view that matches the history later
  is the snapshot then. The refinement follows because `ReplaceSnapshot` is the
  only step that changes a snapshot's state, to a record that follows it.
* `ProcessParts_proof`, the child. The invariant ties the program counter to the
  termination that is going to be reported, to the notice, and to whether the
  leader has been reaped, signalled or killed; of the leader of an interrupted
  call it says nothing. `TerminationsAreTrue` puts its three consequences
  together.
* `ProcessParts_proof`, the deployment. `LiveResourcesAreReported`: the
  invariant says for each cleanup step which resources have been accounted for:
  gone, out of the adapter's sight, or recorded as unconfirmed; and that whatever
  failed has a code. `AttemptedStaysReleased` and `OutcomesMatchTraces` need to
  know what the trace is at each step (`TraceIInv`): its phases are those that
  the step has behind it, in the order of their rank (`RecordedInOrder`); every
  cleanup phase owed and behind is recorded as a success or is unconfirmed
  (`OwedIsShown`); the cause is the first forward failure or an interrupt
  (`CauseIsFirst`), likewise the cleanup error (`CleanupErrorIsFirst`); and while
  nothing has failed nothing was skipped (`NothingIsSkipped`). An interrupted
  phase needs no case of its own beyond the forward one: it appends what any
  phase may append, or nothing, and marks itself unconfirmed. That a first
  failure is one of the trace at all, and stays the first when an event is
  appended, follows from the well-ordering of the indices.
* `ProcessParts_proof`, the token. `OneRequestWins` is about calls on stacks: a
  handler runs on top of a call of its own thread and ends before it.
  `InsideAlone` says that a request inside the token's lock is the only one
  there, at whatever depth of whatever stack, that it found no notice when it is
  about to publish its own, and that from then on the notice is its own; the
  lemmas on stacks (`Carried`, `OthersComeAndGo`, `HolderGoesOn`,
  `HolderLeaves`) say what pushing and popping leaves where it was.
* `RunOrchestrator_proof`. The invariant gives for each step the run's state,
  the measurement that was accepted before it, where the bundle is, and what is
  known of the server; COMPLETE can then only come from `Commit`.
* `ComparisonExecutor_proof`. `ReportIsEarned` needs to know what an executor
  has already verified: every slot before the one it is about is complete, its
  start follows all earlier ones and does not follow `previous_start`
  (`Behind`), it holds the lock whenever it is past the lock step, it runs
  exactly the slot it is about, and it is past the last slot once it makes
  artifacts. The proof has one lemma for what each kind of step leaves alone
  (`Others`, `StillBehind`, `StillEarned`), one for steps that go on and one for
  steps that end the call; operators only need that sealed evidence stays
  (`Kept`), because only a run with a process ends.
  `ProgressIsTold` is about plans that no operator touches (`ByHand = {}`, as in
  the run that checks `ProgressIsTrue`): an operator may start a later slot and
  make the next index any. The invariant adds that past the scan no slot after
  the executor's own has begun (`Ahead`); whoever changes a run is the one
  executor in the lock, so the others' `Ahead` stands.
* `GcpWatchdog_proof`. `ClaimsDoNotOverlap` does not survive a step by itself:
  it does not say when a claim may be made. The invariant adds, for every
  process that is cleaning up, that it began before the last event, that its
  lease is over whenever the task waits, and that it was over when the holder of
  the last claim began (`Spaced`); that a process whose `ticket` is the journal's
  length is the only one that can add to what it saw, and knows what it says
  (`Tickets`); that a finished attempt left nothing (`Gone`); and how many events
  lead to each state (`Room`), which bounds the journal. Its steps come in three
  forms, with one lemma each: they write nothing (`QuietKeeps`), they write an
  event (`EventKeeps`, from `AddsKeeps`) or they claim (`ClaimKeeps`). What makes
  the proof go through with clocks that run backward between processes is that
  an event older than the last breaks the chain, and after that nobody claims.
  `SettledTasksStay` follows because every event on a settled or fenced task is
  one that ends it (`StaysIf`).
* `GcpCampaign_proof`. `InsertsPrecedeCleanup`: an insert is the creator's step,
  so it is enough that a creator about to send one (`step[Creator] = "insert"`)
  rules out a recorded intent. Between its last look and the insert others may
  write, and what they may write depends on whether the creator lives. The
  invariant says that the journal of a creator about to insert is at
  CREATE_SUBMITTED or at the fence (`InsertIsFenced`) and that no state up to
  CREATE_SUBMITTED comes back after an intent (`FreshIsUntouched`); that a worker
  reaches the step that releases the fence only over a dead creator
  (`ReleasedWhenDead`); and that whoever binds a machine has seen one, so that
  the insert was sent before (`BindersSawIt`). `CalmKeeps` deals with every step
  that leaves the insert alone and records nothing, or one event that an insert
  about to be sent survives; each actor's steps are shown to be calm, and
  killing, preparing and inserting have
  lemmas of their own.
  `ConfirmationIsTrue` takes a second invariant beside that one
  (`ConfirmedIInv`): whoever has both identities, tidies up or names the machine
  does so for one that was made (`Made`), a machine that was made and is gone
  stays gone (`Over`), what a cleaner is about to bind are events of a binding
  and never a confirmation, and a rescuer that goes the way of absence still
  holds the decision it took at its one look at the journal. A confirmation is
  then recorded over a machine that is gone, or by such a rescuer: the exception
  is the property's own, and finding 7 is about it. Most steps are an actor's
  own and tell nothing of identities or of an end (`GoingIsFounded`); planning
  the binding, recording an identity, confirming and trusting are the others.
* `GcpLifecycle_proof`. `ConfirmedLeasesAreGone` cannot be proved of the journal
  alone: what the insert became decides. The invariant (`LeaseIInv`) weighs every
  record, on disk or in a controller's memory, against it: a record that knows of
  an attempt and is not in doubt (`Certain`) exists only once the insert is
  `Settled`, that is, has ended or will never be sent; before that only one
  process can still send it, the one that spent the arm (`OneExecutor`). So a
  controller that works from an old copy, or beside others at the same lease,
  can write nothing that is not true. `Lawful` says the same of the journal:
  what exists was inserted, what was sent is on record as attempted, deletes
  follow a settled insert. Most steps are one process that goes on or returns and
  offers the journal one record (`StepOf`, with `GoingOnKeeps`,
  `ReturningKeeps`, `WritingKeeps`, `MovingKeeps` and `LeavingKeeps`);
  `StaysPlaced` is what the other processes keep, from what every step keeps of
  the leases (`Advances`). `OneMachineIsPaidFor` follows, because whatever costs
  anything belongs to an unresolved lease and a reservation looks at all of them.
  `DeletesAreBudgeted` has an invariant of its own on top (`BudgetIInv`): the one
  controller of a lease has counted every attempt that its journal has, unless a
  write failed under it and it is about to leave, and one attempt is unspent when
  it calls for a delete. All but four kinds of steps are `Ordinary`: they call
  for no delete and record the count they had.
  `LeftoversAreFaults` follows one run without faults step by step (`CalmIInv`):
  the controller's place determines the record it holds, which is the journal's
  last (`Stage`, `OnTrack`); each of those records is built from the one before
  (`FirstRecords`, `LastRecords`), and the journal accepts it there
  (`RunIsAccepted`, `EndIsAccepted`), so nothing is refused (`NothingIsRefused`)
  and the only way out is through a confirmation. Where a delete has ended the
  machine is gone, because a delete follows a settled insert (`LeaseIInv`), and
  the controller is alone because of `BudgetIInv`. It takes `clock = 0`: finding
  4 shows what a later second does.
* `GcpSupervisor_proof`. The controller's own way is what counts: until it has
  inserted, the core journal refuses everybody else's records, and where the
  controller is says how far each of the three journals has come (`Behind`,
  `Closed`); after that no record of an absence is written but from a look that
  found nothing. `SupervisorImplementsTask` goes through every step: those of the
  lease alone stutter, and the calls into the watchdog are its actions
  (`EveryStepIsOfTheTask`). With it the four theorems about the task hold of
  `GcpSupervisor` too.

`TypeOK` of `GcpLifecycle` bounds counters by constants that only TLC needs
(`MaxCalls`, `MaxFaults`) and is checked by no run; its proof has a typing of its
own (`Typed`) that leaves the counters unbounded. The type invariants of all
other parts are proved.

Not proved, only model-checked: liveness, which is beyond the prover.

## Findings

1. *A cut-short transition makes a run unreadable*
   (`workspace_crash_readable`). The event file is written before `state.json`
   is replaced, and readers demand equality, so a death or write failure in
   between leaves a workspace that every later call refuses. `CutShortIsFinal`
   shows the code then at least never moves it again. The module promises
   "crash-readable state events".
2. *A signal can hang the process it should cancel* (`token_signal`). The
   handler takes the token's lock, or the event's, on top of a main thread that
   may hold it.
3. *A run that raised can be COMPLETE* (`orchestrator_raise`). The last
   transition may take effect and still raise.
4. *A clock that ticks strands the lease* (`gcp_default_clock`). `execute` and
   `_cleanup` read the clock once and stamp most of their records with that
   time, but operation results and delete intents carry a fresh one, and the
   journal refuses a record older than its last. As soon as an operation takes
   until the next second, OWNED, the delete handle or CLEANUP_CONFIRMED is
   refused: no work runs, or the lease stays unresolved and blocks every later
   reservation. The tests freeze the clock. The journal still never claims more
   than is true: `gcp_lease` ticks too.

5. *A kill marker does not stop the creation* (`gcp_kill_switch`). The last look
   at the kill switch before the insert is in
   `issue_future_mutation_activation_guard`; `create_intent` checks approval,
   guard and deadlines only. A marker set while the runner starts or the core
   journal is written takes effect at the start of the work, when the machine
   already exists.
6. *A confirmation in memory stops the watchdog* (`gcp_memory_only`). `_cleanup`
   ends the sidecar and the task with its own copy of the record, even if the
   core journal did not take CLEANUP_CONFIRMED. `NobodyWritesOff` shows that the
   machine is gone by then, but the core record stays CLEANUP_PENDING, no
   cleanup authorization can be made for a settled task, and the lease blocks
   later reservations.
7. *An operator may confirm a cleanup from absence* (`campaign_absence`).
   `recover_exact_cleanup` loads the history once. If nothing was submitted then,
   it confirms the cleanup as soon as it sees no machine; what it asks of the
   journal later is only whether a cleanup has begun. Meanwhile the creator may
   submit and send the insert, and the watchdog fence it, kill the creator and
   begin the cleanup: CLEANUP_CONFIRMED is recorded and the machine may still
   come. Then only the provider's own duration limit ends it.

Seen while reading, without a run of its own:

* `FileGcpWatchdog._append_locked` takes the clock's word from before the lock
  and does not validate the chain it writes: two callers a second apart can make
  a journal that nobody reads again. The tests use one process and one clock.
* Resumes that are used up orphan a task (`Resume`) although the claimed attempt
  may still be at work; its result then finds the task settled.
* A recovery of an ORPHANED lease keeps `orphaned` set and a delete intent must
  not have it set, so the journal refuses every delete for such a lease, while
  the guide calls a late machine "eligible for exact cleanup"; and an insert that
  ends in ERROR leaves the mutation ambiguous, so its lease can never be
  confirmed.
* A descendant that closed its pipes and ignores SIGTERM survives a returned
  call; an adapter without a handle may confirm although a start it never
  returned from left a process; a second KeyboardInterrupt between two cleanup
  phases of a deployment skips the rest. The code promises nothing there, and no
  property speaks of it.
* A KeyboardInterrupt in `run_captured_process` after `Popen` leaves the child
  running: nothing between there and `process.wait` stops it.
* A KeyboardInterrupt inside a cleanup phase of a deployment is swallowed by that
  phase's `except BaseException`. The adapter may then never have been called,
  although `runtime_stop_attempted` or its sibling is already true and
  docs/DEPLOYMENT_SPEC_V1.md says that the call "is attempted once"; and the
  phase may have no event, or a SUCCEEDED one beside the cleanup error
  INTERRUPTED. The outcome is FAILED and orphaned in each case, which is what the
  properties hold on to.
* In a private campaign: a crash between the two identities leaves one bound and
  one not, and every later recovery records CLEANUP_INTENT, CREATE_RECONCILING
  and CREATED and is then refused, until the journal's 96 events are used up and
  the worker ends (a hazard in `PROJECT.json` without a property).
* There `reconcile_create` of the live transport inserts again under the same
  request with a capability that is spent, so a reconciliation it begins never
  succeeds; the cleanup finds the machine instead.
* A creator that records CREATED between a worker's load and its fence ends the
  worker with code 2, and so does every worker that comes after a binder failed
  between its CREATE_RECONCILING, which carries no digest, and CREATED:
  `fence_submitted_create` raises on such a journal. A half line or a time that
  runs backward has the same effect. A successor or an operator is needed then.
* Two binders that find the same machine at once may each record its identity,
  and the journal then has no binding that `exact_resource_binding` accepts.

## Not modelled

* Parsing, normalization, metrics, command lines, schemas and rendering are pure
  and sequential: what could be said of them in TLA+ would repeat them.
* The Compute Engine transport: a translation of requests below the lifecycles;
  the provider of `GcpLifecycle`, `GcpSupervisor` and `GcpCampaign` answers what
  it would.
* In `GcpCampaign`: approvals, receipts, evidence and their verification, the
  local fake profiles, execution without a watchdog, the platforms without
  pidfds, the time a worker waits after an absence
  (`_PREBIND_SETTLEMENT_SECONDS`), and the limit of 96 events.
* The exact disk cleanup of `gcp_v2_disk_cleanup.py` and the cost guard: the
  first is one step of `Clean` and `CleanLease`, the second is arithmetic.
* Evaluation, routing and the dashboard carry state and are planned as below.
* The managed vLLM server's handshake with its thread: the orchestrator sees its
  results only.
* In `GcpSupervisor`: approvals, quotes and preflights are taken to hold and
  fresh, and the sidecar's cap of 64 events is not reached. In `GcpWatchdog`:
  the fields of a binding other than whether a disk is named, and the limit of
  32 events, which `TaskTypeCorrect` shows out of reach (at most
  7 + 2 * attempts + resumes, which is 16 for the code's limits).

The contents of files are abstracted to whether they are what was written;
SHA-256 is taken to have no collisions; file system calls are atomic each, and a
crash is the death of a process, not the loss of power.

## Plan

1. `GcpDiskCleanup`: the exact disk cleanup's coordinator, with its
   authorizations and its own journal, refining the one step it is in `Clean`.
2. `ImmutablePublish`: staging, rename without replacement, directory sync;
   abstractly a write-once register, which trial sets and plans use.
3. `ManagedServer`: the handshake between the server thread and its user.
4. `DashboardWork` and `DashboardIndex`: shared work budgets, concurrent
   refreshes and cursors.
5. `EvaluationRunner`, `RoutingExecutor`: delayed observations, stale load.
6. Proofs: every safety property that a run checks is proved; the parts above
   come with theirs.
