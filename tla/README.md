# A TLA+ model of INXM Local

INXM Local compiles an intent into a *plan* (a graph of steps), executes plans as
*runs*, lets a model propose *repairs* of a plan when a run fails, and resumes the
run on the repaired plan. A desktop application, headless processes and MCP servers
do this on the same stored records. This directory models the parts of it that are
hard to test: the order in which steps run, what is kept and what is repeated across
failures, crashes, repairs and resumptions, what several actors do to one record, one
lock or one credential, and what becomes of the processes the program starts.

Paths below are relative to `src/`.

## 1. Inventory

| Component | State | Operations | Interacts with |
|---|---|---|---|
| Plan graph (`executor/dag.rs`, `plan/steps.rs`, `validator/graph.rs`, `validator/mod.rs`) | none | `topological_order`, `downstream_closure`, `fan_out_body_closure`, the graph rules of `validate` | read by the executor, the repair reset and every save of a plan |
| Run execution (`executor/mod.rs`, `executor/step_runners/`) | the run record (`storage/runs.rs`): status, checkpoint of every step, iterations of body steps, outputs; in memory: loop position, attempt, the sets of completed and of failed-or-skipped steps, the FAN_OUT runner's bookkeeping | `execute`, `resume`, `resume_from_repair`, the loop of `execute_run`, `run_step_with_policy`, `run_fan_out`, routing of a CONDITION, approvals | run store, lifecycle lock, plan store |
| Run lifecycle and cancellation (`storage/runs.rs`, `app/engine.rs`: `run_plan_with_timeout`, `resume_run`, `abort_run`, `delete_run`; `app/mcp_server.rs`) | one lock file per run; the desktop's registry of cancellations | `lock_lifecycle`, register and deregister, abort, mark cancelled, delete, resume by the desktop or by an MCP client that may leave | executor, run store |
| Repair proposal (`repair/mod.rs`, `storage/world_fixes.rs`) | patches and world fixes | `propose_repair`, recording of a world fix | failed runs; authorises `resume_from_repair` |
| Patches, plan versions, journal (`storage/mod.rs`, `patches.rs`, `plans.rs`, `plan_edits.rs`) | `vN.json` snapshots, `current.json`, patch and edit status, repair journals | approve and apply, reject, `commit_repair`, recovery in `StorageRoot::open`, `PlanStore::save` | every component opens the store |
| Scheduler (`app/scheduler_lock.rs`, `app/schedule_store.rs`, `app/engine.rs`, `app/mutation.rs`) | lock file with heartbeat; `schedules.json`; the loop's last tick and active ids; the mutation boundary of each process | take, refresh, take over, release; claim due windows, dispatch; create, switch and delete schedules; delete a plan | starts runs |
| Update gate (`app/update_gate.rs`, `app/update_controller.rs`, `app/updater.rs`) | intent and work lock, installer marker, the controller's state, the installer's script | admit work, download, quiesce, replace or hand over, finish | every operation is admitted through it |
| MCP server's detached work (`app/mcp_server.rs`, `app/activity.rs`, `app/mod.rs`) | registry of detached tasks, list of activities, completion flag | start, join, publish, poll; refresh of the overview | compiler, plan store, desktop |
| Credentials of MCP tools (`tools/oauth.rs`, `tools/adapters/mcp_http.rs`) | a document in several keyring entries; map of pending flows | connect, callback, cancel, disconnect, status, call with refresh | OS keyring, authorization server |
| Child processes (`llm.rs`, `step_runners/code_call.rs`, `adapters/subprocess.rs`, `adapters/mcp.rs`, `adapters/process.rs`) | input, pipes, deadlines, process group | spawn, write, read, time out, kill, reap | run execution, compiler |
| Single instance (`app/single_instance.rs`) | lock and activation file | hand-over of a second launch | desktop |
| Compiler, HTTP adapters and tool catalogue, plan documents and contracts, usage ledger, desktop views, telemetry, rest of host support | text, network, I/O, drawing | | not modelled, reasons in section 8 |

What makes it hard, and what correctness means there:

* **Run execution.** The scheduler decides by sets in memory rebuilt from the
  checkpoints at each resumption; the plan changes between resumptions; routing
  happens once and repairs may undo its effect; a patch may rewire any step; the
  children of a FAN_OUT run one after the other (`fan.rs:5-6`) and the one in flight is
  dropped by a timeout or an abort; the process may die between two saves. Correct: steps
  start after what they depend on, work that succeeded is neither lost nor
  repeated, a branch not taken never runs, no step shows as running in a run that
  ended, every execution ends.
* **Storage.** Several threads and processes open the store, and each open runs the
  recovery of interrupted commits. Correct: immutable snapshots, one winner per base
  version; for calls that do not overlap also that a patch is applied exactly when its
  plan was published. Overlapping recoveries break that, and let `current.json` go back
  (section 6).
* **Lifecycle of a run.** An abort drops an executor, which releases the lock, and then
  competes for it. Correct: one writer at a time, the record moves as its readers
  expect, the registry tells who executes, an abort is answered.
* **Scheduling.** Correct: two loops at once only for a stated reason, and until then no
  occurrence started twice or lost without a reason.
* **Updating.** Locks go with their process, the marker does not. Correct: nothing works
  while files are replaced as long as the marker stands, which fails in named ways only,
  and a hand-over is neither forgotten nor announced for ever.
* **Detached work.** Correct: a retry joins, nobody's edit is overwritten, the outcome
  told is what happened, and it reaches client and desktop.
* **Credentials.** Nothing keeps operations apart. Correct: one whole document or none
  unless a write was interrupted or two overlapped; good credentials are deleted only by
  a call that another operation has overtaken.
* **Child processes.** Correct: no shortened output passes for success (but of a
  command-line model one of whose readers failed), no process outlives its call where a
  group can be killed, a deadline ends the call.

`PROJECT.json` lists every hazard at its line with the properties that cover it.

## 2. Plan of the development

In order of importance.

1. `PlanGraph` — the pure algorithms. *(done)*
2. `RunExecution` — one run through failure, repair and resumption. *(done)*
3. `RunExecutionProofs` — the order `topological_order` gives and what the closures
   contain, in the terms of `PlanGraphProperties`; type correctness, the
   scheduler's invariant, dispatch order, succeeded work is kept; for every patch, what
   alone can break what a success and a skip rest on and the bodies of FAN_OUTs. *(done)*
4. `RepairCommit` — patches, edits, snapshots, journal and recovery, threads and
   crashes; `AtomicRepair` states what it promises, and `RepairCommit` implements it
   under a refinement mapping. *(done)*
5. `RepairCommitProofs` — the invariant of the store for any number of threads and
   crashes, and one winner per base version; for any number of threads that take turns,
   their processes restarted at any write, the refinement of `AtomicRepair`, and that
   recovery refuses no journal. *(done)*
6. `RunLifecycle` — lifecycle lock, registry, abort, delete and resume from several
   processes; `RunContract` is the record as its readers see it, and `RunLifecycle`
   implements it. `RunLifecycleProofs` proves both the invariants and the refinement.
   *(done)*
7. `SchedulerLock`, `Scheduler`, `SchedulerProofs` — heartbeat and takeover; claiming
   due schedules; commands beside the loop. *(done)*
8. `UpdateGate`, `UpdateGateProofs` — admission against installation, the marker. *(done)*
9. `DetachedWork`, `DetachedWorkProofs` — deduplication, outcome and display of detached
   work. *(done)*
10. `McpOAuth`, `McpOAuthProofs`; `ChildProcess`, `ChildProcessProofs`. *(done)*

What is left: what remains of `RepairCommit`'s promises when recoveries overlap with a
mutation of the same process (section 6 says what does not); rebasing of step inputs onto a new plan version; the
arithmetic of `retry_delay`; `SingleInstance`.

## 3. Modules and the code

Every definition that stands for code is listed with its lines in `PROJECT.json`
(`map`). Definitions introduced by a comment "Flawed form" are mutations: each is what
a plausible bug would make of the definition after it, and shows that a property can
be violated. No specification uses them.

### `PlanGraph` — a plan and the algorithms over it; `PlanGraphProperties` — what they promise

A plan is a record of functions on its step ids; ids are naturals, so that the
alphabetical order the code breaks ties by is `<`. `depends_on` is a sequence, because
the code keeps a `Vec` and never removes repetitions. The kinds that differ only in
what one attempt computes are one kind, `"call"`.

* `TopologicalOrder` is Kahn's algorithm of `dag.rs`: `KahnNext` is one round of the loop,
  `KahnLoop` a recursive function on the number of rounds, `Alphabetical` the fallback for
  what a cycle holds back.
* `DownstreamClosure` and `FanOutBodyClosure` say what the worklists of `dag.rs` and
  `plan/steps.rs` compute, as least closed sets. `PlanGraphProperties` says of a plan what
  its order and its closures are, without loops or worklists: the least ready step first,
  and reachability by rounds. `MCPlanGraph` enumerates the small plans.
* `ValidPlan` collects the rules of `validator/` that concern the graph. Its
  topological consequences are what `RunExecution` may assume of a stored plan.

### `RunExecution` — one run

| State | Code |
|---|---|
| `runStatus`, `blamed`, `step`, `iterations`, `verdict`, `runVersion` | the persisted `Run`: status with the step named by `Failed` and `WaitingForHuman`, `step_runs`, the statuses of child invocations, the `result` output of each CONDITION, `plan_version` |
| `version`, `diagnosis`, `worldFix` | `current.json`; a repair proposal under way; the run's latest `WorldFix` |
| `pc`, `pos`, `attempt`, `completed`, `unavailable` | the loop of `execute_run` and the attempts of `run_step_with_policy` |
| `nested`, `handled`, `bypassed` | the FAN_OUT runner: nested owners under way, body steps recorded and routed away for the item under way |

Every change of the record is saved in the synchronous block that makes it, so one
copy stands for memory and disk, and a step of the model lasts from one await (or save
after which the process may die) to the next. `Stop` is the process dying, and a save
or the workspace failing, at each such point.

| Action | Code |
|---|---|
| `Execute`, `ResumeHuman`, `AcceptRepair` | `execute`, `resume`, `resume_from_repair` with `repair_resume_mode` and `repair_reset_step_ids` |
| `BeginRun`, `PassOver`, `SkipDependent`, `BeginStep`, `Finish` | `execute_run` |
| `AttemptSucceeds`, `RetryAttempt`, `AttemptFails`, `HumanPends`, `HumanRejects` | the arms of an attempt's outcome, with `finalize_child_runs` and `terminalize_failed_fan_out_children` |
| `RouteCondition` | skipping the untaken branch, the second save of a CONDITION |
| `NextItem`, `SkipChild`, `EnterNested`, `ChildSucceeds`, `NestedReturns`, `ChildFails` | `run_fan_out`, `run_spawn_step`, `record_child_run` |
| `Abort`, `MarkCancelled`, `CleanStale` | `run_plan_with_timeout`, `mark_run_cancelled_inner`, `abort_run` |
| `ChangePlan`, `Diagnose`, `RecordWorldFix`, `DropDiagnosis` | a commit of the store; `propose_repair` |

An attempt's result, the number of items of a FAN_OUT and where an `until` stops it are
nondeterministic.

### `RepairCommit` — the stores of one plan; `AtomicRepair` — what they promise

| State | Code |
|---|---|
| `snapshot`, `current` | `plans/<id>/vN.json`, `current.json` |
| `journal` | `repair_transactions/<patch>.json` |
| `status`, `base` | `PatchStatus` and target version of a `Patch` or `PlanEdit` |
| `th` | per thread: the point it has reached, the call it is in (`op`, `subject`), where an error would take it (`stage`, `prior`), the journals left to recover (`todo`), the plan it completes (`tx`), has made (`next`), and the version it expects |

Each action is one file operation: `write_atomically` takes effect at its rename,
`write_exclusively` at its link, a read or an unlink when it happens. A write may report
an error after it took effect, since the directory is synced after the rename; that is
`MayFault`, and `Faulty` is an error before it.

| Action | Code |
|---|---|
| `Open`, `Enter` | `StorageRoot::open` by any command or refresh, and by a mutation inside `MutationBoundary`, which admits one per process |
| `ListJournals`, `PickJournal`, `Recovered` | `recover_repair_transactions_inner` |
| `ClaimSnapshot`, `CompareCurrent`, `PublishCurrent`, `ReadPatch`, `MarkApplied`, `FindJournal`, `RemoveJournal` | `complete_repair_transaction`; the first three and `MarkApplied` also publish the plan of an edit |
| `LoadProposal`, `Approve`, `Reject`, `RollBack`, `MakeNextPlan`, `RefusePatch`, `TakeEditedPlan` | `apply_patch_in_storage`, `apply_plan_edit_in_storage`, the two rejections, `repair::apply_patch`, `PlanStore::save` |
| `Recheck`, `ClaimNext`, `WriteJournal` | `commit_repair` after its recovery |
| `Propose`, `Crash` | a new patch or edit; a process dies with its threads |

The mutex inside a `StorageRoot` is not modelled, because every operation opens its own
and so locks a mutex nobody else holds. `repair::apply_patch` compares the whole patch
it was given with the stored one, of which the model keeps the status; it may refuse at
that point for any reason (`RefusePatch`), and what it may go on with is more than in
the code. None of the counterexamples described in section 6 uses the difference.

`AtomicRepair` knows a lineage of published versions, the version each proposal targets
and the proposals a person declined. The refinement mapping reads the lineage off the
snapshots up to the current version.

### `RunLifecycle` — everyone who wants one run; `RunContract` — what its record promises

| State | Code |
|---|---|
| `status`, `working` | `Run.status` as stored, absent and deleted included; whether a step of it is Running |
| `owner` | the file lock of `lock_lifecycle` |
| `registry`, `sender`, `signalled` | `run_cancellations` of the desktop: Active with its `cancel_tx`, or Cancelling; the receivers that fired |
| `op`, `pc`, `taken`, `gone` | what each task was asked, where it is; of an abort, the sender it took and `receiver_gone` |
| `faults` | processes that died, panics, clients that left, saves that failed |

| Action | Code |
|---|---|
| `Create`, `Announce`, `Register`, `Checkpoint`, `Finish`, `Deregister`, `Return` | `run_plan_with_timeout` and the executor's saves |
| `Claim`, `Refuse`, `ResumeDesktop`, `ResumeMcp` | `resume_run` and the MCP server's `resume_run`; the lock is tried, never awaited |
| `Abandon`, `LockToMark`, `MarkRefused`, `Mark`, `Settle` | the executor dropped by an abort, `mark_run_cancelled` |
| `TakeSender`, `AlreadyCancelling`, `Unregistered`, `Send`, `SendFails`, `RemoveDead`, `Inspect`, `LockToClean` | `abort_run` |
| `LockToDelete`, `Delete` | `delete_run` |
| `Disconnect`, `Panic`, `Crash`, `FailSave` | the faults |

What the executor does between its saves is `RunExecution`; the two modules share the
record, of which `RunLifecycle` keeps the status.

### `SchedulerLock`, `Scheduler` — one loop, many commands

| State | Code |
|---|---|
| `clock`, `lockFile` | time in units of the lease; the file at the canonical path with its owner's token and heartbeat |
| `pc`, `attempts`, `starts` | where a process is in `acquire` or `Drop`, its tries; launches |
| `plans`, `store` | stored plans; `schedules.json` |
| `mutation`, `pending` | the mutation each process is in with the file it has loaded; schedules whose plan `save_schedule` has resolved and not yet stored |
| `lastTick`, `active`, `due`, `running`, `fired`, `failures` | `scheduler_loop`: its window, the ids it takes for running, what it has claimed, the runs under way; how often each occurrence was started |

| Action | Code |
|---|---|
| `Create`, `Exists`, `Defer`, `FindStale`, `Rename`, `Heartbeat`, `Release`, `CheckToken`, `Unlink` | `SchedulerLock::acquire`, its heartbeat thread, its `Drop` |
| `Start`, `Stop` (`Die`), `Elapse` (`Pass`), `Quit` | a launch, a death, time; a shutdown, which gives up the lock while its loop and its runs live on until the runtime is dropped (`engine.rs:1582-1589`) |
| `Tick`, `Claim`, `ClaimFails`, `Dispatch`, `RunEnds`, `RunPanics` | `scheduler_loop`, `claim_due_schedules` |
| `ResolvePlan`, `CreateSchedule`, `DeleteSchedule`, `ToggleSchedule`, `DeletePlan`, `Save`, `SaveFails` | the commands inside `MutationBoundary::run_named` |

### `UpdateGate` — replacing the program while it works

| State | Code |
|---|---|
| `marker`, `seen` | `installer.pid` and what an admission has read from it |
| `pc`, `pending`, `guard` | the tasks in and past `admit`, the intent lock and the work lock of `PendingInstall` and its successor |
| `rx`, `mail`, `cancel`, `requested`, `prepared` | `UpdateController` |
| `installer`, `supervisor`, `setup` | the thread of `install`, the detached script, the system's installer |
| `up`, `stranded`, `crashes` | the desktop process; a stored run that says Running and is not executed; processes that died |
| `lapses` | history: the ways in which the marker has failed as a barrier |

| Action | Code |
|---|---|
| `Check`, `Refused`, `CheckFails`, `Probe`, `RemoveMarker`, `TakeIntent`, `Admit`, `WorkEnds` | `update_gate.rs`: `check_handoff`, `admit`, the guard's end |
| `Begin`, `DownloadAndInstall`, `Retry`, `Cancel`, `Download`, `Poll`, `DraftsUnsaved`, `InstallAgain`, `BeginInstall`, `Quiet`, `Defer`, `Install` | `UpdateController` and `begin` of `update_gate.rs` |
| `Replace`, `CreateMarker`, `WriteMarker`, `Acknowledged`, `GiveUp`, `Finish`, `Exit` | `updater.rs`: replacement in place, or hand-over |
| `Acknowledge`, `RunSetup`, `Announce`, `SetupEnds` | the script, external: modelled from the text `updater.rs` writes |
| `Quit`, `DesktopDies`, `WorkerDies`, `SupervisorDies`, `Launch` | processes end and start |

### `DetachedWork` — work that outlives the request for it

| State | Code |
|---|---|
| `inFlight`, `work`, `waits` | `McpState.compiles` by fingerprint, the detached tasks, the channel a client awaits |
| `rows`, `completions`, `repaint` | `ActivityRegistry`, `mcp_completions`, the frame asked of egui |
| `lineage`, `deleted`, `created` | versions of the plan with who saved each from which; its directory; new plans |
| `draft`, `read`, `shown` | the desktop's own edit; its delayed listings, each with the plans it has read; what its overview shows |

| Action | Code |
|---|---|
| `Join`, `Start`, `Disconnect`, `Answer` | `await_detached` in `mcp_server.rs`: one task per fingerprint, a `watch` channel for each waiter |
| `Begin`, `Called`, `Save`, `Finish`, `Panic`, `Wake`, `Publish`, `Deregister` | the task, its activity, the second task that publishes |
| `DraftEdit`, `ApplyEdit`, `RejectEdit`, `ImportVersion`, `DeletePlan` | the desktop's commands on the same plan |
| `Frame`, `ListPlans`, `ShowPlans` | the frame that takes the flag and lists, whatever is under way; a listing, shown at once or delayed; delayed ones shown in any order |
| `BackgroundRefresh` | the poll of an overview on the screen, every two seconds |

### `McpOAuth` — the credentials of one remote tool

| State | Code |
|---|---|
| `manifest`, `chunk` | the keyring entries of `oauth.rs`: `chunk_count` and the document each chunk belongs to |
| `live`, `issued` | refresh tokens the server honours; documents issued (external) |
| `cancels`, `woken` | `oauth_cancellations` and the flows whose receiver has resolved |
| `task`, `faults` | each operation: what it is for, the entry it works on, the chunks it has seen; keyring errors and process deaths |
| `clashed`, `overtaken` | history: two writes have overlapped; the operations since whose load another has written |

| Action | Code |
|---|---|
| `ReadManifest`, `ReadChunk`, `Parsed`, `Invalid` | `load` |
| `WriteChunk`, `WriteManifest`, `Saved`, `Trim` | `save` |
| `CountToClear`, `DeleteEntry`, `Cleared` | `clear` |
| `Start`, `Begin`, `Use`, `Rebuild`, `Loaded`, `Called`, `Refresh`, `Exchange`, `Rejected`, `ExchangeFails` | status, connect, disconnect and a call with its refresh, the load after it and its retry |
| `Callback`, `NoCallback`, `Cancelled`, `Cancel`, `Unregister` | a flow that waits for the browser |
| `Revoke`, `Interrupt` | the server; a failing keyring or a process death |

The tools of the model have a configured client id, and the vault may hold what an earlier
session left. A call refreshes three times at most, in the model any number of times. No
`await` stands inside `save` or `clear`, so a call that is dropped leaves either whole.

### `ChildProcess` — four hosts of a program

The command-line model, CODE_CALL, subprocess tools and stdio MCP sessions differ in who
writes input, when the clock starts, who reads the pipes and what is killed. The group of a tool
exists on Unix only (`process.rs:125-166`): elsewhere `KillGroup` reaches no helper
(`Grouped`), and the run has both platforms. A CODE_CALL is contained on each. A reader may fail, by an error of the pipe or
by a panic: `run_cli` goes on with what it has (`llm.rs:978-979, 1005`), the others answer
with the error.

| State | Code |
|---|---|
| `kind`, `timed`, `host`, `result` | which host, whether it has a deadline, where it is, what it returned |
| `deadline`, `grace`, `pending`, `reader`, `got` | its timers, input not yet written, its readers of the two pipes and what they have |
| `child`, `helper`, `inbox`, `pipe`, `wrote` | the program, a helper it started, its input and output pipes (external) |

| Action | Code |
|---|---|
| `WriteInput`, `WriteFails`, `InputWritten`, `Reap`, `StopAtLimit`, `Timeout`, `Join`, `JoinTimeout`, `Drain` | `run_cli`, `code_call.rs`, `subprocess.rs` |
| `SessionEnds`, `SessionTimeout`, `ServerExits`, `ServerLingers`, `Collect`, `CollectTimeout` | `adapters/mcp.rs` |
| `Drop` (with `KillGroup`, `KillTree`) | `ProcessGroupGuard`, `ProcessContainment` |
| `ChildReads`, `ChildWrites`, `ChildForks`, `HelperLeaves`, `ChildExits` | the program |

## 4. Runs

| Run | Question | Result |
|---|---|---|
| `plan_graph` | Are the order (a permutation, the least ready step first, dependencies first in a valid plan), the downstream closure and the body closure what they should be, for every graph and every ownership on four steps? | yes, for dependency lists without repetitions |
| `repair` | Does a plan with an approval, a routed CONDITION and a retried step keep consistent checkpoints, run nothing out of order or twice, and end, over two patches and every interruption? | yes |
| `bodies` | Do body steps of nested, routing FAN_OUTs stay apart from the main flow and end in agreement with their invocations? | yes |
| `cross_branch` | Does a repair ever run a branch not taken? | yes: the finding of section 6 |
| `commit_recovery` | Two processes that take turns, crashes at any point and no write errors: is the store `AtomicRepair`, is no published patch forgotten, and is every interrupted commit completed? | yes |
| `competing_threads` | Two processes, a crash, a write error: does one proposal per base win, do journals own their snapshots, is the current plan a stored version? | yes |
| `run_lifecycle` | Three tasks of the desktop and of MCP processes, and two faults: is there one writer, does the registry tell who executes, is the record a `RunContract`, is an abort answered? | yes |
| `scheduler` | Two processes, takeovers, commands, a failure: do two loops run at once only for a stated reason, is until then no occurrence started twice, is none lost, is every window closed? | yes; one loop is not guaranteed (section 6) |
| `update_gate` | Workers in and out of the desktop, an installation in place or by hand-over, a process that dies: does nothing work while files are replaced, is the hand-over announced, does it end? | yes, but for the four named ways in which the marker fails, two of which end the announcement |
| `detached_work` | Two tasks, a client that retries and leaves, a desktop that edits, imports and deletes, panics: is work tracked, its outcome true, refusals justified; do answers arrive, does the overview catch up although listings overtake each other? | yes, while the overview is on the screen |
| `mcp_oauth` | Two operations at once on one chunked credential, with a failure: is the vault whole while nobody writes it, and are only unusable credentials cleared? | yes, unless a write was interrupted or two overlapped, and unless another operation has overtaken the call |
| `child_process` | A program that does anything: is its output complete, is it gone after the call, does the call end? | yes, within the exceptions `OutputIsComplete` and `CallEnds` name and where a group can be killed |

`CHECK_DEADLOCK FALSE` is set where the system may have nothing left to do: a run that
ended, commands that were all given, processes that were all stopped, a call that
returned. The stores (`commit_recovery`, `competing_threads`) never stop: a thread can
always open them. `MCPlanGraph` only stutters.

## 5. Bounds, conditions and fairness

**Bounds.**

* **Plan graphs:** four steps, every set of dependencies (3 of them at most, a fourth
  would be the step itself or make a cycle of all). Bodies are varied apart from
  dependencies, since no algorithm reads both. Four suffice for a diamond, a chain
  past a direct dependent, two nested bodies and a cycle of owners.
* **Plans of runs:** `RepairPlans` has each ingredient once and two later versions,
  one that inserts a step and one that replaces and renames it; `BodyPlans` nests a
  FAN_OUT in a branch of a CONDITION in a FAN_OUT and replaces its input;
  `CrossBranchPlans` is the smallest plan with a step of one branch that depends on
  something beside its CONDITION. The number of resumptions is not bounded: a run that
  fails can be repaired until the versions are used up, and resumed without end after
  world fixes. Patches that rewire kept steps are not in these plans: see the conditions. One retry tells the last attempt from another one.
* **The store:** `MaxVersion` 3 allows a proposal against an outdated base and two
  publications in a row, 2 suffices for competitors for one base; `MaxTries` 2 lets a
  patch be tried again after an error; `MaxFaults` and `MaxCrashes` bound I/O errors
  and deaths, and two crashes can interrupt a recovery of an interrupted commit.
  Patches are interchangeable, so `competing_threads` uses their symmetry; it checks no
  liveness.
* **Lifecycle:** three tasks are an execution, an abort and a third that takes the lock
  between them; two faults can break an execution and what would clean up after it.
* **Scheduler:** `MaxTime` 2 with `Lease` 1 lets a lock go stale after a heartbeat,
  `MaxStarts` 2 starts both or one of them twice, `Attempts` 2 is a takeover lost and tried again; one
  schedule, with its plan, is enough for the dispatcher, which treats them apart.
* **Update:** one worker in the desktop and one outside; one death at any point, and a
  desktop that quits or exits for the installer besides.
* **Detached work:** one delayed listing (`MaxDelayed` 1) besides those shown at once, enough
  for a stale one to come last; an edit and a compilation, one client that may call again after it
  left; `MaxVersion` 2 lets the desktop overtake an edit; a history of one row is trimmed
  at once.
* **Credentials:** documents of 1 to 3 entries, so that a shorter one follows a longer;
  three documents, one of an earlier session or not, so that one is rotated twice; two
  operations that may overlap anywhere, and one failure.
* **Processes:** input of two blocks through pipes of one, output of up to three blocks
  against a limit of one.

The proofs of section 7 need none of these bounds.

**Conditions that the code does not enforce.** Three remain: an
action constraint, an assumption on plans, and what the runs' plans leave out. Without it
the model has the behaviour and TLC reports it, so each marks where a promise ends.

* `OneAtATime` (the store): no two calls of the store are under way together; a call
  begins when the last one has returned or has died with its process. The boundary
  serialises the mutations of one process (`mutation.rs`), but neither the recoveries of
  other threads nor the calls of other processes. The runs `competing_threads` and the
  theorems about any threads do without it; section 6 says what is lost.
* `DependenciesAssumption` (the order of steps): no `depends_on` names a step twice. The
  validator accepts a plan that does, and section 6 says what its order is.
* The plans of `repair` and `bodies`: their patches insert and replace steps, no CONDITION
  of the main flow routes into a body, and no FAN_OUT is retried. Nothing enforces this:
  a patch can set or remove any field of any step (`storage/patches.rs:18-44`,
  `repair/patch.rs:92-154`), and nothing compares the plans. `SuccessRestsOnSuccess`,
  `SkipsAreJustified`, `SucceededRunIsComplete`, `PendingOwnerHasFreshBody`,
  `BodyOutcomeIsRecorded` and `EndedRunHasNoRunningStep` each fail on some plan beyond
  them. What is true of every plan is stated by the six action properties of `RunExecution`
  that begin with `Only`, which are theorems (section 7): each names the only step that can
  break one of these invariants.

Elsewhere the model has the races, and history variables tell when one has happened, so
that a property says what holds until then and that nothing else ends it:

* `disturbed`, `overlapped` (scheduler): a heartbeat came later than the lease (the thread
  that writes it ends at its first error, `scheduler_lock.rs:117`, and a suspended machine
  writes none), or a starter renamed the file another had created since it judged the old
  one (`scheduler_lock.rs:66`). Mutations of two processes on the one `schedules.json`
  overlap freely, since the boundary is a mutex of the process (`mutation.rs`).
* `lapses` (update): a task removed a marker that was not the one it had judged
  (`update_gate.rs:45-60`); the desktop handed over and exited while a task was between its
  check of the marker and the work lock; the script of a desktop that died, whose
  acknowledgement any process id but its own counts as (`updater.rs:598`), went on after
  work had been admitted again; the script died between starting the installer and writing
  its id.
* `clashed`, `overtaken`, `faults` (credentials): nothing serialises the operations on one
  tool's credential. Two saves may mix their chunks; a call whose refresh token another has
  just rotated is rejected and clears what the other has saved (`oauth.rs:269`). `save` and
  `clear` have no await, so that a dropped call ends neither half way; a keyring error or a
  process death does.

**Fairness.**

* `RunExecution` (`FairSpec`): the executor's task goes on between its awaits, for tokio
  schedules it, and `tokio::time::timeout` ends an attempt of a step that has a timeout.
  The configuration's own default timeout is never set by the application, so an attempt
  without one may never be answered, and `ExecutionEnds` says so. Nothing is assumed of
  the user, of repairs or of resumptions.
* `RepairCommit` (`TurnsSpec`): a thread that has entered a call goes on, and the store
  keeps being opened, as every command and every refresh of a list does. Nothing is
  assumed of proposals and decisions.
* `RunLifecycle`: a task goes on after each await (`Continue`). The end of an execution
  is not assumed, nor any command.
* `Scheduler`: an acquisition, a claim, a save and a dispatch go on. `Tick` needs strong
  fairness, since commands take the mutation boundary in between again and again; the
  boundary is a mutex that a thread waits for, and a mutation is a short
  write of a file: what is assumed is that commands do not take it at every moment it is
  free. A claim that fails leaves its window to the next tick, and `MaxFailures` bounds
  how often that happens.
* `UpdateGate`: admissions, the installing thread and the script go on, and the system's
  installer ends. Work is not assumed to end, nor the desktop to exit: `HandoffEnds`
  excepts it.
* `DetachedWork`: tasks, answers, listings and the frame that was asked for go on; every
  call of a compiler has a time limit. The overview stays on the screen: only then is it
  polled every two seconds (`BackgroundRefresh`). A listing that meets an error is left out,
  the next poll repeats it. Nothing is assumed of clients and commands.
* `ChildProcess`: the host's tasks, readers and timers run; the program owes nothing.

## 6. Findings and observations

`cross_branch`, quoted in `PROJECT.json`: a repair resets the dependents of the failed
step. If one is on the branch not taken of a CONDITION that had succeeded, it is Pending
again and nothing skips it: it runs.

Ten more statements are refuted by TLC; they are no runs of
their own because each needs only another configuration of a run above, or another property in it.

| Statement | Configuration | What happens |
|---|---|---|
| `OrderIsLeastReadyFirst` with repeated dependencies | `MCPlanGraph`, three steps, `Duplicates = TRUE` | a step that lists a dependency twice is never released by `topological_order` (`dag.rs:30`), falls to the fallback for cycles and may precede what it depends on; the validator accepts the plan |
| `FailedRunIsRepairable` | that of `repair` | `resume_from_repair` saves the failed step as Pending while the run still says Failed; a process that dies then leaves a run no repair accepts (`executor/mod.rs:379`); section 7 proves that this is the only way there and that nothing leads back |
| `CurrentNeverGoesBack` | that of `competing_threads`, `MaxVersion` 3, `MaxFaults` 0 | `advance_current` compares and then replaces `current.json`; a recovery in another thread, which is outside the mutation boundary, can put an older version back |
| `AppliedIsFinal` | that of `competing_threads` | such a thread can also complete and remove the journal of a commit under way, whose own removal then fails: the applied patch is rolled back to Pending |
| `StoreOpens` | that of `commit_recovery`, `MaxFaults` 1 | an error after the journal is written rolls the patch back; the journal stays, recovery refuses the pending patch, and every opening of the store fails (`storage/mod.rs:529`) |
| `ClaimedIsPublishable` | that of `commit_recovery` | a process that dies between claiming `vN.json` and writing the journal leaves a version of which nobody has the exact content: every later change of the plan conflicts with it |
| `OneScheduler` (`main.rs:234-235`: "A lock file next to the schedules store guarantees only one scheduler per data dir."; `engine.rs:1582-1585`: "so schedules never double-fire") | that of `scheduler` | a late heartbeat, a takeover whose rename meets a fresh file, or a shutdown that gives up the lock (`engine.rs:1587`) while the loop it spawned (1589) still runs: two processes run schedules. `OverlapHasCause` says that there is no fourth way |
| `CliOutputIsComplete` (`llm.rs:987-988`: "Read one std pipe to EOF [...] returning the exact collected bytes") | that of `child_process` | a read that fails ends `drain_cli_pipe` like an end of file (1005), and a reader that panics is an empty output (`unwrap_or_default`, 978-979): the shortened output is a success |
| `OnlyUnusableIsCleared` without `overtaken` (`oauth.rs:256-257`: "Refresh-token rejection clears the unusable vault entry.") | that of `mcp_oauth` | two calls refresh one credential: the loser's token is rejected, and it clears the document the winner has saved |
| `OverviewCatchesUp` without `BackgroundRefresh` (`app/mod.rs:2505-2507`: "a burst of completed detached tasks performs one complete overview refresh") | that of `detached_work` | listings of two frames end out of order: the older is shown and stays, were it not for the poll |

For threads that take turns and no write that errs, however often processes die,
`StoreOpens` is a theorem (section 7). Overlapping recoveries and errors are real, so
nothing is claimed of `CurrentNeverGoesBack` and `AppliedIsFinal`.

Behaviours the models have, and about which code and docs promise nothing:

* **A run that says Running and nobody executes** remains after a process death, an MCP
  client that leaves or a save that fails. `abort_run`, `delete_run` and both resumptions
  refuse it, and an update waits for it (`update_controller.rs:175`); nothing ends it.
  `RunningIsWorkedOn` says that these are the only ways to get there, beside an abort
  whose lock is refused. `UpdateGate` has it as `stranded`.
* **A FAN_OUT that is retried** is judged by the iterations of all its attempts:
  `finalize_child_runs` (`executor/mod.rs:1141`) records a body step that failed in the
  first attempt and was routed away in the second as succeeded, though no iteration did,
  and never ends a body step of a nested FAN_OUT that was in flight when the first attempt
  failed and is routed away from in the second. With two attempts for the outer FAN_OUT of
  the run `bodies`, TLC finds `BodyOutcomeIsRecorded` and `EndedRunHasNoRunningStep`
  violated; `OnlyPatchesAndRetriesLoseOutcomes` and `OnlySuccessLeavesStepsAdrift` name the
  moment.
* **A CONDITION of the main flow may route to a body step**: the validator asks only that
  the step depends on the CONDITION (`validator/mod.rs:949-977`). `execute_run` records
  the step as skipped before its owner starts, and the FAN_OUT runner, whose own set of
  skipped steps starts empty (`fan.rs:95`), runs it.
  `OnlyPatchesAndRoutesTouchBodies` names the moment.
* **A patch that rewires kept steps** can leave a success on a pending dependency, a skip
  without a reason, a failed step in the main flow of a run that goes on, or a trace in the
  body of a FAN_OUT yet to start: a repair resets what lies downstream of the failed step
  in the new plan and compares nothing else.
* **A panic after Cancelling** leaves the registry's entry for ever: the run can be neither
  resumed nor deleted by that process. `AbortSettles` excepts it.
* **A panic inside a mutation** poisons the boundary (`mutation.rs:26-30`).
* **A schedule for a deleted plan**: `save_schedule` resolves the plan before it enters the
  boundary (`engine.rs:2629`), and a plan is deleted before its schedules are saved.
* **A process that found the scheduler lock held** never tries again: when the owner ends,
  schedules wait for the next launch.
* **An approved edit** whose process died is superseded by the next one
  (`engine.rs:4652`).
* **A retry after the outcome was published** compiles again: the registry has forgotten it.
* **A second Connect** takes the first flow's place in the map of cancellations; the first
  is woken and ends, and removes the second's entry on its way (`engine.rs:2358`), which
  wakes the second. Neither is stranded (`NoFlowIsStranded`).
* **A refresh in flight** saves its new credentials after a disconnection has deleted the
  old.
* **An MCP session** disarms the guard of its process group before it judges an overflow of
  stderr (`adapters/mcp.rs:381`), so that helpers survive; `NothingOutlivesTheCall` claims
  only what a deadline or a dropped call promises.
* **A helper that left the group** keeps the drain after a kill waiting without limit
  (`subprocess.rs:190`, `mcp.rs:344`); one of a command-line model does too when it
  inherits the pipes, whatever `llm.rs:977` says. The input of a command-line model is
  written before its readers and its clock start (`llm.rs:951`). `CallEnds` excepts these
  by name.

## 7. Proofs

Eight modules are checked by TLAPS. The theorems hold for every value of the constants
that satisfies the named assumptions, which TLC evaluates in each run.

**`RunExecutionProofs`**, from `PlansAssumption` (each version is a plan the validator
accepts) and `DependenciesAssumption` (no `depends_on` names a step twice: the validator
accepts a plan that does, and section 6 says what its order is):

* `OrdersAreLeastReadyFirst`: what `plan_graph` checks of the order of small plans, for
  plans of any size whose dependency lists repeat nothing, from `OrderIsTopological` for the
  acyclic ones and `OrderLosesNoStep` for all. `KahnInv` is the invariant of the loop: a degree counts the dependencies not yet
  emitted, the queue holds the steps that may run. The induction theorems of the library
  take an operator and cannot be instantiated; `LeastNatural`, derived from the
  well-foundedness of the subsets of a finite set, takes their place, and shows in
  `LoopUnfolds` that the recursive function is defined. That an acyclic plan leaves
  nothing to the fallback follows from the step left over with the largest downstream
  closure: a dependency of it that is left over too would have a larger one
  (`SomeStepMayRun`). `OrderLosesNoStep` needs neither hypothesis: of any plan, a cyclic one or
  one with repeated dependencies too, the order lists every step once.
* `ClosuresAreAlwaysReachability`: the closures `plan_graph` checks, for every plan whose
  bodies name steps of it. `DownstreamIsReachability` and `BodyClosureIsReachability` show that
  the least closed sets the model has for `downstream_closure` and `fan_out_body_closure`
  are the steps a path of dependencies, or a chain of spawn lists, leads from or to;
  `PathsFacts` that rounds, as many as there are nodes, find every such path: the nodes
  joined to a target grow by one at least in each round that adds anything
  (`ProperPartIsSmaller`).
* `TypeCorrect`: also that no attempt beyond the retry policy is made.
* `CachesAlwaysAgree`, `ProgressIsAlwaysRecorded`: neither is inductive alone. Their
  conjunction with `TypeOK`, `SchedulerInv`, is: the sets in memory stay right because
  the step under way is recorded as running and the FAN_OUT runner writes body steps
  only, and progress up to `pos` is only meaningful while the sets are right.
* `StartsInOrder`: a step is started by the loop alone, which has settled every
  dependency before it (order) and found none unavailable; by the invariant a settled
  one is recorded as succeeded.
* `WorkIsKept`: only accepting a repair takes a success away, and what it resets
  downstream of a root has a dependency that is reset too, until the root itself,
  which had not succeeded.
* What a patch may break, from `FlowInv`, for every plan, patch, retry and route, without a
  condition on them: `ResultsBreakOnlyByRewiring`, `SkipsBreakOnlyByRewiring`,
  `FailuresHideOnlyByRewiring`, `BodiesAreTouchedOnlyByPatchesAndRoutes`,
  `OutcomesAreLostOnlyByPatchesAndRetries`, `StepsDriftOnlyBySuccess`. Each is an action
  property (`Only...` in `RunExecution`): a step of the run that takes away what
  `SuccessRestsOnSuccess`, `SkipsAreJustified`, `SucceededRunIsComplete`,
  `PendingOwnerHasFreshBody`, `BodyOutcomeIsRecorded` or `EndedRunHasNoRunningStep` says of a
  plan step is the acceptance of a repair that rewired it (`Rewired`), the routing of a
  CONDITION into a body, or the success of a FAN_OUT that was retried; failures, timeouts,
  aborts, crashes, resumptions and every other repair keep it. `FlowInv` joins
  `SchedulerInv` with the facts that records are of steps of the plan, that only a
  succeeded CONDITION has a verdict, that an ended run has no executor, that a failure is
  blamed on the step that has it, and that what is running is the step under way, an owner
  it is nested in, or a body step of theirs. The six were model-checked before they were
  proved, on plans whose patches drop dependencies of kept steps and move steps into and
  out of bodies, with routes into a body and retried FAN_OUTs; on these plans each of the
  invariants fails and none of the six does.
* `FailedRunsAreRepairable`: of all the points at which an execution may end, only the one
  between the two saves of a resumed repair (`RepairsAreResumed` excludes it) costs a
  failed run its failed checkpoint; for any plans, wired as they like. The invariant
  `FailedAwaitsRepair` says that a run recorded as failed has no execution beyond that
  point. `LostRepairsStayLost`: such a run keeps its record until it is
  deleted, which `RunLifecycle` models.

**`RepairCommitProofs`**, from `StoreAssumption` (patches, edits and the original are
distinct; the bounds are numbers):

* `StoreTypeCorrect`, `CurrentIsAlwaysASnapshot`, `JournalsOwnTheirSnapshots`,
  `OneProposalWins`, for any number of threads and processes, without the mutation
  boundary. The inductive invariant `StoreInv` adds what a thread relies on at each
  point (`Sound`): the plan it completes has been claimed, everything before a version
  about to be published exists, the plan it made follows its base; and that snapshots
  name the proposal they are the successor for (`SnapshotsAreSuccessors`). Another
  thread takes none of this away, since snapshots are created exclusively and never
  replaced (`SoundnessLasts`); that is why one winner needs no common lock.
* `PublishedIsAlwaysMarked`, `PublicationIsAlwaysAtomic` (`Spec => PublicationIsAtomic`, the
  refinement of `AtomicRepair`) and `StoreAlwaysOpens`, for any number of threads, of one process or
  of several, that take turns (`TakingTurns`), no write that errs (`MaxFaults = 0`) and any
  number of proposals, versions and crashes, at every write and between any two. Both
  hypotheses are needed: section 6 says what a thread does in the middle of another's call,
  and the removal of a journal that takes effect and still errs rolls an applied patch
  back. `TurnsInv` adds to `StoreInv` what the thread whose turn it is may rely on
  (`Alone`), whoever used the store before it and died: before it decides anything,
  recovery has dealt with every journal (`RecoversFirst`); what it has decided stands in
  the proposal until it has been carried out (`DecisionStands`); and the plan it publishes
  is the successor of the
  current one (`PublishesNext`). `JournalsComplete` adds that the one journal a crash
  leaves is for the current version or the next, so that recovery can complete it. The refinement maps the swap of `current.json` to the abstract
  publication and every other step, crash and recovery to a stutter or to the marking.

**`RunLifecycleProofs`**, for any set of tasks and any faults:

* `WritersOwnTheRun`, `RegistryAlwaysMatchesExecution`, `RunningIsAlwaysWorkedOn` from
  `LifecycleInvariant`, which ties every point of a task to the lock and to the registry:
  who may hold which, that one entry has one sender, and that a sender taken out belongs to
  a task that still listens or has left.
* `RecordIsRefined`: `Spec => Record!Spec`. Every action maps to a step of `RunContract`
  or leaves the record; the invariant supplies that a resuming task still sees the failed
  or waiting record it was admitted for.

**`SchedulerProofs`**, for any number of processes, delays, deaths and takeovers:

* `OverlapAlwaysHasCause`: unless it was disturbed, the file is its owner's and fresh, so
  that nobody finds it stale. `FiresAtMostOnce`: until two processes have run schedules at
  once, what was started lies behind every loop's window and in no claim, and the windows
  of a new loop begin at its start. `NoSlotIsEverLost` follows step by step: the loop judges
  by the file it has loaded, whatever other processes make of it.

**`UpdateGateProofs`**, for any workers and number of deaths:

* `LocksAlwaysExclude`: the two locks alone, as long as the desktop lives.
  `InstallAlwaysExcludesWork` and `HandoffIsAlwaysAnnounced`: while the files are replaced
  after the desktop has gone, and its locks with it, the marker alone keeps work out, and
  `GateInvariant` says whose id it holds at each point of the hand-over, and which entry of
  `lapses` accounts for each point at which it does not.

**`DetachedWorkProofs`**, for any clients, fingerprints and bounds:

* `WorkIsAlwaysTracked`, `HistoryIsAlwaysTrue`, `RefusalsAreJustified` from
  `WorkInvariant`: the registry is injective on unsettled tasks, the trimming of the
  history never drops a running row, and no base lies beyond the current version.

**`McpOAuthProofs`**, for any tasks, clients and sizes, operations overlapping as they like:

* `NoFlowIsStranded`; `VaultIsAlwaysWhole` and `OnlyUnusableIsEverCleared`, whose invariant
  follows an operation entry by entry: what a load has seen is what is stored unless the
  load was overtaken, a save that is alone has replaced the chunks before its position, the
  manifest is written when all are, and what is beyond it goes.

**`ChildProcessProofs`**, for any sizes of input, pipes and limit, on every platform:

* `OutputIsAlwaysComplete`: what was read and what is in the pipe is what was written, of
  every reader that has not failed; a failed one makes the call fail, but for `run_cli`.
  `NothingEverOutlivesTheCall`: each way out of each host has reaped the child and, where
  it promises so and there is a group, killed it.

Each module also proves its type correctness. `PROJECT.json` lists the theorems with the
properties they state.

**Only model-checked:** everything temporal that rests on fairness (`ExecutionEnds`,
`InterruptedCommitCompletes`, `AbortSettles`, `WindowsClose`, `HandoffEnds`,
`WaitersAreAnswered`, `OverviewCatchesUp`, `CallEnds`), which the prover does not reach; and
`SuccessRestsOnSuccess`, `SkipsAreJustified`, `SucceededRunIsComplete`,
`PendingOwnerHasFreshBody`, `BodyOutcomeIsRecorded`, `EndedRunHasNoRunningStep`, which hold of
the plans of the runs and not of every plan. Every other invariant and action property of
the runs is stated by a theorem; that of `cross_branch` is refuted.

## 8. Not modelled

Most of the source is user interface, prompts, text and their tests, which have no state
the properties could be about; the modules cover the stateful core named above, a small
share of all lines.

* **Single instance**: the lock, the watcher and the socket are one primitive of the
  operating system each; what the code adds is the text of a request.
* **Creation and import of plans beside a repair, quarantine of unreadable journals, a
  journal whose plan is deleted**: no file of `RepairCommit` is ever truncated or foreign.
  Import and deletion beside a slow edit are in `DetachedWork`.
* **Compiler**: prompts, network and the extraction of JSON from answers. A compilation is
  a step of `DetachedWork` that succeeds, fails or panics.
* **HTTP adapters and the catalogue of tools**: network and text; an attempt's end is
  nondeterministic in `RunExecution`.
* **Plan documents and contracts**: normalisation, bundles, placeholders and schemas
  transform or judge documents, without state. A rejected document is a refusal.
* **Usage ledger, telemetry, desktop views, the rest of host support**: nothing the
  modelled components decide by depends on them.
* **Steps moved between bodies or rewired by a patch or an edit**: `RunExecution` allows any
  later version, and so do its theorems; its runs use insertions and replacements.
* **Composition of run execution with its lifecycle**: `RunExecution` assumes the exclusion
  `RunLifecycle` proves; the two share the record's status and are checked apart, since
  their product is beyond TLC's reach and neither reads the other's variables.
