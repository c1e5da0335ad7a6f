# auxilium-manus: verification project

TLA+ models of the execution core of auxilium-manus, checked with TLC,
and their safety proved with TLAPS. Paths below are relative to
`src/backend/` unless they start with `src/`.

auxilium-manus runs *workflows* (graphs of steps drawn on a canvas) against
network devices. A run is a row in PostgreSQL; the Hatchet engine delivers it
to a worker, the worker walks the graph and writes one row per step. Runs can be
cancelled, deleted, replayed, can pause for an operator's approval between
batches of devices, and can be the deployment half of a reviewed change
request. Executors touch real devices and have no idempotency token, so the
questions that matter are: is anything executed twice, does a row ever say
something that did not happen, does every run end, and does a cancel or a missing
approval really stop the devices from being touched.

## 1. Inventory

| Part | State | Operations | Interacts with |
|---|---|---|---|
| Run lifecycle (`services/execution/run_service.py`, `run_lifecycle_service.py`, `repositories/run_repository.py`, `hatchet/workflows/workflow_run/`, `services/execution/step_runner/runner.py`, `hatchet/workflows/run_reaper.py`) | `workflow_runs.status`, `hatchet_run_id`; one `workflow_step_results` row per node; in the worker: generation, verdict, per-node result | create, dispatch, record id, claim, create rows, walk, cancel, delete, fail interrupted, on-failure task, reap | the engine (delivers at least once), the operator, every reader of a run |
| Wait & Run fan-out (`workflow_run/batch_approval.py`, `fan_out_dispatch.py`, `aggregation.py`, `device_group_execution.py`, `step_runner/subgraph.py`) | status `paused`, `approval_state` (next batch, awaiting flag, auto flag), pushed events, children | pause, wait, resume, dispatch a batch, aggregate, fan in, approve batch, approve all | operator's clicks, engine events, child workflows |
| Change requests (`services/change_requests/`, `repositories/change_request_repository.py`) | `status`, approval fields, `deploy_run_id`, `deploy_error` | stage, approve, mark reviewed, deploy, reject, expire, dispatch, revert, reconcile | webhook of the git host, reviewers, the run it starts |
| Child runs (`workflow_steps/start_workflow/executor.py`, `run_service.py`) | `parent_run_id`, `ancestor_workflow_ids`, polling | start a child, check the chain, second look at the parent, poll, sweep the children, delete | two runs of the first kind |
| Git working tree (`services/git/repo_lock.py`, `tree_scope.py`, `service.py`, the four git steps) | Redis key with token and expiry, renewal thread and its `lost` flag; the tree's branch and uncommitted files | acquire, renew, release; open, checkout, write, commit, push, read, restore | every git step, several workers, "clear cache" |
| Device session pool (`services/network/netmiko/session_pool.py`) | session per device, suspended state | acquire, call with timeout, suspend, close | executor threads of one worker |
| Schedules (`services/execution/schedule_service.py`, `schedule_fire.py`, `hatchet/workflows/scheduled_trigger.py`) | row and the engine's entries; the owner's rights | create, edit, delete, disable with the owner, fire | engine, run creation, user administration |
| Execution graph (`services/execution/graph.py`, `fan_out_topology.py`, `step_runner/graph_resolution.py`) | none: pure functions | generations, fan-in detection, resolution | gives the walk its plan |

The remaining parts (login and RBAC, vault, agents, AI assistant, integrations,
step executors, reports, routers, frontend, side services) keep no state that
two actors of the core race for; `PROJECT.json` lists each with the reason.

What is hard here, and which properties answer it:

* **Runs.** At-least-once delivery against executors without idempotency:
  `AtMostOnce`. Five writers of one status (API, operator, worker, on-failure
  task, reaper), each with a read that is stale when it writes: `KeepsContract`,
  `RowsTellTheTruth`. A worker that keeps executing after the run was cancelled,
  failed or deleted: `CancelStopsWithinOneWave`, `CancelledShowsNoRunningStep`,
  `CancelledRowsClose`. Death of any process between any two commits:
  `EveryRunEnds`. A success that hides a failed or skipped step:
  `SuccessIsHonest`.
* **Wait & Run.** Approvals that arrive twice, early, late or against another
  batch: `EveryBatchWasApproved`, `ApprovedGateOpens`. The canary order:
  `BatchesInOrder`. A cancel that overlaps a click: `CancelStopsTheRollout`.
  A lost worker while the run is paused: `OrphanIsReaped`.
* **Change requests.** Click, second tab and webhook at once, retry after a
  failed dispatch: `OneOpenDeploy`, `NoDeployBehindTheReviewer`. Stale
  reconcilers: `DeployedIsHonest`, `SettledStays`. A handler that dies half way:
  `DeployEnds`. Half a revert: `ApprovalMatchesStatus`.

* **Git working tree.** A lease that expires under a slow, stalled or dead
  holder, late releases, cleared keys: `PunctualHolderIsProtected`,
  `LossStopsTheWork`, `LockIsFreed`. A lease that is lost between the check and
  what was checked for: `DeployIsPinned` (violated). A tree left on a change-request branch or
  dirty by a crash or a failed restore: `EveryoneOnTheirBranch`.
* **Child runs.** A sweep that passes while the swept run is creating a child:
  `NoChildLeftBehind`, `StopReachesChildren`. A recursion guard whose evidence is
  deleted: `ChainsAreBounded`. Several processes that end one child:
  `RunsKeepContract`.
* **Schedules.** Two systems and no lock: an entry without a row, a row without an
  entry, an entry that is due too early: `NothingRunsUnarmed`,
  `EnabledCronIsRegistered`. Rights that are gone when the entry is due:
  `NoRunWithoutRights`. Stale writes that re-arm a consumed schedule:
  `OnlyRequestsSwitchOn`.

The full list of hazards, each at its line, is in `PROJECT.json`.

## 2. Modules

| Module | Content |
|---|---|
| `RunContract` | Abstract specification: what a run promises its readers. One outcome, at most one invocation per node, success only after all of them. |
| `RunContractProofs` | The TLAPS proofs about the contract itself. |
| `RunLifecycle` | One run that does not fan out, with every process that writes its rows. Implements `RunContract`. |
| `RunLifecycleProofs` | The TLAPS proofs about `RunLifecycle`. |
| `WaitAndRun` | One run that fans out in batches behind approval gates. Implements `RunContract`. |
| `ChangeRequest` | One change request. Its deploy runs move as `RunContract` allows, and it is shown (`RunsKeepContract`) that they do. |
| `WaitAndRunProofs` | The TLAPS proofs about `WaitAndRun`. |
| `ChangeRequestProofs` | The TLAPS proofs about `ChangeRequest`. |
| `ChildRuns` | A family of runs that start each other, over `RunContract`. |
| `ChildRunsProofs` | The TLAPS proofs about `ChildRuns`. |
| `GitWorkTree` | One shared git working tree, its lease and its callers. |
| `GitWorkTreeProofs` | The TLAPS proofs about `GitWorkTree`. |
| `Schedule` | One schedule: row, engine entries, requests and triggers. |
| `ScheduleProofs` | The TLAPS proofs about `Schedule`. |
| `MCRunLifecycle`, `MCWaitAndRun`, `MCChangeRequest`, `MCChildRuns`, `MCGitWorkTree`, `MCSchedule` | Instances for TLC. |

The composition goes through the contract: `RunLifecycle` and `WaitAndRun` are
checked to implement it, `ChangeRequest` uses nothing else of a run except that a
worker claims a run only while it is open and may go on executing after it ended.
`ChildRuns` is a family of such runs, each shown to keep the contract. A trigger of
`Schedule` ends where the run of `RunLifecycle` begins. `GitWorkTree` is what the
executors of several runs share; to them a refused lock is a failed step.

### RunLifecycle and the code

An action is one database commit with the local work up to the next one, so an
interleaving of the model is an interleaving of commits. `status`, `engineId`
and `row` are the columns; `api` is the program counter of
`_create_and_dispatch_run`; `closing` is what the winner of a terminal
transition still owes the step rows (the second commit of `fail_interrupted` and
`_cancel_active_run`); `reaping` is the reaper between its look at the engine
and its write; `pc`, `made`, `wave`, `verdict`, `node` are the locals of one
delivery of `execute_steps`. The engine is external: `Deliver`, `Redeliver`,
`EngineReturn`, `EngineRaise`, `EngineGivesUp`, `WorkerCrash` say only what the
code expects of it (at-least-once delivery, replay, lost workers).

Abstractions, each of which allows more behaviour than the code:

* the executor's answer is one of four results, chosen freely; whether a node is
  blocked by its parents depends on device sets and is a free choice whenever a
  parent failed in part or in full (`MayBeBlocked`);
* the reaper's grace period may have passed at any time;
* the plan is a constant: `Wave` (generation of each node) and `Parents`.

`UpdatedRow`, `Transition` and `FinalisedRows` are the three guarded writes of
`run_repository.py`. An UPDATE on a deleted run matches no row and the refresh
that follows raises: those paths are in every action that writes.

### WaitAndRun and the code

`pc` follows `_dispatch_with_approval` and `_finalize_fan_out_parent`;
`approval` is the JSON column, `seen` the copy the worker read before it
writes it back, `click[c].state` the copy of a click. `events` is the engine's set
of pushed batch events: `aio_wait_for_event` looks back, so an event stays
visible. A device group has one device and one step, its child workflow is
delivered once (the engine starts it without retries), and `branch` is the merged
step row of the branch; the row of the fan-in node is written as in
`RunLifecycle` and left out here. Best-effort progress rows of the groups are left out.
`Interrupted` merges `execute_steps`' own except clause with the on-failure
task, whose race with other writers is the subject of `RunLifecycle`; a
redelivery finds step rows and fails the run, and leaves a paused run alone.
`engineId` matters to the reaper alone, which passes over a running or paused run
without one (`run_lifecycle_service.py:75-80`); whether the dispatcher recorded it
is decided when a worker is lost.

### ChangeRequest and the code

`pc[r]` is the handler of one click or webhook delivery from the guarded
`transition` through `_dispatch_deploy`; a handler that wins creates exactly one
run, which is therefore named after it. `decided[c]` is a reconciler between its
read and its guarded write. The 15-minute grace period is modelled by what it is
for: no dispatch is in flight. Signature, rate limit and deduplication of the
webhook decide whether a delivery becomes a request; the model lets every one
through, so nothing it shows rests on them. The frozen plan of a request never
changes after `create_from_step` and is left out.

`reconcile` fails a "deploying" request without `deploy_run_id` after the grace
period, as `src/doc/CICD_PIPELINE.md:308` says. Its run may have succeeded all the
same, when the handler died before it recorded the run or the run was deleted
first; `FailureIsHonestHolds` (section 5) says that there is no other such case.

### ChildRuns and the code

A run is a row: `status`, `parent` and `ancestors` are its columns, and a "paused"
run counts as running. `step[r]` is where the start-workflow step of `r` is
between the commits of `start_child_run`: first look at the caller ("ready" to
"create"), the child's row, its dispatch, the second look. `todo` and
`kids` are the recursion of `cancel_child_runs`: runs whose children are still to be
listed, and children listed and not yet visited. `line`, `depth` and `again` are
history: the true ancestry of a run, which the code no longer has once a run in
the middle is deleted. Which groups a step makes of its devices is data; each
start may be the last, may be refused or may fail.

What the model includes and no property excludes:

* the second look cancels the child it has just started, not the children that
  one may have by then, although `start_child_run` promises that "either the sweep
  sees it, or this does", and although `cancel_child_runs`
  (`run_service.py:831`) and `src/doc/WORKFLOW-STEPS.md:1701` say that a cancel
  reaches the children "at any depth" (`shut` in `NoChildLeftBehind` marks the
  grandchildren that go on);
* when the caller's row is deleted before the second look, the refresh raises
  and the child stays as it is;
* a sweep is lost with its process, or when a listed child is deleted under it;
* a refused group makes the step raise with the groups before it running;
* a dispatch that raised is reported as "nothing was started" also when the
  engine took the run.

### GitWorkTree and the code

`key` and `ttl` are the Redis key, `lease[u]` the `GitRepoLease` of a caller. One
`Tick` is one renewal period (`_RENEW_EVERY_SECONDS`), and `due[u]` says that the
renewing thread of `u` has to run before the next one, if its process is
scheduled at all. A caller is one of four steps, chosen when it gets the lock:
"stage" and "deploy" work on a change-request branch inside `git_branch_scope`,
"store" and "aci" on the configured branch. `head` and `dirty` are the tree.
A check of the lease, a write, a commit, a push, the reading of one device's
configuration and a restore are actions of their own; every git call may fail
(`GitFails`) and every process may stall or die between two of them.

The checks of the lease (`EnsureHeld`) are where the code has them, and what they
are for comes in a later action: a stage asks before its commit and before its
push (`GitService` looks at the context's lease, which only `git_repo_lock` sets);
`store-artifact` asks once, in `_finalize_git_sink`, before it hands commit and
push to a thread; a deploy asks once, together with the pin of HEAD
(`PinReviewed`), before all of its reads; `backup-aci-config` never asks. Checkouts
and writes are not checked at all. `lost` is set by the renewing thread alone, so
that a caller can pass a check for up to a period after it lost the key (and commit
what others have left staged). `LossStopsTheWork` is therefore about the moment
of the check, and `DeployIsPinned` shows what can follow it. An operator's "clear cache"
deletes the lock keys as well. Not included: the development mode in which the lock is
optional, cloning, and the freshness key of a pull.

### Schedule and the code

`row`, `enabled`, `kind`, `entry` are the columns. The two id columns
are one, which the type decides as long as requests do not overlap. When edits of
the type, or one and the creation, overlap, the code can end with both columns set,
because each writer changes only its own (the other was empty when it was loaded):
the next edit or removal then takes away both entries, while the model remembers
the id stored last and leaves the other entry in the engine. `crons` and `onces` are the engine's entries.
`mem[u]` and `fmem[f]` are the row in a session: SQLAlchemy writes the columns that
differ from what the session loaded, which is `Written`, and which decides what
two overlapping writers do to each other. The time of an entry is left out: it
may be due at any moment. `owner` stands for everything the trigger asks about
the creator. The publication to a background tier is left out except for its
commit, which makes an edit load the row again (`EditPublishes`); `run_now` leaves
the schedule alone.

What the model includes and no property excludes:

* an entry that is due before its id is stored is skipped; a one-time schedule then
  stays enabled without an entry (`EnabledCronIsRegistered` is about cron only);
* a leftover entry of an enabled schedule fires: the comment at
  `schedule_service.py:224` holds for disabled schedules only, since the trigger
  compares no entry ids; two overlapping edits leave such an entry;
* an edit with a concurrency limit decides on a row it then loads again, so it
  can re-arm a one-time schedule that fired in between (the third disjunct of
  `OnlyRequestsSwitchOn`); a trigger that has read "once" switches off a
  schedule edited to cron meanwhile;
* an edit of the type that overlaps with the creation: `create_schedule` then
  stores the id of the entry it was asked for and switches the schedule on,
  whatever the type is by now (`StoreNew`). Without any failure an enabled cron
  schedule is left that has a one-time entry or none and never fires as a cron,
  until it is edited again. `crossed` records this; it is one of the exceptions
  of `EnabledCronIsRegistered`.

## 3. Runs

| Run | Instance | What it shows |
|---|---|---|
| `run_safety` | 3 nodes in 2 generations, 2 deliveries, 1 fault | the safety properties of a run and the refinement of `RunContract` |
| `run_liveness` | 1 node, 2 deliveries, 2 faults, fair | every run ends; a cancelled run's rows get closed |
| `run_skipped` | as `run_safety`, no fault | violation, see findings |
| `change_request` | 3 requests, 2 reconcilers, 1 crash, fair | safety and liveness of a change request |
| `change_request_try_again` | 2 requests, 1 reconciler | violation, see findings |
| `wait_and_run` | 3 groups in batches of 2, 2 clicks, 1 fault, fair | safety and liveness of a gated rollout |
| `wait_and_run_all`, `wait_and_run_next` | the same without faults | violations, see findings |
| `git_work_tree` | 2 callers, time to live of 3 periods, 1 fault, fair | safety of lease and tree; the lock is freed |
| `git_deploy_pinned` | the same | violation, see findings |
| `child_runs` | 3 runs, 3 workflows with a cycle, 2 interventions, fair | safety of a family of runs; a stop reaches the children |
| `schedule` | 2 requests at a time, 3 in all, 1 trigger at a time, 3 entries, 1 fault | safety of a schedule |

**Bounds.** Two deliveries give every overlap of a winner and a loser; a third
meets the same rows as the second. Three nodes in two generations give
concurrency in a generation, a join, a generation that is reached after a
cancel, and a blocked successor. Whether a run ends does not depend on the number
of nodes, so the liveness run has one node and spends its states on faults: two
are needed to lose a worker and the closer after it. Three requests let a click
and a webhook race and leave one to retry; with two reconcilers one can be
stale. Batches of two over three groups have a full and a short batch, so
the gate of the first batch and that of the last differ; two clicks can overtake, repeat and mix
"next" with "all". For the safety properties
the proofs of section 5 remove the bounds.
`MaxFaults` and `MaxCrashes` bound crashes, not retries.

In `git_work_tree` two callers are a holder that is late and the one that
replaces it; they start again and again, so the second meets the tree the first
left, and the first can come back. Three periods make a renewal that is skipped
once differ from one that is skipped until the key is gone. In
`child_runs` three runs are a parent, a child and either a grandchild or a
second child, enough for a sweep to pass a start at both levels; two interventions are a
cancel and the deletion or crash that spoils it. An attempt to exceed the depth limit needs
a fourth run; `ChainsHold` proves that part for every limit. In `schedule`
three requests are a creation and two overlapping edits or removals. The
instance was also run once with four requests and once with two triggers.

`run_*`, `change_request*`, `wait_and_run*` and `child_runs` set
`CHECK_DEADLOCK FALSE`: a run that ended, or waits for its operator, may stop.
The git tree and the schedule never stop (steps go on starting, rights come and
go), so deadlock is checked there; it shows no more than that.

**Symmetry.** `run_safety` and `run_skipped` permute deliveries; the specification
treats them alike, and neither run has a liveness property. (`KeepsContract`
is a safety property whose formula mentions no delivery.) `schedule` permutes
requests and has no liveness property; `OnlyRequestsSwitchOn` quantifies over
them.

**Fairness.** Weak fairness of code that has been started (API handler, task,
child, closing commit, reconciler), of the engine's first delivery and its
notice of a lost worker, and of the cron jobs (reaper, sweep). Nothing is assumed
of operators, faults, redeliveries or the on-failure task: the liveness of a run
therefore rests on the reaper alone, as `run_lifecycle_service.py` intends. In
`ChangeRequest` a run that is the request's `deploy_run_id` ends; its engine id
was recorded before, so it is not the exception of `EveryRunEnds`. In `GitWorkTree`
time passes (`Tick`), a renewing thread that is scheduled runs, and a caller
inside its bracket goes on, on the assumption that every git call returns or
raises: a fetch or push that hangs for ever in a process whose renewing thread lives
keeps the lock, and `LockIsFreed` says nothing about it. A stalled
process need not come back. In `ChildRuns` the steps and sweeps of living
processes go on; claims, ends and interventions need not happen. `Schedule`
states no liveness: that an entry is due is up to the engine and the clock.

**Stated exceptions.** `EveryRunEnds` excepts a run that is `running` without an
engine id because its dispatcher died between `run_no_wait` and
`record_hatchet_run_id`, and whose worker died too: `reap_stuck_runs` skips it.
`OrphanIsReaped` is about a lost worker whose run has an engine id, for the same
reason. `CancelledRowsClose` excepts, node by node, two deaths: that of the process
which cancelled the run, before it closed the rows, and that of the walk that
owns the rows, which may create them after they were closed.
`StopReachesChildren` excepts a sweep that is lost and a worker that dies
with a child just started and the second look ahead; a worker that dies while it
waits for its children is no exception. `EnabledCronIsRegistered` excepts a
request that died halfway, a deletion whose answer was lost and, without any
failure, a type edited during the creation, each until an edit registers the
schedule again. `LossStopsTheWork` covers the steps that ask for their lease, at the
moment they ask.

## 4. Findings

Each is a violation run, quoted in `PROJECT.json`.

1. `SkippedNeverExecuted`: a cancel between a generation's check and the start of
   its nodes closes the pending rows as `skipped`, the nodes are executed all the
   same, and `update_step_result` keeps the closed row. The HOWTO says `skipped`
   marks steps that did not start.
2. `DeployIsPinned`: a deploy compares HEAD with the reviewed commit and asks for
   its lease once, and then reads and stores one configuration per device. When
   the lock is lost in between ("clear cache", or an expiry under a stalled
   worker), the next caller opens the tree on the configured branch, and the
   rest of the deploy is read from there.
3. `TryAgainIsSafe`: when the engine took the run and only its answer was lost,
   the request invites to try again while a worker may be executing the first.
4. `AllMeansAll`: an approve-all that overlaps with another approval of the same
   gate is answered and then lost. A second consequence of the same overlap:
   `approve_all` writes back the approval state it read
   (`run_service.py:888-899`). When an approve-batch has overtaken it and the worker
   already waits at the next gate, the row shows the old gate again, every further
   approval pushes the old gate's event, and the worker waits until the run is
   cancelled. `WaitingGateIsShownHolds` (section 5) shows that nothing but an
   approve-all can do this.
5. `NextMeansNext`: an approve-all that was refused with 503 has stored its flag;
   the next approve-batch releases everything.

## 5. Proofs

`RunLifecycleProofs` proves, for every plan (any number of nodes and
generations), any set of deliveries and any number of faults:

| Theorem | Statement |
|---|---|
| `TypeCorrect` | `Spec => []TypeOK` |
| `AtMostOnceHolds` | no executor is invoked twice |
| `SuccessIsHonestHolds` | success means every node executed, no failed or open step |
| `RowsTellTheTruthHolds` | step rows agree with what the walk did |
| `CancelHoldsAlways` | `CancelStopsWithinOneWave` and `CancelledShowsNoRunningStep` |
| `MisreportedIsLateHolds` | an executed step is shown as skipped only in a cancelled run, and only if it was started after the cancel |
| `SomebodyFinishesTheRunHolds` | an active run has somebody who can end it, unless its dispatcher died |
| `StatusIsFinalHolds` | an ended run keeps its status until it is deleted (action property) |
| `ContractKept` | `Spec => Contract!Spec`, the refinement |

Assumptions, all evaluated by TLC on the instances: `NAssumption` (at least one
node), `WaveAssumption` (generations are positive and at most `LastWave`),
`ParentsAssumption` (parents lie in earlier generations), `DeliveryAssumption`,
`FaultAssumption`.

None of the invariants is inductive by itself: `AtMostOnce` speaks of executions,
but what prevents the second one is that the unique index lets only one
delivery get past the creation of the first row. The inductive invariant `IInv`
says this in parts:

* `Begun`: before the run is created nothing has happened to it, and before the
  engine has it there is no delivery;
* `Owned`: the delivery that inserted the first step row owns the run. Nobody
  else can insert a row, so nobody else walks, and what the owner has not started
  was never executed. This carries `AtMostOnce`;
* `Walked`: the generations a walk has left behind are done, an "ok" verdict
  means that all of them went well, and what a walk has executed was invoked
  exactly once;
* `RowsFollow`: an unfinished node is never shown as finished well, and the row
  of a finished one tells the truth or was frozen by a cancel;
* `SuccessIsFinal`: the owner of a successful run has ended, and the run is
  honest: no write that is still possible disturbs its rows;
* `CancelHolds`: what is executed after a cancel belongs to the generation the
  owner is still at, and while that generation runs no closed row opens again.

Each is preserved by every action in a step of its own; the theorems follow.

`MisreportedIsLate` says how far finding 1 goes: with `CancelStopsWithinOneWave`
the misreported steps are those of one generation of a cancelled run. Its invariant
`Shown` adds that a walk starts only after all its rows exist, so the row of a
started node never looks pending and can be closed as `skipped` only by losing
against a cancel. `SomebodyFinishesTheRun` is the safety half of `EveryRunEnds`:
what the fairness of the liveness run needs is somebody to be fair to. `Attended`
carries it: a dispatch that is through has left an engine id or an ended run, an id
means that the engine has the run, and the engine takes it for running only while
it has a task of it.

`RunContractProofs` proves `ContractPromises`: the contract's own `Promise`
(at most one invocation per node, success only after all of them) and `Final`. What
`ContractKept` transfers to `RunLifecycle` and `WaitAndRun` is thereby stated for
the reader of a run.

`ChangeRequestProofs` proves, for any number of requests, reconcilers, nodes and
crashes, `TypeCorrect`, `OneOpenDeployHolds` (with `NoDeployBehindTheReviewer`),
`DeployedIsHonestHolds`, `ApprovalMatchesStatusHolds`, `SettledStaysHolds` (an
action property) and `RunsKeepContractHolds`. It assumes that `NoRun` is not a
request and that the crash bound is a natural number. The argument is one of
exclusion without a lock: `Exclusive` says that a handler in flight has the
request to itself, because the status it has set admits no other handler, and
because no reconciler can decide while it is in flight (the grace period) or
with a recorded run (which only it can record). `Unclaimed` says that a reviewable
request has neither a recorded run nor a pending decision, so a revert cannot be
overtaken by an old reconciler; `OpenRuns` adds which runs can be open,
`Deployments` that a decision "deployed" keeps its evidence until it is
written.

Three more theorems say what a request and its runs may show.
`FailureIsHonestHolds`: a failed request that points to a run points to one that
failed or was cancelled, so only a request without `deploy_run_id` can fail behind
a run that did not; `Failures`
says that a decision "failed" stays true until it is written, however stale the
reconciler. `OpenRunIsVouchedForHolds`: a run is open only while its request is
"deploying", or behind a failed request whose handler died before it recorded the
run; `Vouched` says who answers for every open run. `RunsAreApprovedHolds` (an
action property): a run comes into being only for a "deploying" request with an
approval on record, whatever an earlier failed dispatch has cleared.

`WaitAndRunProofs` proves, for any number of groups, clicks and faults, every
batch size and every concurrency limit, `TypeCorrect`,
`EveryBatchWasApprovedHolds`, `BatchesInOrderHolds`, `SuccessIsHonestHolds`,
`CancelStopsTheRolloutHolds` and the refinement `ContractKept`, from
`GroupAssumption`, `BatchAssumption`, `ConcurrencyAssumption` and
`FaultsAssumption`. `Clicked` says that whatever a click carries or has pushed
was shown at a gate before, and that every copy of the "all remaining" flag (in
the row, in a click, in the worker's local variables) goes back to an
approve-all; `Approved` adds what the worker starts. `Ordered` says that behind
the worker's batch everything is finished and beyond it nothing started, with
the lemma that a group's batch is monotone in the group; `Counted`, `Honest` and
`Stopped` relate invocations, verdict and outcome.

`Watched` carries what the operator relies on while the run is open.
`SomebodyFinishesTheRunHolds`: an open run, paused or not, has a worker that goes
on, or its worker is lost, which is where `OrphanIsReaped` begins. `WaitingGateIsShownHolds`: as long as no approve-all has written the
row, the run is paused and shows the gate the worker waits at. Without that
hypothesis it is false, see finding 4; TLC gave the counterexample when the
invariant was checked before its proof. `AllIsForGoodHolds` (an action property)
confines finding 4 from the other side: once the worker has read "all remaining" it
never shows a gate again, whatever a later click writes. `StatusIsFinalHolds` is
the contract in the terms of the row: a late approve-all, which writes "paused",
opens no ended run.

`GitWorkTreeProofs` proves, for any number of callers and faults and every time to
live above one period, `TypeCorrect`, `ProtectionHolds`, `LossHolds` and
`BranchHolds`, from `UsersAssumption` and `TimesAssumption`. `Protected` relates
the clock to the renewal: an undisturbed holder has `ttl + due >= TTL`, so its key
outlives the period in which the thread must run, and it is deleted by nobody
else. `Noticed` says that the periods a caller has worked without the key are at
most those its thread has not looked at yet (`away <= due`) unless its flag is set,
which is what a check then meets.
`OnBranch` says that, as long as nobody touched the tree without the key, the tree
is on the branch of the key's owner wherever that one writes, commits or reads;
a new owner starts by opening the tree, so what others left does not matter.
Two action properties say how a key ends. `KeyIsNotStolenHolds`: it leaves its owner
by the owner's release, by expiry or by a fault, and is then free, so a late
releaser takes nothing from its successor. `OnlyTheHolderRenewsHolds`: only the
renewing thread of a working, scheduled owner prolongs it, so the key of a dead or
stalled caller only ages, the safety half of `LockIsFreed`.

`ChildRunsProofs` proves, for any number of runs, any calls between workflows and
every depth limit, `TypeCorrect`, `ChainsHold`, `NoChildHolds` and
`RunsKeepContractHolds`, from `BoundsAssumption` and `WorkflowsAssumption`.
`LineInv` says that the stored list of a run is its true ancestry, one entry per
level (`Recorded`), which no deletion touches. `SweepInv` divides the children of
a run whose children were listed: one is being started by it and will meet the
second look, or is listed and not yet visited, or has ended and is itself swept
or shut (`Accounted`); a listed run has ended, so that the second look fails
(`Ended`). `StragglersAreKnownHolds` follows: at every moment of a sweep that was
not lost, an active child of a listed run is on the sweep's list or is the one its
parent is starting, with the second look ahead unless the worker died there (the
safety half of `StopReachesChildren`). `LinksAgreeHolds`: `ancestor_workflow_ids`
of a run is the chain of the run its `parent_run_id` names, although the two columns
are written once and deletions clear one of them.

`ScheduleProofs` proves, for any number of requests, triggers, entries and
faults, `TypeCorrect`, `RightsHold`, `UnarmedHolds`, `SwitchingOnHolds` (an
action property) and `RegisteredHolds`, from `ScheduleBounds`. `Rights` says that a trigger that began
without rights is still before the check, with the rights still missing; `Unarmed`
that before the first switching on the row is off and no trigger has come past
reading it;
`Intents` that what an edit is about to write differs from what it has loaded only
as it was asked, or after a publication.

`RegisteredHolds` (`EnabledCronIsRegistered`) needs to know which request can still
harm which entry. `Fresh`: an entry that was made and is not stored yet is known
to its own request alone, so nobody else can remove it. `Lasting`: an edit that
replaces the entry of an enabled schedule still has "on" in its session. `Provided`:
while an enabled cron schedule is live, no request or answer was lost and no creation
crossed an edit of the type since the last registration, either some request is
`Answerable` (it will still make a cron entry, switch the schedule off or delete
it), or there is a cron entry that no request is about to remove without making one
of its own (`Safe`). When all requests are through the first case is gone.

Only model-checked: liveness (outside the reach of the prover: `EveryRunEnds`,
`CancelledRowsClose`, `DeployEnds`, `ApprovedGateOpens`, `OrphanIsReaped`,
`LockIsFreed`, `StopReachesChildren`; the safety half of three of them is proved, as
said above) and the violations. Every safety property of the passing runs is also a
theorem.

## 6. Plan

1. `ExecutionGraph`: generations, funnels and fan-in as operators against a
   reference definition on all small graphs, which discharges `WaveAssumption` and
   `ParentsAssumption` for the plans the code really builds.
2. The publication of a workflow to a background tier and its undo, which two
   schedules of one workflow share.
3. Session pool and login limiter, if the above leaves room.

## 7. Not modelled

Payloads (device contexts, step configuration, report artifacts), permissions,
notifications, logging, the engine's internals, HTTP and the user interface. They
do not decide which of the modelled transitions is taken, or are external
services. Section 6 lists the parts with state of their own that are still to
come; `PROJECT.json` gives every other part with its reason.
