------------------------------ MODULE WaitAndRun ------------------------------
(***************************************************************************)
(* The fan-out half of a workflow run with approval gates ("Wait & Run"):  *)
(* the devices are rolled out in batches, and between two batches the      *)
(* run is "paused" until its owner clicks "Run next batch" (approve_batch) *)
(* or "Run all remaining" (approve_all).                                   *)
(*                                                                         *)
(* The worker of the parent run (_dispatch_with_approval) and the API      *)
(* processes of the clicks share the run row and its approval_state, which *)
(* both read, change and write back, and the engine's events. Every action *)
(* is one commit with the local work around it.                            *)
(*                                                                         *)
(* A device group is a child workflow that the worker awaits. It is taken  *)
(* to be one device (mode "per_device") and its branch to be one step, so  *)
(* that a group has one result. The engine delivers a child once.          *)
(***************************************************************************)
EXTENDS Naturals, FiniteSets

CONSTANTS
  G,               \* the fan-out has the device groups 1 .. G
  BatchSize,       \* approval.batch_size
  MaxConcurrency,  \* children at a time, 0 for no limit
  Clicks,          \* approve-batch and approve-all requests
  MaxFaults        \* bound on interruptions, lost workers and redeliveries

ASSUME GroupAssumption == G \in Nat \ {0}
ASSUME BatchAssumption == BatchSize \in Nat \ {0}
ASSUME ConcurrencyAssumption == MaxConcurrency \in Nat
ASSUME FaultsAssumption == MaxFaults \in Nat

Groups == 1 .. G

\* The fan-in node, which the parent itself executes after the last batch.
Join == 0

BatchOf(g) == (g - 1) \div BatchSize
LastBatch == BatchOf(G)
Batches == 0 .. LastBatch

VARIABLES
  status,     \* workflow_runs.status; "none" before the row, "deleted" after it
  approval,   \* workflow_runs.approval_state
  branch,     \* the step row of the child branch
  closing,    \* "due" while the step rows of an ended run are still to be closed
  events,     \* the batch indices of the events pushed to the engine
  firstAuto,  \* approval.first_batch_auto, from the workflow
  engineId,   \* hatchet_run_id as the reaper finds it, "null" if it was not stored
  pc,         \* where the worker is in _dispatch_with_approval and after it
  batch,      \* its batch_index
  auto,       \* its auto_approve_remaining
  seen,       \* the approval_state it has read to resume
  verdict,    \* its "success", "ok" or "failed"
  child,      \* group -> where its child workflow is
  click,      \* click -> where its handler is and the state it has read
  faults,
  did,        \* history: group or fan-in node -> invocations of its executor
  begun,      \* history: what could no longer be stopped when it was cancelled
  shown,      \* history: the batches whose gate was shown to the operator
  all         \* history: approve-all was "asked" for, "acked" or "refused"

rowVars == <<status, approval, branch, closing>>
workerVars == <<pc, batch, auto, seen, verdict>>
historyVars == <<did, begun, shown, all>>
vars == <<rowVars, events, firstAuto, engineId, workerVars, child, click, faults,
          historyVars>>

Active == {"running", "paused"}
Terminal == {"success", "failed", "cancelled"}
TerminalStep == {"success", "failed", "skipped"}

\* A child that has handed its result, or its exception, to the parent.
Finished == {"ok", "failed", "raised", "skipped"}

\* Where the worker is while its task runs.
Live == {"gate", "waiting", "resuming", "batch", "finish", "join_check", "join",
         "final"}

ApprovalState == [awaiting : {"no", "yes"}, next : Batches, auto : {"no", "yes"}]

\* NULL, which every reader treats as a state in which nothing is set.
NoState == [awaiting |-> "no", next |-> 0, auto |-> "no"]

Idle == [at |-> "idle", kind |-> "batch", state |-> NoState]

TypeOK ==
  /\ status \in {"none", "deleted"} \cup Active \cup Terminal
  /\ approval \in ApprovalState
  /\ branch \in {"absent", "pending", "partial"} \cup TerminalStep
  /\ closing \in {"no", "due"}
  /\ events \in SUBSET Batches
  /\ firstAuto \in {"no", "yes"}
  /\ engineId \in {"unread", "set", "null"}
  /\ pc \in {"idle", "ended", "lost"} \cup Live
  /\ batch \in Batches
  /\ auto \in {"no", "yes"}
  /\ seen \in ApprovalState
  /\ verdict \in {"ok", "failed"}
  /\ child \in [Groups -> {"idle", "started", "checked"} \cup Finished]
  /\ click \in [Clicks -> [at : {"idle", "write", "push", "done"},
                           kind : {"batch", "all"}, state : ApprovalState]]
  /\ faults \in 0 .. MaxFaults
  /\ did \in [Groups \cup {Join} -> Nat]
  /\ begun \in SUBSET (Groups \cup {Join})
  /\ shown \in SUBSET Batches
  /\ all \in {"no", "asked", "acked", "refused"}

Init ==
  /\ status = "none"
  /\ approval = NoState
  /\ branch = "absent"
  /\ closing = "no"
  /\ events = {}
  /\ firstAuto \in {"no", "yes"}
  /\ engineId = "unread"
  /\ pc = "idle"
  /\ batch = 0
  /\ auto = "no"
  /\ seen = NoState
  /\ verdict = "ok"
  /\ child = [g \in Groups |-> "idle"]
  /\ click = [c \in Clicks |-> Idle]
  /\ faults = 0
  /\ did = [n \in Groups \cup {Join} |-> 0]
  /\ begun = {}
  /\ shown = {}
  /\ all = "no"

------------------------------------------------------------------------------
(***************************************************************************)
(* The row.                                                                *)
(***************************************************************************)

\* Mutant: the UPDATE has lost its guard.
TransitionUnguarded(s) == IF status = "deleted" THEN status ELSE s

\* transition_run without from_statuses: a run that has ended is not changed.
Transition(s) == IF status \in Active THEN s ELSE status

\* update_run_status with a new approval_state.
SetStatus(s, state) ==
  /\ status' = Transition(s)
  /\ approval' = IF status \in Active THEN state ELSE approval

\* A transition to a terminal status clears approval_state.
EndRun(s) ==
  /\ status' = Transition(s)
  /\ approval' = IF status \in Active THEN NoState ELSE approval

\* fail_interrupted: the run is failed unless it has ended, and the winner
\* closes its step rows in a commit of its own.
FailInterrupted ==
  /\ EndRun("failed")
  /\ closing' = IF status \in Active THEN "due" ELSE closing

\* finalise_open_step_results, for a run that failed or was cancelled.
CloseRows ==
  /\ closing = "due"
  /\ closing' = "no"
  /\ branch' = IF branch = "pending" THEN "skipped" ELSE branch
  /\ UNCHANGED <<status, approval, events, firstAuto, engineId, workerVars, child,
                 click, faults, historyVars>>

------------------------------------------------------------------------------
(***************************************************************************)
(* The worker at a gate.                                                   *)
(***************************************************************************)

\* The run was created and claimed, and its walk has stopped at the inventory
\* step: module RunLifecycle.
Begin ==
  /\ pc = "idle"
  /\ status' = "running"
  /\ branch' = "pending"
  /\ pc' = "gate"
  /\ UNCHANGED <<approval, closing, events, firstAuto, engineId, batch, auto, seen,
                 verdict, child, click, faults, historyVars>>

\* _batch_needs_approval_gate.
NeedsGate == auto = "no" /\ ~(batch = 0 /\ firstAuto = "yes")

SkipGate ==
  /\ pc = "gate"
  /\ ~NeedsGate
  /\ pc' = "batch"
  /\ UNCHANGED <<rowVars, events, firstAuto, engineId, batch, auto, seen, verdict,
                 child, click, faults, historyVars>>

Pause ==
  /\ pc = "gate"
  /\ NeedsGate
  /\ status # "deleted"
  /\ SetStatus("paused", [awaiting |-> "yes", next |-> batch, auto |-> "no"])
  /\ shown' = IF status \in Active THEN shown \cup {batch} ELSE shown
  /\ pc' = "waiting"
  /\ UNCHANGED <<branch, closing, events, firstAuto, engineId, batch, auto, seen,
                 verdict, child, click, faults, did, begun, all>>

\* Mutant: one event key for all batches of a run.
EventSeenAny(k) == events # {}

\* Mutant: the pusher counts batches from 1 as the screen does.
EventSeenNext(k) == k + 1 \in events

\* aio_wait_for_event of batch k. An event that was pushed before the wait was
\* registered counts: lookback_window.
EventSeen(k) == k \in events

\* The wait is over and a new session reads the row.
Resume ==
  /\ pc = "waiting"
  /\ EventSeen(batch)
  /\ status # "deleted"
  /\ seen' = approval
  /\ pc' = "resuming"
  /\ UNCHANGED <<rowVars, events, firstAuto, engineId, batch, auto, verdict, child,
                 click, faults, historyVars>>

\* The same session writes back what it has read.
Resumed ==
  /\ pc = "resuming"
  /\ SetStatus("running", [seen EXCEPT !.awaiting = "no"])
  /\ auto' = seen.auto
  /\ pc' = IF status = "deleted" THEN "ended" ELSE "batch"
  /\ UNCHANGED <<branch, closing, events, firstAuto, engineId, batch, seen, verdict,
                 child, click, faults, historyVars>>

\* The row is gone: get_run_by_id returns None and the task raises.
RowGone ==
  /\ status = "deleted"
  /\ \/ pc = "gate" /\ NeedsGate
     \/ pc = "waiting" /\ EventSeen(batch)
     \/ pc \in {"finish", "join_check"}
  /\ pc' = "ended"
  /\ UNCHANGED <<rowVars, events, firstAuto, engineId, batch, auto, seen, verdict,
                 child, click, faults, historyVars>>

------------------------------------------------------------------------------
(***************************************************************************)
(* A batch.                                                                *)
(***************************************************************************)

InBatch == {g \in Groups : BatchOf(g) = batch}
Busy == {g \in Groups : child[g] \in {"started", "checked"}}

\* The semaphore of _run_groups.
HasSlot == MaxConcurrency = 0 \/ Cardinality(Busy) < MaxConcurrency

StartChild(g) ==
  /\ pc = "batch"
  /\ g \in InBatch
  /\ child[g] = "idle"
  /\ HasSlot
  /\ child' = [child EXCEPT ![g] = "started"]
  /\ UNCHANGED <<rowVars, events, firstAuto, engineId, workerVars, click, faults,
                 historyVars>>

\* Mutant: a child does not look at the run.
AfterCheckAlways == "checked"

\* run_subgraph at its wave boundary: a cancelled run skips the rest, a row that
\* is gone cannot be refreshed, and a run that failed is not noticed.
AfterCheck ==
  IF status = "cancelled" THEN "skipped"
  ELSE IF status = "deleted" THEN "raised" ELSE "checked"

ChildChecks(g) ==
  /\ child[g] = "started"
  /\ child' = [child EXCEPT ![g] = AfterCheck]
  /\ UNCHANGED <<rowVars, events, firstAuto, engineId, workerVars, click, faults,
                 historyVars>>

\* The executor is invoked. An exception in it counts as a reported failure; a
\* child "raises" when its task is lost, times out or cannot store its result.
ChildExecutes(g, result) ==
  /\ child[g] = "checked"
  /\ child' = [child EXCEPT ![g] = result]
  /\ did' = [did EXCEPT ![g] = @ + 1]
  /\ UNCHANGED <<rowVars, events, firstAuto, engineId, workerVars, click, faults,
                 begun, shown, all>>

\* The child's task is lost before it invoked the executor, or the run or the
\* workflow it belongs to is gone: the parent gets an exception.
ChildRaises(g) ==
  /\ child[g] \in {"started", "checked"}
  /\ child' = [child EXCEPT ![g] = "raised"]
  /\ UNCHANGED <<rowVars, events, firstAuto, engineId, workerVars, click, faults,
                 historyVars>>

Have(result) == \E g \in Groups : child[g] = result

\* _derive_child_node_status, over the results of all batches so far.
BranchStatus ==
  IF Have("raised") \/ Have("failed")
    THEN IF Have("ok") THEN "partial" ELSE "failed"
    ELSE "success"

\* Whether any child reported an outcome of the branch's step.
BranchRan == Have("ok") \/ Have("failed")

\* update_step_result: a closed row of a cancelled run is left as it is.
UpdatedBranch(s) ==
  IF branch = "absent" \/ (status = "cancelled" /\ branch \in TerminalStep)
    THEN branch ELSE s

\* Mutant: gather without return_exceptions.
BatchDoneEarly ==
  \/ \E g \in InBatch : child[g] = "raised"
  \/ \A g \in InBatch : child[g] \in Finished

\* asyncio.gather(..., return_exceptions=True) has returned.
BatchDone == \A g \in InBatch : child[g] \in Finished

\* Mutant: the loop runs one batch too far.
AtLastBatchOffByOne == batch > LastBatch

AtLastBatch == batch = LastBatch

\* _aggregate_and_persist(final=False): a step without an outcome stays pending.
EndBatch ==
  /\ pc = "batch"
  /\ BatchDone
  /\ branch' = IF BranchRan THEN UpdatedBranch(BranchStatus) ELSE branch
  /\ IF AtLastBatch
       THEN pc' = "finish" /\ UNCHANGED batch
       ELSE pc' = "gate" /\ batch' = batch + 1
  /\ UNCHANGED <<status, approval, closing, events, firstAuto, engineId, auto, seen,
                 verdict, child, click, faults, historyVars>>

------------------------------------------------------------------------------
(***************************************************************************)
(* _finalize_fan_out_parent.                                               *)
(***************************************************************************)

\* Mutant: the exceptions of children are forgotten.
NoChildFailureSwallowed == ~(BranchRan /\ BranchStatus = "failed")

\* no_child_failure: a partial result of the devices is not a failure.
NoChildFailure == ~Have("raised") /\ ~(BranchRan /\ BranchStatus = "failed")

\* _aggregate_and_persist(final=True).
Aggregate ==
  /\ pc = "finish"
  /\ status # "deleted"
  /\ branch' = UpdatedBranch(IF BranchRan THEN BranchStatus ELSE "skipped")
  /\ verdict' = IF NoChildFailure THEN "ok" ELSE "failed"
  /\ pc' = "join_check"
  /\ UNCHANGED <<status, approval, closing, events, firstAuto, engineId, batch, auto,
                 seen, child, click, faults, historyVars>>

\* resume_after_join: cancelled, or, when every device was lost and the node
\* needs devices, blocked.
JoinSkipped ==
  /\ pc = "join_check"
  /\ status # "deleted"
  /\ status = "cancelled" \/ (Have("failed") /\ ~Have("ok"))
  /\ verdict' = "failed"
  /\ pc' = "final"
  /\ UNCHANGED <<rowVars, events, firstAuto, engineId, batch, auto, seen, child,
                 click, faults, historyVars>>

JoinGoes ==
  /\ pc = "join_check"
  /\ status \notin {"deleted", "cancelled"}
  /\ pc' = "join"
  /\ UNCHANGED <<rowVars, events, firstAuto, engineId, batch, auto, seen, verdict,
                 child, click, faults, historyVars>>

JoinExecutes(result) ==
  /\ pc = "join"
  /\ did' = [did EXCEPT ![Join] = @ + 1]
  /\ verdict' = IF result = "ok" THEN verdict ELSE "failed"
  /\ pc' = "final"
  /\ UNCHANGED <<rowVars, events, firstAuto, engineId, batch, auto, seen, child,
                 click, faults, begun, shown, all>>

Finish ==
  /\ pc = "final"
  /\ EndRun(IF verdict = "ok" THEN "success" ELSE "failed")
  /\ pc' = "ended"
  /\ UNCHANGED <<branch, closing, events, firstAuto, engineId, batch, auto, seen,
                 verdict, child, click, faults, historyVars>>

------------------------------------------------------------------------------
(***************************************************************************)
(* Faults. The children of a parent that is gone go on.                    *)
(***************************************************************************)

\* The task is cancelled by a shutdown or the engine, times out, or hits an
\* internal error: execute_steps or the on-failure task fails the run.
Interrupted ==
  /\ pc \in Live
  /\ faults < MaxFaults
  /\ faults' = faults + 1
  /\ FailInterrupted
  /\ pc' = "ended"
  /\ UNCHANGED <<branch, events, firstAuto, engineId, batch, auto, seen, verdict,
                 child, click, historyVars>>

\* The worker is gone. Whether the API came to store the engine's id after it
\* handed the run over matters from here on.
WorkerLost ==
  /\ pc \in Live
  /\ faults < MaxFaults
  /\ faults' = faults + 1
  /\ pc' = "lost"
  /\ engineId' \in {"set", "null"}
  /\ UNCHANGED <<rowVars, events, firstAuto, batch, auto, seen, verdict,
                 child, click, historyVars>>

\* execute_steps is delivered once more. It finds the step rows and fails the
\* run, whose first worker does not notice. A run it finds "paused" it leaves
\* alone.
Redelivered ==
  /\ status = "running"
  /\ faults < MaxFaults
  /\ faults' = faults + 1
  /\ FailInterrupted
  /\ UNCHANGED <<branch, events, firstAuto, engineId, workerVars, child, click,
                 historyVars>>

\* Mutant: the list of active statuses lacks "paused".
ReapableRunning == status = "running"

\* list_active_runs_older_than.
Reapable == status \in Active

\* reap_stuck_runs, for a run whose task the engine has given up. A run without
\* an engine id is passed over: it is not "pending" any more.
Reap ==
  /\ pc = "lost"
  /\ Reapable
  /\ engineId = "set"
  /\ FailInterrupted
  /\ UNCHANGED <<branch, events, firstAuto, engineId, workerVars, child, click,
                 faults, historyVars>>

------------------------------------------------------------------------------
(***************************************************************************)
(* The operator.                                                           *)
(***************************************************************************)

Advance(c, at) == click' = [click EXCEPT ![c].at = at]

\* _require_awaiting_batch: anything else is answered with a conflict.
ClickReads(c, kind) ==
  /\ click[c].at = "idle"
  /\ status = "paused"
  /\ approval.awaiting = "yes"
  /\ click' = [click EXCEPT ![c] = [at |-> IF kind = "all" THEN "write" ELSE "push",
                                    kind |-> kind, state |-> approval]]
  /\ UNCHANGED <<rowVars, events, firstAuto, engineId, workerVars, child, faults,
                 historyVars>>

\* approve_all writes the state it has read, whatever has become of it; a row
\* that is gone cannot be refreshed and raises.
ClickWrites(c) ==
  /\ click[c].at = "write"
  /\ SetStatus("paused", [click[c].state EXCEPT !.auto = "yes"])
  /\ all' = IF all = "acked" THEN all ELSE "asked"
  /\ Advance(c, IF status = "deleted" THEN "done" ELSE "push")
  /\ UNCHANGED <<branch, closing, events, firstAuto, engineId, workerVars, child,
                 faults, did, begun, shown>>

\* _push_batch_event.
ClickPushes(c) ==
  /\ click[c].at = "push"
  /\ events' = events \cup {click[c].state.next}
  /\ all' = IF click[c].kind = "all" THEN "acked" ELSE all
  /\ Advance(c, "done")
  /\ UNCHANGED <<rowVars, firstAuto, engineId, workerVars, child, faults, did, begun,
                 shown>>

\* The engine cannot be reached, and the operator is told so.
PushFails(c) ==
  /\ click[c].at = "push"
  /\ all' = IF click[c].kind = "all" /\ all = "asked" THEN "refused" ELSE all
  /\ Advance(c, "done")
  /\ UNCHANGED <<rowVars, events, firstAuto, engineId, workerVars, child, faults, did,
                 begun, shown>>

\* cancel_run; the engine's cancel of the task is Interrupted.
Cancel ==
  /\ status \in Active
  /\ EndRun("cancelled")
  /\ closing' = "due"
  /\ begun' = {g \in Groups : did[g] = 1 \/ child[g] = "checked"}
                \cup {n \in {Join} : did[n] = 1 \/ pc = "join"}
  /\ UNCHANGED <<branch, events, firstAuto, engineId, workerVars, child, click,
                 faults, did, shown, all>>

\* delete_run and the retention.
Delete ==
  /\ status \in Terminal
  /\ status' = "deleted"
  /\ branch' = "absent"
  /\ UNCHANGED <<approval, closing, events, firstAuto, engineId, workerVars, child,
                 click, faults, historyVars>>

------------------------------------------------------------------------------
Worker ==
  \/ SkipGate \/ Pause \/ Resume \/ Resumed \/ RowGone \/ EndBatch
  \/ Aggregate \/ JoinSkipped \/ JoinGoes \/ Finish
  \/ \E result \in {"ok", "failed"} : JoinExecutes(result)
  \/ \E g \in Groups : StartChild(g)

Child(g) ==
  \/ ChildChecks(g) \/ ChildRaises(g)
  \/ \E result \in {"ok", "failed", "raised"} : ChildExecutes(g, result)

Click(c) ==
  \/ \E kind \in {"batch", "all"} : ClickReads(c, kind)
  \/ ClickWrites(c) \/ ClickPushes(c) \/ PushFails(c)

Next ==
  \/ Begin \/ Worker \/ CloseRows \/ Interrupted \/ WorkerLost \/ Redelivered \/ Reap
  \/ Cancel \/ Delete
  \/ \E g \in Groups : Child(g)
  \/ \E c \in Clicks : Click(c)

Spec == Init /\ [][Next]_vars

(***************************************************************************)
(* Fairness: a worker that is not waiting for the operator goes on, so do  *)
(* its children, and the reaper's schedule comes round. Nothing is assumed *)
(* of the operator.                                                        *)
(***************************************************************************)
FairSpec ==
  /\ Spec
  /\ WF_vars(Worker)
  /\ WF_vars(Reap)
  /\ \A g \in Groups : WF_vars(Child(g))

------------------------------------------------------------------------------
(***************************************************************************)
(* Properties.                                                             *)
(***************************************************************************)

\* No device of a batch is touched that the operator did not release: he was
\* shown the gate of that batch and approved it, or asked for all remaining
\* batches, or the workflow starts the first one by itself. Clicks that are
\* repeated, late or overtaken release nothing else.
EveryBatchWasApproved ==
  \A g \in Groups :
    child[g] # "idle" =>
      \/ BatchOf(g) = 0 /\ firstAuto = "yes"
      \/ BatchOf(g) \in events \cap shown
      \/ all # "no"

\* The rollout is a canary: no device of a batch is touched before every device
\* of the batches before it is through, and the fan-in node comes last.
BatchesInOrder ==
  /\ \A g, h \in Groups :
       child[h] # "idle" /\ BatchOf(g) < BatchOf(h) => child[g] \in Finished
  /\ did[Join] > 0 => \A g \in Groups : child[g] \in Finished

\* A run is only shown as successful when no child was lost, some device went
\* through and the step row of the branch says so too.
SuccessIsHonest ==
  status = "success" =>
    /\ \A g \in Groups : child[g] \in {"ok", "failed"}
    /\ Have("ok")
    /\ branch \in {"success", "partial"}

\* Once the operator has cancelled, nothing is executed but what had passed its
\* last check before, although a click under way may still release the gate.
CancelStopsTheRollout ==
  status = "cancelled" => \A n \in Groups \cup {Join} : did[n] > 0 => n \in begun

Contract ==
  INSTANCE RunContract WITH
    Nodes <- Groups \cup {Join},
    outcome <- IF status \in Active THEN "open" ELSE status

\* A run that fans out keeps the contract of every run: its outcome is final
\* whatever a late click writes, each executor is invoked at most once, and
\* "success" is only reported when all were.
KeepsContract == Contract!Spec

\* An approval that was pushed opens the gate it was given for, also when it was
\* pushed before the worker had registered its wait.
ApprovedGateOpens ==
  \A k \in Batches :
    (pc = "waiting" /\ batch = k /\ k \in events) ~> ~(pc = "waiting" /\ batch = k)

\* A run whose worker is gone, also one that was waiting for an approval, does
\* not stay open. Only a run whose row never got the engine's id may: the reaper
\* passes it over (run_lifecycle_service.py, reap_stuck_runs).
OrphanIsReaped == (pc = "lost" /\ engineId = "set") ~> status \notin Active

\* "Release the next batch and skip all further approval gates": once approve-all
\* was answered, no gate is shown to the operator again.
AllMeansAll == [][(all = "acked") => (shown' = shown)]_vars

\* "Release the next batch without changing later gates": while every approve-all
\* was answered with an error, only devices of batches with an approval of their
\* own are touched.
NextMeansNext ==
  [][(/\ all \in {"no", "refused"}
      /\ \A c \in Clicks : click[c].kind = "all" => click[c].at = "done") =>
       \A g \in Groups :
         did'[g] > did[g] => BatchOf(g) \in events \/ (BatchOf(g) = 0 /\ firstAuto = "yes")]_vars
==============================================================================
