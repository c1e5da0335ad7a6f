----------------------------- MODULE RunLifecycle -----------------------------
(***************************************************************************)
(* The life of one workflow run: the row in workflow_runs, its rows in     *)
(* workflow_step_results, and everybody who writes them concurrently:      *)
(*                                                                         *)
(*   - the API process that creates the run and hands it to the engine     *)
(*     (run_service.py, _create_and_dispatch_run), and the operator's      *)
(*     cancel and delete;                                                  *)
(*   - the Hatchet tasks prepare and execute_steps, once per delivery: the *)
(*     engine may deliver a run again after a lost worker, and a dashboard *)
(*     "Replay" delivers it again on purpose (workflow_run/__init__.py,    *)
(*     phase1.py, step_runner/runner.py);                                  *)
(*   - the on-failure task and the reaper, which finish a run nobody else  *)
(*     finishes (run_lifecycle_service.py).                                *)
(*                                                                         *)
(* Every action is one database commit together with the local work up to  *)
(* the next one, so whatever two writers can do between two commits is an  *)
(* interleaving here. The run is one that does not fan out: phase 2 and    *)
(* the status "paused" are the subject of module WaitAndRun.               *)
(***************************************************************************)
EXTENDS Naturals, FiniteSets

CONSTANTS
  Deliveries,   \* deliveries of the run by the engine
  N,            \* the execution plan has the nodes 1 .. N, in plan order
  Wave,         \* node -> its topological generation
  Parents,      \* node -> the nodes with an edge to it
  NoDelivery,   \* not a delivery
  MaxFaults     \* bound on crashes and shutdowns

Nodes == 1 .. N

\* The number of generations of the plan.
LastWave == CHOOSE w \in {Wave[n] : n \in Nodes} :
              \A n \in Nodes : Wave[n] <= w

ASSUME NAssumption == N \in Nat \ {0}
ASSUME WaveAssumption ==
  /\ Wave \in [Nodes -> Nat \ {0}]
  /\ LastWave \in Nat \ {0}
  /\ \A n \in Nodes : Wave[n] <= LastWave
ASSUME ParentsAssumption ==
  /\ Parents \in [Nodes -> SUBSET Nodes]
  /\ \A n \in Nodes : \A m \in Parents[n] : Wave[m] < Wave[n]
ASSUME DeliveryAssumption == NoDelivery \notin Deliveries
ASSUME FaultAssumption == MaxFaults \in Nat

VARIABLES
  status,    \* workflow_runs.status; "none" before the row, "deleted" after it
  engineId,  \* workflow_runs.hatchet_run_id, "null" or "set"
  row,       \* node -> workflow_step_results.status, "absent" without a row
  api,       \* the request that creates and dispatches the run
  engine,    \* the engine's own status of the run
  onFailure, \* the on-failure task: "no", or "due" at the engine
  closing,   \* what the winner of a closing transition still has to do
  reaping,   \* the reaper: "no", or "found" when it is about to fail the run
  pc,        \* delivery -> where its task is
  made,      \* delivery -> how many step rows it has created
  wave,      \* delivery -> the generation it is at
  verdict,   \* delivery -> execute_all's "failed" and "any_reported_failure"
  node,      \* delivery -> node -> what became of the node in this walk
  faults,    \* crashes and shutdowns so far
  owner,     \* history: the delivery that created the first step row
  execs,     \* history: node -> invocations of its executor
  late       \* history: nodes whose executor was invoked in a cancelled run

rowVars == <<status, engineId, row>>
envVars == <<api, engine, onFailure, closing, reaping, faults>>
walkVars == <<pc, made, wave, verdict, node>>
ghosts == <<owner, execs, late>>
vars == <<rowVars, envVars, walkVars, ghosts>>

Active == {"pending", "running"}
Terminal == {"success", "failed", "cancelled"}
OpenStep == {"pending", "running"}
TerminalStep == {"success", "failed", "skipped"}
EngineEnded == {"COMPLETED", "FAILED", "CANCELLED"}

\* Where a delivery is while its task runs.
Live == {"prepare", "read", "check_rows", "create", "check", "run", "skip",
         "final", "raising"}

TypeOK ==
  /\ status \in {"none", "deleted"} \cup Active \cup Terminal
  /\ engineId \in {"null", "set"}
  /\ row \in [Nodes -> {"absent", "partial"} \cup OpenStep \cup TerminalStep]
  /\ api \in {"idle", "created", "accepted", "failed", "done", "dead"}
  /\ engine \in {"absent", "RUNNING"} \cup EngineEnded
  /\ onFailure \in {"no", "due"}
  /\ closing \in {"no", "rows", "rows_and_engine", "lost"}
  /\ reaping \in {"no", "found"}
  /\ pc \in [Deliveries -> {"idle", "ended", "lost"} \cup Live]
  /\ made \in [Deliveries -> 0 .. N]
  /\ wave \in [Deliveries -> 1 .. LastWave]
  /\ verdict \in [Deliveries -> {"ok", "reported", "failed"}]
  /\ node \in [Deliveries ->
                [Nodes -> {"todo", "exec", "ok", "partial", "failed", "raised",
                           "blocked", "skipped", "error"}]]
  /\ faults \in 0 .. MaxFaults
  /\ owner \in Deliveries \cup {NoDelivery}
  /\ execs \in [Nodes -> Nat]
  /\ late \in SUBSET Nodes

Init ==
  /\ status = "none"
  /\ engineId = "null"
  /\ row = [n \in Nodes |-> "absent"]
  /\ api = "idle"
  /\ engine = "absent"
  /\ onFailure = "no"
  /\ closing = "no"
  /\ reaping = "no"
  /\ pc = [d \in Deliveries |-> "idle"]
  /\ made = [d \in Deliveries |-> 0]
  /\ wave = [d \in Deliveries |-> 1]
  /\ verdict = [d \in Deliveries |-> "ok"]
  /\ node = [d \in Deliveries |-> [n \in Nodes |-> "todo"]]
  /\ faults = 0
  /\ owner = NoDelivery
  /\ execs = [n \in Nodes |-> 0]
  /\ late = {}

------------------------------------------------------------------------------
(***************************************************************************)
(* The repository's writes (run_repository.py).                            *)
(***************************************************************************)

\* Mutant: an UPDATE without its guard.
TransitionUnguarded(from, s) == s

\* transition_run: the status after a guarded UPDATE to status s, refused
\* unless the current status is one of "from".
Transition(from, s) == IF status \in from THEN s ELSE status

\* The default guard: the row exists and is not terminal.
NotTerminal == Active

\* Mutant: the step row is written whatever the run's status is.
UpdatedRowUnguarded(n, s) == s

\* update_step_result: the step row of n after a write of s. A row that is
\* already closed keeps its value once the run is cancelled.
UpdatedRow(n, s) ==
  IF row[n] \in TerminalStep /\ status = "cancelled" THEN row[n] ELSE s

\* Mutant: rows that are neither success nor skipped are taken for open.
FinalisedRowsTooMany ==
  [n \in Nodes |-> IF row[n] \in {"running", "partial"} THEN "failed"
                   ELSE IF row[n] = "pending" THEN "skipped" ELSE row[n]]

\* Mutant: the running rows are forgotten.
FinalisedRowsPendingOnly ==
  [n \in Nodes |-> IF row[n] = "pending" THEN "skipped" ELSE row[n]]

\* finalise_open_step_results: running rows fail, pending rows are skipped.
FinalisedRows ==
  [n \in Nodes |-> IF row[n] = "running" THEN "failed"
                   ELSE IF row[n] = "pending" THEN "skipped" ELSE row[n]]

\* Whoever moves the run to a terminal status in order to close it owes the
\* step rows a finalise; a refused transition owes nothing.
Owes(what) == IF status \in NotTerminal THEN what ELSE closing

\* The database half of fail_interrupted, up to its first commit.
FailInterrupted ==
  /\ status' = Transition(NotTerminal, "failed")
  /\ closing' = Owes("rows")

------------------------------------------------------------------------------
(***************************************************************************)
(* The API process.                                                        *)
(***************************************************************************)

\* create_run, after the validation gate has passed.
CreateRun ==
  /\ api = "idle"
  /\ api' = "created"
  /\ status' = "pending"
  /\ UNCHANGED <<engineId, row, engine, onFailure, closing, reaping, faults>>
  /\ UNCHANGED <<walkVars, ghosts>>

\* run_no_wait: the engine takes the run. The call can still raise in the
\* API process afterwards (a lost response), hence the two values of api.
EngineAccepts ==
  /\ api = "created"
  /\ engine' = "RUNNING"
  /\ api' \in {"accepted", "failed"}
  /\ UNCHANGED <<onFailure, closing, reaping, faults>>
  /\ UNCHANGED <<rowVars, walkVars, ghosts>>

\* The breaker is open, or run_no_wait raises before the engine has the run.
DispatchRaises ==
  /\ api = "created"
  /\ api' = "failed"
  /\ UNCHANGED <<engine, onFailure, closing, reaping, faults>>
  /\ UNCHANGED <<rowVars, walkVars, ghosts>>

\* record_hatchet_run_id: leaves the status alone. On a row that is gone the
\* refresh after the UPDATE raises, which is the dispatch failure path.
RecordEngineId ==
  /\ api = "accepted"
  /\ IF status = "deleted"
       THEN api' = "failed" /\ UNCHANGED engineId
       ELSE api' = "done" /\ engineId' = "set"
  /\ UNCHANGED <<engine, onFailure, closing, reaping, faults>>
  /\ UNCHANGED <<status, row, walkVars, ghosts>>

\* Any exception of the dispatch: the run is marked failed, unless it ended
\* meanwhile. The step rows are not touched.
MarkDispatchFailed ==
  /\ api = "failed"
  /\ api' = "done"
  /\ status' = Transition(NotTerminal, "failed")
  /\ UNCHANGED <<engineId, row, engine, onFailure, closing, reaping, faults>>
  /\ UNCHANGED <<walkVars, ghosts>>

\* The process dies between two of these steps.
ApiCrash ==
  /\ api \in {"created", "accepted", "failed"}
  /\ faults < MaxFaults
  /\ faults' = faults + 1
  /\ api' = "dead"
  /\ UNCHANGED <<engine, onFailure, closing, reaping>>
  /\ UNCHANGED <<rowVars, walkVars, ghosts>>

\* cancel_run / _cancel_active_run: the database says "cancelled" first. The
\* engine id is read here, so one recorded later is not cancelled.
Cancel ==
  /\ status \in Active
  /\ status' = Transition(NotTerminal, "cancelled")
  /\ closing' = Owes(IF engineId = "set" THEN "rows_and_engine" ELSE "rows")
  /\ UNCHANGED <<engineId, row, api, engine, onFailure, reaping, faults>>
  /\ UNCHANGED <<walkVars, ghosts>>

\* The finalise that follows a won closing transition, and for a cancel the
\* best-effort engine cancel, which may fail.
CloseRows ==
  /\ closing \in {"rows", "rows_and_engine"}
  /\ closing' = "no"
  /\ row' = FinalisedRows
  /\ \/ UNCHANGED engine
     \/ /\ closing = "rows_and_engine"
        /\ engine = "RUNNING"
        /\ engine' = "CANCELLED"
  /\ UNCHANGED <<status, engineId, api, onFailure, reaping, faults>>
  /\ UNCHANGED <<walkVars, ghosts>>

\* The process that won the transition dies before it closed the rows.
CloserCrash ==
  /\ closing \in {"rows", "rows_and_engine"}
  /\ faults < MaxFaults
  /\ faults' = faults + 1
  /\ closing' = "lost"
  /\ UNCHANGED <<api, engine, onFailure, reaping>>
  /\ UNCHANGED <<rowVars, walkVars, ghosts>>

\* delete_run and the retention purge: only a finished run, and its step rows
\* go with it (ON DELETE CASCADE).
DeleteRun ==
  /\ status \in Terminal
  /\ status' = "deleted"
  /\ row' = [n \in Nodes |-> "absent"]
  /\ UNCHANGED <<engineId, envVars, walkVars, ghosts>>

------------------------------------------------------------------------------
(***************************************************************************)
(* The engine (external: modelled from what src/ expects of it).           *)
(***************************************************************************)

Delivered == {d \in Deliveries : pc[d] # "idle"}
OtherLive(d) == \E e \in Deliveries \ {d} : pc[e] \in Live

\* The first delivery of a run the engine accepted.
Deliver(d) ==
  /\ engine = "RUNNING"
  /\ Delivered = {}
  /\ pc' = [pc EXCEPT ![d] = "prepare"]
  /\ UNCHANGED <<made, wave, verdict, node>>
  /\ UNCHANGED <<rowVars, envVars, ghosts>>

\* A further delivery, while an earlier one may still be running.
Redeliver(d) ==
  /\ engine # "absent"
  /\ Delivered # {}
  /\ pc[d] = "idle"
  /\ engine' = "RUNNING"
  /\ pc' = [pc EXCEPT ![d] = "prepare"]
  /\ UNCHANGED <<made, wave, verdict, node>>
  /\ UNCHANGED <<api, onFailure, closing, reaping, faults>>
  /\ UNCHANGED <<rowVars, ghosts>>

\* The task of d returned: the run is done for the engine unless another
\* delivery of it still runs.
EngineReturn(d) ==
  /\ engine' = IF OtherLive(d) \/ engine = "CANCELLED" THEN engine ELSE "COMPLETED"
  /\ UNCHANGED onFailure

\* The task of d raised: the engine runs the on-failure task.
EngineRaise ==
  /\ engine' = IF engine = "CANCELLED" THEN engine ELSE "FAILED"
  /\ onFailure' = "due"

\* The engine gives up on a worker it lost, or the 24 h limit passed.
EngineGivesUp(d) ==
  /\ pc[d] = "lost"
  /\ pc' = [pc EXCEPT ![d] = "ended"]
  /\ EngineRaise
  /\ UNCHANGED <<made, wave, verdict, node>>
  /\ UNCHANGED <<api, closing, reaping, faults, rowVars, ghosts>>

\* The worker process of d disappears.
WorkerCrash(d) ==
  /\ pc[d] \in Live
  /\ faults < MaxFaults
  /\ faults' = faults + 1
  /\ pc' = [pc EXCEPT ![d] = "lost"]
  /\ UNCHANGED <<made, wave, verdict, node>>
  /\ UNCHANGED <<api, engine, onFailure, closing, reaping, rowVars, ghosts>>

\* CancelledError, from the engine's cancel or a worker shutdown. The task is
\* only suspended while it gathers the nodes of a generation: everything else
\* it awaits returns without yielding to the event loop.
Interrupt(d) ==
  /\ pc[d] = "run"
  /\ \/ engine = "CANCELLED" /\ UNCHANGED faults
     \/ faults < MaxFaults /\ faults' = faults + 1
  /\ pc' = [pc EXCEPT ![d] = "raising"]
  /\ UNCHANGED <<made, wave, verdict, node>>
  /\ UNCHANGED <<api, engine, onFailure, closing, reaping, rowVars, ghosts>>

------------------------------------------------------------------------------
(***************************************************************************)
(* The tasks of one delivery.                                              *)
(***************************************************************************)

GoTo(d, place) == pc' = [pc EXCEPT ![d] = place]

\* prepare: claims a pending run; a run that is not pending is left alone and
\* execute_steps runs all the same.
Prepare(d) ==
  /\ pc[d] = "prepare"
  /\ status' = Transition({"pending"}, "running")
  /\ GoTo(d, "read")
  /\ UNCHANGED <<engineId, row, made, wave, verdict, node, envVars, ghosts>>

\* _phase1_run_or_early_finish: a run that is not running is not executed. A
\* row that is gone raises.
ReadRun(d) ==
  /\ pc[d] = "read"
  /\ \/ /\ status = "running"
        /\ GoTo(d, "check_rows")
        /\ UNCHANGED <<engine, onFailure>>
     \/ /\ status = "deleted"
        /\ GoTo(d, "raising")
        /\ UNCHANGED <<engine, onFailure>>
     \/ /\ status \notin {"running", "deleted"}
        /\ GoTo(d, "ended")
        /\ EngineReturn(d)
  /\ UNCHANGED <<made, wave, verdict, node, rowVars, ghosts>>
  /\ UNCHANGED <<api, closing, reaping, faults>>

\* execute_all refuses a run that already has step rows (RunAlreadyStarted).
CheckRows(d) ==
  /\ pc[d] = "check_rows"
  /\ GoTo(d, IF \A n \in Nodes : row[n] = "absent" THEN "create" ELSE "raising")
  /\ UNCHANGED <<made, wave, verdict, node, rowVars, envVars, ghosts>>

\* Mutant: no unique index on (run_id, step_node_id).
RowFreeNoIndex(n) == status # "deleted"

\* The insert of a step row for n succeeds: the unique index on (run_id,
\* step_node_id) refuses a second row, the foreign key a row of a deleted run.
RowFree(n) == row[n] = "absent" /\ status # "deleted"

\* create_step_result for the next node of the plan. A refused insert ends the
\* delivery with RunAlreadyStarted.
CreateStepRow(d) ==
  /\ pc[d] = "create"
  /\ made[d] < N
  /\ LET n == made[d] + 1 IN
       IF RowFree(n)
         THEN /\ row' = [row EXCEPT ![n] = "pending"]
              /\ made' = [made EXCEPT ![d] = n]
              /\ owner' = IF n = 1 THEN d ELSE owner
              /\ UNCHANGED pc
         ELSE /\ GoTo(d, "raising")
              /\ UNCHANGED <<row, made, owner>>
  /\ UNCHANGED <<status, engineId, wave, verdict, node, envVars, execs, late>>

\* All rows exist: the walk begins at the first generation.
BeginWalk(d) ==
  /\ pc[d] = "create"
  /\ made[d] = N
  /\ GoTo(d, "check")
  /\ UNCHANGED <<made, wave, verdict, node, rowVars, envVars, ghosts>>

\* Mutant: the walk never looks at the run row.
CancelRequestedNever == FALSE

\* _cancel_requested, read from a fresh row.
CancelRequested == status = "cancelled"

\* Between two generations: _cancel_requested reads the row (a refresh of a
\* deleted row raises); a walk that failed or was cancelled skips the rest.
CheckCancel(d) ==
  /\ pc[d] = "check"
  /\ IF verdict[d] # "failed" /\ status = "deleted"
       THEN GoTo(d, "raising") /\ UNCHANGED verdict
       ELSE IF verdict[d] = "failed" \/ CancelRequested
              THEN /\ GoTo(d, "skip")
                   /\ verdict' = [verdict EXCEPT ![d] = "failed"]
              ELSE GoTo(d, "run") /\ UNCHANGED verdict
  /\ UNCHANGED <<made, wave, node, rowVars, envVars, ghosts>>

\* The node of this generation that a skipping walk turns to; one at a time.
SkipNode(d, n) ==
  /\ pc[d] = "skip"
  /\ Wave[n] = wave[d]
  /\ node[d][n] = "todo"
  /\ IF status = "deleted"
       THEN GoTo(d, "raising") /\ UNCHANGED <<row, node>>
       ELSE /\ row' = [row EXCEPT ![n] = UpdatedRow(n, "skipped")]
            /\ node' = [node EXCEPT ![d][n] = "skipped"]
            /\ UNCHANGED pc
  /\ UNCHANGED <<status, engineId, made, wave, verdict, envVars, ghosts>>

\* _blocked_by_upstream_failure needs a parent whose failure outcome has
\* devices, or that was itself blocked. Whether other parents delivered
\* devices is data this module does not carry.
MayBeBlocked(d, n) ==
  \E m \in Parents[n] : node[d][m] \in {"partial", "failed", "blocked"}

\* The nodes of a generation run concurrently (_run_wave). A blocked node is
\* skipped; it makes the run fail but the walk goes on.
BlockNode(d, n) ==
  /\ pc[d] = "run"
  /\ Wave[n] = wave[d]
  /\ node[d][n] = "todo"
  /\ status # "deleted"
  /\ MayBeBlocked(d, n)
  /\ row' = [row EXCEPT ![n] = UpdatedRow(n, "skipped")]
  /\ node' = [node EXCEPT ![d][n] = "blocked"]
  /\ UNCHANGED <<status, engineId, pc, made, wave, verdict, envVars, ghosts>>

\* _execute_and_persist_node: the row says "running", then the executor is
\* invoked, whatever became of that write.
StartNode(d, n) ==
  /\ pc[d] = "run"
  /\ Wave[n] = wave[d]
  /\ node[d][n] = "todo"
  /\ status # "deleted"
  /\ row' = [row EXCEPT ![n] = UpdatedRow(n, "running")]
  /\ node' = [node EXCEPT ![d][n] = "exec"]
  /\ execs' = [execs EXCEPT ![n] = @ + 1]
  /\ late' = IF status = "cancelled" THEN late \cup {n} ELSE late
  /\ UNCHANGED <<status, engineId, pc, made, wave, verdict, envVars, owner>>

\* The executor returned outcomes (result is derive_step_result_status of
\* them) or raised, which is stored as a failed step.
FinishNode(d, n, result) ==
  /\ pc[d] = "run"
  /\ node[d][n] = "exec"
  /\ status # "deleted"
  /\ LET s == IF result = "raised" THEN "failed"
              ELSE IF result = "ok" THEN "success" ELSE result
     IN  /\ row' = [row EXCEPT ![n] = UpdatedRow(n, s)]
         \* run_node_in_sequence reads the row back to see whether it failed
         /\ node' = [node EXCEPT ![d][n] =
                       IF result # "raised" /\ UpdatedRow(n, s) = "failed"
                         THEN "failed" ELSE result]
  /\ UNCHANGED <<status, engineId, pc, made, wave, verdict, envVars, ghosts>>

\* A write to a row that is gone raises out of the node; the siblings of the
\* generation are still waited for (gather with return_exceptions).
NodeError(d, n) ==
  /\ pc[d] = "run"
  /\ Wave[n] = wave[d]
  /\ node[d][n] \in {"todo", "exec"}
  /\ status = "deleted"
  /\ node' = [node EXCEPT ![d][n] = "error"]
  /\ UNCHANGED <<pc, made, wave, verdict, rowVars, envVars, ghosts>>

\* Mutant: the loop runs one generation too far.
AtLastWaveOffByOne(d) == wave[d] = LastWave + 1

AtLastWave(d) == wave[d] = LastWave

\* Some node of the generation d is at has become "result".
Has(d, result) == \E n \in Nodes : Wave[n] = wave[d] /\ node[d][n] = result

\* execute_all's "failed" and "any_reported_failure" after this generation.
VerdictAfter(d) ==
  IF verdict[d] = "failed" \/ Has(d, "raised") THEN "failed"
  ELSE IF Has(d, "failed") \/ Has(d, "blocked") THEN "reported"
  ELSE verdict[d]

\* The end of a generation, executed or skipped.
EndWave(d) ==
  /\ pc[d] \in {"run", "skip"}
  /\ ~Has(d, "todo") /\ ~Has(d, "exec")
  /\ IF Has(d, "error")
       THEN GoTo(d, "raising") /\ UNCHANGED <<wave, verdict>>
       ELSE /\ verdict' = [verdict EXCEPT ![d] = VerdictAfter(d)]
            /\ IF AtLastWave(d)
                 THEN GoTo(d, "final") /\ UNCHANGED wave
                 ELSE /\ GoTo(d, "check")
                      /\ wave' = [wave EXCEPT ![d] = @ + 1]
  /\ UNCHANGED <<made, node, rowVars, envVars, ghosts>>

\* Mutant: a blocked or failed step no longer fails the run.
FinalStatusIgnoresReports(d) == IF verdict[d] = "failed" THEN "failed" ELSE "success"

\* The status execute_all's result stands for.
FinalStatus(d) == IF verdict[d] = "ok" THEN "success" ELSE "failed"

\* update_run_status with the verdict of the walk, refused on an ended run.
FinishRun(d) ==
  /\ pc[d] = "final"
  /\ IF status = "deleted"
       THEN /\ GoTo(d, "raising")
            /\ UNCHANGED <<status, engine, onFailure>>
       ELSE /\ GoTo(d, "ended")
            /\ status' = Transition(NotTerminal, FinalStatus(d))
            /\ EngineReturn(d)
  /\ UNCHANGED <<engineId, row, made, wave, verdict, node, ghosts>>
  /\ UNCHANGED <<api, closing, reaping, faults>>

\* execute_steps' except clauses: every exception fails the run before it is
\* re-raised to the engine.
FinaliseInterrupted(d) ==
  /\ pc[d] = "raising"
  /\ FailInterrupted
  /\ GoTo(d, "ended")
  /\ EngineRaise
  /\ UNCHANGED <<engineId, row, made, wave, verdict, node, ghosts>>
  /\ UNCHANGED <<api, reaping, faults>>

------------------------------------------------------------------------------
(***************************************************************************)
(* The safety net.                                                         *)
(***************************************************************************)

\* fail_run, the workflow's on-failure task.
FailRun ==
  /\ onFailure = "due"
  /\ onFailure' = "no"
  /\ FailInterrupted
  /\ UNCHANGED <<engineId, row, api, engine, reaping, faults>>
  /\ UNCHANGED <<walkVars, ghosts>>

\* Mutant: a run that never reached the engine is not looked at.
StuckOnlyWithId == engineId = "set" /\ engine \in EngineEnded

\* What the reaper takes for stuck: the engine ended the run's task, or the
\* run has no engine id and is still pending.
Stuck == IF engineId = "set" THEN engine \in EngineEnded ELSE status = "pending"

\* reap_stuck_runs lists the run and asks the engine. The grace period is
\* taken to have passed at any time: none of these steps knows how long the
\* others take.
ReaperLooks ==
  /\ reaping = "no"
  /\ status \in Active
  /\ Stuck
  /\ reaping' = "found"
  /\ UNCHANGED <<api, engine, onFailure, closing, faults>>
  /\ UNCHANGED <<rowVars, walkVars, ghosts>>

\* ... and fails it, whatever happened since it looked.
ReaperFails ==
  /\ reaping = "found"
  /\ reaping' = "no"
  /\ FailInterrupted
  /\ UNCHANGED <<engineId, row, api, engine, onFailure, faults>>
  /\ UNCHANGED <<walkVars, ghosts>>

------------------------------------------------------------------------------
Dispatch == CreateRun \/ EngineAccepts \/ DispatchRaises \/ RecordEngineId
              \/ MarkDispatchFailed

Walk(d) ==
  \/ Prepare(d) \/ ReadRun(d) \/ CheckRows(d) \/ CreateStepRow(d) \/ BeginWalk(d)
  \/ CheckCancel(d) \/ EndWave(d) \/ FinishRun(d) \/ FinaliseInterrupted(d)
  \/ \E n \in Nodes :
       \/ SkipNode(d, n) \/ BlockNode(d, n) \/ StartNode(d, n) \/ NodeError(d, n)
       \/ \E r \in {"ok", "partial", "failed", "raised"} : FinishNode(d, n, r)

Net == FailRun \/ ReaperLooks \/ ReaperFails \/ CloseRows

Faults(d) == WorkerCrash(d) \/ Interrupt(d)

Next ==
  \/ Dispatch
  \/ Cancel \/ DeleteRun
  \/ Net
  \/ ApiCrash \/ CloserCrash
  \/ \E d \in Deliveries :
       Deliver(d) \/ Redeliver(d) \/ EngineGivesUp(d) \/ Walk(d) \/ Faults(d)

Spec == Init /\ [][Next]_vars

(***************************************************************************)
(* Fairness. Code that has been started goes on (the API request, the task *)
(* of a delivery, a closing transaction), the engine delivers a run it     *)
(* accepted and notices a lost worker, and the reaper's cron keeps firing  *)
(* against a reachable engine. Nothing obliges the operator, a fault, a    *)
(* redelivery or the engine's on-failure task to happen.                   *)
(***************************************************************************)
Fairness ==
  /\ WF_vars(Dispatch)
  /\ WF_vars(CloseRows)
  /\ WF_vars(ReaperLooks)
  /\ WF_vars(ReaperFails)
  /\ \A d \in Deliveries :
       /\ WF_vars(Walk(d))
       /\ WF_vars(Deliver(d))
       /\ WF_vars(EngineGivesUp(d))

FairSpec == Spec /\ Fairness

------------------------------------------------------------------------------
(***************************************************************************)
(* Properties.                                                             *)
(***************************************************************************)

\* No node's executor is invoked twice, however often the engine delivers the
\* run and however the deliveries overlap (execute_all, C1-16).
AtMostOnce == \A n \in Nodes : execs[n] <= 1

\* A run that says "success" executed every node, and no step row reports a
\* failure or an open step: neither a late closer nor a losing delivery can
\* leave a success whose history disagrees.
SuccessIsHonest ==
  status = "success" =>
    \A n \in Nodes : execs[n] = 1 /\ row[n] \in {"success", "partial"}

\* After a cancel the walk starts no further generation: all executors that
\* were invoked in the cancelled run belong to the generation that had passed
\* its check before (_cancel_requested, C1-03).
CancelStopsWithinOneWave == \A m, n \in late : Wave[m] = Wave[n]

\* Once a cancel has closed the step rows, no step of the run is shown as
\* running again, whatever the worker that is still executing writes.
CancelledShowsNoRunningStep ==
  status = "cancelled" /\ closing = "no" => \A n \in Nodes : row[n] # "running"

\* What the step row of a settled node has to say.
Truth(d, n) ==
  IF node[d][n] = "ok" THEN "success"
  ELSE IF node[d][n] = "partial" THEN "partial"
  ELSE IF node[d][n] \in {"failed", "raised"} THEN "failed"
  ELSE "skipped"

Settled(d) ==
  {n \in Nodes : node[d][n] \in {"ok", "partial", "failed", "raised", "skipped",
                                 "blocked"}}

\* The step row of every node the walk has settled tells what became of it,
\* although losing deliveries, the reaper and the on-failure task rewrite the
\* rows meanwhile. Only a cancel may freeze a row as failed or skipped.
RowsTellTheTruth ==
  status # "deleted" =>
    \A d \in Deliveries : \A n \in Settled(d) :
      \/ row[n] = Truth(d, n)
      \/ status = "cancelled" /\ row[n] \in {"failed", "skipped"}

\* The run as its readers see it.
Outcome == IF status \in Active THEN "open" ELSE status

Contract == INSTANCE RunContract WITH outcome <- Outcome, did <- execs

\* The run keeps the contract: one outcome that never changes, at most one
\* execution per node, success only after all of them.
KeepsContract == Contract!Spec

\* A run that is being executed without an engine id, because the process that
\* dispatched it died before it recorded the id: the reaper cannot ask for it.
Orphaned == status = "running" /\ engineId = "null" /\ api = "dead"

\* Every run ends: the dispatch, the task, or failing both the reaper gives it
\* an outcome, whichever worker dies, without help from the on-failure task.
EveryRunEnds == status \in Active ~> (status \notin Active \/ Orphaned)

\* HOWTO_BUILD_WORKFLOWS.md: a cancel marks the steps that did not start as
\* skipped. So a step that is shown as skipped was not executed.
SkippedNeverExecuted ==
  \A n \in Nodes : row[n] = "skipped" => execs[n] = 0

\* After a cancel every step row of the run is closed in the end, whatever else
\* fails: a row the cancel finds open by the cancel, unless its process dies
\* between the commit of the status and finalise_open_step_results; a row that
\* the walk creates after that by the walk, which skips what it did not start,
\* unless the walk's own worker dies.
CancelledRowsClose ==
  \A n \in Nodes :
    LET Open == status = "cancelled" /\ row[n] \in OpenStep
        Walked(pcs) == owner # NoDelivery /\ pc[owner] \in pcs
    IN /\ (Open /\ closing \notin {"no", "lost"}) ~> (~Open \/ closing = "lost")
       /\ (Open /\ closing = "no" /\ Walked(Live)) ~> (~Open \/ Walked({"lost"}))
==============================================================================
