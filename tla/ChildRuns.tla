------------------------------ MODULE ChildRuns ------------------------------
(***************************************************************************)
(* Runs that start runs: the start-workflow step (start_workflow/          *)
(* executor.py), which starts child runs one after the other through       *)
(* RunService.start_child_run and waits for them, against everything that  *)
(* ends the calling run meanwhile: an operator's cancel and the reaper,    *)
(* which both sweep the run's children (cancel_child_runs), and deletion,  *)
(* which clears the children's parent_run_id.                              *)
(*                                                                         *)
(* A run is its row: status, parent_run_id and ancestor_workflow_ids. Each *)
(* action is one commit, so a sweep and a start interleave between the     *)
(* check that the caller is active, the child's row, its dispatch and the  *)
(* second check. The walk of a cancelled run goes on to its next wave,     *)
(* hence a step may still be starting children then.                       *)
(***************************************************************************)
EXTENDS Naturals, Sequences

CONSTANTS
  MaxRuns,      \* bound: the runs are 1 .. MaxRuns, numbered as created
  Workflows,
  Root,         \* the workflow a user triggers
  Calls,        \* workflow -> the workflow_ids of its start-workflow steps
  MaxDepth,     \* MAX_CHILD_RUN_DEPTH
  MaxEvents     \* bound on interventions: stops, deletions and crashes

Runs == 1 .. MaxRuns

ASSUME BoundsAssumption ==
  MaxRuns \in Nat \ {0} /\ MaxDepth \in Nat \ {0} /\ MaxEvents \in Nat
ASSUME WorkflowsAssumption ==
  Root \in Workflows /\ Calls \in [Workflows -> SUBSET Workflows]

VARIABLES
  last,       \* the number of runs created so far
  status,     \* run -> workflow_runs.status, "none" before and "deleted" after
  wf,         \* run -> workflow_id
  parent,     \* run -> parent_run_id, 0 without one
  ancestors,  \* run -> ancestor_workflow_ids, root first
  accepted,   \* runs the engine has
  step,       \* run -> where its start-workflow step is
  new,        \* run -> the child that step is starting, 0 without one
  todo,       \* sweeps: runs whose children are to be listed
  kids,       \* sweeps: children listed and not yet visited
  events,
  swept,      \* history: "ok" until a sweep died halfway
  closed,     \* history: runs whose children a sweep has listed
  shut,       \* history: children their own starter ended
  line,       \* history: run -> the workflows of the runs that led to it
  depth,      \* history: run -> how many runs led to it
  again       \* history: runs of a workflow that led to them

rowVars == <<last, status, wf, parent, ancestors, accepted>>
stepVars == <<step, new>>
sweepVars == <<todo, kids>>
lineage == <<line, depth, again>>
vars == <<rowVars, stepVars, sweepVars, events, swept, closed, shut, lineage>>

Active == {"pending", "running"}
Terminal == {"success", "failed", "cancelled"}
Starting == {"create", "dispatch", "recheck"}

TypeOK ==
  /\ last \in 0 .. MaxRuns
  /\ status \in [Runs -> {"none", "deleted"} \cup Active \cup Terminal]
  /\ \A r \in Runs : status[r] = "none" <=> r > last
  /\ wf \in [Runs -> Workflows]
  /\ parent \in [Runs -> 0 .. MaxRuns]
  /\ \A r \in Runs : parent[r] < r /\ (parent[r] # 0 => status[parent[r]] # "deleted")
  /\ ancestors \in [Runs -> Seq(Workflows)]
  /\ accepted \in SUBSET (1 .. last)
  /\ step \in [Runs -> {"idle", "ready", "wait", "dead"} \cup Starting]
  /\ new \in [Runs -> 0 .. last]
  /\ todo \in SUBSET (1 .. last)
  /\ kids \in SUBSET (1 .. last)
  /\ events \in 0 .. MaxEvents
  /\ swept \in {"ok", "died"}
  /\ closed \in SUBSET (1 .. last)
  /\ shut \in SUBSET (1 .. last)
  /\ line \in [Runs -> SUBSET Workflows]
  /\ depth \in [Runs -> Nat]
  /\ again \in SUBSET (1 .. last)

Init ==
  /\ last = 0
  /\ status = [r \in Runs |-> "none"]
  /\ wf = [r \in Runs |-> Root]
  /\ parent = [r \in Runs |-> 0]
  /\ ancestors = [r \in Runs |-> << >>]
  /\ accepted = {}
  /\ step = [r \in Runs |-> "idle"]
  /\ new = [r \in Runs |-> 0]
  /\ todo = {}
  /\ kids = {}
  /\ events = 0
  /\ swept = "ok"
  /\ closed = {}
  /\ shut = {}
  /\ line = [r \in Runs |-> {}]
  /\ depth = [r \in Runs |-> 0]
  /\ again = {}

\* An intervention from outside, one of at most MaxEvents.
Event ==
  /\ events < MaxEvents
  /\ events' = events + 1

------------------------------------------------------------------------------
(***************************************************************************)
(* The start-workflow step of run r.                                       *)
(***************************************************************************)

\* Mutant: whatever the status is.
TransitionUnguarded(r, s) == s

\* transition_run: a run that has ended keeps its status.
Transition(r, s) == IF status[r] \in Active THEN s ELSE status[r]

\* Mutant: the chain is read by walking parent_run_id.
ChainByLinks(r) ==
  LET up[n \in 0 .. MaxRuns] ==
        IF n = 0 THEN << >> ELSE Append(up[parent[n]], wf[n])
  IN  up[r]

\* The workflows above a new child of r, root first.
Chain(r) == Append(ancestors[r], wf[r])

\* _child_run_ancestors: no workflow twice in a chain, and a limited depth.
ChainAllows(r, w) ==
  /\ \A i \in 1 .. Len(Chain(r)) : Chain(r)[i] # w
  /\ Len(Chain(r)) <= MaxDepth

\* The row of a run of workflow w, started by run p (0: by a user).
CreateRow(p, w) ==
  LET c == last + 1 IN
  /\ last' = c
  /\ status' = [status EXCEPT ![c] = "pending"]
  /\ wf' = [wf EXCEPT ![c] = w]
  /\ parent' = [parent EXCEPT ![c] = p]
  /\ ancestors' = [ancestors EXCEPT ![c] = IF p = 0 THEN << >> ELSE Chain(p)]
  /\ line' = [line EXCEPT ![c] = {w} \cup IF p = 0 THEN {} ELSE line[p]]
  /\ depth' = [depth EXCEPT ![c] = IF p = 0 THEN 0 ELSE depth[p] + 1]
  /\ again' = IF p # 0 /\ w \in line[p] THEN again \cup {c} ELSE again

\* A user triggers the root workflow (RunLifecycle has the details).
Trigger ==
  /\ last = 0
  /\ CreateRow(0, Root)
  /\ accepted' = {1}
  /\ UNCHANGED <<stepVars, sweepVars, events, swept, closed, shut>>

\* prepare: the engine delivers the run.
Claim(r) ==
  /\ status[r] = "pending"
  /\ r \in accepted
  /\ status' = [status EXCEPT ![r] = "running"]
  /\ UNCHANGED <<last, wf, parent, ancestors, accepted>>
  /\ UNCHANGED <<stepVars, sweepVars, events, swept, closed, shut, lineage>>

\* The walk reaches a start-workflow step, which looks at its target first.
BeginStep(r) ==
  /\ status[r] = "running"
  /\ step[r] = "idle"
  /\ Calls[wf[r]] # {}
  /\ step' = [step EXCEPT ![r] = "ready"]
  /\ UNCHANGED new
  /\ UNCHANGED <<rowVars, sweepVars, events, swept, closed, shut, lineage>>

\* start_child_run for the next group: the caller is active.
StartGroup(r) ==
  /\ step[r] = "ready"
  /\ status[r] \in Active
  /\ last < MaxRuns
  /\ step' = [step EXCEPT ![r] = "create"]
  /\ UNCHANGED new
  /\ UNCHANGED <<rowVars, sweepVars, events, swept, closed, shut, lineage>>

\* The chain permits the target and create_run inserts the child, which the
\* foreign key refuses without the caller's row.
CreateChild(r) ==
  /\ step[r] = "create"
  /\ status[r] # "deleted"
  /\ last < MaxRuns
  /\ \E w \in Calls[wf[r]] : ChainAllows(r, w) /\ CreateRow(r, w)
  /\ new' = [new EXCEPT ![r] = last + 1]
  /\ step' = [step EXCEPT ![r] = "dispatch"]
  /\ UNCHANGED accepted
  /\ UNCHANGED <<sweepVars, events, swept, closed, shut>>

\* The step raises without another row: the caller has ended, the target, the
\* chain or the inputs are refused, the validation gate or the insert raises.
StartRaises(r) ==
  /\ step[r] \in {"ready", "create"}
  /\ step' = [step EXCEPT ![r] = "idle"]
  /\ UNCHANGED new
  /\ UNCHANGED <<rowVars, sweepVars, events, swept, closed, shut, lineage>>

\* run_no_wait: the engine takes the child.
Dispatch(r) ==
  /\ step[r] = "dispatch"
  /\ accepted' = accepted \cup {new[r]}
  /\ step' = [step EXCEPT ![r] = "recheck"]
  /\ UNCHANGED new
  /\ UNCHANGED <<last, status, wf, parent, ancestors>>
  /\ UNCHANGED <<sweepVars, events, swept, closed, shut, lineage>>

\* The dispatch raises, before or after the engine took the child: the child is
\* failed, the later groups are rejected and the step goes on to wait.
DispatchRaises(r) ==
  /\ step[r] \in {"dispatch", "recheck"}
  /\ status' = [status EXCEPT ![new[r]] = Transition(new[r], "failed")]
  /\ shut' = shut \cup {new[r]}
  /\ new' = [new EXCEPT ![r] = 0]
  /\ step' = [step EXCEPT ![r] = "wait"]
  /\ UNCHANGED <<last, wf, parent, ancestors, accepted>>
  /\ UNCHANGED <<sweepVars, events, swept, closed, lineage>>

\* Mutant: the caller is not looked at again.
StillActiveAlways(r) == TRUE

\* _parent_is_active, on fresh data.
StillActive(r) == status[r] \in Active

\* The second look at the caller: the child is one of the started runs.
RecheckPasses(r) ==
  /\ step[r] = "recheck"
  /\ StillActive(r)
  /\ new' = [new EXCEPT ![r] = 0]
  /\ step' = [step EXCEPT ![r] = "ready"]
  /\ UNCHANGED <<rowVars, sweepVars, events, swept, closed, shut, lineage>>

\* The caller ended meanwhile: the child is cancelled, not its own children,
\* and the step raises. Without the caller's row the refresh already raises.
RecheckFails(r) ==
  /\ step[r] = "recheck"
  /\ ~StillActive(r)
  /\ IF status[r] = "deleted"
       THEN UNCHANGED <<status, shut>>
       ELSE /\ status' = [status EXCEPT ![new[r]] = Transition(new[r], "cancelled")]
            /\ shut' = shut \cup {new[r]}
  /\ new' = [new EXCEPT ![r] = 0]
  /\ step' = [step EXCEPT ![r] = "idle"]
  /\ UNCHANGED <<last, wf, parent, ancestors, accepted>>
  /\ UNCHANGED <<sweepVars, events, swept, closed, lineage>>

\* Every group is started: wait for the runs, or without "wait" be done.
GroupsStarted(r) ==
  /\ step[r] = "ready"
  /\ \E s \in {"wait", "idle"} : step' = [step EXCEPT ![r] = s]
  /\ UNCHANGED new
  /\ UNCHANGED <<rowVars, sweepVars, events, swept, closed, shut, lineage>>

\* _wait_for_groups returns: every run it polls has ended, the caller was
\* cancelled, or wait_seconds have passed; or it raises, a run being deleted.
WaitEnds(r) ==
  /\ step[r] = "wait"
  /\ step' = [step EXCEPT ![r] = "idle"]
  /\ UNCHANGED new
  /\ UNCHANGED <<rowVars, sweepVars, events, swept, closed, shut, lineage>>

------------------------------------------------------------------------------
(***************************************************************************)
(* The end of a run, and the sweep of its children.                        *)
(***************************************************************************)

\* The walk ends; children nobody waits for keep running.
Finish(r) ==
  /\ status[r] = "running"
  /\ step[r] = "idle"
  /\ \E s \in {"success", "failed"} : status' = [status EXCEPT ![r] = s]
  /\ UNCHANGED <<last, wf, parent, ancestors, accepted>>
  /\ UNCHANGED <<stepVars, sweepVars, events, swept, closed, shut, lineage>>

\* cancel_run, and fail_interrupted of the on-failure task and the reaper.
Stop(r) ==
  /\ status[r] \in Active
  /\ Event
  /\ \E s \in {"cancelled", "failed"} : status' = [status EXCEPT ![r] = s]
  /\ todo' = todo \cup {r}
  /\ UNCHANGED kids
  /\ UNCHANGED <<last, wf, parent, ancestors, accepted>>
  /\ UNCHANGED <<stepVars, swept, closed, shut, lineage>>

\* Mutant: only the runs that are still active are listed.
ListedActiveOnly(r) == {c \in Runs : parent[c] = r /\ status[c] \in Active}

\* list_children: finished children too.
Listed(r) == {c \in Runs : parent[c] = r}

\* cancel_child_runs(r) reads the children of r.
ListChildren(r) ==
  /\ r \in todo
  /\ todo' = todo \ {r}
  /\ kids' = kids \cup Listed(r)
  /\ closed' = closed \cup {r}
  /\ UNCHANGED <<rowVars, stepVars, events, swept, shut, lineage>>

\* One child of the loop: cancelled if it is active, then its own children.
VisitChild(c) ==
  /\ c \in kids
  /\ kids' = kids \ {c}
  /\ todo' = todo \cup {c}
  /\ status' = [status EXCEPT ![c] = Transition(c, "cancelled")]
  /\ UNCHANGED <<last, wf, parent, ancestors, accepted>>
  /\ UNCHANGED <<stepVars, events, swept, closed, shut, lineage>>

\* Mutant: the links stay.
ParentAfterDeleteKept(c, r) == parent[c]

\* ON DELETE SET NULL.
ParentAfterDelete(c, r) == IF parent[c] = r THEN 0 ELSE parent[c]

\* delete_run and the purge.
DeleteRun(r) ==
  /\ status[r] \in Terminal
  /\ Event
  /\ status' = [status EXCEPT ![r] = "deleted"]
  /\ parent' = [c \in Runs |-> ParentAfterDelete(c, r)]
  /\ UNCHANGED <<last, wf, ancestors, accepted>>
  /\ UNCHANGED <<stepVars, sweepVars, swept, closed, shut, lineage>>

\* The worker that executes the step dies.
WorkerDies(r) ==
  /\ step[r] \in {"ready", "wait"} \cup Starting
  /\ Event
  /\ step' = [step EXCEPT ![r] = "dead"]
  /\ UNCHANGED new
  /\ UNCHANGED <<rowVars, sweepVars, swept, closed, shut, lineage>>

\* A sweep is lost halfway: its process dies, or a listed child was deleted
\* meanwhile and reading its expired row raises.
SweepDies ==
  /\ todo \cup kids # {}
  /\ \/ Event
     \/ (\E c \in kids : status[c] = "deleted") /\ UNCHANGED events
  /\ todo' = {}
  /\ kids' = {}
  /\ swept' = "died"
  /\ UNCHANGED <<rowVars, stepVars, closed, shut, lineage>>

------------------------------------------------------------------------------
StepOf(r) ==
  \/ StartGroup(r) \/ CreateChild(r) \/ StartRaises(r)
  \/ Dispatch(r) \/ DispatchRaises(r) \/ RecheckPasses(r) \/ RecheckFails(r)
  \/ GroupsStarted(r) \/ WaitEnds(r)

Sweep(r) == ListChildren(r) \/ VisitChild(r)

Next ==
  \/ Trigger
  \/ \E r \in Runs :
       \/ Claim(r) \/ BeginStep(r) \/ StepOf(r) \/ Finish(r)
       \/ Stop(r) \/ Sweep(r) \/ DeleteRun(r) \/ WorkerDies(r)
  \/ SweepDies

\* The worker goes on with a step it executes, and a sweep goes on.
Fairness == \A r \in Runs : WF_vars(StepOf(r)) /\ WF_vars(Sweep(r))

Spec == Init /\ [][Next]_vars /\ Fairness

------------------------------------------------------------------------------
(***************************************************************************)
(* Properties.                                                             *)
(***************************************************************************)

\* When every sweep is over, the children of a run whose children were swept
\* have ended, and so have theirs in turn, although runs were still starting
\* children when the sweep passed (run_service.py, start_child_run: "either the
\* sweep sees it, or this does"). The children of a child which its starter
\* itself had to end are not included: nobody sweeps those.
NoChildLeftBehind ==
  todo = {} /\ kids = {} /\ swept = "ok" =>
    \A p \in closed : \A c \in Runs :
      parent[c] = p =>
        new[p] = c \/ (status[c] \notin Active /\ c \in closed \cup shut)

\* No run, however deep, was led to by a run of its own workflow, and no chain
\* is longer than MAX_CHILD_RUN_DEPTH, although finished runs in the middle of
\* a chain are deleted and their links cleared (_child_run_ancestors).
ChainsAreBounded == again = {} /\ \A r \in Runs : depth[r] <= MaxDepth

\* The run as its readers see it.
Outcome(r) == IF status[r] \in Active THEN "open" ELSE status[r]

Run(r) == INSTANCE RunContract
            WITH Nodes <- {}, outcome <- Outcome(r), did <- [n \in {} |-> 0]

\* Every run keeps its one outcome, whoever of starter, sweep, reaper and walk
\* tries to end it (transition_run).
RunsKeepContract ==
  /\ \A r \in Runs : Run(r)!Init
  /\ [][\A r \in Runs : Run(r)!Next \/ UNCHANGED Outcome(r)]_vars

\* A run whose children were swept has no active child left in the end, unless
\* the sweep was lost or the worker died between a child's row and the second
\* look at the caller (start_child_run, cancel_child_runs).
StopReachesChildren ==
  \A r \in Runs :
    (r \in closed) ~> \/ swept = "died" \/ (step[r] = "dead" /\ new[r] # 0)
                      \/ \A c \in Runs : parent[c] = r => status[c] \notin Active
==============================================================================
