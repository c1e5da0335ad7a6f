---------------------------- MODULE ChangeRequest ----------------------------
(***************************************************************************)
(* One change request: a staged configuration change that waits for its    *)
(* review and is then deployed by a workflow run (change_request_service,  *)
(* change_request_repository, webhook_service).                            *)
(*                                                                         *)
(* A request of a reviewer or of the git host's webhook runs in an API     *)
(* process of its own, and every write of the row is a commit that races   *)
(* with the others. A request that wins the transition to "deploying"      *)
(* creates one deploy run, so a run is named after its request. Of a run   *)
(* this module knows what RunContract promises: module RunLifecycle shows  *)
(* that the real one keeps it.                                             *)
(***************************************************************************)
EXTENDS Naturals

CONSTANTS
  Requests,     \* approve and deploy clicks and webhook deliveries
  Reconcilers,  \* the daily sweep, a GET, the worker that finished a run
  Nodes,        \* the nodes of the deploy workflow
  NoRun,        \* NULL
  MaxCrashes    \* bound on the crashes of API processes

ASSUME NoRunAssumption == NoRun \notin Requests
ASSUME CrashAssumption == MaxCrashes \in Nat

VARIABLES
  cr,         \* change_requests.status, "none" before the row
  via,        \* approved_via, cleared together with approved_by and approved_at
  deployRun,  \* deploy_run_id
  error,      \* deploy_error: "none", "not_started" or "run"
  pc,         \* request -> where its handler is
  revertTo,   \* request -> the status its failed dispatch goes back to
  run,        \* request -> what the row of its deploy run says
  claimed,    \* request -> "yes" once a worker moved its run to "running"
  taken,      \* request -> "yes" once the engine has its run
  did,        \* request -> node -> invocations of the node's executor
  decided,    \* reconciler -> the outcome it has read off and not written yet
  crashes,
  succeeded   \* history: the requests whose run reported success

rowVars == <<cr, via, deployRun, error>>
requestVars == <<pc, revertTo>>
runVars == <<run, claimed, taken, did, succeeded>>
vars == <<rowVars, requestVars, runVars, decided, crashes>>

Settled == {"deployed", "failed", "rejected", "expired"}
Ended == {"success", "failed", "cancelled"}

\* A request that won the transition and has not finished its dispatch.
InFlight == {"won", "created", "accepted", "raised", "failing", "returned"}

TypeOK ==
  /\ cr \in {"none", "staged", "approved", "deploying"} \cup Settled
  /\ via \in {"none", "ui", "webhook"}
  /\ deployRun \in Requests \cup {NoRun}
  /\ error \in {"none", "not_started", "run"}
  /\ pc \in [Requests -> {"idle", "done", "dead"} \cup InFlight]
  /\ revertTo \in [Requests -> {"staged", "approved"}]
  /\ run \in [Requests -> {"none", "open", "deleted"} \cup Ended]
  /\ claimed \in [Requests -> {"no", "yes"}]
  /\ taken \in [Requests -> {"no", "yes"}]
  /\ did \in [Requests -> [Nodes -> 0 .. 1]]
  /\ decided \in [Reconcilers -> {"nothing", "deployed", "failed"}]
  /\ crashes \in 0 .. MaxCrashes
  /\ succeeded \in SUBSET Requests

Init ==
  /\ cr = "none"
  /\ via = "none"
  /\ deployRun = NoRun
  /\ error = "none"
  /\ pc = [r \in Requests |-> "idle"]
  /\ revertTo = [r \in Requests |-> "staged"]
  /\ run = [r \in Requests |-> "none"]
  /\ claimed = [r \in Requests |-> "no"]
  /\ taken = [r \in Requests |-> "no"]
  /\ did = [r \in Requests |-> [n \in Nodes |-> 0]]
  /\ decided = [c \in Reconcilers |-> "nothing"]
  /\ crashes = 0
  /\ succeeded = {}

GoTo(r, place) == pc' = [pc EXCEPT ![r] = place]

------------------------------------------------------------------------------
(***************************************************************************)
(* The reviewer and the webhook.                                           *)
(***************************************************************************)

\* Mutant: the UPDATE has lost its WHERE status IN (...).
TransitionUnguarded(expected, s) == s

\* transition: the status after UPDATE ... WHERE status IN expected.
Transition(expected, s) == IF cr \in expected THEN s ELSE cr

\* create_from_step, called by the open-change-request step of the stage run.
Stage ==
  /\ cr = "none"
  /\ cr' = "staged"
  /\ UNCHANGED <<via, deployRun, error, requestVars, runVars, decided, crashes>>

\* approve, by a click or by a webhook of a repository with auto-deploy. The
\* loser of a race gets a conflict.
Approve(r, who) ==
  /\ pc[r] = "idle"
  /\ cr # "none"
  /\ cr' = Transition({"staged"}, "deploying")
  /\ IF cr = "staged"
       THEN /\ via' = who
            /\ revertTo' = [revertTo EXCEPT ![r] = "staged"]
            /\ GoTo(r, "won")
       ELSE GoTo(r, "done") /\ UNCHANGED <<via, revertTo>>
  /\ UNCHANGED <<deployRun, error, runVars, decided, crashes>>

\* mark_reviewed: a webhook of a repository without auto-deploy.
MarkReviewed(r) ==
  /\ pc[r] = "idle"
  /\ cr # "none"
  /\ cr' = Transition({"staged"}, "approved")
  /\ via' = IF cr = "staged" THEN "webhook" ELSE via
  /\ GoTo(r, "done")
  /\ UNCHANGED <<deployRun, error, revertTo, runVars, decided, crashes>>

\* deploy: the click on a request that a webhook marked reviewed.
Deploy(r) ==
  /\ pc[r] = "idle"
  /\ cr # "none"
  /\ cr' = Transition({"approved"}, "deploying")
  /\ IF cr = "approved"
       THEN /\ revertTo' = [revertTo EXCEPT ![r] = "approved"]
            /\ GoTo(r, "won")
       ELSE GoTo(r, "done") /\ UNCHANGED revertTo
  /\ UNCHANGED <<via, deployRun, error, runVars, decided, crashes>>

Reject ==
  /\ cr \in {"staged", "approved"}
  /\ cr' = Transition({"staged", "approved"}, "rejected")
  /\ UNCHANGED <<via, deployRun, error, requestVars, runVars, decided, crashes>>

\* expire_sweep: the row was listed because its deadline has passed, which for
\* this module may be at any time.
Expire ==
  /\ cr = "staged"
  /\ cr' = Transition({"staged"}, "expired")
  /\ UNCHANGED <<via, deployRun, error, requestVars, runVars, decided, crashes>>

------------------------------------------------------------------------------
(***************************************************************************)
(* _dispatch_deploy and the _create_and_dispatch_run it calls.             *)
(***************************************************************************)

\* The workflow has blocking validation errors: no run is created.
RefuseRun(r) ==
  /\ pc[r] = "won"
  /\ GoTo(r, "failing")
  /\ UNCHANGED <<rowVars, revertTo, runVars, decided, crashes>>

CreateRun(r) ==
  /\ pc[r] = "won"
  /\ run' = [run EXCEPT ![r] = "open"]
  /\ GoTo(r, "created")
  /\ UNCHANGED <<rowVars, revertTo, claimed, taken, did, succeeded, decided, crashes>>

\* run_no_wait: the engine has the run, even if the answer is lost and the call
\* raises.
EngineAccepts(r) ==
  /\ pc[r] = "created"
  /\ taken' = [taken EXCEPT ![r] = "yes"]
  /\ GoTo(r, "accepted") \/ GoTo(r, "raised")
  /\ UNCHANGED <<rowVars, revertTo, run, claimed, did, succeeded, decided, crashes>>

\* The breaker is open or the engine cannot be reached.
DispatchRaises(r) ==
  /\ pc[r] = "created"
  /\ GoTo(r, "raised")
  /\ UNCHANGED <<rowVars, revertTo, runVars, decided, crashes>>

\* record_hatchet_run_id; a run row that is gone raises.
RecordEngineId(r) ==
  /\ pc[r] = "accepted"
  /\ GoTo(r, IF run[r] = "deleted" THEN "raised" ELSE "returned")
  /\ UNCHANGED <<rowVars, revertTo, runVars, decided, crashes>>

\* Mutant: the run of a failed dispatch stays open.
FailedRunNever(r) == run[r]

\* Mutant: a run that ended is overwritten.
FailedRunAlways(r) == "failed"

\* update_run_status of a failed dispatch, refused on a run that has ended.
FailedRun(r) == IF run[r] = "open" THEN "failed" ELSE run[r]

MarkRunFailed(r) ==
  /\ pc[r] = "raised"
  /\ run' = [run EXCEPT ![r] = FailedRun(r)]
  /\ GoTo(r, "failing")
  /\ UNCHANGED <<rowVars, revertTo, claimed, taken, did, succeeded, decided, crashes>>

\* Mutant: the approval of a reverted request is kept.
RevertedViaKept(r) == via

\* The approval that remains after a revert: none when the request is staged
\* again.
RevertedVia(r) == IF revertTo[r] = "staged" THEN "none" ELSE via

\* The except clause: back to where the request was, to be clicked again.
Revert(r) ==
  /\ pc[r] = "failing"
  /\ cr' = Transition({"deploying"}, revertTo[r])
  /\ IF cr = "deploying"
       THEN via' = RevertedVia(r) /\ error' = "not_started"
       ELSE UNCHANGED <<via, error>>
  /\ GoTo(r, "done")
  /\ UNCHANGED <<deployRun, revertTo, runVars, decided, crashes>>

\* deploy_run_id is a plain field update; the foreign key refuses a run that
\* was deleted meanwhile, and that exception is not caught.
RecordRun(r) ==
  /\ pc[r] = "returned"
  /\ deployRun' = IF run[r] = "deleted" THEN deployRun ELSE r
  /\ GoTo(r, "done")
  /\ UNCHANGED <<cr, via, error, revertTo, runVars, decided, crashes>>

ApiCrash(r) ==
  /\ pc[r] \in InFlight
  /\ crashes < MaxCrashes
  /\ crashes' = crashes + 1
  /\ GoTo(r, "dead")
  /\ UNCHANGED <<rowVars, revertTo, runVars, decided>>

------------------------------------------------------------------------------
(***************************************************************************)
(* The deploy runs, as RunContract allows them to move. A worker claims a  *)
(* run only while its row is open, and executes the nodes of a run it has  *)
(* claimed although the row has ended.                                     *)
(***************************************************************************)

RunClaimed(r) ==
  /\ taken[r] = "yes"
  /\ run[r] = "open"
  /\ claimed[r] = "no"
  /\ claimed' = [claimed EXCEPT ![r] = "yes"]
  /\ UNCHANGED <<rowVars, requestVars, run, taken, did, succeeded, decided, crashes>>

RunExecutes(r, n) ==
  /\ claimed[r] = "yes"
  /\ did[r][n] = 0
  /\ did' = [did EXCEPT ![r][n] = 1]
  /\ UNCHANGED <<rowVars, requestVars, run, claimed, taken, succeeded, decided, crashes>>

\* The worker finishes the run.
RunSucceeds(r) ==
  /\ run[r] = "open"
  /\ claimed[r] = "yes"
  /\ \A n \in Nodes : did[r][n] = 1
  /\ run' = [run EXCEPT ![r] = "success"]
  /\ succeeded' = succeeded \cup {r}
  /\ UNCHANGED <<rowVars, requestVars, claimed, taken, did, decided, crashes>>

\* The worker, the reaper or an operator ends it otherwise.
RunFails(r, o) ==
  /\ run[r] = "open"
  /\ run' = [run EXCEPT ![r] = o]
  /\ UNCHANGED <<rowVars, requestVars, claimed, taken, did, succeeded, decided, crashes>>

\* Deleted by an operator or the retention; deploy_run_id is ON DELETE SET NULL.
RunDeleted(r) ==
  /\ run[r] \in Ended
  /\ run' = [run EXCEPT ![r] = "deleted"]
  /\ deployRun' = IF deployRun = r THEN NoRun ELSE deployRun
  /\ UNCHANGED <<cr, via, error, requestVars, claimed, taken, did, succeeded, decided,
                 crashes>>

------------------------------------------------------------------------------
(***************************************************************************)
(* reconcile.                                                              *)
(***************************************************************************)

\* The 15 minutes a "deploying" request without a run id is given. A dispatch
\* that is under way takes seconds.
GracePassed == \A r \in Requests : pc[r] \notin InFlight

\* Mutant: the comparison with the run's status is swapped.
DecisionSwapped ==
  IF deployRun = NoRun THEN (IF GracePassed THEN "failed" ELSE "nothing")
  ELSE IF run[deployRun] = "open" THEN "nothing"
  ELSE IF run[deployRun] = "success" THEN "failed" ELSE "deployed"

\* Mutant: the run's status is copied.
DecisionCopied ==
  IF deployRun = NoRun THEN (IF GracePassed THEN "failed" ELSE "nothing")
  ELSE IF run[deployRun] = "open" THEN "nothing" ELSE run[deployRun]

\* Mutant: a request without a run id is left alone.
DecisionWaits ==
  IF deployRun = NoRun THEN "nothing"
  ELSE IF run[deployRun] = "success" THEN "deployed"
  ELSE IF run[deployRun] = "open" THEN "nothing" ELSE "failed"

\* What reconcile reads off the row and its run.
Decision ==
  IF deployRun = NoRun THEN (IF GracePassed THEN "failed" ELSE "nothing")
  ELSE IF run[deployRun] = "success" THEN "deployed"
  ELSE IF run[deployRun] = "open" THEN "nothing" ELSE "failed"

ReconcileReads(c) ==
  /\ decided[c] = "nothing"
  /\ cr = "deploying"
  /\ Decision # "nothing"
  /\ decided' = [decided EXCEPT ![c] = Decision]
  /\ UNCHANGED <<rowVars, requestVars, runVars, crashes>>

\* The guarded write, whatever has happened since.
ReconcileWrites(c) ==
  /\ decided[c] # "nothing"
  /\ cr' = Transition({"deploying"}, decided[c])
  /\ error' = IF cr = "deploying" /\ decided[c] = "failed" THEN "run" ELSE error
  /\ decided' = [decided EXCEPT ![c] = "nothing"]
  /\ UNCHANGED <<via, deployRun, requestVars, runVars, crashes>>

------------------------------------------------------------------------------
Dispatch(r) ==
  \/ RefuseRun(r) \/ CreateRun(r) \/ EngineAccepts(r) \/ DispatchRaises(r)
  \/ RecordEngineId(r) \/ MarkRunFailed(r) \/ Revert(r) \/ RecordRun(r)

Review(r) ==
  (\E who \in {"ui", "webhook"} : Approve(r, who)) \/ MarkReviewed(r) \/ Deploy(r)

RunEnds(r) == RunSucceeds(r) \/ \E o \in {"failed", "cancelled"} : RunFails(r, o)

Next ==
  \/ Stage \/ Reject \/ Expire
  \/ \E r \in Requests :
       \/ Review(r) \/ Dispatch(r) \/ ApiCrash(r)
       \/ RunClaimed(r) \/ RunEnds(r) \/ RunDeleted(r)
       \/ \E n \in Nodes : RunExecutes(r, n)
  \/ \E c \in Reconcilers : ReconcileReads(c) \/ ReconcileWrites(c)

Spec == Init /\ [][Next]_vars

(***************************************************************************)
(* Fairness: a handler that was started goes on, a run the engine took     *)
(* ends (RunLifecycle!EveryRunEnds; one whose engine id was recorded is    *)
(* never orphaned), and the daily sweep keeps reconciling.                 *)
(***************************************************************************)
FairSpec ==
  /\ Spec
  /\ \A r \in Requests : WF_vars(Dispatch(r)) /\ WF_vars(RunEnds(r) /\ deployRun = r)
  /\ \A c \in Reconcilers : WF_vars(ReconcileReads(c)) /\ WF_vars(ReconcileWrites(c))

------------------------------------------------------------------------------
(***************************************************************************)
(* Properties.                                                             *)
(***************************************************************************)

\* A request is only shown as deployed if the run it points to (or pointed to,
\* before it was deleted) really reported success, however stale what a
\* reconciler has read.
DeployedIsHonest ==
  cr = "deployed" =>
    \E r \in succeeded : deployRun = r \/ (deployRun = NoRun /\ run[r] = "deleted")

\* A click and a webhook that race, retries after a failed dispatch and crashed
\* handlers never leave two deploy runs of one request open together.
OneOpenDeploy ==
  \A r, s \in Requests : run[r] = "open" /\ run[s] = "open" => r = s

\* While a reviewer can still decide, or has declined, no deploy run is open
\* behind his back: a revert happens only after the run was marked failed.
NoDeployBehindTheReviewer ==
  cr \in {"staged", "approved", "rejected", "expired"} =>
    \A r \in Requests : run[r] # "open"

\* The approval that is shown belongs to the present status: a staged or expired
\* request carries none, one that was approved or deployed carries one.
ApprovalMatchesStatus ==
  /\ cr \in {"staged", "expired"} => via = "none"
  /\ cr \in {"approved", "deploying", "deployed", "failed"} => via # "none"

\* A settled request never moves again, whichever handler or reconciler is late.
SettledStays == [][(cr \in Settled) => (cr' = cr)]_vars

Run(r) == INSTANCE RunContract WITH outcome <- run[r], did <- did[r]

\* Every deploy run, the one of a failed dispatch too, keeps the run contract.
RunsKeepContract ==
  /\ \A r \in Requests : Run(r)!Init
  /\ [][\A r \in Requests : Run(r)!Next \/ UNCHANGED <<run[r], did[r]>>]_vars

\* No request stays "deploying": a run that ended, was deleted or was never
\* recorded settles it in the end, also when the handler died.
DeployEnds == cr = "deploying" ~> cr # "deploying"

\* "The deploy run could not be started; try again": nothing has been executed.
TryAgainIsSafe ==
  cr \in {"staged", "approved"} /\ error = "not_started" =>
    \A r \in Requests : \A n \in Nodes : did[r][n] = 0
==============================================================================
