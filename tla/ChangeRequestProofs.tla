------------------------- MODULE ChangeRequestProofs -------------------------
(***************************************************************************)
(* Proofs about ChangeRequest, for any number of requests, reconcilers,    *)
(* nodes and crashes.                                                      *)
(***************************************************************************)
EXTENDS ChangeRequest, TLAPS

USE NoRunAssumption, CrashAssumption

------------------------------------------------------------------------------
(***************************************************************************)
(* The inductive invariant.                                                *)
(***************************************************************************)

\* Before anybody can win the request for a deployment, and after it was
\* declined.
Reviewable == {"none", "staged", "approved", "rejected", "expired"}

\* A handler that is dispatching has the request to itself: it is "deploying",
\* no run is recorded, and no reconciler has anything to write.
Exclusive ==
  \A r \in Requests : pc[r] \in InFlight =>
    /\ cr = "deploying"
    /\ deployRun = NoRun
    /\ \A c \in Reconcilers : decided[c] = "nothing"
    /\ \A s \in Requests : pc[s] \in InFlight => s = r

\* While the request can be reviewed nothing is left over that could settle it.
Unclaimed ==
  cr \in Reviewable =>
    /\ deployRun = NoRun
    /\ \A c \in Reconcilers : decided[c] = "nothing"

\* A handler has a run from CreateRun on, and none that is open when it reverts.
\* An open run that is not the one being dispatched does not exist meanwhile.
OpenRuns ==
  /\ \A r \in Requests : pc[r] \in {"idle", "won"} => run[r] = "none"
  /\ \A r \in Requests : pc[r] = "failing" => run[r] # "open"
  /\ \A r, s \in Requests : pc[r] \in InFlight /\ run[s] = "open" => s = r
  /\ cr \in Reviewable => \A r \in Requests : run[r] # "open"
  /\ OneOpenDeploy

\* What is known of a run: an executor needs a run, and success is remembered.
RunFacts ==
  \A r \in Requests :
    /\ claimed[r] = "yes" => run[r] # "none"
    /\ run[r] = "success" => r \in succeeded

\* The evidence a request is shown as deployed on.
Evidence ==
  \E r \in succeeded : deployRun = r \/ (deployRun = NoRun /\ run[r] = "deleted")

\* A reconciler that has decided "deployed" keeps its evidence until it writes.
Deployments ==
  /\ \A c \in Reconcilers : decided[c] = "deployed" => Evidence
  /\ cr = "deployed" => Evidence

\* The approval that is shown, and none before the request was staged.
Approvals == ApprovalMatchesStatus /\ (cr = "none" => via = "none")

IInv ==
  /\ TypeOK
  /\ Exclusive /\ Unclaimed /\ OpenRuns /\ RunFacts /\ Deployments /\ Approvals

\* A step is one of these; the proofs below take them one by one.
LEMMA Steps ==
  ASSUME [Next]_vars
  PROVE  \/ Stage \/ Reject \/ Expire
         \/ \E r \in Requests :
              \/ \E who \in {"ui", "webhook"} : Approve(r, who)
              \/ MarkReviewed(r) \/ Deploy(r)
              \/ RefuseRun(r) \/ CreateRun(r) \/ EngineAccepts(r) \/ DispatchRaises(r)
              \/ RecordEngineId(r) \/ MarkRunFailed(r) \/ Revert(r) \/ RecordRun(r)
              \/ ApiCrash(r) \/ RunClaimed(r) \/ RunSucceeds(r) \/ RunDeleted(r)
              \/ \E o \in {"failed", "cancelled"} : RunFails(r, o)
              \/ \E n \in Nodes : RunExecutes(r, n)
         \/ \E c \in Reconcilers : ReconcileReads(c) \/ ReconcileWrites(c)
         \/ UNCHANGED vars
  BY DEF Next, Review, Dispatch, RunEnds

------------------------------------------------------------------------------
(***************************************************************************)
(* Type correctness.                                                       *)
(***************************************************************************)

\* The variables always hold values of their types: the columns of the change
\* request and the places of its handlers and reconcilers.
THEOREM TypeCorrect == Spec => []TypeOK
<1>1. Init => TypeOK
  BY DEF Init, TypeOK
<1>2. TypeOK /\ [Next]_vars => TypeOK'
  <2> SUFFICES ASSUME TypeOK, [Next]_vars PROVE TypeOK'
    OBVIOUS
  <2> USE DEF TypeOK, rowVars, requestVars, runVars, Settled, Ended
  <2>1. CASE Stage \/ Reject \/ Expire
    BY <2>1 DEF Stage, Reject, Expire, Transition
  <2>2. ASSUME NEW r \in Requests, NEW who \in {"ui", "webhook"}, Approve(r, who)
        PROVE  TypeOK'
    BY <2>2 DEF Approve, Transition, GoTo, InFlight
  <2>3. ASSUME NEW r \in Requests, MarkReviewed(r) \/ Deploy(r)
        PROVE  TypeOK'
    BY <2>3 DEF MarkReviewed, Deploy, Transition, GoTo, InFlight
  <2>4. ASSUME NEW r \in Requests,
               RefuseRun(r) \/ CreateRun(r) \/ EngineAccepts(r) \/ DispatchRaises(r)
        PROVE  TypeOK'
    BY <2>4 DEF RefuseRun, CreateRun, EngineAccepts, DispatchRaises, GoTo, InFlight
  <2>5. ASSUME NEW r \in Requests, RecordEngineId(r) \/ MarkRunFailed(r) \/ RecordRun(r)
        PROVE  TypeOK'
    BY <2>5 DEF RecordEngineId, MarkRunFailed, FailedRun, RecordRun, GoTo, InFlight
  <2>6. ASSUME NEW r \in Requests, Revert(r)
        PROVE  TypeOK'
    BY <2>6 DEF Revert, Transition, RevertedVia, GoTo
  <2>7. ASSUME NEW r \in Requests, ApiCrash(r)
        PROVE  TypeOK'
    BY <2>7 DEF ApiCrash, GoTo
  <2>8. ASSUME NEW r \in Requests, RunClaimed(r) \/ RunSucceeds(r) \/ RunDeleted(r)
        PROVE  TypeOK'
    BY <2>8 DEF RunClaimed, RunSucceeds, RunDeleted
  <2>9. ASSUME NEW r \in Requests, NEW o \in {"failed", "cancelled"}, RunFails(r, o)
        PROVE  TypeOK'
    BY <2>9 DEF RunFails
  <2>10. ASSUME NEW r \in Requests, NEW n \in Nodes, RunExecutes(r, n)
         PROVE  TypeOK'
    BY <2>10 DEF RunExecutes
  <2>11. ASSUME NEW c \in Reconcilers, ReconcileReads(c)
         PROVE  TypeOK'
    BY <2>11 DEF ReconcileReads, Decision
  <2>12. ASSUME NEW c \in Reconcilers, ReconcileWrites(c)
         PROVE  TypeOK'
    BY <2>12 DEF ReconcileWrites, Transition
  <2>13. CASE UNCHANGED vars
    BY <2>13 DEF vars
  <2> QED
    BY <2>1, <2>2, <2>3, <2>4, <2>5, <2>6, <2>7, <2>8, <2>9, <2>10, <2>11, <2>12,
       <2>13, Steps
<1> QED
  BY <1>1, <1>2, PTL DEF Spec

------------------------------------------------------------------------------
(***************************************************************************)
(* Who may settle the request.                                             *)
(***************************************************************************)

\* A handler in flight stays alone, and a reviewable request unclaimed: a
\* reconciler decides without a recorded run only when no handler is in flight,
\* and only a handler in flight records one.
LEMMA ExclusiveStep ==
  ASSUME TypeOK, Exclusive, Unclaimed, [Next]_vars
  PROVE  Exclusive' /\ Unclaimed'
<1> USE DEF TypeOK, Exclusive, Unclaimed, Reviewable, InFlight, rowVars, requestVars,
            runVars, Settled
<1>1. CASE Stage \/ Reject \/ Expire
  BY <1>1 DEF Stage, Reject, Expire, Transition
<1>2. ASSUME NEW r \in Requests, NEW who \in {"ui", "webhook"}, Approve(r, who)
      PROVE  Exclusive' /\ Unclaimed'
  BY <1>2 DEF Approve, Transition, GoTo
<1>3. ASSUME NEW r \in Requests, MarkReviewed(r) \/ Deploy(r)
      PROVE  Exclusive' /\ Unclaimed'
  BY <1>3 DEF MarkReviewed, Deploy, Transition, GoTo
<1>4. ASSUME NEW r \in Requests,
             RefuseRun(r) \/ CreateRun(r) \/ EngineAccepts(r) \/ DispatchRaises(r)
      PROVE  Exclusive' /\ Unclaimed'
  BY <1>4 DEF RefuseRun, CreateRun, EngineAccepts, DispatchRaises, GoTo
<1>5. ASSUME NEW r \in Requests, RecordEngineId(r) \/ MarkRunFailed(r) \/ RecordRun(r)
      PROVE  Exclusive' /\ Unclaimed'
  <2>1. CASE RecordEngineId(r)
    BY <2>1 DEF RecordEngineId, GoTo
  <2>2. CASE MarkRunFailed(r)
    BY <2>2 DEF MarkRunFailed, GoTo
  <2>3. CASE RecordRun(r)
    BY <2>3 DEF RecordRun, GoTo
  <2> QED
    BY <1>5, <2>1, <2>2, <2>3
<1>6. ASSUME NEW r \in Requests, Revert(r)
      PROVE  Exclusive' /\ Unclaimed'
  BY <1>6 DEF Revert, Transition, GoTo
<1>7. ASSUME NEW r \in Requests, ApiCrash(r)
      PROVE  Exclusive' /\ Unclaimed'
  BY <1>7 DEF ApiCrash, GoTo
<1>8. ASSUME NEW r \in Requests, RunClaimed(r) \/ RunSucceeds(r) \/ RunDeleted(r)
      PROVE  Exclusive' /\ Unclaimed'
  BY <1>8 DEF RunClaimed, RunSucceeds, RunDeleted
<1>9. ASSUME NEW r \in Requests, NEW o \in {"failed", "cancelled"}, RunFails(r, o)
      PROVE  Exclusive' /\ Unclaimed'
  BY <1>9 DEF RunFails
<1>10. ASSUME NEW r \in Requests, NEW n \in Nodes, RunExecutes(r, n)
       PROVE  Exclusive' /\ Unclaimed'
  BY <1>10 DEF RunExecutes
<1>11. ASSUME NEW c \in Reconcilers, ReconcileReads(c)
       PROVE  Exclusive' /\ Unclaimed'
  BY <1>11 DEF ReconcileReads, Decision, GracePassed
<1>12. ASSUME NEW c \in Reconcilers, ReconcileWrites(c)
       PROVE  Exclusive' /\ Unclaimed'
  BY <1>12 DEF ReconcileWrites, Transition
<1>13. CASE UNCHANGED vars
  BY <1>13 DEF vars
<1> QED
  BY <1>1, <1>2, <1>3, <1>4, <1>5, <1>6, <1>7, <1>8, <1>9, <1>10, <1>11, <1>12, <1>13,
     Steps

\* No two runs are open: a handler creates its run when it is alone and none is
\* open, and reverts after its own was marked failed.
LEMMA OpenRunsStep ==
  ASSUME TypeOK, Exclusive, Unclaimed, OpenRuns, RunFacts, [Next]_vars
  PROVE  OpenRuns' /\ RunFacts'
<1> USE DEF TypeOK, Exclusive, Unclaimed, OpenRuns, RunFacts, OneOpenDeploy, Reviewable,
            InFlight, rowVars, requestVars, runVars, Settled
<1>1. CASE Stage \/ Reject \/ Expire
  BY <1>1 DEF Stage, Reject, Expire, Transition
<1>2. ASSUME NEW r \in Requests, NEW who \in {"ui", "webhook"}, Approve(r, who)
      PROVE  OpenRuns' /\ RunFacts'
  BY <1>2 DEF Approve, Transition, GoTo
<1>3. ASSUME NEW r \in Requests,
             MarkReviewed(r) \/ Deploy(r)
      PROVE  OpenRuns' /\ RunFacts'
  <2>1. CASE MarkReviewed(r)
    BY <2>1 DEF MarkReviewed, Transition, GoTo
  <2>2. CASE Deploy(r)
    BY <2>2 DEF Deploy, Transition, GoTo
  <2> QED
    BY <1>3, <2>1, <2>2
<1>4. ASSUME NEW r \in Requests,
             RefuseRun(r) \/ CreateRun(r) \/ EngineAccepts(r) \/ DispatchRaises(r)
      PROVE  OpenRuns' /\ RunFacts'
  <2>1. CASE RefuseRun(r)
    BY <2>1 DEF RefuseRun, GoTo
  <2>2. CASE CreateRun(r)
    BY <2>2 DEF CreateRun, GoTo
  <2>3. CASE EngineAccepts(r)
    BY <2>3 DEF EngineAccepts, GoTo
  <2>4. CASE DispatchRaises(r)
    BY <2>4 DEF DispatchRaises, GoTo
  <2> QED
    BY <1>4, <2>1, <2>2, <2>3, <2>4
<1>5. ASSUME NEW r \in Requests,
             RecordEngineId(r) \/ MarkRunFailed(r) \/ RecordRun(r)
      PROVE  OpenRuns' /\ RunFacts'
  <2>1. CASE RecordEngineId(r)
    BY <2>1 DEF RecordEngineId, GoTo
  <2>2. CASE MarkRunFailed(r)
    BY <2>2 DEF MarkRunFailed, GoTo, FailedRun
  <2>3. CASE RecordRun(r)
    BY <2>3 DEF RecordRun, GoTo
  <2> QED
    BY <1>5, <2>1, <2>2, <2>3
<1>6. ASSUME NEW r \in Requests, Revert(r)
      PROVE  OpenRuns' /\ RunFacts'
  BY <1>6 DEF Revert, Transition, GoTo, RevertedVia
<1>7. ASSUME NEW r \in Requests, ApiCrash(r)
      PROVE  OpenRuns' /\ RunFacts'
  BY <1>7 DEF ApiCrash, GoTo
<1>8. ASSUME NEW r \in Requests,
             RunClaimed(r) \/ RunSucceeds(r) \/ RunDeleted(r)
      PROVE  OpenRuns' /\ RunFacts'
  <2>1. CASE RunClaimed(r)
    BY <2>1 DEF RunClaimed
  <2>2. CASE RunSucceeds(r)
    BY <2>2 DEF RunSucceeds
  <2>3. CASE RunDeleted(r)
    BY <2>3 DEF RunDeleted, Ended
  <2> QED
    BY <1>8, <2>1, <2>2, <2>3
<1>9. ASSUME NEW r \in Requests, NEW o \in {"failed", "cancelled"}, RunFails(r, o)
      PROVE  OpenRuns' /\ RunFacts'
  BY <1>9 DEF RunFails
<1>10. ASSUME NEW r \in Requests, NEW n \in Nodes, RunExecutes(r, n)
      PROVE  OpenRuns' /\ RunFacts'
  BY <1>10 DEF RunExecutes
<1>11. ASSUME NEW c \in Reconcilers, ReconcileReads(c)
      PROVE  OpenRuns' /\ RunFacts'
  BY <1>11 DEF ReconcileReads, Decision, GracePassed
<1>12. ASSUME NEW c \in Reconcilers, ReconcileWrites(c)
      PROVE  OpenRuns' /\ RunFacts'
  BY <1>12 DEF ReconcileWrites, Transition
<1>13. CASE UNCHANGED vars
  BY <1>13 DEF vars
<1> QED
  BY <1>1, <1>2, <1>3, <1>4, <1>5, <1>6, <1>7, <1>8, <1>9, <1>10, <1>11, <1>12, <1>13,
     Steps

\* The evidence of a deployment outlives stale reconcilers and the deletion of
\* the run.
LEMMA DeploymentsStep ==
  ASSUME TypeOK, Exclusive, Unclaimed, RunFacts, Deployments, [Next]_vars
  PROVE  Deployments'
<1> USE DEF TypeOK, Exclusive, Unclaimed, RunFacts, Deployments, Evidence, Reviewable,
            InFlight, rowVars, requestVars, runVars, Settled
<1>1. CASE Stage \/ Reject \/ Expire
  BY <1>1 DEF Stage, Reject, Expire, Transition
<1>2. ASSUME NEW r \in Requests, NEW who \in {"ui", "webhook"}, Approve(r, who)
      PROVE  Deployments'
  BY <1>2 DEF Approve, Transition, GoTo
<1>3. ASSUME NEW r \in Requests,
             MarkReviewed(r) \/ Deploy(r)
      PROVE  Deployments'
  <2>1. CASE MarkReviewed(r)
    BY <2>1 DEF MarkReviewed, Transition, GoTo
  <2>2. CASE Deploy(r)
    BY <2>2 DEF Deploy, Transition, GoTo
  <2> QED
    BY <1>3, <2>1, <2>2
<1>4. ASSUME NEW r \in Requests,
             RefuseRun(r) \/ CreateRun(r) \/ EngineAccepts(r) \/ DispatchRaises(r)
      PROVE  Deployments'
  <2>1. CASE RefuseRun(r)
    BY <2>1 DEF RefuseRun, GoTo
  <2>2. CASE CreateRun(r)
    BY <2>2 DEF CreateRun, GoTo
  <2>3. CASE EngineAccepts(r)
    BY <2>3 DEF EngineAccepts, GoTo
  <2>4. CASE DispatchRaises(r)
    BY <2>4 DEF DispatchRaises, GoTo
  <2> QED
    BY <1>4, <2>1, <2>2, <2>3, <2>4
<1>5. ASSUME NEW r \in Requests,
             RecordEngineId(r) \/ MarkRunFailed(r) \/ RecordRun(r)
      PROVE  Deployments'
  <2>1. CASE RecordEngineId(r)
    BY <2>1 DEF RecordEngineId, GoTo
  <2>2. CASE MarkRunFailed(r)
    BY <2>2 DEF MarkRunFailed, GoTo, FailedRun
  <2>3. CASE RecordRun(r)
    BY <2>3 DEF RecordRun, GoTo
  <2> QED
    BY <1>5, <2>1, <2>2, <2>3
<1>6. ASSUME NEW r \in Requests, Revert(r)
      PROVE  Deployments'
  BY <1>6 DEF Revert, Transition, GoTo, RevertedVia
<1>7. ASSUME NEW r \in Requests, ApiCrash(r)
      PROVE  Deployments'
  BY <1>7 DEF ApiCrash, GoTo
<1>8. ASSUME NEW r \in Requests,
             RunClaimed(r) \/ RunSucceeds(r) \/ RunDeleted(r)
      PROVE  Deployments'
  <2>1. CASE RunClaimed(r)
    BY <2>1 DEF RunClaimed
  <2>2. CASE RunSucceeds(r)
    BY <2>2 DEF RunSucceeds
  <2>3. CASE RunDeleted(r)
    BY <2>3 DEF RunDeleted, Ended
  <2> QED
    BY <1>8, <2>1, <2>2, <2>3
<1>9. ASSUME NEW r \in Requests, NEW o \in {"failed", "cancelled"}, RunFails(r, o)
      PROVE  Deployments'
  BY <1>9 DEF RunFails
<1>10. ASSUME NEW r \in Requests, NEW n \in Nodes, RunExecutes(r, n)
      PROVE  Deployments'
  BY <1>10 DEF RunExecutes
<1>11. ASSUME NEW c \in Reconcilers, ReconcileReads(c)
      PROVE  Deployments'
  BY <1>11 DEF ReconcileReads, Decision, GracePassed
<1>12. ASSUME NEW c \in Reconcilers, ReconcileWrites(c)
      PROVE  Deployments'
  BY <1>12 DEF ReconcileWrites, Transition
<1>13. CASE UNCHANGED vars
  BY <1>13 DEF vars
<1> QED
  BY <1>1, <1>2, <1>3, <1>4, <1>5, <1>6, <1>7, <1>8, <1>9, <1>10, <1>11, <1>12, <1>13,
     Steps

\* The approval follows the status, also through a revert.
LEMMA ApprovalsStep ==
  ASSUME TypeOK, Exclusive, Unclaimed, Approvals, [Next]_vars
  PROVE  Approvals'
<1> USE DEF TypeOK, Exclusive, Unclaimed, Approvals, ApprovalMatchesStatus, Reviewable,
            InFlight, rowVars, requestVars, runVars, Settled
<1>1. CASE Stage \/ Reject \/ Expire
  BY <1>1 DEF Stage, Reject, Expire, Transition
<1>2. ASSUME NEW r \in Requests, NEW who \in {"ui", "webhook"}, Approve(r, who)
      PROVE  Approvals'
  BY <1>2 DEF Approve, Transition, GoTo
<1>3. ASSUME NEW r \in Requests,
             MarkReviewed(r) \/ Deploy(r)
      PROVE  Approvals'
  <2>1. CASE MarkReviewed(r)
    BY <2>1 DEF MarkReviewed, Transition, GoTo
  <2>2. CASE Deploy(r)
    BY <2>2 DEF Deploy, Transition, GoTo
  <2> QED
    BY <1>3, <2>1, <2>2
<1>4. ASSUME NEW r \in Requests,
             RefuseRun(r) \/ CreateRun(r) \/ EngineAccepts(r) \/ DispatchRaises(r)
      PROVE  Approvals'
  <2>1. CASE RefuseRun(r)
    BY <2>1 DEF RefuseRun, GoTo
  <2>2. CASE CreateRun(r)
    BY <2>2 DEF CreateRun, GoTo
  <2>3. CASE EngineAccepts(r)
    BY <2>3 DEF EngineAccepts, GoTo
  <2>4. CASE DispatchRaises(r)
    BY <2>4 DEF DispatchRaises, GoTo
  <2> QED
    BY <1>4, <2>1, <2>2, <2>3, <2>4
<1>5. ASSUME NEW r \in Requests,
             RecordEngineId(r) \/ MarkRunFailed(r) \/ RecordRun(r)
      PROVE  Approvals'
  <2>1. CASE RecordEngineId(r)
    BY <2>1 DEF RecordEngineId, GoTo
  <2>2. CASE MarkRunFailed(r)
    BY <2>2 DEF MarkRunFailed, GoTo, FailedRun
  <2>3. CASE RecordRun(r)
    BY <2>3 DEF RecordRun, GoTo
  <2> QED
    BY <1>5, <2>1, <2>2, <2>3
<1>6. ASSUME NEW r \in Requests, Revert(r)
      PROVE  Approvals'
  BY <1>6 DEF Revert, Transition, GoTo, RevertedVia
<1>7. ASSUME NEW r \in Requests, ApiCrash(r)
      PROVE  Approvals'
  BY <1>7 DEF ApiCrash, GoTo
<1>8. ASSUME NEW r \in Requests,
             RunClaimed(r) \/ RunSucceeds(r) \/ RunDeleted(r)
      PROVE  Approvals'
  <2>1. CASE RunClaimed(r)
    BY <2>1 DEF RunClaimed
  <2>2. CASE RunSucceeds(r)
    BY <2>2 DEF RunSucceeds
  <2>3. CASE RunDeleted(r)
    BY <2>3 DEF RunDeleted, Ended
  <2> QED
    BY <1>8, <2>1, <2>2, <2>3
<1>9. ASSUME NEW r \in Requests, NEW o \in {"failed", "cancelled"}, RunFails(r, o)
      PROVE  Approvals'
  BY <1>9 DEF RunFails
<1>10. ASSUME NEW r \in Requests, NEW n \in Nodes, RunExecutes(r, n)
      PROVE  Approvals'
  BY <1>10 DEF RunExecutes
<1>11. ASSUME NEW c \in Reconcilers, ReconcileReads(c)
      PROVE  Approvals'
  BY <1>11 DEF ReconcileReads, Decision, GracePassed
<1>12. ASSUME NEW c \in Reconcilers, ReconcileWrites(c)
      PROVE  Approvals'
  BY <1>12 DEF ReconcileWrites, Transition
<1>13. CASE UNCHANGED vars
  BY <1>13 DEF vars
<1> QED
  BY <1>1, <1>2, <1>3, <1>4, <1>5, <1>6, <1>7, <1>8, <1>9, <1>10, <1>11, <1>12, <1>13,
     Steps

------------------------------------------------------------------------------
(***************************************************************************)
(* The theorems.                                                           *)
(***************************************************************************)

\* A request starts in the invariant.
LEMMA InitIInv ==
  ASSUME Init
  PROVE  Exclusive /\ Unclaimed /\ OpenRuns /\ RunFacts /\ Deployments /\ Approvals
<1>1. Exclusive /\ Unclaimed
  BY DEF Init, Exclusive, Unclaimed, InFlight
<1>2. OpenRuns /\ RunFacts
  BY DEF Init, OpenRuns, RunFacts, OneOpenDeploy
<1>3. Deployments /\ Approvals
  BY DEF Init, Deployments, Approvals, ApprovalMatchesStatus
<1> QED
  BY <1>1, <1>2, <1>3

\* IInv holds in every reachable state: handlers in flight are alone, and what
\* reconcilers have read stays true until they write.
THEOREM InductiveInvariant == Spec => []IInv
<1>1. Init => Exclusive /\ Unclaimed /\ OpenRuns /\ RunFacts /\ Deployments /\ Approvals
  BY InitIInv
<1>2. IInv /\ [Next]_vars =>
        Exclusive' /\ Unclaimed' /\ OpenRuns' /\ RunFacts' /\ Deployments' /\ Approvals'
  BY ExclusiveStep, OpenRunsStep, DeploymentsStep, ApprovalsStep DEF IInv
<1> QED
  BY <1>1, <1>2, TypeCorrect, PTL DEF Spec, IInv

\* However clicks, webhooks, retries and crashes overlap (approve, deploy,
\* _dispatch_deploy), at most one deploy run of a request is open, and none is
\* while the request can be reviewed or was declined.
THEOREM OneOpenDeployHolds == Spec => [](OneOpenDeploy /\ NoDeployBehindTheReviewer)
<1>1. IInv => OneOpenDeploy /\ NoDeployBehindTheReviewer
  BY DEF IInv, OpenRuns, NoDeployBehindTheReviewer, Reviewable
<1> QED
  BY <1>1, InductiveInvariant, PTL

\* A request is shown as deployed only on a run that reported success, although
\* reconcile writes what it has read before.
THEOREM DeployedIsHonestHolds == Spec => []DeployedIsHonest
<1>1. IInv => DeployedIsHonest
  BY DEF IInv, Deployments, Evidence, DeployedIsHonest
<1> QED
  BY <1>1, InductiveInvariant, PTL

\* The approval that is shown belongs to the present status, also after a failed
\* dispatch has put the request back.
THEOREM ApprovalMatchesStatusHolds == Spec => []ApprovalMatchesStatus
<1>1. IInv => ApprovalMatchesStatus
  BY DEF IInv, Approvals
<1> QED
  BY <1>1, InductiveInvariant, PTL

\* No late handler, webhook, sweep or reconciler moves a settled request.
THEOREM SettledStaysHolds == Spec => SettledStays
<1>1. [Next]_vars => [(cr \in Settled) => (cr' = cr)]_vars
  <2> SUFFICES ASSUME [Next]_vars, cr \in Settled PROVE cr' = cr
    OBVIOUS
  <2> USE DEF Settled, Transition, rowVars
  <2>1. CASE Stage \/ Reject \/ Expire \/ UNCHANGED vars
    BY <2>1 DEF Stage, Reject, Expire, vars
  <2>2. ASSUME NEW r \in Requests,
               \/ \E who \in {"ui", "webhook"} : Approve(r, who)
               \/ MarkReviewed(r) \/ Deploy(r) \/ Revert(r) \/ RecordRun(r)
        PROVE  cr' = cr
    BY <2>2 DEF Approve, MarkReviewed, Deploy, Revert, RecordRun
  <2>3. ASSUME NEW r \in Requests,
               \/ RefuseRun(r) \/ CreateRun(r) \/ EngineAccepts(r) \/ DispatchRaises(r)
               \/ RecordEngineId(r) \/ MarkRunFailed(r) \/ ApiCrash(r)
        PROVE  cr' = cr
    BY <2>3 DEF RefuseRun, CreateRun, EngineAccepts, DispatchRaises, RecordEngineId,
                MarkRunFailed, ApiCrash
  <2>4. ASSUME NEW r \in Requests,
               \/ RunClaimed(r) \/ RunSucceeds(r) \/ RunDeleted(r)
               \/ \E o \in {"failed", "cancelled"} : RunFails(r, o)
               \/ \E n \in Nodes : RunExecutes(r, n)
        PROVE  cr' = cr
    BY <2>4 DEF RunClaimed, RunSucceeds, RunDeleted, RunFails, RunExecutes
  <2>5. ASSUME NEW c \in Reconcilers, ReconcileReads(c) \/ ReconcileWrites(c)
        PROVE  cr' = cr
    BY <2>5 DEF ReconcileReads, ReconcileWrites
  <2> QED
    BY <2>1, <2>2, <2>3, <2>4, <2>5, Steps
<1> QED
  BY <1>1, PTL DEF Spec, SettledStays

\* One deploy run: every step of the request is a step of its contract or leaves
\* it alone.
LEMMA RunStep ==
  ASSUME IInv, [Next]_vars, NEW q \in Requests
  PROVE  Run(q)!Next \/ UNCHANGED <<run[q], did[q]>>
<1> USE DEF IInv, TypeOK, rowVars, requestVars, runVars, Ended
<1>1. CASE Stage \/ Reject \/ Expire \/ UNCHANGED vars
  BY <1>1 DEF Stage, Reject, Expire, vars
<1>2. ASSUME NEW r \in Requests,
             \/ \E who \in {"ui", "webhook"} : Approve(r, who)
             \/ MarkReviewed(r) \/ Deploy(r) \/ Revert(r) \/ RecordRun(r)
      PROVE  UNCHANGED <<run[q], did[q]>>
  BY <1>2 DEF Approve, MarkReviewed, Deploy, Revert, RecordRun
<1>3. ASSUME NEW r \in Requests,
             \/ RefuseRun(r) \/ EngineAccepts(r) \/ DispatchRaises(r)
             \/ RecordEngineId(r) \/ ApiCrash(r) \/ RunClaimed(r)
      PROVE  UNCHANGED <<run[q], did[q]>>
  BY <1>3 DEF RefuseRun, EngineAccepts, DispatchRaises, RecordEngineId, ApiCrash,
              RunClaimed
<1>4. ASSUME NEW r \in Requests, CreateRun(r)
      PROVE  Run(q)!Create \/ UNCHANGED <<run[q], did[q]>>
  BY <1>4 DEF CreateRun, Run!Create, OpenRuns
<1>5. ASSUME NEW r \in Requests, MarkRunFailed(r)
      PROVE  Run(q)!End("failed") \/ UNCHANGED <<run[q], did[q]>>
  BY <1>5 DEF MarkRunFailed, FailedRun, Run!End
<1>6. ASSUME NEW r \in Requests, RunSucceeds(r)
      PROVE  Run(q)!End("success") \/ UNCHANGED <<run[q], did[q]>>
  BY <1>6 DEF RunSucceeds, Run!End
<1>7. ASSUME NEW r \in Requests, NEW o \in {"failed", "cancelled"}, RunFails(r, o)
      PROVE  Run(q)!End(o) \/ UNCHANGED <<run[q], did[q]>>
  BY <1>7 DEF RunFails, Run!End
<1>8. ASSUME NEW r \in Requests, RunDeleted(r)
      PROVE  Run(q)!Delete \/ UNCHANGED <<run[q], did[q]>>
  BY <1>8 DEF RunDeleted, Run!Delete, Run!Ended
<1>9. ASSUME NEW r \in Requests, NEW n \in Nodes, RunExecutes(r, n)
      PROVE  Run(q)!Execute(n) \/ UNCHANGED <<run[q], did[q]>>
  BY <1>9 DEF RunExecutes, Run!Execute, RunFacts
<1>10. ASSUME NEW c \in Reconcilers, ReconcileReads(c) \/ ReconcileWrites(c)
       PROVE  UNCHANGED <<run[q], did[q]>>
  BY <1>10 DEF ReconcileReads, ReconcileWrites
<1> QED
  BY <1>1, <1>2, <1>3, <1>4, <1>5, <1>6, <1>7, <1>8, <1>9, <1>10, Steps
  DEF Run!Next, Run!Ended

\* Every deploy run of a request, also the one of a dispatch that failed, keeps
\* the contract of a run: one final outcome, one execution per node.
THEOREM RunsKeepContractHolds == Spec => RunsKeepContract
<1>1. Init => \A r \in Requests : Run(r)!Init
  BY DEF Init, Run!Init
<1>2. IInv /\ [Next]_vars =>
        [\A r \in Requests : Run(r)!Next \/ UNCHANGED <<run[r], did[r]>>]_vars
  BY RunStep
<1> QED
  BY <1>1, <1>2, InductiveInvariant, PTL DEF Spec, RunsKeepContract

------------------------------------------------------------------------------
(***************************************************************************)
(* What a request says about its run.  reconcile also fails a request      *)
(* without deploy_run_id, whatever became of the run, but what the request *)
(* points to is never contradicted.                                        *)
(***************************************************************************)

\* The run the request points to, if any, is one that ended without success.
Blamed ==
  \A r \in Requests : deployRun = r => run[r] \in {"failed", "cancelled"}

\* reconcile fails a request only on the failure of the recorded run, or without
\* a recorded run: a request that is shown as failed, and whose run is recorded,
\* points to a run that failed or was cancelled.
FailureIsHonest == cr = "failed" => Blamed

\* The recorded run has a row, a handler has a run from CreateRun on, and a
\* decision "failed" stays true until it is written.
Failures ==
  /\ \A r \in Requests : deployRun = r => run[r] \notin {"none", "deleted"}
  /\ \A r \in Requests :
       pc[r] \in {"created", "accepted", "raised", "returned"} => run[r] # "none"
  /\ \A c \in Reconcilers : decided[c] = "failed" => Blamed
  /\ FailureIsHonest

\* A deploy run is open only while its request is "deploying", or when the
\* request was failed after the handler that started the run had died: neither a
\* reviewable nor a declined nor a deployed request has an open run.
OpenRunIsVouchedFor ==
  \A r \in Requests : run[r] = "open" =>
    cr = "deploying" \/ (cr = "failed" /\ pc[r] = "dead")

\* Somebody answers for every open run: the handler that dispatches it, the
\* recorded id, or nobody because the handler died, with no id recorded.
Vouched ==
  /\ \A r \in Requests :
       run[r] = "open" => pc[r] \in InFlight \/ deployRun = r \/ pc[r] = "dead"
  /\ \A r \in Requests : run[r] = "open" /\ pc[r] = "dead" => deployRun = NoRun
  /\ \A c \in Reconcilers : decided[c] = "deployed" =>
       \A r \in Requests : run[r] # "open"
  /\ OpenRunIsVouchedFor

\* Nothing recorded is lost but by the deletion of a run that has ended.
LEMMA FailuresStep ==
  ASSUME IInv, Failures, [Next]_vars
  PROVE  Failures'
<1> USE DEF IInv, TypeOK, Exclusive, Unclaimed, Failures, FailureIsHonest, Blamed,
            OpenRuns, Reviewable, InFlight, rowVars, requestVars, runVars, Settled
<1>1. CASE Stage \/ Reject \/ Expire
  BY <1>1 DEF Stage, Reject, Expire, Transition
<1>2. ASSUME NEW r \in Requests, NEW who \in {"ui", "webhook"}, Approve(r, who)
      PROVE  Failures'
  BY <1>2 DEF Approve, Transition, GoTo
<1>3. ASSUME NEW r \in Requests, MarkReviewed(r) \/ Deploy(r)
      PROVE  Failures'
  BY <1>3 DEF MarkReviewed, Deploy, Transition, GoTo
<1>4. ASSUME NEW r \in Requests, RefuseRun(r) \/ EngineAccepts(r) \/ DispatchRaises(r) \/ RecordEngineId(r)
      PROVE  Failures'
  BY <1>4 DEF RefuseRun, EngineAccepts, DispatchRaises, RecordEngineId, GoTo
<1>5. ASSUME NEW r \in Requests, CreateRun(r)
      PROVE  Failures'
  BY <1>5 DEF CreateRun, GoTo
<1>6. ASSUME NEW r \in Requests, MarkRunFailed(r)
      PROVE  Failures'
  BY <1>6 DEF MarkRunFailed, FailedRun, GoTo
<1>7. ASSUME NEW r \in Requests, Revert(r)
      PROVE  Failures'
  BY <1>7 DEF Revert, Transition, GoTo
<1>8. ASSUME NEW r \in Requests, RecordRun(r)
      PROVE  Failures'
  BY <1>8 DEF RecordRun, GoTo
<1>9. ASSUME NEW r \in Requests, ApiCrash(r)
      PROVE  Failures'
  BY <1>9 DEF ApiCrash, GoTo
<1>10. ASSUME NEW r \in Requests, RunClaimed(r) \/ RunSucceeds(r)
      PROVE  Failures'
  BY <1>10 DEF RunClaimed, RunSucceeds
<1>11. ASSUME NEW r \in Requests, RunDeleted(r)
      PROVE  Failures'
  BY <1>11 DEF RunDeleted, Ended
<1>12. ASSUME NEW r \in Requests, NEW o \in {"failed", "cancelled"}, RunFails(r, o)
       PROVE  Failures'
  BY <1>12 DEF RunFails
<1>13. ASSUME NEW r \in Requests, NEW n \in Nodes, RunExecutes(r, n)
       PROVE  Failures'
  BY <1>13 DEF RunExecutes
<1>14. ASSUME NEW c \in Reconcilers, ReconcileReads(c)
       PROVE  Failures'
  <2>1. /\ Decision \in {"deployed", "failed"}
        /\ decided' = [decided EXCEPT ![c] = Decision]
        /\ UNCHANGED <<rowVars, requestVars, runVars>>
    BY <1>14 DEF ReconcileReads, Decision
  <2>2. Decision = "failed" => Blamed
    BY DEF Decision, Ended
  <2>3. (\A d \in Reconcilers : decided[d] = "failed" => Blamed)'
    BY <2>1, <2>2
  <2> QED
    BY <2>1, <2>3
<1>15. ASSUME NEW c \in Reconcilers, ReconcileWrites(c)
       PROVE  Failures'
  BY <1>15 DEF ReconcileWrites, Transition
<1>16. CASE UNCHANGED vars
  BY <1>16 DEF vars
<1> QED
  BY <1>1, <1>2, <1>3, <1>4, <1>5, <1>6, <1>7, <1>8, <1>9, <1>10, <1>11, <1>12,
     <1>13, <1>14, <1>15, <1>16, Steps

\* A run is created by the one handler in flight, which hands it to the recorded
\* id or dies with it.
LEMMA VouchedStep ==
  ASSUME IInv, Failures, Vouched, [Next]_vars
  PROVE  Vouched'
<1> USE DEF IInv, TypeOK, Exclusive, Unclaimed, Failures, Blamed, Vouched,
            OpenRunIsVouchedFor, OpenRuns, Reviewable, InFlight, rowVars, requestVars,
            runVars, Settled
<1>1. CASE Stage \/ Reject \/ Expire
  BY <1>1 DEF Stage, Reject, Expire, Transition
<1>2. ASSUME NEW r \in Requests, NEW who \in {"ui", "webhook"}, Approve(r, who)
      PROVE  Vouched'
  BY <1>2 DEF Approve, Transition, GoTo
<1>3. ASSUME NEW r \in Requests, MarkReviewed(r) \/ Deploy(r)
      PROVE  Vouched'
  BY <1>3 DEF MarkReviewed, Deploy, Transition, GoTo
<1>4. ASSUME NEW r \in Requests, RefuseRun(r) \/ EngineAccepts(r) \/ DispatchRaises(r) \/ RecordEngineId(r)
      PROVE  Vouched'
  BY <1>4 DEF RefuseRun, EngineAccepts, DispatchRaises, RecordEngineId, GoTo
<1>5. ASSUME NEW r \in Requests, CreateRun(r)
      PROVE  Vouched'
  BY <1>5 DEF CreateRun, GoTo
<1>6. ASSUME NEW r \in Requests, MarkRunFailed(r)
      PROVE  Vouched'
  BY <1>6 DEF MarkRunFailed, FailedRun, GoTo
<1>7. ASSUME NEW r \in Requests, Revert(r)
      PROVE  Vouched'
  BY <1>7 DEF Revert, Transition, GoTo
<1>8. ASSUME NEW r \in Requests, RecordRun(r)
      PROVE  Vouched'
  BY <1>8 DEF RecordRun, GoTo
<1>9. ASSUME NEW r \in Requests, ApiCrash(r)
      PROVE  Vouched'
  BY <1>9 DEF ApiCrash, GoTo
<1>10. ASSUME NEW r \in Requests, RunClaimed(r) \/ RunSucceeds(r)
      PROVE  Vouched'
  BY <1>10 DEF RunClaimed, RunSucceeds
<1>11. ASSUME NEW r \in Requests, RunDeleted(r)
      PROVE  Vouched'
  BY <1>11 DEF RunDeleted, Ended
<1>12. ASSUME NEW r \in Requests, NEW o \in {"failed", "cancelled"}, RunFails(r, o)
       PROVE  Vouched'
  BY <1>12 DEF RunFails
<1>13. ASSUME NEW r \in Requests, NEW n \in Nodes, RunExecutes(r, n)
       PROVE  Vouched'
  BY <1>13 DEF RunExecutes
<1>14. ASSUME NEW c \in Reconcilers, ReconcileReads(c)
       PROVE  Vouched'
  BY <1>14 DEF ReconcileReads, Decision, GracePassed
<1>15. ASSUME NEW c \in Reconcilers, ReconcileWrites(c)
       PROVE  Vouched'
  BY <1>15 DEF ReconcileWrites, Transition
<1>16. CASE UNCHANGED vars
  BY <1>16 DEF vars
<1> QED
  BY <1>1, <1>2, <1>3, <1>4, <1>5, <1>6, <1>7, <1>8, <1>9, <1>10, <1>11, <1>12,
     <1>13, <1>14, <1>15, <1>16, Steps

\* A failed request that points to a run points to one that really failed, for
\* any number of stale reconcilers: only a request without deploy_run_id, which
\* reconcile gives up after the grace period, can fail behind a run that did not.
THEOREM FailureIsHonestHolds == Spec => []FailureIsHonest
<1>1. Init => Failures
  BY DEF Init, Failures, FailureIsHonest, Blamed
<1>2. IInv /\ Failures /\ [Next]_vars => Failures'
  BY FailuresStep
<1>3. Failures => FailureIsHonest
  BY DEF Failures
<1> QED
  BY <1>1, <1>2, <1>3, InductiveInvariant, PTL DEF Spec

\* No deploy run is open behind a settled request, except that of a handler that
\* died before it recorded the run.
THEOREM OpenRunIsVouchedForHolds == Spec => []OpenRunIsVouchedFor
<1>1. Init => Failures /\ Vouched
  BY DEF Init, Failures, FailureIsHonest, Blamed, Vouched, OpenRunIsVouchedFor
<1>2. IInv /\ Failures /\ Vouched /\ [Next]_vars => Failures' /\ Vouched'
  BY FailuresStep, VouchedStep
<1>3. Vouched => OpenRunIsVouchedFor
  BY DEF Vouched
<1> QED
  BY <1>1, <1>2, <1>3, InductiveInvariant, PTL DEF Spec

\* A deploy run comes into being only for a request that is "deploying" with an
\* approval on record at that moment, whatever a failed dispatch has cleared
\* before (_dispatch_deploy).
RunsAreApproved ==
  [][\A r \in Requests :
       run[r] = "none" /\ run'[r] # "none" => cr = "deploying" /\ via # "none"]_vars

\* No retry and no racing webhook starts a deployment nobody approved.
THEOREM RunsAreApprovedHolds == Spec => RunsAreApproved
<1>1. ASSUME IInv, [Next]_vars, NEW q \in Requests, run[q] = "none", run'[q] # "none"
      PROVE  cr = "deploying" /\ via # "none"
  <2> USE DEF IInv, TypeOK, rowVars, requestVars, runVars, Ended
  <2>1. ASSUME NEW r \in Requests, CreateRun(r)
        PROVE  cr = "deploying" /\ via # "none"
    BY <1>1, <2>1 DEF CreateRun, Exclusive, InFlight, Approvals, ApprovalMatchesStatus
  <2>2. ASSUME NEW r \in Requests,
               \/ MarkRunFailed(r) \/ RunSucceeds(r) \/ RunDeleted(r)
               \/ \E o \in {"failed", "cancelled"} : RunFails(r, o)
        PROVE  FALSE
    BY <1>1, <2>2 DEF MarkRunFailed, FailedRun, RunSucceeds, RunDeleted, RunFails
  <2>3. \E r \in Requests :
          \/ CreateRun(r) \/ MarkRunFailed(r) \/ RunSucceeds(r) \/ RunDeleted(r)
          \/ \E o \in {"failed", "cancelled"} : RunFails(r, o)
    <3>1. run' # run
      BY <1>1
    <3> QED
      BY <1>1, <3>1, Steps
      DEF vars, Stage, Reject, Expire, Approve, MarkReviewed, Deploy, RefuseRun,
          EngineAccepts, DispatchRaises, RecordEngineId, Revert, RecordRun, ApiCrash,
          RunClaimed, RunExecutes, ReconcileReads, ReconcileWrites
  <2> QED
    BY <2>1, <2>2, <2>3
<1>2. IInv /\ [Next]_vars =>
        [\A r \in Requests :
           run[r] = "none" /\ run'[r] # "none" => cr = "deploying" /\ via # "none"]_vars
  BY <1>1
<1> QED
  BY <1>2, InductiveInvariant, PTL DEF Spec, RunsAreApproved
==============================================================================
