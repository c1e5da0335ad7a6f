--------------------------- MODULE WaitAndRunProofs ---------------------------
(***************************************************************************)
(* Proofs about WaitAndRun, for any number of groups, clicks and faults    *)
(* and every batch size.                                                   *)
(***************************************************************************)
EXTENDS WaitAndRun, TLAPS

USE GroupAssumption, BatchAssumption, ConcurrencyAssumption, FaultsAssumption

------------------------------------------------------------------------------
(***************************************************************************)
(* The inductive invariant.                                                *)
(***************************************************************************)

\* Approvals come from gates: what is or may be pushed was shown before. A flag
\* for all remaining batches comes from an approve-all.
Clicked ==
  /\ events \subseteq shown
  /\ approval.awaiting = "yes" => approval.next \in shown
  /\ approval.auto = "yes" => all # "no"
  /\ \A c \in Clicks :
       /\ click[c].at \in {"write", "push"} => click[c].state.next \in shown
       /\ click[c].at \in {"write", "push"} /\ click[c].state.auto = "yes" => all # "no"
  /\ pc = "resuming" => batch \in events
  /\ seen.auto = "yes" => all # "no"
  /\ auto = "yes" => all # "no"

\* The operator, or the workflow, has released batch k.
Released(k) ==
  \/ k = 0 /\ firstAuto = "yes"
  \/ k \in events \cap shown
  \/ all # "no"

\* The worker only starts children of a batch that is released.
Approved ==
  /\ pc = "batch" => Released(batch)
  /\ \A g \in Groups : child[g] # "idle" => Released(BatchOf(g))

\* Behind the worker everything is finished, before it nothing is started.
Ordered ==
  /\ \A g \in Groups : child[g] # "idle" => BatchOf(g) <= batch
  /\ \A g \in Groups : BatchOf(g) < batch => child[g] \in Finished
  /\ pc \in {"finish", "join_check", "join", "final"} =>
       \A g \in Groups : child[g] \in Finished
  /\ did[Join] > 0 => \A g \in Groups : child[g] \in Finished

\* How often each executor was invoked, by where its child or the worker is.
Counted ==
  /\ pc = "idle" <=> status = "none"
  /\ \A g \in Groups :
       /\ did[g] <= 1
       /\ child[g] \in {"idle", "started", "checked", "skipped"} => did[g] = 0
       /\ child[g] \in {"ok", "failed"} => did[g] = 1
       /\ child[g] # "idle" => pc # "idle"
  /\ did[Join] <= 1
  /\ pc \notin {"final", "ended", "lost"} => did[Join] = 0
  /\ pc = "final" /\ verdict = "ok" => did[Join] = 1

\* What "success" stands for.
AllGood ==
  /\ \A g \in Groups : child[g] \in {"ok", "failed"}
  /\ Have("ok")
  /\ branch \in {"success", "partial"}

\* A worker whose verdict is good has the right to say so as long as the run is
\* open, and nothing moves once it has.
Honest ==
  /\ status \notin {"none", "deleted"} => branch # "absent"
  /\ Have("skipped") => status \in {"cancelled", "deleted"}
  /\ pc \in {"join_check", "join", "final"} /\ verdict = "ok" /\ status \in Active =>
       AllGood
  /\ status = "success" =>
       /\ pc = "ended"
       /\ AllGood
       /\ \A n \in Groups \cup {Join} : did[n] = 1

\* In a cancelled run only what had begun is under way or done.
Stopped ==
  status = "cancelled" =>
    /\ \A g \in Groups : child[g] = "checked" \/ did[g] > 0 => g \in begun
    /\ pc = "join" \/ did[Join] > 0 => Join \in begun

IInv == TypeOK /\ Clicked /\ Approved /\ Ordered /\ Counted /\ Honest /\ Stopped

------------------------------------------------------------------------------
(***************************************************************************)
(* Batches.                                                                *)
(***************************************************************************)

\* Integer division by k is monotone.
LEMMA DivMonotone ==
  ASSUME NEW k \in Nat \ {0}, NEW a \in Nat, NEW b \in Nat, a <= b
  PROVE  a \div k \in Nat /\ a \div k <= b \div k
<1> DEFINE p == a \div k
           q == b \div k
<1>1. p \in Nat /\ q \in Nat
  OBVIOUS
<1>2. p * k <= a /\ b < (q + 1) * k
  OBVIOUS
<1> HIDE DEF p, q
<1>3. p <= q
  BY <1>1, <1>2
<1> QED
  BY <1>1, <1>3 DEF p, q

\* Every group is in one of the batches (the slices of _dispatch_with_approval).
LEMMA BatchRange ==
  /\ LastBatch \in Nat
  /\ \A g \in Groups : BatchOf(g) \in Nat /\ BatchOf(g) <= LastBatch
BY DivMonotone DEF BatchOf, LastBatch, Groups

------------------------------------------------------------------------------
(***************************************************************************)
(* Steps.                                                                  *)
(***************************************************************************)

\* A step is one of these; the proofs below take them one by one.
LEMMA Steps ==
  ASSUME [Next]_vars
  PROVE  \/ Begin \/ SkipGate \/ Pause \/ Resume \/ Resumed \/ RowGone \/ EndBatch
         \/ Aggregate \/ JoinSkipped \/ JoinGoes \/ Finish
         \/ CloseRows \/ Interrupted \/ WorkerLost \/ Redelivered \/ Reap
         \/ Cancel \/ Delete
         \/ \E result \in {"ok", "failed"} : JoinExecutes(result)
         \/ \E g \in Groups :
              \/ StartChild(g) \/ ChildChecks(g) \/ ChildRaises(g)
              \/ \E result \in {"ok", "failed", "raised"} : ChildExecutes(g, result)
         \/ \E c \in Clicks :
              \/ \E kind \in {"batch", "all"} : ClickReads(c, kind)
              \/ ClickWrites(c) \/ ClickPushes(c) \/ PushFails(c)
         \/ UNCHANGED vars
  BY DEF Next, Worker, Child, Click

------------------------------------------------------------------------------
(***************************************************************************)
(* Type correctness.                                                       *)
(***************************************************************************)

\* Every step keeps the types.
LEMMA TypeStep ==
  ASSUME TypeOK, [Next]_vars
  PROVE  TypeOK'
<1> USE DEF TypeOK, Active, Terminal, TerminalStep, ApprovalState, rowVars, workerVars,
     historyVars
<1>1. CASE Begin
  BY <1>1 DEF Begin, Live
<1>2. CASE SkipGate
  BY <1>2 DEF SkipGate, Live
<1>3. CASE Pause
  BY <1>3 DEF Pause, SetStatus, Transition, Live
<1>4. CASE Resume
  BY <1>4 DEF Resume, Live
<1>5. CASE Resumed
  BY <1>5 DEF Resumed, SetStatus, Transition, Live
<1>6. CASE RowGone
  BY <1>6 DEF RowGone
<1>7. CASE EndBatch
  BY <1>7, BatchRange DEF EndBatch, Live, Batches, AtLastBatch, UpdatedBranch,
       BranchStatus
<1>8. CASE Aggregate
  BY <1>8 DEF Aggregate, Live, UpdatedBranch, BranchStatus
<1>9. CASE JoinSkipped
  BY <1>9 DEF JoinSkipped, Live
<1>10. CASE JoinGoes
  BY <1>10 DEF JoinGoes, Live
<1>11. CASE Finish
  BY <1>11, BatchRange DEF Finish, EndRun, Transition, NoState, Batches
<1>12. CASE CloseRows
  BY <1>12 DEF CloseRows
<1>13. CASE Interrupted
  BY <1>13, BatchRange DEF Interrupted, FailInterrupted, EndRun, Transition, NoState,
       Batches
<1>14. CASE WorkerLost
  BY <1>14 DEF WorkerLost
<1>15. CASE Redelivered
  BY <1>15, BatchRange DEF Redelivered, FailInterrupted, EndRun, Transition, NoState,
       Batches
<1>16. CASE Reap
  BY <1>16, BatchRange DEF Reap, FailInterrupted, EndRun, Transition, NoState, Batches
<1>17. CASE Cancel
  BY <1>17, BatchRange DEF Cancel, EndRun, Transition, NoState, Batches
<1>18. CASE Delete
  BY <1>18 DEF Delete
<1>19. ASSUME NEW result \in {"ok", "failed"}, JoinExecutes(result)
      PROVE  TypeOK'
  BY <1>19 DEF JoinExecutes, Live
<1>20. ASSUME NEW g \in Groups, StartChild(g)
      PROVE  TypeOK'
  BY <1>20 DEF StartChild
<1>21. ASSUME NEW g \in Groups, ChildChecks(g)
      PROVE  TypeOK'
  BY <1>21 DEF ChildChecks, AfterCheck, Finished
<1>22. ASSUME NEW g \in Groups, ChildRaises(g)
      PROVE  TypeOK'
  BY <1>22 DEF ChildRaises, Finished
<1>23. ASSUME NEW g \in Groups, NEW result \in {"ok", "failed", "raised"}, ChildExecutes(g, result)
      PROVE  TypeOK'
  BY <1>23 DEF ChildExecutes, Finished
<1>24. ASSUME NEW c \in Clicks, NEW kind \in {"batch", "all"}, ClickReads(c, kind)
      PROVE  TypeOK'
  BY <1>24 DEF ClickReads
<1>25. ASSUME NEW c \in Clicks, ClickWrites(c)
      PROVE  TypeOK'
  BY <1>25 DEF ClickWrites, SetStatus, Transition, Advance
<1>26. ASSUME NEW c \in Clicks, ClickPushes(c)
      PROVE  TypeOK'
  BY <1>26 DEF ClickPushes, Advance
<1>27. ASSUME NEW c \in Clicks, PushFails(c)
      PROVE  TypeOK'
  BY <1>27 DEF PushFails, Advance
<1>28. CASE UNCHANGED vars
  BY <1>28 DEF vars
<1> QED
  BY <1>1, <1>2, <1>3, <1>4, <1>5, <1>6, <1>7, <1>8, <1>9, <1>10, <1>11, <1>12, <1>13,
       <1>14, <1>15, <1>16, <1>17, <1>18, <1>19, <1>20, <1>21, <1>22, <1>23, <1>24,
       <1>25, <1>26, <1>27, <1>28, Steps

\* A run starts well typed.
LEMMA TypeInit ==
  ASSUME Init
  PROVE  TypeOK
BY BatchRange DEF Init, TypeOK, NoState, Idle, ApprovalState, Batches

\* The variables always hold values of their types; in particular the worker's
\* batch index stays within the batches.
THEOREM TypeCorrect == Spec => []TypeOK
BY TypeInit, TypeStep, PTL DEF Spec

------------------------------------------------------------------------------
(***************************************************************************)
(* Approvals.                                                              *)
(***************************************************************************)

\* Clicks carry what a gate has shown, whenever they arrive.
LEMMA ClickedStep ==
  ASSUME TypeOK, Clicked, [Next]_vars
  PROVE  Clicked'
<1> USE DEF TypeOK, Clicked, ApprovalState, rowVars, workerVars, historyVars
<1>1. CASE Begin
  BY <1>1 DEF Begin
<1>2. CASE SkipGate
  BY <1>2 DEF SkipGate
<1>3. CASE Pause
  BY <1>3 DEF Pause, SetStatus, Transition
<1>4. CASE Resume
  BY <1>4 DEF Resume, EventSeen
<1>5. CASE Resumed
  BY <1>5 DEF Resumed, SetStatus, Transition
<1>6. CASE RowGone
  BY <1>6 DEF RowGone
<1>7. CASE EndBatch
  BY <1>7 DEF EndBatch
<1>8. CASE Aggregate
  BY <1>8 DEF Aggregate
<1>9. CASE JoinSkipped
  BY <1>9 DEF JoinSkipped
<1>10. CASE JoinGoes
  BY <1>10 DEF JoinGoes
<1>11. CASE Finish
  BY <1>11 DEF Finish, EndRun, Transition, NoState
<1>12. CASE CloseRows
  BY <1>12 DEF CloseRows
<1>13. CASE Interrupted
  BY <1>13 DEF Interrupted, FailInterrupted, EndRun, Transition, NoState
<1>14. CASE WorkerLost
  BY <1>14 DEF WorkerLost
<1>15. CASE Redelivered
  BY <1>15 DEF Redelivered, FailInterrupted, EndRun, Transition, NoState
<1>16. CASE Reap
  BY <1>16 DEF Reap, FailInterrupted, EndRun, Transition, NoState
<1>17. CASE Cancel
  BY <1>17 DEF Cancel, EndRun, Transition, NoState
<1>18. CASE Delete
  BY <1>18 DEF Delete
<1>19. ASSUME NEW result \in {"ok", "failed"}, JoinExecutes(result)
      PROVE  Clicked'
  BY <1>19 DEF JoinExecutes
<1>20. ASSUME NEW g \in Groups, StartChild(g)
      PROVE  Clicked'
  BY <1>20 DEF StartChild
<1>21. ASSUME NEW g \in Groups, ChildChecks(g)
      PROVE  Clicked'
  BY <1>21 DEF ChildChecks
<1>22. ASSUME NEW g \in Groups, ChildRaises(g)
      PROVE  Clicked'
  BY <1>22 DEF ChildRaises
<1>23. ASSUME NEW g \in Groups, NEW result \in {"ok", "failed", "raised"}, ChildExecutes(g, result)
      PROVE  Clicked'
  BY <1>23 DEF ChildExecutes
<1>24. ASSUME NEW c \in Clicks, NEW kind \in {"batch", "all"}, ClickReads(c, kind)
      PROVE  Clicked'
  BY <1>24 DEF ClickReads
<1>25. ASSUME NEW c \in Clicks, ClickWrites(c)
      PROVE  Clicked'
  BY <1>25 DEF ClickWrites, SetStatus, Transition, Advance
<1>26. ASSUME NEW c \in Clicks, ClickPushes(c)
      PROVE  Clicked'
  BY <1>26 DEF ClickPushes, Advance
<1>27. ASSUME NEW c \in Clicks, PushFails(c)
      PROVE  Clicked'
  BY <1>27 DEF PushFails, Advance
<1>28. CASE UNCHANGED vars
  BY <1>28 DEF vars
<1> QED
  BY <1>1, <1>2, <1>3, <1>4, <1>5, <1>6, <1>7, <1>8, <1>9, <1>10, <1>11, <1>12, <1>13,
       <1>14, <1>15, <1>16, <1>17, <1>18, <1>19, <1>20, <1>21, <1>22, <1>23, <1>24,
       <1>25, <1>26, <1>27, <1>28, Steps

\* No batch is started that was not released.
LEMMA ApprovedStep ==
  ASSUME TypeOK, Clicked, Approved, [Next]_vars
  PROVE  Approved'
<1> USE DEF TypeOK, Clicked, Approved, Released, ApprovalState, rowVars, workerVars,
     historyVars
<1>1. CASE Begin
  BY <1>1 DEF Begin
<1>2. CASE SkipGate
  BY <1>2 DEF SkipGate, NeedsGate
<1>3. CASE Pause
  BY <1>3 DEF Pause, SetStatus, Transition
<1>4. CASE Resume
  BY <1>4 DEF Resume
<1>5. CASE Resumed
  BY <1>5 DEF Resumed, SetStatus, Transition
<1>6. CASE RowGone
  BY <1>6 DEF RowGone
<1>7. CASE EndBatch
  BY <1>7 DEF EndBatch
<1>8. CASE Aggregate
  BY <1>8 DEF Aggregate
<1>9. CASE JoinSkipped
  BY <1>9 DEF JoinSkipped
<1>10. CASE JoinGoes
  BY <1>10 DEF JoinGoes
<1>11. CASE Finish
  BY <1>11 DEF Finish, EndRun, Transition, NoState
<1>12. CASE CloseRows
  BY <1>12 DEF CloseRows
<1>13. CASE Interrupted
  BY <1>13 DEF Interrupted, FailInterrupted, EndRun, Transition, NoState
<1>14. CASE WorkerLost
  BY <1>14 DEF WorkerLost
<1>15. CASE Redelivered
  BY <1>15 DEF Redelivered, FailInterrupted, EndRun, Transition, NoState
<1>16. CASE Reap
  BY <1>16 DEF Reap, FailInterrupted, EndRun, Transition, NoState
<1>17. CASE Cancel
  BY <1>17 DEF Cancel, EndRun, Transition, NoState
<1>18. CASE Delete
  BY <1>18 DEF Delete
<1>19. ASSUME NEW result \in {"ok", "failed"}, JoinExecutes(result)
      PROVE  Approved'
  BY <1>19 DEF JoinExecutes
<1>20. ASSUME NEW g \in Groups, StartChild(g)
      PROVE  Approved'
  BY <1>20 DEF StartChild, InBatch
<1>21. ASSUME NEW g \in Groups, ChildChecks(g)
      PROVE  Approved'
  BY <1>21 DEF ChildChecks
<1>22. ASSUME NEW g \in Groups, ChildRaises(g)
      PROVE  Approved'
  BY <1>22 DEF ChildRaises
<1>23. ASSUME NEW g \in Groups, NEW result \in {"ok", "failed", "raised"}, ChildExecutes(g, result)
      PROVE  Approved'
  BY <1>23 DEF ChildExecutes
<1>24. ASSUME NEW c \in Clicks, NEW kind \in {"batch", "all"}, ClickReads(c, kind)
      PROVE  Approved'
  BY <1>24 DEF ClickReads
<1>25. ASSUME NEW c \in Clicks, ClickWrites(c)
      PROVE  Approved'
  BY <1>25 DEF ClickWrites, SetStatus, Transition, Advance
<1>26. ASSUME NEW c \in Clicks, ClickPushes(c)
      PROVE  Approved'
  BY <1>26 DEF ClickPushes, Advance
<1>27. ASSUME NEW c \in Clicks, PushFails(c)
      PROVE  Approved'
  BY <1>27 DEF PushFails, Advance
<1>28. CASE UNCHANGED vars
  BY <1>28 DEF vars
<1> QED
  BY <1>1, <1>2, <1>3, <1>4, <1>5, <1>6, <1>7, <1>8, <1>9, <1>10, <1>11, <1>12, <1>13,
       <1>14, <1>15, <1>16, <1>17, <1>18, <1>19, <1>20, <1>21, <1>22, <1>23, <1>24,
       <1>25, <1>26, <1>27, <1>28, Steps

------------------------------------------------------------------------------
(***************************************************************************)
(* Order.                                                                  *)
(***************************************************************************)

\* The worker leaves a batch when it is finished, and goes on to the next one.
LEMMA OrderedStep ==
  ASSUME TypeOK, Ordered, Counted, [Next]_vars
  PROVE  Ordered'
<1> USE DEF TypeOK, Ordered, Counted, Finished, rowVars, workerVars, historyVars
<1>1. CASE Begin
  BY <1>1 DEF Begin
<1>2. CASE SkipGate
  BY <1>2 DEF SkipGate
<1>3. CASE Pause
  BY <1>3 DEF Pause, SetStatus, Transition
<1>4. CASE Resume
  BY <1>4 DEF Resume
<1>5. CASE Resumed
  BY <1>5 DEF Resumed, SetStatus, Transition
<1>6. CASE RowGone
  BY <1>6 DEF RowGone
<1>7. CASE EndBatch
  <2>1. /\ batch \in Nat
        /\ \A g \in Groups : BatchOf(g) \in Nat
        /\ \A g \in Groups : BatchOf(g) = batch => child[g] \in Finished
        /\ UNCHANGED <<child, did>>
    BY <1>7, BatchRange DEF EndBatch, BatchDone, InBatch, Batches
  <2>2. CASE AtLastBatch
    <3>1. batch' = batch /\ pc' = "finish" /\ \A g \in Groups : BatchOf(g) <= batch
      BY <1>7, <2>2, BatchRange DEF EndBatch, AtLastBatch
    <3>2. \A g \in Groups : child[g] \in Finished
      BY <2>1, <3>1
    <3> QED
      BY <2>1, <3>1, <3>2
  <2>3. CASE ~AtLastBatch
    <3>1. batch' = batch + 1 /\ pc' = "gate"
      BY <1>7, <2>3 DEF EndBatch
    <3>2. \A g \in Groups : BatchOf(g) <= batch => BatchOf(g) <= batch'
      BY <2>1, <3>1
    <3>3. \A g \in Groups : BatchOf(g) < batch' => BatchOf(g) < batch \/ BatchOf(g) = batch
      BY <2>1, <3>1
    <3> QED
      BY <2>1, <3>1, <3>2, <3>3
  <2> QED
    BY <2>2, <2>3
<1>8. CASE Aggregate
  BY <1>8 DEF Aggregate
<1>9. CASE JoinSkipped
  BY <1>9 DEF JoinSkipped
<1>10. CASE JoinGoes
  BY <1>10 DEF JoinGoes
<1>11. CASE Finish
  BY <1>11 DEF Finish, EndRun, Transition
<1>12. CASE CloseRows
  BY <1>12 DEF CloseRows
<1>13. CASE Interrupted
  BY <1>13 DEF Interrupted, FailInterrupted, EndRun, Transition
<1>14. CASE WorkerLost
  BY <1>14 DEF WorkerLost
<1>15. CASE Redelivered
  BY <1>15 DEF Redelivered, FailInterrupted, EndRun, Transition
<1>16. CASE Reap
  BY <1>16 DEF Reap, FailInterrupted, EndRun, Transition
<1>17. CASE Cancel
  BY <1>17 DEF Cancel, EndRun, Transition
<1>18. CASE Delete
  BY <1>18 DEF Delete
<1>19. ASSUME NEW result \in {"ok", "failed"}, JoinExecutes(result)
      PROVE  Ordered'
  BY <1>19 DEF JoinExecutes, Join, Groups
<1>20. ASSUME NEW g \in Groups, StartChild(g)
      PROVE  Ordered'
  BY <1>20, BatchRange DEF StartChild, InBatch
<1>21. ASSUME NEW g \in Groups, ChildChecks(g)
      PROVE  Ordered'
  BY <1>21 DEF ChildChecks, AfterCheck
<1>22. ASSUME NEW g \in Groups, ChildRaises(g)
      PROVE  Ordered'
  BY <1>22 DEF ChildRaises
<1>23. ASSUME NEW g \in Groups, NEW result \in {"ok", "failed", "raised"}, ChildExecutes(g, result)
      PROVE  Ordered'
  BY <1>23 DEF ChildExecutes, Join, Groups
<1>24. ASSUME NEW c \in Clicks, NEW kind \in {"batch", "all"}, ClickReads(c, kind)
      PROVE  Ordered'
  BY <1>24 DEF ClickReads
<1>25. ASSUME NEW c \in Clicks, ClickWrites(c)
      PROVE  Ordered'
  BY <1>25 DEF ClickWrites, SetStatus, Transition, Advance
<1>26. ASSUME NEW c \in Clicks, ClickPushes(c)
      PROVE  Ordered'
  BY <1>26 DEF ClickPushes, Advance
<1>27. ASSUME NEW c \in Clicks, PushFails(c)
      PROVE  Ordered'
  BY <1>27 DEF PushFails, Advance
<1>28. CASE UNCHANGED vars
  BY <1>28 DEF vars
<1> QED
  BY <1>1, <1>2, <1>3, <1>4, <1>5, <1>6, <1>7, <1>8, <1>9, <1>10, <1>11, <1>12, <1>13,
       <1>14, <1>15, <1>16, <1>17, <1>18, <1>19, <1>20, <1>21, <1>22, <1>23, <1>24,
       <1>25, <1>26, <1>27, <1>28, Steps

\* Each executor is invoked once.
LEMMA CountedStep ==
  ASSUME TypeOK, Counted, [Next]_vars
  PROVE  Counted'
<1> USE DEF TypeOK, Counted, Active, Terminal, Live, rowVars, workerVars, historyVars
<1>1. CASE Begin
  BY <1>1 DEF Begin
<1>2. CASE SkipGate
  BY <1>2 DEF SkipGate
<1>3. CASE Pause
  BY <1>3 DEF Pause, SetStatus, Transition
<1>4. CASE Resume
  BY <1>4 DEF Resume
<1>5. CASE Resumed
  BY <1>5 DEF Resumed, SetStatus, Transition
<1>6. CASE RowGone
  BY <1>6 DEF RowGone
<1>7. CASE EndBatch
  BY <1>7 DEF EndBatch
<1>8. CASE Aggregate
  BY <1>8 DEF Aggregate
<1>9. CASE JoinSkipped
  BY <1>9 DEF JoinSkipped
<1>10. CASE JoinGoes
  BY <1>10 DEF JoinGoes
<1>11. CASE Finish
  BY <1>11 DEF Finish, EndRun, Transition
<1>12. CASE CloseRows
  BY <1>12 DEF CloseRows
<1>13. CASE Interrupted
  BY <1>13 DEF Interrupted, FailInterrupted, EndRun, Transition
<1>14. CASE WorkerLost
  BY <1>14 DEF WorkerLost
<1>15. CASE Redelivered
  BY <1>15 DEF Redelivered, FailInterrupted, EndRun, Transition
<1>16. CASE Reap
  BY <1>16 DEF Reap, FailInterrupted, EndRun, Transition
<1>17. CASE Cancel
  BY <1>17 DEF Cancel, EndRun, Transition
<1>18. CASE Delete
  BY <1>18 DEF Delete
<1>19. ASSUME NEW result \in {"ok", "failed"}, JoinExecutes(result)
      PROVE  Counted'
  BY <1>19 DEF JoinExecutes, Join, Groups
<1>20. ASSUME NEW g \in Groups, StartChild(g)
      PROVE  Counted'
  BY <1>20 DEF StartChild
<1>21. ASSUME NEW g \in Groups, ChildChecks(g)
      PROVE  Counted'
  BY <1>21 DEF ChildChecks, AfterCheck
<1>22. ASSUME NEW g \in Groups, ChildRaises(g)
      PROVE  Counted'
  BY <1>22 DEF ChildRaises
<1>23. ASSUME NEW g \in Groups, NEW result \in {"ok", "failed", "raised"}, ChildExecutes(g, result)
      PROVE  Counted'
  BY <1>23 DEF ChildExecutes, Join, Groups
<1>24. ASSUME NEW c \in Clicks, NEW kind \in {"batch", "all"}, ClickReads(c, kind)
      PROVE  Counted'
  BY <1>24 DEF ClickReads
<1>25. ASSUME NEW c \in Clicks, ClickWrites(c)
      PROVE  Counted'
  BY <1>25 DEF ClickWrites, SetStatus, Transition, Advance
<1>26. ASSUME NEW c \in Clicks, ClickPushes(c)
      PROVE  Counted'
  BY <1>26 DEF ClickPushes, Advance
<1>27. ASSUME NEW c \in Clicks, PushFails(c)
      PROVE  Counted'
  BY <1>27 DEF PushFails, Advance
<1>28. CASE UNCHANGED vars
  BY <1>28 DEF vars
<1> QED
  BY <1>1, <1>2, <1>3, <1>4, <1>5, <1>6, <1>7, <1>8, <1>9, <1>10, <1>11, <1>12, <1>13,
       <1>14, <1>15, <1>16, <1>17, <1>18, <1>19, <1>20, <1>21, <1>22, <1>23, <1>24,
       <1>25, <1>26, <1>27, <1>28, Steps

------------------------------------------------------------------------------
(***************************************************************************)
(* Outcomes.                                                               *)
(***************************************************************************)

\* A good verdict is well founded, and final once it was written.
LEMMA HonestStep ==
  ASSUME TypeOK, Ordered, Counted, Honest, [Next]_vars
  PROVE  Honest'
<1> USE DEF TypeOK, Ordered, Counted, Honest, AllGood, Have, Active, Terminal, Finished,
     Live, rowVars, workerVars, historyVars
<1>1. CASE Begin
  BY <1>1 DEF Begin
<1>2. CASE SkipGate
  BY <1>2 DEF SkipGate
<1>3. CASE Pause
  BY <1>3 DEF Pause, SetStatus, Transition
<1>4. CASE Resume
  BY <1>4 DEF Resume
<1>5. CASE Resumed
  BY <1>5 DEF Resumed, SetStatus, Transition
<1>6. CASE RowGone
  BY <1>6 DEF RowGone
<1>7. CASE EndBatch
  BY <1>7 DEF EndBatch, UpdatedBranch, BranchStatus
<1>8. CASE Aggregate
  BY <1>8 DEF Aggregate, UpdatedBranch, BranchStatus, BranchRan, NoChildFailure, Groups
<1>9. CASE JoinSkipped
  BY <1>9 DEF JoinSkipped
<1>10. CASE JoinGoes
  BY <1>10 DEF JoinGoes
<1>11. CASE Finish
  BY <1>11 DEF Finish, EndRun, Transition
<1>12. CASE CloseRows
  BY <1>12 DEF CloseRows
<1>13. CASE Interrupted
  BY <1>13 DEF Interrupted, FailInterrupted, EndRun, Transition
<1>14. CASE WorkerLost
  BY <1>14 DEF WorkerLost
<1>15. CASE Redelivered
  BY <1>15 DEF Redelivered, FailInterrupted, EndRun, Transition
<1>16. CASE Reap
  BY <1>16 DEF Reap, FailInterrupted, EndRun, Transition
<1>17. CASE Cancel
  BY <1>17 DEF Cancel, EndRun, Transition
<1>18. CASE Delete
  BY <1>18 DEF Delete
<1>19. ASSUME NEW result \in {"ok", "failed"}, JoinExecutes(result)
      PROVE  Honest'
  BY <1>19 DEF JoinExecutes, Join, Groups
<1>20. ASSUME NEW g \in Groups, StartChild(g)
      PROVE  Honest'
  BY <1>20 DEF StartChild
<1>21. ASSUME NEW g \in Groups, ChildChecks(g)
      PROVE  Honest'
  BY <1>21 DEF ChildChecks, AfterCheck
<1>22. ASSUME NEW g \in Groups, ChildRaises(g)
      PROVE  Honest'
  BY <1>22 DEF ChildRaises
<1>23. ASSUME NEW g \in Groups, NEW result \in {"ok", "failed", "raised"}, ChildExecutes(g, result)
      PROVE  Honest'
  BY <1>23 DEF ChildExecutes, Join, Groups
<1>24. ASSUME NEW c \in Clicks, NEW kind \in {"batch", "all"}, ClickReads(c, kind)
      PROVE  Honest'
  BY <1>24 DEF ClickReads
<1>25. ASSUME NEW c \in Clicks, ClickWrites(c)
      PROVE  Honest'
  BY <1>25 DEF ClickWrites, SetStatus, Transition, Advance
<1>26. ASSUME NEW c \in Clicks, ClickPushes(c)
      PROVE  Honest'
  BY <1>26 DEF ClickPushes, Advance
<1>27. ASSUME NEW c \in Clicks, PushFails(c)
      PROVE  Honest'
  BY <1>27 DEF PushFails, Advance
<1>28. CASE UNCHANGED vars
  BY <1>28 DEF vars
<1> QED
  BY <1>1, <1>2, <1>3, <1>4, <1>5, <1>6, <1>7, <1>8, <1>9, <1>10, <1>11, <1>12, <1>13,
       <1>14, <1>15, <1>16, <1>17, <1>18, <1>19, <1>20, <1>21, <1>22, <1>23, <1>24,
       <1>25, <1>26, <1>27, <1>28, Steps

\* A cancelled run begins nothing.
LEMMA StoppedStep ==
  ASSUME TypeOK, Counted, Stopped, [Next]_vars
  PROVE  Stopped'
<1> USE DEF TypeOK, Counted, Stopped, Active, Terminal, rowVars, workerVars, historyVars
<1>1. CASE Begin
  BY <1>1 DEF Begin
<1>2. CASE SkipGate
  BY <1>2 DEF SkipGate
<1>3. CASE Pause
  BY <1>3 DEF Pause, SetStatus, Transition
<1>4. CASE Resume
  BY <1>4 DEF Resume
<1>5. CASE Resumed
  BY <1>5 DEF Resumed, SetStatus, Transition
<1>6. CASE RowGone
  BY <1>6 DEF RowGone
<1>7. CASE EndBatch
  BY <1>7 DEF EndBatch
<1>8. CASE Aggregate
  BY <1>8 DEF Aggregate
<1>9. CASE JoinSkipped
  BY <1>9 DEF JoinSkipped
<1>10. CASE JoinGoes
  BY <1>10 DEF JoinGoes
<1>11. CASE Finish
  BY <1>11 DEF Finish, EndRun, Transition
<1>12. CASE CloseRows
  BY <1>12 DEF CloseRows
<1>13. CASE Interrupted
  BY <1>13 DEF Interrupted, FailInterrupted, EndRun, Transition
<1>14. CASE WorkerLost
  BY <1>14 DEF WorkerLost
<1>15. CASE Redelivered
  BY <1>15 DEF Redelivered, FailInterrupted, EndRun, Transition
<1>16. CASE Reap
  BY <1>16 DEF Reap, FailInterrupted, EndRun, Transition
<1>17. CASE Cancel
  BY <1>17 DEF Cancel, EndRun, Transition
<1>18. CASE Delete
  BY <1>18 DEF Delete
<1>19. ASSUME NEW result \in {"ok", "failed"}, JoinExecutes(result)
      PROVE  Stopped'
  BY <1>19 DEF JoinExecutes, Join, Groups
<1>20. ASSUME NEW g \in Groups, StartChild(g)
      PROVE  Stopped'
  BY <1>20 DEF StartChild
<1>21. ASSUME NEW g \in Groups, ChildChecks(g)
      PROVE  Stopped'
  BY <1>21 DEF ChildChecks, AfterCheck
<1>22. ASSUME NEW g \in Groups, ChildRaises(g)
      PROVE  Stopped'
  BY <1>22 DEF ChildRaises
<1>23. ASSUME NEW g \in Groups, NEW result \in {"ok", "failed", "raised"}, ChildExecutes(g, result)
      PROVE  Stopped'
  BY <1>23 DEF ChildExecutes, Join, Groups
<1>24. ASSUME NEW c \in Clicks, NEW kind \in {"batch", "all"}, ClickReads(c, kind)
      PROVE  Stopped'
  BY <1>24 DEF ClickReads
<1>25. ASSUME NEW c \in Clicks, ClickWrites(c)
      PROVE  Stopped'
  BY <1>25 DEF ClickWrites, SetStatus, Transition, Advance
<1>26. ASSUME NEW c \in Clicks, ClickPushes(c)
      PROVE  Stopped'
  BY <1>26 DEF ClickPushes, Advance
<1>27. ASSUME NEW c \in Clicks, PushFails(c)
      PROVE  Stopped'
  BY <1>27 DEF PushFails, Advance
<1>28. CASE UNCHANGED vars
  BY <1>28 DEF vars
<1> QED
  BY <1>1, <1>2, <1>3, <1>4, <1>5, <1>6, <1>7, <1>8, <1>9, <1>10, <1>11, <1>12, <1>13,
       <1>14, <1>15, <1>16, <1>17, <1>18, <1>19, <1>20, <1>21, <1>22, <1>23, <1>24,
       <1>25, <1>26, <1>27, <1>28, Steps

------------------------------------------------------------------------------
(***************************************************************************)
(* The theorems.                                                           *)
(***************************************************************************)

\* A run starts in the invariant.
LEMMA InitIInv ==
  ASSUME Init
  PROVE  Clicked /\ Approved /\ Ordered /\ Counted /\ Honest /\ Stopped
<1>1. Clicked /\ Approved
  BY DEF Init, Clicked, Approved, NoState, Idle
<1>2. Ordered
  BY BatchRange DEF Init, Ordered
<1>3. Counted
  BY DEF Init, Counted
<1>4. Honest /\ Stopped
  BY DEF Init, Honest, Stopped, Have, Active
<1> QED
  BY <1>1, <1>2, <1>3, <1>4

\* IInv holds in every reachable state.
THEOREM InductiveInvariant == Spec => []IInv
<1>1. Init => Clicked /\ Approved /\ Ordered /\ Counted /\ Honest /\ Stopped
  BY InitIInv
<1>2. IInv /\ [Next]_vars =>
        Clicked' /\ Approved' /\ Ordered' /\ Counted' /\ Honest' /\ Stopped'
  BY ClickedStep, ApprovedStep, OrderedStep, CountedStep, HonestStep, StoppedStep DEF IInv
<1> QED
  BY <1>1, <1>2, TypeCorrect, PTL DEF Spec, IInv

\* No device of a batch is touched that was not released (_dispatch_with_approval
\* against approve_batch and approve_all): clicks that are repeated, late or
\* overtaken release nothing else.
THEOREM EveryBatchWasApprovedHolds == Spec => []EveryBatchWasApproved
<1>1. IInv => EveryBatchWasApproved
  BY DEF IInv, Approved, Released, EveryBatchWasApproved
<1> QED
  BY <1>1, InductiveInvariant, PTL

\* The canary order: a batch is touched after the batches before it are through,
\* the fan-in node after all of them.
THEOREM BatchesInOrderHolds == Spec => []BatchesInOrder
<1>1. IInv => BatchesInOrder
  <2> SUFFICES ASSUME IInv PROVE BatchesInOrder
    OBVIOUS
  <2>1. batch \in Nat /\ \A g \in Groups : BatchOf(g) \in Nat
    BY BatchRange DEF IInv, TypeOK, Batches
  <2>2. ASSUME NEW g \in Groups, NEW h \in Groups,
               child[h] # "idle", BatchOf(g) < BatchOf(h)
        PROVE  child[g] \in Finished
    <3>1. BatchOf(h) <= batch
      BY <2>2 DEF IInv, Ordered
    <3>2. BatchOf(g) < batch
      BY <2>1, <2>2, <3>1
    <3> QED
      BY <3>2 DEF IInv, Ordered
  <2> QED
    BY <2>2 DEF BatchesInOrder, IInv, Ordered
<1> QED
  BY <1>1, InductiveInvariant, PTL

\* A run that reports success lost no child, and its branch row says so too
\* (_aggregate_and_persist, _finalize_fan_out_parent).
THEOREM SuccessIsHonestHolds == Spec => []SuccessIsHonest
<1>1. IInv => SuccessIsHonest
  BY DEF IInv, Honest, AllGood, SuccessIsHonest
<1> QED
  BY <1>1, InductiveInvariant, PTL

\* After a cancel nothing is executed but what had passed its last check.
THEOREM CancelStopsTheRolloutHolds == Spec => []CancelStopsTheRollout
<1>1. IInv => CancelStopsTheRollout
  BY DEF IInv, Stopped, CancelStopsTheRollout
<1> QED
  BY <1>1, InductiveInvariant, PTL

\* Every step is one of the contract's or leaves what it speaks of alone.
LEMMA ContractStep ==
  ASSUME IInv, [Next]_vars
  PROVE  Contract!Next \/ UNCHANGED Contract!cvars
<1> USE DEF IInv, Active, Contract!cvars, rowVars, workerVars, historyVars
<1>1. ASSUME UNCHANGED did,
             \/ status' = status
             \/ status \in Active /\ status' \in Active
      PROVE  UNCHANGED Contract!cvars
  BY <1>1
<1>2. ASSUME UNCHANGED did, status \in Active, status' \in {"failed", "cancelled"}
      PROVE  Contract!Next
  <2>1. Contract!End(status')
    BY <1>2 DEF Contract!End
  <2> QED
    BY <1>2, <2>1 DEF Contract!Next, Contract!Ended
<1>3. CASE Begin
  <2>1. Contract!Create
    BY <1>3 DEF Begin, Contract!Create, Counted
  <2> QED
    BY <2>1 DEF Contract!Next
<1>4. CASE SkipGate \/ Resume \/ RowGone \/ EndBatch \/ Aggregate \/ JoinSkipped
             \/ JoinGoes \/ CloseRows \/ WorkerLost \/ UNCHANGED vars
  BY <1>1, <1>4 DEF SkipGate, Resume, RowGone, EndBatch, Aggregate, JoinSkipped, JoinGoes,
                    CloseRows, WorkerLost, vars
<1>5. CASE Pause \/ Resumed
  BY <1>1, <1>5 DEF Pause, Resumed, SetStatus, Transition
<1>6. CASE Interrupted \/ Redelivered \/ Reap \/ Cancel
  BY <1>1, <1>2, <1>6 DEF Interrupted, Redelivered, Reap, Cancel, FailInterrupted, EndRun,
                          Transition
<1>7. CASE Delete
  <2>1. Contract!Delete
    BY <1>7 DEF Delete, Terminal, Contract!Delete, Contract!Ended
  <2> QED
    BY <2>1 DEF Contract!Next
<1>8. CASE Finish
  <2>1. UNCHANGED did
    BY <1>8 DEF Finish
  <2>2. CASE status \in Active /\ verdict = "ok"
    <3>1. \A n \in Groups \cup {Join} : did[n] = 1
      BY <1>8, <2>2 DEF Finish, Honest, AllGood, Counted
    <3>2. Contract!End("success")
      BY <1>8, <2>1, <2>2, <3>1 DEF Finish, EndRun, Transition, Contract!End
    <3> QED
      BY <3>2 DEF Contract!Next, Contract!Ended
  <2> QED
    BY <1>1, <1>2, <1>8, <2>1, <2>2 DEF Finish, EndRun, Transition
<1>9. ASSUME NEW result \in {"ok", "failed"}, JoinExecutes(result)
      PROVE  Contract!Next
  <2>1. Contract!Execute(Join)
    BY <1>9 DEF JoinExecutes, Counted, TypeOK, Contract!Execute
  <2> QED
    BY <2>1 DEF Contract!Next
<1>10. ASSUME NEW g \in Groups, StartChild(g) \/ ChildChecks(g) \/ ChildRaises(g)
       PROVE  UNCHANGED Contract!cvars
  BY <1>1, <1>10 DEF StartChild, ChildChecks, ChildRaises
<1>11. ASSUME NEW g \in Groups, NEW result \in {"ok", "failed", "raised"},
              ChildExecutes(g, result)
       PROVE  Contract!Next
  <2>1. Contract!Execute(g)
    <3>1. child[g] = "checked" /\ did' = [did EXCEPT ![g] = did[g] + 1] /\ status' = status
      BY <1>11 DEF ChildExecutes
    <3>2. did[g] = 0 /\ status # "none"
      BY <3>1 DEF Counted
    <3> QED
      BY <3>1, <3>2 DEF Contract!Execute
  <2> QED
    BY <2>1 DEF Contract!Next
<1>12. ASSUME NEW c \in Clicks,
              \/ \E kind \in {"batch", "all"} : ClickReads(c, kind)
              \/ ClickPushes(c) \/ PushFails(c)
       PROVE  UNCHANGED Contract!cvars
  BY <1>1, <1>12 DEF ClickReads, ClickPushes, PushFails
<1>13. ASSUME NEW c \in Clicks, ClickWrites(c)
       PROVE  UNCHANGED Contract!cvars
  BY <1>1, <1>13 DEF ClickWrites, SetStatus, Transition
<1> QED
  BY <1>3, <1>4, <1>5, <1>6, <1>7, <1>8, <1>9, <1>10, <1>11, <1>12, <1>13, Steps

\* A run that fans out keeps the contract of every run, whatever late clicks write
\* (update_run_status is refused once the run has ended).
THEOREM ContractKept == Spec => KeepsContract
<1>1. Init => Contract!Init
  BY DEF Init, Contract!Init, Active
<1>2. IInv /\ [Next]_vars => [Contract!Next]_(Contract!cvars)
  BY ContractStep
<1> QED
  BY <1>1, <1>2, InductiveInvariant, PTL DEF Spec, KeepsContract, Contract!Spec

------------------------------------------------------------------------------
(***************************************************************************)
(* What the liveness of the rollout rests on, and how far AllMeansAll can  *)
(* go wrong.                                                               *)
(***************************************************************************)

\* An open run, paused or not, has a worker that goes on with it or one that is
\* lost, which is what the reaper looks for, provided the run has an engine id.
SomebodyFinishesTheRun == status \in Active => pc \in Live \cup {"lost"}

\* As long as no approve-all has written the row, the gate the worker waits at is
\* the one the operator is shown: an approval is for the right batch.
WaitingGateIsShown ==
  all = "no" /\ pc = "waiting" /\ status \in Active =>
    /\ status = "paused"
    /\ approval = [awaiting |-> "yes", next |-> batch, auto |-> "no"]
    /\ batch \in shown

\* A worker that waits has not been told to do without gates.
Watched ==
  /\ pc \in {"waiting", "resuming"} => auto = "no"
  /\ SomebodyFinishesTheRun
  /\ WaitingGateIsShown

\* Nothing but a late approve-all writes the row of a worker that waits.
LEMMA WatchedStep ==
  ASSUME TypeOK, Counted, Watched, [Next]_vars
  PROVE  Watched'
<1> USE DEF TypeOK, Counted, Watched, SomebodyFinishesTheRun, WaitingGateIsShown, Active,
            Terminal, Live, rowVars, workerVars, historyVars
<1>1. CASE Begin
  BY <1>1 DEF Begin
<1>2. CASE SkipGate
  BY <1>2 DEF SkipGate
<1>3. CASE Pause
  BY <1>3 DEF Pause, NeedsGate, SetStatus, Transition
<1>4. CASE Resume
  BY <1>4 DEF Resume, EventSeen
<1>5. CASE Resumed
  BY <1>5 DEF Resumed, SetStatus, Transition
<1>6. CASE RowGone
  BY <1>6 DEF RowGone
<1>7. CASE EndBatch
  BY <1>7 DEF EndBatch
<1>8. CASE Aggregate
  BY <1>8 DEF Aggregate
<1>9. CASE JoinSkipped
  BY <1>9 DEF JoinSkipped
<1>10. CASE JoinGoes
  BY <1>10 DEF JoinGoes
<1>11. CASE Finish
  BY <1>11 DEF Finish, EndRun, Transition, NoState
<1>12. CASE CloseRows
  BY <1>12 DEF CloseRows
<1>13. CASE Interrupted
  BY <1>13 DEF Interrupted, FailInterrupted, EndRun, Transition, NoState
<1>14. CASE WorkerLost
  BY <1>14 DEF WorkerLost
<1>15. CASE Redelivered
  BY <1>15 DEF Redelivered, FailInterrupted, EndRun, Transition, NoState
<1>16. CASE Reap
  BY <1>16 DEF Reap, FailInterrupted, EndRun, Transition, NoState
<1>17. CASE Cancel
  BY <1>17 DEF Cancel, EndRun, Transition, NoState
<1>18. CASE Delete
  BY <1>18 DEF Delete
<1>19. ASSUME NEW result \in {"ok", "failed"}, JoinExecutes(result)
      PROVE  Watched'
  BY <1>19 DEF JoinExecutes
<1>20. ASSUME NEW g \in Groups, StartChild(g)
      PROVE  Watched'
  BY <1>20 DEF StartChild
<1>21. ASSUME NEW g \in Groups, ChildChecks(g)
      PROVE  Watched'
  BY <1>21 DEF ChildChecks
<1>22. ASSUME NEW g \in Groups, ChildRaises(g)
      PROVE  Watched'
  BY <1>22 DEF ChildRaises
<1>23. ASSUME NEW g \in Groups, NEW result \in {"ok", "failed", "raised"}, ChildExecutes(g, result)
      PROVE  Watched'
  BY <1>23 DEF ChildExecutes
<1>24. ASSUME NEW c \in Clicks, NEW kind \in {"batch", "all"}, ClickReads(c, kind)
      PROVE  Watched'
  BY <1>24 DEF ClickReads
<1>25. ASSUME NEW c \in Clicks, ClickWrites(c)
      PROVE  Watched'
  BY <1>25 DEF ClickWrites, SetStatus, Transition, Advance
<1>26. ASSUME NEW c \in Clicks, ClickPushes(c)
      PROVE  Watched'
  BY <1>26 DEF ClickPushes, Advance
<1>27. ASSUME NEW c \in Clicks, PushFails(c)
      PROVE  Watched'
  BY <1>27 DEF PushFails, Advance
<1>28. CASE UNCHANGED vars
  BY <1>28 DEF vars
<1> QED
  BY <1>1, <1>2, <1>3, <1>4, <1>5, <1>6, <1>7, <1>8, <1>9, <1>10, <1>11, <1>12, <1>13,
       <1>14, <1>15, <1>16, <1>17, <1>18, <1>19, <1>20, <1>21, <1>22, <1>23, <1>24,
       <1>25, <1>26, <1>27, <1>28, Steps

LEMMA WatchedAlways == Spec => []Watched
<1>1. Init => Watched
  BY DEF Init, Watched, SomebodyFinishesTheRun, WaitingGateIsShown, Active
<1>2. IInv /\ Watched /\ [Next]_vars => Watched'
  BY WatchedStep DEF IInv
<1> QED
  BY <1>1, <1>2, InductiveInvariant, PTL DEF Spec

\* No end of the worker but its loss, wherever it happens, leaves the run open, for
\* every number of groups, clicks and faults. That a lost one's run is reaped, if
\* it has an engine id, is OrphanIsReaped.
THEOREM SomebodyFinishesTheRunHolds == Spec => []SomebodyFinishesTheRun
<1>1. Watched => SomebodyFinishesTheRun
  BY DEF Watched
<1> QED
  BY <1>1, WatchedAlways, PTL

\* Without an approve-all, repeated and overtaken approve-batch clicks never make
\* the run show another gate than the one the worker waits at
\* (_dispatch_with_approval, _require_awaiting_batch).
THEOREM WaitingGateIsShownHolds == Spec => []WaitingGateIsShown
<1>1. Watched => WaitingGateIsShown
  BY DEF Watched
<1> QED
  BY <1>1, WatchedAlways, PTL

\* Once the worker has taken over "all remaining" it never asks again, and no
\* later click, however stale what it writes, makes it forget.
AllIsForGood == [][(auto = "yes") => (auto' = "yes" /\ shown' = shown)]_vars

\* The finding about AllMeansAll is confined to approvals the worker has not read:
\* one it has read holds for the rest of the rollout (auto_approve_remaining).
THEOREM AllIsForGoodHolds == Spec => AllIsForGood
<1>1. Watched /\ [Next]_vars =>
        [(auto = "yes") => (auto' = "yes" /\ shown' = shown)]_vars
  <2> SUFFICES ASSUME Watched, [Next]_vars, auto = "yes"
               PROVE  auto' = auto /\ shown' = shown
    OBVIOUS
  <2>1. ~Pause /\ ~Resumed
    BY DEF Pause, NeedsGate, Resumed, Watched
  <2>2. CASE \/ Begin \/ SkipGate \/ Resume \/ RowGone \/ EndBatch \/ Aggregate
             \/ JoinSkipped \/ JoinGoes \/ Finish
             \/ \E result \in {"ok", "failed"} : JoinExecutes(result)
    BY <2>2 DEF Begin, SkipGate, Resume, RowGone, EndBatch, Aggregate, JoinSkipped,
                JoinGoes, Finish, JoinExecutes, historyVars
  <2>3. CASE \/ CloseRows \/ Interrupted \/ WorkerLost \/ Redelivered \/ Reap
             \/ Cancel \/ Delete \/ UNCHANGED vars
    BY <2>3 DEF CloseRows, Interrupted, WorkerLost, Redelivered, Reap, Cancel, Delete,
                vars, workerVars, historyVars
  <2>4. ASSUME NEW g \in Groups,
               \/ StartChild(g) \/ ChildChecks(g) \/ ChildRaises(g)
               \/ \E result \in {"ok", "failed", "raised"} : ChildExecutes(g, result)
        PROVE  auto' = auto /\ shown' = shown
    BY <2>4 DEF StartChild, ChildChecks, ChildRaises, ChildExecutes, workerVars,
                historyVars
  <2>5. ASSUME NEW c \in Clicks,
               \/ \E kind \in {"batch", "all"} : ClickReads(c, kind)
               \/ ClickWrites(c) \/ ClickPushes(c) \/ PushFails(c)
        PROVE  auto' = auto /\ shown' = shown
    BY <2>5 DEF ClickReads, ClickWrites, ClickPushes, PushFails, workerVars, historyVars
  <2> QED
    BY <2>1, <2>2, <2>3, <2>4, <2>5, Steps
<1> QED
  BY <1>1, WatchedAlways, PTL DEF Spec, AllIsForGood

\* A run that has ended keeps its status until it is deleted: neither an approve-all
\* that writes "paused" late nor the worker that resumes opens it again.
StatusIsFinal ==
  [][/\ status \in Terminal => status' \in {status, "deleted"}
     /\ status = "deleted" => status' = "deleted"]_vars

\* The contract in the terms of the row, against every overlap of clicks, worker,
\* reaper and cancel (transition_run).
THEOREM StatusIsFinalHolds == Spec => StatusIsFinal
<1>1. ASSUME IInv, [Next]_vars
      PROVE  /\ status \in Terminal => status' \in {status, "deleted"}
             /\ status = "deleted" => status' = "deleted"
  <2>1. Contract!Next \/ UNCHANGED Contract!cvars
    BY <1>1, ContractStep
  <2> QED
    BY <1>1, <2>1 DEF Contract!Next, Contract!Create, Contract!Execute, Contract!End,
         Contract!Delete, Contract!Ended, Contract!cvars, Active, Terminal, IInv, TypeOK
<1>2. IInv /\ [Next]_vars =>
        [/\ status \in Terminal => status' \in {status, "deleted"}
         /\ status = "deleted" => status' = "deleted"]_vars
  BY <1>1
<1> QED
  BY <1>2, InductiveInvariant, PTL DEF Spec, StatusIsFinal
==============================================================================
