-------------------------- MODULE RunLifecycleProofs --------------------------
(***************************************************************************)
(* Proofs about RunLifecycle, for every plan, every number of deliveries   *)
(* and every number of faults.                                             *)
(***************************************************************************)
EXTENDS RunLifecycle, TLAPS

USE NAssumption, WaveAssumption, ParentsAssumption, DeliveryAssumption, FaultAssumption

------------------------------------------------------------------------------
(***************************************************************************)
(* Type correctness.                                                       *)
(***************************************************************************)

\* The repository's helpers return statuses: the value of a guarded UPDATE, of
\* a step row write, and of the finalise.
LEMMA HelperTypes ==
  ASSUME TypeOK
  PROVE  /\ \A F : \A s \in Active \cup Terminal :
              Transition(F, s) \in {"none", "deleted"} \cup Active \cup Terminal
         /\ \A n \in Nodes : \A s \in {"partial"} \cup OpenStep \cup TerminalStep :
              UpdatedRow(n, s) \in {"absent", "partial"} \cup OpenStep \cup TerminalStep
         /\ FinalisedRows \in
              [Nodes -> {"absent", "partial"} \cup OpenStep \cup TerminalStep]
  BY DEF TypeOK, Transition, UpdatedRow, FinalisedRows, OpenStep, TerminalStep

\* The variables always hold values of their types (every column of the run
\* and step rows, and every place of a task).
THEOREM TypeCorrect == Spec => []TypeOK
<1>1. Init => TypeOK
  BY DEF Init, TypeOK, Nodes, Active, Live, Terminal, OpenStep, TerminalStep
<1>2. TypeOK /\ [Next]_vars => TypeOK'
  <2> SUFFICES ASSUME TypeOK, [Next]_vars PROVE TypeOK'
    OBVIOUS
  <2> USE DEF TypeOK, Active, Terminal, rowVars, envVars, walkVars, ghosts
  <2>1. CASE Dispatch \/ Cancel
    BY <2>1 DEF Dispatch, CreateRun, EngineAccepts, DispatchRaises, RecordEngineId,
                MarkDispatchFailed, Cancel, Transition, Owes, NotTerminal
  <2>2. CASE DeleteRun \/ CloseRows
    BY <2>2, HelperTypes DEF DeleteRun, CloseRows, EngineEnded
  <2>3. CASE FailRun \/ ReaperLooks \/ ReaperFails
    BY <2>3 DEF FailRun, ReaperLooks, ReaperFails, FailInterrupted, Transition, Owes,
                NotTerminal
  <2>4. CASE ApiCrash \/ CloserCrash
    BY <2>4 DEF ApiCrash, CloserCrash
  <2>5. ASSUME NEW d \in Deliveries,
               Deliver(d) \/ Redeliver(d) \/ EngineGivesUp(d) \/ Faults(d)
        PROVE  TypeOK'
    BY <2>5 DEF Deliver, Redeliver, EngineGivesUp, Faults, WorkerCrash, Interrupt,
                EngineRaise, EngineEnded, Live
  <2>6. ASSUME NEW d \in Deliveries, Prepare(d) \/ CheckRows(d) \/ BeginWalk(d)
        PROVE  TypeOK'
    <3>1. CASE Prepare(d)
      BY <3>1 DEF Prepare, GoTo, Live, Transition
    <3>2. CASE CheckRows(d)
      BY <3>2 DEF CheckRows, GoTo, Live
    <3>3. CASE BeginWalk(d)
      BY <3>3 DEF BeginWalk, GoTo, Live
    <3> QED
      BY <2>6, <3>1, <3>2, <3>3
  <2>7. ASSUME NEW d \in Deliveries,
               \/ ReadRun(d) \/ FinishRun(d) \/ FinaliseInterrupted(d) \/ CheckCancel(d)
        PROVE  TypeOK'
    <3>0. pc' \in [Deliveries -> {"idle", "ended", "lost"} \cup Live]
      BY <2>7 DEF ReadRun, FinishRun, FinaliseInterrupted, CheckCancel, GoTo, Live
    <3>1. CASE ReadRun(d)
      <4>1. engine' \in {"absent", "RUNNING"} \cup EngineEnded
        BY <3>1 DEF ReadRun, EngineReturn, EngineEnded
      <4> QED
        BY <3>0, <3>1, <4>1 DEF ReadRun, EngineReturn
    <3>2. CASE FinishRun(d)
      <4>1. engine' \in {"absent", "RUNNING"} \cup EngineEnded
        BY <3>2 DEF FinishRun, EngineReturn, EngineEnded
      <4>2. status' \in {"none", "deleted"} \cup Active \cup Terminal
        BY <3>2 DEF FinishRun, Transition, FinalStatus
      <4> QED
        BY <3>0, <3>2, <4>1, <4>2 DEF FinishRun, EngineReturn
    <3>3. CASE FinaliseInterrupted(d)
      BY <3>0, <3>3 DEF FinaliseInterrupted, EngineRaise, EngineEnded, FailInterrupted,
                        Transition, Owes
    <3>4. CASE CheckCancel(d)
      <4>1. verdict' \in [Deliveries -> {"ok", "reported", "failed"}]
        BY <3>4 DEF CheckCancel
      <4> QED
        BY <3>0, <3>4, <4>1 DEF CheckCancel
    <3> QED
      BY <2>7, <3>1, <3>2, <3>3, <3>4
  <2>8. ASSUME NEW d \in Deliveries, CreateStepRow(d)
        PROVE  TypeOK'
    <3>1. made[d] + 1 \in Nodes /\ made[d] + 1 \in 0 .. N
      BY <2>8 DEF CreateStepRow, Nodes
    <3>2. row' \in [Nodes -> {"absent", "partial"} \cup OpenStep \cup TerminalStep]
      BY <2>8, <3>1 DEF CreateStepRow, OpenStep
    <3>3. made' \in [Deliveries -> 0 .. N]
      BY <2>8, <3>1 DEF CreateStepRow
    <3>4. owner' \in Deliveries \cup {NoDelivery}
      BY <2>8 DEF CreateStepRow
    <3>5. pc' \in [Deliveries -> {"idle", "ended", "lost"} \cup Live]
      BY <2>8 DEF CreateStepRow, GoTo, Live
    <3> QED
      BY <2>8, <3>2, <3>3, <3>4, <3>5 DEF CreateStepRow
  <2>9. ASSUME NEW d \in Deliveries, EndWave(d)
        PROVE  TypeOK'
    <3>1. wave' \in [Deliveries -> 1 .. LastWave]
      <4>1. wave' = wave \/ (wave[d] # LastWave /\ wave' = [wave EXCEPT ![d] = wave[d] + 1])
        BY <2>9 DEF EndWave, AtLastWave
      <4>2. wave[d] \in 1 .. LastWave
        OBVIOUS
      <4>3. wave[d] # LastWave => wave[d] + 1 \in 1 .. LastWave
        <5> HIDE DEF TypeOK
        <5> QED
          BY <4>2
      <4> QED
        BY <4>1, <4>3
    <3>2. verdict' \in [Deliveries -> {"ok", "reported", "failed"}]
      BY <2>9 DEF EndWave, VerdictAfter
    <3>3. pc' \in [Deliveries -> {"idle", "ended", "lost"} \cup Live]
      BY <2>9 DEF EndWave, GoTo, Live
    <3> QED
      BY <2>9, <3>1, <3>2, <3>3 DEF EndWave
  <2>10. ASSUME NEW d \in Deliveries, NEW n \in Nodes,
               SkipNode(d, n) \/ BlockNode(d, n) \/ NodeError(d, n) \/ StartNode(d, n)
        PROVE  TypeOK'
    <3>1. CASE SkipNode(d, n) /\ status = "deleted"
      BY <3>1 DEF SkipNode, GoTo, Live
    <3>2. CASE SkipNode(d, n) /\ status # "deleted"
      <4>1. row' \in [Nodes -> {"absent", "partial"} \cup OpenStep \cup TerminalStep]
        BY <3>2, HelperTypes DEF SkipNode, TerminalStep
      <4>2. /\ node' = [node EXCEPT ![d][n] = "skipped"]
            /\ UNCHANGED <<status, engineId, pc, made, wave, verdict, envVars, ghosts>>
        BY <3>2 DEF SkipNode
      <4> QED
        BY <4>1, <4>2
    <3>3. CASE BlockNode(d, n)
      BY <3>3, HelperTypes DEF BlockNode, TerminalStep
    <3>4. CASE NodeError(d, n)
      BY <3>4 DEF NodeError
    <3>5. CASE StartNode(d, n)
      BY <3>5, HelperTypes DEF StartNode, OpenStep
    <3> QED
      BY <2>10, <3>1, <3>2, <3>3, <3>4, <3>5
  <2>11. ASSUME NEW d \in Deliveries, NEW n \in Nodes,
                NEW r \in {"ok", "partial", "failed", "raised"}, FinishNode(d, n, r)
         PROVE  TypeOK'
    BY <2>11, HelperTypes DEF FinishNode, TerminalStep
  <2>12. CASE UNCHANGED vars
    BY <2>12 DEF vars
  <2> QED
    BY <2>1, <2>2, <2>3, <2>4, <2>5, <2>6, <2>7, <2>8, <2>9, <2>10, <2>11, <2>12
       DEF Next, Net, Walk, Dispatch, Faults
<1> QED
  BY <1>1, <1>2, PTL DEF Spec

------------------------------------------------------------------------------
(***************************************************************************)
(* The inductive invariant, in layers. Each is proved from the ones before *)
(* it.                                                                     *)
(***************************************************************************)

\* There is no run, and nothing at the engine, before the API creates it.
Begun ==
  /\ api = "idle" => status = "none"
  /\ status = "none" => api = "idle"
  /\ api = "idle" => engine = "absent"
  /\ engine = "absent" => \A d \in Deliveries : pc[d] = "idle"

\* The delivery that inserted the first step row owns the run: nobody else can
\* insert a row, so nobody else walks, and what it has not started was never
\* executed. This is why AtMostOnce holds.
Owned ==
  /\ \A d \in Deliveries : made[d] > 0 => owner = d
  /\ owner = NoDelivery => \A n \in Nodes : row[n] = "absent" /\ execs[n] = 0
  /\ owner # NoDelivery /\ status # "deleted" => row[1] # "absent"
  /\ \A d \in Deliveries : pc[d] \in {"check", "run", "skip", "final"} => made[d] = N
  /\ \A d \in Deliveries : \A n \in Nodes : d # owner => node[d][n] = "todo"
  /\ \A d \in Deliveries : \A n \in Nodes :
       owner = d /\ node[d][n] = "todo" => execs[n] = 0
  /\ AtMostOnce

\* What a node can be when it is finished with, other than by a lost row.
Done == {"ok", "partial", "failed", "raised", "blocked", "skipped"}

\* The generations a walk has left behind are done, and a verdict of "ok" means
\* that every node in them was executed without a failure.
Walked ==
  \A d \in Deliveries :
    /\ pc[d] = "skip" => verdict[d] = "failed"
    /\ \A n \in Nodes :
         /\ Wave[n] < wave[d] \/ pc[d] = "final" => node[d][n] \in Done
         /\ (Wave[n] < wave[d] \/ pc[d] = "final") /\ verdict[d] = "ok" =>
              node[d][n] \in {"ok", "partial"}
         /\ node[d][n] = "skipped" => verdict[d] = "failed"
         /\ node[d][n] \in {"exec", "ok", "partial", "failed", "raised"} => execs[n] = 1

\* The step row of node n follows the walk of the owner d: it exists once it was
\* made, a node that is not finished is never shown as finished well, and the
\* row of a finished one tells the truth or was frozen by a cancel.
RowFollows(d, n) ==
  /\ n <= made[d] => row[n] # "absent"
  /\ node[d][n] \in {"todo", "exec"} => row[n] \notin {"success", "partial"}
  /\ node[d][n] \in Done =>
       \/ row[n] = Truth(d, n)
       \/ status = "cancelled" /\ row[n] \in {"failed", "skipped"}

RowsFollow ==
  status # "deleted" =>
    \A d \in Deliveries : \A n \in Nodes : owner = d => RowFollows(d, n)

\* Nothing walks a run any more that ended with success.
SuccessIsFinal ==
  status = "success" =>
    /\ \E d \in Deliveries : owner = d /\ pc[d] = "ended"
    /\ SuccessIsHonest

\* A cancelled run: the generation that was started before the cancel is the
\* only one, and its rows are closed.
CancelHolds ==
  /\ late # {} => status \in {"cancelled", "deleted"}
  /\ \A d \in Deliveries : pc[d] = "run" => \A n \in late : Wave[n] = wave[d]
  /\ CancelStopsWithinOneWave
  /\ status = "cancelled" /\ closing = "no" =>
       \A d \in Deliveries : pc[d] = "run" =>
         \A n \in Nodes : row[n] \notin {"absent", "pending", "running"}
  /\ CancelledShowsNoRunningStep

IInv == TypeOK /\ Begun /\ Owned /\ Walked /\ RowsFollow /\ SuccessIsFinal /\ CancelHolds

------------------------------------------------------------------------------
(***************************************************************************)
(* How the actions move the status and the tasks.                          *)
(***************************************************************************)

\* Steps of the API, the operator, the on-failure task and the reaper that
\* touch no step row and no task.
Outside ==
  \/ Dispatch \/ Cancel \/ FailRun \/ ReaperLooks \/ ReaperFails
  \/ ApiCrash \/ CloserCrash

\* Steps that move the task of d and neither write a step row nor start a node.
Moves(d) ==
  \/ Deliver(d) \/ Redeliver(d) \/ EngineGivesUp(d) \/ Faults(d)
  \/ Prepare(d) \/ ReadRun(d) \/ CheckRows(d) \/ BeginWalk(d)
  \/ CheckCancel(d) \/ EndWave(d) \/ FinishRun(d) \/ FinaliseInterrupted(d)

Walking == {"check", "run", "skip", "final"}

\* Next, sorted by what a step can disturb.
LEMMA StepKinds ==
  ASSUME [Next]_vars
  PROVE  \/ Outside \/ CloseRows \/ DeleteRun
         \/ \E d \in Deliveries :
              \/ Moves(d) \/ CreateStepRow(d)
              \/ \E n \in Nodes :
                   \/ SkipNode(d, n) \/ BlockNode(d, n) \/ StartNode(d, n)
                   \/ NodeError(d, n)
                   \/ \E r \in {"ok", "partial", "failed", "raised"} : FinishNode(d, n, r)
         \/ UNCHANGED vars
  BY DEF Next, Net, Walk, Outside, Moves

\* A step outside the tasks: a run that is active may end, nothing else.
LEMMA OutsideStep ==
  ASSUME TypeOK, Begun, Outside
  PROVE  /\ UNCHANGED <<row, walkVars, ghosts>>
         /\ \/ status' = status
            \/ status = "none" /\ status' = "pending"
            \/ status \in Active /\ status' \in {"failed", "cancelled"}
  BY DEF Outside, Dispatch, CreateRun, EngineAccepts, DispatchRaises, RecordEngineId,
         MarkDispatchFailed, Cancel, FailRun, ReaperLooks, ReaperFails, ApiCrash,
         CloserCrash, FailInterrupted, Transition, NotTerminal, TypeOK, Begun, Active,
         Terminal, rowVars, walkVars, ghosts

\* A move of a task: only pc, wave and verdict of that task change, and a walk
\* begins only when all its rows are made.
LEMMA MoveStep ==
  ASSUME TypeOK, NEW d \in Deliveries, Moves(d)
  PROVE  /\ UNCHANGED <<row, made, node, owner, execs, late>>
         /\ \E p \in {"idle", "ended", "lost"} \cup Live :
              /\ pc' = [pc EXCEPT ![d] = p]
              /\ p \in Walking => pc[d] \in Walking \/ made[d] = N
         /\ \/ status' = status
            \/ status \in Active /\ status' \in {"running", "success", "failed"}
<1> USE DEF rowVars, walkVars, ghosts, envVars, GoTo, Walking, Live
<1>1. CASE Deliver(d) \/ Redeliver(d) \/ EngineGivesUp(d) \/ Faults(d)
  BY <1>1 DEF Deliver, Redeliver, EngineGivesUp, Faults, WorkerCrash, Interrupt
<1>2. CASE Prepare(d)
  BY <1>2 DEF Prepare, Transition, Active
<1>3. CASE ReadRun(d)
  BY <1>3 DEF ReadRun
<1>4. CASE CheckRows(d) \/ BeginWalk(d)
  BY <1>4 DEF CheckRows, BeginWalk
<1>5. CASE CheckCancel(d)
  BY <1>5 DEF CheckCancel
<1>6. CASE EndWave(d)
  BY <1>6 DEF EndWave
<1>7. CASE FinishRun(d)
  BY <1>7 DEF FinishRun, Transition, NotTerminal, FinalStatus
<1>8. CASE FinaliseInterrupted(d)
  BY <1>8 DEF FinaliseInterrupted, FailInterrupted, Transition, NotTerminal
<1> QED
  BY <1>1, <1>2, <1>3, <1>4, <1>5, <1>6, <1>7, <1>8 DEF Moves

------------------------------------------------------------------------------
(***************************************************************************)
(* One owner, and each node executed at most once.                         *)
(***************************************************************************)

\* The API, the engine and the tasks start in this order.
LEMMA BegunStep ==
  ASSUME TypeOK, Begun, [Next]_vars
  PROVE  Begun'
<1> USE DEF Begun, TypeOK, rowVars, envVars, walkVars, ghosts
<1>1. CASE Dispatch
  BY <1>1 DEF Dispatch, CreateRun, EngineAccepts, DispatchRaises, RecordEngineId,
              MarkDispatchFailed, Transition, NotTerminal, Active
<1>2. CASE Cancel \/ FailRun \/ ReaperLooks \/ ReaperFails \/ ApiCrash \/ CloserCrash
  BY <1>2 DEF Cancel, FailRun, ReaperLooks, ReaperFails, ApiCrash, CloserCrash,
              FailInterrupted, Transition, NotTerminal, Active
<1>3. CASE CloseRows \/ DeleteRun
  BY <1>3 DEF CloseRows, DeleteRun, Terminal
<1>4. ASSUME NEW d \in Deliveries, Moves(d)
      PROVE  Begun'
  <2>1. api' = api /\ engine # "absent" /\ engine' # "absent"
    <3>1. CASE Deliver(d) \/ Redeliver(d)
      BY <3>1 DEF Deliver, Redeliver
    <3>2. CASE EngineGivesUp(d) \/ Faults(d)
      BY <3>2 DEF EngineGivesUp, Faults, WorkerCrash, Interrupt, EngineRaise, Live
    <3>3. CASE ReadRun(d) \/ FinishRun(d) \/ FinaliseInterrupted(d)
      BY <3>3 DEF ReadRun, FinishRun, FinaliseInterrupted, EngineReturn, EngineRaise
    <3>4. CASE Prepare(d) \/ CheckRows(d) \/ BeginWalk(d) \/ CheckCancel(d) \/ EndWave(d)
      BY <3>4 DEF Prepare, CheckRows, BeginWalk, CheckCancel, EndWave
    <3> QED
      BY <1>4, <3>1, <3>2, <3>3, <3>4 DEF Moves
  <2> QED
    BY <1>4, <2>1, MoveStep DEF Active
<1>5. ASSUME NEW d \in Deliveries, CreateStepRow(d)
      PROVE  Begun'
  BY <1>5 DEF CreateStepRow, GoTo
<1>6. ASSUME NEW d \in Deliveries, NEW n \in Nodes,
             SkipNode(d, n) \/ BlockNode(d, n) \/ StartNode(d, n) \/ NodeError(d, n)
      PROVE  Begun'
  BY <1>6 DEF SkipNode, BlockNode, StartNode, NodeError, GoTo
<1>7. ASSUME NEW d \in Deliveries, NEW n \in Nodes,
             NEW r \in {"ok", "partial", "failed", "raised"}, FinishNode(d, n, r)
      PROVE  Begun'
  BY <1>7 DEF FinishNode
<1>8. CASE UNCHANGED vars
  BY <1>8 DEF vars
<1> QED
  BY <1>1, <1>2, <1>3, <1>4, <1>5, <1>6, <1>7, <1>8, StepKinds DEF Outside

\* A delivery at any step of the walk is the owner.
LEMMA WalkerOwns ==
  ASSUME TypeOK, Owned, NEW d \in Deliveries, pc[d] \in Walking
  PROVE  owner = d /\ made[d] = N
  BY DEF TypeOK, Owned, Walking

\* A write of a step row never makes a row disappear.
LEMMA WriteKeepsRow ==
  ASSUME TypeOK, NEW n \in Nodes, NEW s \in {"partial"} \cup OpenStep \cup TerminalStep
  PROVE  UpdatedRow(n, s) # "absent"
  BY DEF UpdatedRow, OpenStep, TerminalStep

LEMMA OwnedStep ==
  ASSUME TypeOK, Begun, Owned, [Next]_vars
  PROVE  Owned'
<1> USE DEF Owned, AtMostOnce
<1>1. CASE Outside
  <2>1. status' # "deleted" => status # "deleted"
    BY <1>1, OutsideStep DEF Active
  <2> QED
    BY <1>1, <2>1, OutsideStep DEF walkVars, ghosts
<1>2. CASE CloseRows
  <2>1. 1 \in Nodes
    BY DEF Nodes
  <2>2. \A n \in Nodes : row'[n] = "absent" <=> row[n] = "absent"
    BY <1>2 DEF CloseRows, FinalisedRows
  <2> QED
    BY <1>2, <2>1, <2>2 DEF CloseRows, walkVars, ghosts
<1>3. CASE DeleteRun
  BY <1>3 DEF DeleteRun, walkVars, ghosts
<1>4. ASSUME NEW d \in Deliveries, Moves(d)
      PROVE  Owned'
  <2>1. status' # "deleted" => status # "deleted"
    BY <1>4, MoveStep DEF Active
  <2>2. PICK p : pc' = [pc EXCEPT ![d] = p] /\ (p \in Walking => pc[d] \in Walking \/ made[d] = N)
    BY <1>4, MoveStep
  <2>3. \A e \in Deliveries : pc'[e] \in Walking => made[e] = N
    BY <2>2 DEF Walking, TypeOK
  <2> QED
    BY <1>4, <2>1, <2>3, MoveStep DEF Walking
<1>5. ASSUME NEW d \in Deliveries, CreateStepRow(d)
      PROVE  Owned'
  <2> DEFINE m == made[d] + 1
  <2>1. m \in Nodes /\ 1 \in Nodes /\ m > 0
    BY <1>5 DEF CreateStepRow, Nodes, TypeOK
  <2>2. CASE ~RowFree(m)
    BY <1>5, <2>2 DEF CreateStepRow, TypeOK, GoTo
  <2>3. CASE RowFree(m)
    <3> USE <1>5, <2>1, <2>3 DEF CreateStepRow, TypeOK
    <3>1. row' = [row EXCEPT ![m] = "pending"] /\ made' = [made EXCEPT ![d] = m]
      OBVIOUS
    <3>2. owner' = d /\ (owner = NoDelivery \/ owner = d)
      <4>1. CASE m = 1
        BY <4>1 DEF RowFree
      <4>2. CASE m # 1
        BY <4>2
      <4> QED
        BY <4>1, <4>2
    <3>3. UNCHANGED <<status, pc, node, execs>>
      BY DEF RowFree
    <3>4. \A e \in Deliveries : made'[e] > 0 => owner' = e
      BY <3>1, <3>2
    <3>5. row'[1] # "absent"
      BY <3>1, <3>2 DEF RowFree
    <3>6. \A e \in Deliveries : pc'[e] \in {"check", "run", "skip", "final"} => made'[e] = N
      BY <3>1, <3>3
    <3> QED
      BY <3>2, <3>3, <3>4, <3>5, <3>6
  <2> QED
    BY <2>2, <2>3
<1>6. ASSUME NEW d \in Deliveries, NEW n \in Nodes,
             SkipNode(d, n) \/ BlockNode(d, n) \/ NodeError(d, n) \/ StartNode(d, n)
      PROVE  Owned'
  <2>1. owner = d /\ made[d] = N
    BY <1>6, WalkerOwns DEF SkipNode, BlockNode, NodeError, StartNode, Walking
  <2>2. 1 \in Nodes
    BY DEF Nodes
  <2>3. \A m \in Nodes : row[m] # "absent" => row'[m] # "absent"
    BY <1>6, WriteKeepsRow DEF SkipNode, BlockNode, NodeError, StartNode, TypeOK,
                               OpenStep, TerminalStep, rowVars
  <2>4. /\ UNCHANGED <<status, made, owner>>
        /\ \A e \in Deliveries : pc'[e] = pc[e] \/ pc'[e] = "raising"
    BY <1>6 DEF SkipNode, BlockNode, NodeError, StartNode, TypeOK, GoTo, rowVars, ghosts
  <2>5. \A e \in Deliveries : e # d => node'[e] = node[e]
    BY <1>6 DEF SkipNode, BlockNode, NodeError, StartNode, TypeOK
  <2>6. \A m \in Nodes : \/ node'[d][m] = node[d][m] /\ execs'[m] = execs[m]
                         \/ m = n /\ node'[d][m] # "todo" /\ execs'[m] = execs[m]
                         \/ m = n /\ node[d][m] = "todo" /\ node'[d][m] # "todo" /\ execs'[m] = execs[m] + 1
    BY <1>6 DEF SkipNode, BlockNode, NodeError, StartNode, TypeOK, ghosts
  <2>7. \A m \in Nodes : execs[m] \in Nat
    BY DEF TypeOK
  <2>8. \A m \in Nodes : execs'[m] <= 1 /\ (node'[d][m] = "todo" => execs'[m] = 0)
    BY <2>1, <2>6, <2>7
  <2> QED
    BY <2>1, <2>2, <2>3, <2>4, <2>5, <2>8
<1>7. ASSUME NEW d \in Deliveries, NEW n \in Nodes,
             NEW r \in {"ok", "partial", "failed", "raised"}, FinishNode(d, n, r)
      PROVE  Owned'
  <2>1. owner = d
    BY <1>7, WalkerOwns DEF FinishNode, Walking
  <2>2. 1 \in Nodes
    BY DEF Nodes
  <2>3. \A m \in Nodes : row[m] # "absent" => row'[m] # "absent"
    BY <1>7, WriteKeepsRow DEF FinishNode, TypeOK, TerminalStep
  <2>4. \A e \in Deliveries : \A m \in Nodes :
          node'[e][m] = node[e][m] \/ (e = d /\ node'[e][m] # "todo")
    BY <1>7 DEF FinishNode, TypeOK
  <2> QED
    BY <1>7, <2>1, <2>2, <2>3, <2>4 DEF FinishNode, ghosts
<1>8. CASE UNCHANGED vars
  BY <1>8 DEF vars, rowVars, walkVars, ghosts
<1> QED
  BY <1>1, <1>2, <1>3, <1>4, <1>5, <1>6, <1>7, <1>8, StepKinds

LEMMA InitOwned == Init => Begun /\ Owned
  BY DEF Init, Begun, Owned, AtMostOnce

\* However often the engine delivers the run, and whatever crashes, no node's
\* executor is invoked twice (execute_all's refusal of a started run together
\* with the unique index of workflow_step_results).
THEOREM AtMostOnceHolds == Spec => []AtMostOnce
<1>1. TypeOK /\ Begun /\ Owned /\ [Next]_vars => Begun' /\ Owned'
  BY BegunStep, OwnedStep
<1>2. Owned => AtMostOnce
  BY DEF Owned
<1> QED
  BY <1>1, <1>2, InitOwned, TypeCorrect, PTL DEF Spec

------------------------------------------------------------------------------
(***************************************************************************)
(* The walk through the generations.                                       *)
(***************************************************************************)

LEMMA EndWaveWalked ==
  ASSUME TypeOK, Walked, NEW d \in Deliveries, EndWave(d)
  PROVE  Walked'
<1> USE DEF TypeOK
<1>1. UNCHANGED <<node, execs>>
  BY DEF EndWave, ghosts
<1>2. \A e \in Deliveries : e # d => pc'[e] = pc[e] /\ wave'[e] = wave[e] /\ verdict'[e] = verdict[e]
  BY DEF EndWave, GoTo
<1>3. CASE Has(d, "error")
  <2>1. pc' = [pc EXCEPT ![d] = "raising"] /\ UNCHANGED <<wave, verdict>>
    BY <1>3 DEF EndWave, GoTo
  <2> QED
    BY <1>1, <2>1 DEF Walked
<1>4. CASE ~Has(d, "error")
  <2>1. verdict'[d] = VerdictAfter(d)
    BY <1>4 DEF EndWave
  <2>2. /\ pc'[d] \in {"check", "final"}
        /\ pc'[d] = "final" => wave[d] = LastWave /\ wave'[d] = wave[d]
        /\ pc'[d] = "check" => wave'[d] = wave[d] + 1
    BY <1>4 DEF EndWave, GoTo, AtLastWave
  <2>3. \A n \in Nodes : Wave[n] = wave[d] => node[d][n] \in Done
    BY <1>4 DEF EndWave, Has, Done
  <2>4. \A n \in Nodes : Wave[n] \in Nat /\ wave[d] \in Nat /\ Wave[n] <= LastWave
    OBVIOUS
  <2> HIDE DEF TypeOK
  <2>5. \A n \in Nodes : Wave[n] < wave'[d] \/ pc'[d] = "final" => Wave[n] <= wave[d]
    BY <2>2, <2>4
  <2>6. \A n \in Nodes : Wave[n] <= wave[d] => Wave[n] < wave[d] \/ Wave[n] = wave[d]
    BY <2>4
  <2>7. \A n \in Nodes : Wave[n] <= wave[d] => node[d][n] \in Done
    BY <2>3, <2>6 DEF Walked
  <2>8. ASSUME NEW n \in Nodes, Wave[n] <= wave[d], VerdictAfter(d) = "ok"
        PROVE  node[d][n] \in {"ok", "partial"}
    <3>1. verdict[d] = "ok" /\ ~Has(d, "raised") /\ ~Has(d, "failed") /\ ~Has(d, "blocked")
      BY <2>8 DEF VerdictAfter
    <3>2. CASE Wave[n] < wave[d]
      BY <3>1, <3>2 DEF Walked
    <3>3. CASE Wave[n] = wave[d]
      BY <2>3, <3>1, <3>3 DEF Has, Done, Walked
    <3> QED
      BY <2>6, <2>8, <3>2, <3>3
  <2>9. verdict[d] = "failed" => VerdictAfter(d) = "failed"
    BY DEF VerdictAfter
  <2>10. ASSUME NEW n \in Nodes
         PROVE  /\ Wave[n] < wave'[d] \/ pc'[d] = "final" => node'[d][n] \in Done
                /\ (Wave[n] < wave'[d] \/ pc'[d] = "final") /\ verdict'[d] = "ok" =>
                     node'[d][n] \in {"ok", "partial"}
                /\ node'[d][n] = "skipped" => verdict'[d] = "failed"
                /\ node'[d][n] \in {"exec", "ok", "partial", "failed", "raised"} => execs'[n] = 1
    <3>1. node'[d][n] = node[d][n] /\ execs'[n] = execs[n]
      BY <1>1
    <3>2. node'[d][n] = "skipped" => verdict'[d] = "failed"
      BY <2>1, <2>9, <3>1 DEF Walked
    <3>3. node'[d][n] \in {"exec", "ok", "partial", "failed", "raised"} => execs'[n] = 1
      BY <3>1 DEF Walked
    <3> QED
      BY <2>1, <2>5, <2>7, <2>8, <3>1, <3>2, <3>3
  <2>11. pc'[d] # "skip"
    BY <2>2
  <2> QED
    BY <1>1, <1>2, <2>10, <2>11 DEF Walked
<1> QED
  BY <1>3, <1>4

LEMMA WalkedStep ==
  ASSUME TypeOK, Owned, Walked, [Next]_vars
  PROVE  Walked'
<1>1. CASE UNCHANGED <<walkVars, ghosts>>
  BY <1>1 DEF Walked, walkVars, ghosts
<1>2. CASE Outside \/ CloseRows \/ DeleteRun \/ UNCHANGED vars
  BY <1>1, <1>2 DEF Outside, Dispatch, CreateRun, EngineAccepts, DispatchRaises,
     RecordEngineId, MarkDispatchFailed, Cancel, FailRun, ReaperLooks, ReaperFails,
     ApiCrash, CloserCrash, CloseRows, DeleteRun, vars
<1>3. ASSUME NEW d \in Deliveries, Moves(d)
      PROVE  Walked'
  <2>1. UNCHANGED <<node, execs>>
    BY <1>3, MoveStep
  <2>2. CASE CheckCancel(d)
    <3>1. UNCHANGED wave
      BY <2>2 DEF CheckCancel
    <3>2. \A e \in Deliveries : \/ pc'[e] = pc[e] /\ verdict'[e] = verdict[e]
                                \/ pc'[e] \notin {"skip", "final"} /\ verdict'[e] = verdict[e]
                                \/ pc'[e] = "skip" /\ verdict'[e] = "failed"
      BY <2>2 DEF CheckCancel, GoTo, TypeOK
    <3> QED
      BY <2>1, <3>1, <3>2 DEF Walked
  <2>3. CASE EndWave(d)
    BY <2>3, EndWaveWalked
  <2>4. CASE ~CheckCancel(d) /\ ~EndWave(d)
    <3>1. UNCHANGED <<wave, verdict>>
      BY <1>3, <2>4 DEF Moves, Deliver, Redeliver, EngineGivesUp, Faults, WorkerCrash,
         Interrupt, Prepare, ReadRun, CheckRows, BeginWalk, FinishRun, FinaliseInterrupted
    <3>2. \A e \in Deliveries : pc'[e] = pc[e] \/ pc'[e] \notin {"skip", "final"}
      BY <1>3, <2>4 DEF Moves, Deliver, Redeliver, EngineGivesUp, Faults, WorkerCrash,
         Interrupt, Prepare, ReadRun, CheckRows, BeginWalk, FinishRun, FinaliseInterrupted,
         GoTo, TypeOK
    <3> QED
      BY <2>1, <3>1, <3>2 DEF Walked
  <2> QED
    BY <2>2, <2>3, <2>4
<1>4. ASSUME NEW d \in Deliveries, CreateStepRow(d)
      PROVE  Walked'
  <2>1. UNCHANGED <<node, wave, verdict, execs>>
    BY <1>4 DEF CreateStepRow
  <2>2. \A e \in Deliveries : pc'[e] = pc[e] \/ pc'[e] = "raising"
    BY <1>4 DEF CreateStepRow, GoTo, TypeOK
  <2> QED
    BY <2>1, <2>2 DEF Walked
<1>5. ASSUME NEW d \in Deliveries, NEW n \in Nodes, SkipNode(d, n)
      PROVE  Walked'
  <2>1. UNCHANGED <<wave, verdict, execs>> /\ pc[d] = "skip" /\ Wave[n] = wave[d]
    BY <1>5 DEF SkipNode, ghosts
  <2>2. \A e \in Deliveries : pc'[e] = pc[e] \/ pc'[e] = "raising"
    BY <1>5 DEF SkipNode, GoTo, TypeOK
  <2>3. \A e \in Deliveries, m \in Nodes :
          node'[e][m] = node[e][m] \/ (e = d /\ m = n /\ node'[e][m] = "skipped")
    BY <1>5 DEF SkipNode, TypeOK
  <2>4. ~(Wave[n] < wave[d])
    BY <2>1 DEF TypeOK
  <2> QED
    BY <2>1, <2>2, <2>3, <2>4 DEF Walked
<1>6. ASSUME NEW d \in Deliveries, NEW n \in Nodes,
             BlockNode(d, n) \/ StartNode(d, n) \/ NodeError(d, n)
      PROVE  Walked'
  <2>1. UNCHANGED <<pc, wave, verdict>> /\ pc[d] = "run" /\ Wave[n] = wave[d]
    BY <1>6 DEF BlockNode, StartNode, NodeError
  <2>2. \A e \in Deliveries, m \in Nodes :
          \/ node'[e][m] = node[e][m]
          \/ e = d /\ m = n /\ node'[e][m] \in {"blocked", "error"}
          \/ e = d /\ m = n /\ node'[e][m] = "exec" /\ execs'[m] = execs[m] + 1 /\ node[d][n] = "todo"
    BY <1>6 DEF BlockNode, StartNode, NodeError, TypeOK
  <2>3. owner = d
    BY <2>1, WalkerOwns DEF Walking
  <2>4. \A m \in Nodes : execs'[m] = execs[m] \/ (m = n /\ node[d][n] = "todo" /\ execs'[n] = execs[n] + 1)
    BY <1>6 DEF BlockNode, StartNode, NodeError, TypeOK, ghosts
  <2>5. \A e \in Deliveries, m \in Nodes : e # d => node[e][m] = "todo" /\ node'[e][m] = "todo"
    BY <2>2, <2>3 DEF Owned
  <2>6. ~(Wave[n] < wave[d])
    BY <2>1 DEF TypeOK
  <2>7. node[d][n] = "todo" => execs[n] = 0
    BY <2>3 DEF Owned
  <2>8. \A e \in Deliveries, m \in Nodes :
          node'[e][m] \in {"exec", "ok", "partial", "failed", "raised"} => execs'[m] = 1
    <3> SUFFICES ASSUME NEW m \in Nodes, node'[d][m] \in {"exec", "ok", "partial", "failed", "raised"}
                 PROVE  execs'[m] = 1
      BY <2>5
    <3>1. CASE node'[d][m] = node[d][m]
      BY <2>4, <3>1 DEF Walked
    <3>2. CASE node'[d][m] # node[d][m]
      BY <2>2, <2>7, <3>2
    <3> QED
      BY <3>1, <3>2
  <2>9. \A e \in Deliveries : \A m \in Nodes :
          /\ Wave[m] < wave[e] \/ pc[e] = "final" => node'[e][m] = node[e][m]
          /\ node'[e][m] = "skipped" => node[e][m] = "skipped"
    BY <2>1, <2>2, <2>6
  <2> QED
    BY <2>1, <2>8, <2>9 DEF Walked
<1>7. ASSUME NEW d \in Deliveries, NEW n \in Nodes,
             NEW r \in {"ok", "partial", "failed", "raised"}, FinishNode(d, n, r)
      PROVE  Walked'
  <2>1. UNCHANGED <<pc, wave, verdict, execs>> /\ pc[d] = "run" /\ node[d][n] = "exec"
    BY <1>7 DEF FinishNode, ghosts
  <2>2. \A e \in Deliveries, m \in Nodes :
          \/ node'[e][m] = node[e][m]
          \/ e = d /\ m = n /\ node'[e][m] \in {"ok", "partial", "failed", "raised"}
    BY <1>7 DEF FinishNode, TypeOK
  <2>3. ~(Wave[n] < wave[d])
    BY <2>1 DEF Walked, Done
  <2> QED
    BY <2>1, <2>2, <2>3 DEF Walked
<1> QED
  BY <1>2, <1>3, <1>4, <1>5, <1>6, <1>7, StepKinds

------------------------------------------------------------------------------
(***************************************************************************)
(* The step rows.                                                          *)
(***************************************************************************)

\* Only the owner's walk has settled any node.
LEMMA RowsFollowTruth ==
  ASSUME Owned, RowsFollow
  PROVE  RowsTellTheTruth
<1>1. \A d \in Deliveries : Settled(d) = {n \in Nodes : node[d][n] \in Done}
  BY DEF Settled, Done
<1>2. \A d \in Deliveries : \A n \in Nodes : owner # d => node[d][n] \notin Done
  BY DEF Owned, Done
<1> QED
  BY <1>1, <1>2 DEF RowsFollow, RowsTellTheTruth, RowFollows

\* A finished node keeps a row that says so through any step that only closes
\* open rows.
LEMMA ClosedRowStays ==
  ASSUME TypeOK, NEW d \in Deliveries, NEW n \in Nodes
  PROVE  Truth(d, n) \in {"success", "partial", "failed", "skipped"}
  BY DEF Truth

LEMMA RowsFollowStep ==
  ASSUME TypeOK, Begun, Owned, RowsFollow, [Next]_vars
  PROVE  RowsFollow'
<1>0. SUFFICES ASSUME status' # "deleted", NEW e \in Deliveries, NEW m \in Nodes, owner' = e
               PROVE  RowFollows(e, m)'
  BY DEF RowsFollow
<1>1. status # "deleted" /\ owner = e => RowFollows(e, m)
  BY DEF RowsFollow
<1>2. CASE Outside
  <2>1. UNCHANGED <<row, walkVars, ghosts>> /\ status # "deleted"
    BY <1>0, <1>2, OutsideStep DEF Active
  <2>2. status = "cancelled" => status' = "cancelled"
    BY <1>2, OutsideStep DEF Active
  <2> QED
    BY <1>0, <1>1, <2>1, <2>2 DEF RowFollows, Truth, walkVars, ghosts
<1>3. ASSUME NEW d \in Deliveries, Moves(d)
      PROVE  RowFollows(e, m)'
  <2>1. UNCHANGED <<row, made, node, owner>> /\ status # "deleted"
    BY <1>0, <1>3, MoveStep DEF Active
  <2>2. status = "cancelled" => status' = "cancelled"
    BY <1>3, MoveStep DEF Active
  <2> QED
    BY <1>0, <1>1, <2>1, <2>2 DEF RowFollows, Truth
<1>4. CASE CloseRows
  <2>1. UNCHANGED <<status, made, node, owner>>
    BY <1>4 DEF CloseRows, walkVars, ghosts
  <2>2. \/ row'[m] = row[m]
        \/ row[m] \in {"running", "pending"} /\ row'[m] \in {"failed", "skipped"}
    BY <1>4 DEF CloseRows, FinalisedRows
  <2> QED
    BY <1>0, <1>1, <2>1, <2>2, ClosedRowStays DEF RowFollows, Truth
<1>5. CASE DeleteRun
  BY <1>0, <1>5 DEF DeleteRun
<1>6. ASSUME NEW d \in Deliveries, CreateStepRow(d)
      PROVE  RowFollows(e, m)'
  <2> DEFINE k == made[d] + 1
  <2>1. k \in Nodes /\ UNCHANGED <<status, node>> /\ made[d] \in Nat
    BY <1>6 DEF CreateStepRow, TypeOK, Nodes
  <2>2. CASE ~RowFree(k)
    <3>1. UNCHANGED <<row, made, owner>>
      BY <1>6, <2>2 DEF CreateStepRow
    <3> QED
      BY <1>0, <1>1, <2>1, <3>1 DEF RowFollows, Truth
  <2>3. CASE RowFree(k)
    <3>1. row' = [row EXCEPT ![k] = "pending"] /\ made' = [made EXCEPT ![d] = k]
      BY <1>6, <2>3 DEF CreateStepRow
    <3>2. e = d
      BY <1>0, <1>6, <2>1, <2>3 DEF CreateStepRow, Owned, TypeOK
    <3>3. owner = d \/ (owner = NoDelivery /\ made[d] = 0)
      BY <1>0, <1>6, <2>1, <2>3, <3>2 DEF CreateStepRow, RowFree, Owned, TypeOK
    <3>4. made'[e] = k /\ (row'[m] = row[m] \/ (m = k /\ row'[m] = "pending" /\ row[m] = "absent"))
      BY <2>1, <2>3, <3>1, <3>2 DEF TypeOK, RowFree
    <3>5. CASE owner = d
      <4>1. m <= k => m <= made[d] \/ m = k
        BY <2>1 DEF Nodes
      <4>2. RowFollows(e, m)
        BY <1>0, <1>1, <2>1, <3>2, <3>5
      <4> QED
        <5>1. CASE row'[m] = row[m] /\ m # k
          BY <2>1, <3>2, <3>4, <4>1, <4>2, <5>1 DEF RowFollows, Truth
        <5>2. CASE m = k /\ row'[m] = "pending" /\ row[m] = "absent"
          <6>1. node[e][m] \notin Done
            BY <4>2, <5>2, ClosedRowStays DEF RowFollows
          <6> QED
            BY <2>1, <5>2, <6>1 DEF RowFollows
        <5>3. CASE m = k /\ row'[m] = row[m]
          BY <2>1, <2>3, <3>1, <5>3 DEF RowFree, TypeOK
        <5> QED
          BY <3>4, <5>1, <5>2, <5>3
    <3>6. CASE owner = NoDelivery /\ made[d] = 0
      <4>1. row[m] = "absent" /\ node[d][m] = "todo"
        BY <3>6 DEF Owned
      <4>2. m <= k => m = k
        BY <2>1, <3>6 DEF Nodes
      <4>3. m = k => row'[m] = "pending"
        BY <2>1, <3>1 DEF TypeOK
      <4> QED
        BY <2>1, <3>2, <3>4, <4>1, <4>2, <4>3 DEF RowFollows, Done
    <3> QED
      BY <3>3, <3>5, <3>6
  <2> QED
    BY <2>2, <2>3
<1>7. ASSUME NEW d \in Deliveries, NEW n \in Nodes,
             SkipNode(d, n) \/ BlockNode(d, n) \/ StartNode(d, n) \/ NodeError(d, n)
      PROVE  RowFollows(e, m)'
  <2>1. owner = d /\ UNCHANGED <<status, made, owner>> /\ status # "deleted" /\ e = d
    BY <1>0, <1>7, WalkerOwns DEF SkipNode, BlockNode, StartNode, NodeError, Walking,
                                 rowVars, ghosts
  <2>2. RowFollows(e, m)
    BY <1>1, <2>1
  <2>3. CASE m # n
    <3>1. row'[m] = row[m] /\ node'[e][m] = node[e][m]
      BY <1>7, <2>3 DEF SkipNode, BlockNode, StartNode, NodeError, TypeOK, rowVars
    <3> QED
      BY <2>1, <2>2, <3>1 DEF RowFollows, Truth
  <2>4. CASE m = n
    <3>1. node[d][n] = "todo" /\ row[n] \notin {"success", "partial"}
      BY <1>7, <2>1, <2>2, <2>4 DEF SkipNode, BlockNode, StartNode, NodeError, RowFollows
    <3>2. \/ node'[d][n] = "exec" /\ row'[n] = UpdatedRow(n, "running")
          \/ node'[d][n] \in {"skipped", "blocked"} /\ row'[n] = UpdatedRow(n, "skipped")
      BY <1>7, <2>1 DEF SkipNode, BlockNode, StartNode, NodeError, TypeOK
    <3> QED
      BY <2>1, <2>4, <3>1, <3>2 DEF RowFollows, Truth, UpdatedRow, TerminalStep, Done
  <2> QED
    BY <2>3, <2>4
<1>8. ASSUME NEW d \in Deliveries, NEW n \in Nodes,
             NEW r \in {"ok", "partial", "failed", "raised"}, FinishNode(d, n, r)
      PROVE  RowFollows(e, m)'
  <2>1. owner = d /\ UNCHANGED <<status, made, owner>> /\ status # "deleted" /\ e = d
    BY <1>0, <1>8, WalkerOwns DEF FinishNode, Walking, ghosts
  <2>2. RowFollows(e, m)
    BY <1>1, <2>1
  <2>3. CASE m # n
    <3>1. row'[m] = row[m] /\ node'[e][m] = node[e][m]
      BY <1>8, <2>3 DEF FinishNode, TypeOK
    <3> QED
      BY <2>1, <2>2, <3>1 DEF RowFollows, Truth
  <2>4. CASE m = n
    <3> DEFINE s == IF r = "raised" THEN "failed" ELSE IF r = "ok" THEN "success" ELSE r
    <3>1. row[n] \notin {"success", "partial"}
      BY <1>8, <2>1, <2>2, <2>4 DEF FinishNode, RowFollows
    <3>2. /\ row'[n] = UpdatedRow(n, s)
          /\ node'[d][n] = IF r # "raised" /\ UpdatedRow(n, s) = "failed" THEN "failed" ELSE r
      BY <1>8 DEF FinishNode, TypeOK
    <3>3. \/ UpdatedRow(n, s) = s
          \/ UpdatedRow(n, s) \in {"failed", "skipped"} /\ status = "cancelled"
      BY <3>1 DEF UpdatedRow, TerminalStep
    <3>4. row'[n] # "absent" /\ node'[d][n] \in Done
      BY <3>2, <3>3 DEF Done
    <3>5. row'[n] = Truth(d, n)' \/ (status' = "cancelled" /\ row'[n] \in {"failed", "skipped"})
      BY <2>1, <3>2, <3>3 DEF Truth
    <3> QED
      BY <2>1, <2>4, <3>4, <3>5 DEF RowFollows, Done
  <2> QED
    BY <2>3, <2>4
<1>9. CASE UNCHANGED vars
  BY <1>0, <1>1, <1>9 DEF vars, rowVars, walkVars, ghosts, RowFollows, Truth
<1> QED
  BY <1>2, <1>3, <1>4, <1>5, <1>6, <1>7, <1>8, <1>9, StepKinds

------------------------------------------------------------------------------
(***************************************************************************)
(* Success is honest and final.                                            *)
(***************************************************************************)

\* The only step that reports success is the owner's last, after a walk in
\* which every node was executed and none failed.
LEMMA SuccessReported ==
  ASSUME TypeOK, Owned, Walked, RowsFollow, NEW d \in Deliveries, FinishRun(d),
         status # "success", status' = "success"
  PROVE  /\ owner = d /\ pc'[d] = "ended" /\ status \in Active
         /\ UNCHANGED <<row, execs, owner>>
         /\ \A n \in Nodes : execs[n] = 1 /\ row[n] \in {"success", "partial"}
<1>1. pc[d] = "final" /\ owner = d
  BY WalkerOwns DEF FinishRun, Walking
<1>2. status \in Active /\ verdict[d] = "ok"
  BY DEF FinishRun, Transition, NotTerminal, FinalStatus
<1>3. pc'[d] = "ended" /\ UNCHANGED <<row, execs, owner>>
  BY <1>2 DEF FinishRun, GoTo, TypeOK, Active, ghosts
<1>4. ASSUME NEW n \in Nodes
      PROVE  execs[n] = 1 /\ row[n] \in {"success", "partial"}
  <2>1. node[d][n] \in {"ok", "partial"} /\ execs[n] = 1
    BY <1>1, <1>2 DEF Walked
  <2>2. RowFollows(d, n) /\ status # "cancelled"
    BY <1>1, <1>2 DEF RowsFollow, Active
  <2> QED
    BY <2>1, <2>2 DEF RowFollows, Truth, Done
<1> QED
  BY <1>1, <1>2, <1>3, <1>4

LEMMA SuccessStep ==
  ASSUME TypeOK, Begun, Owned, Walked, RowsFollow, SuccessIsFinal, [Next]_vars
  PROVE  SuccessIsFinal'
<1> SUFFICES ASSUME status' = "success" PROVE SuccessIsFinal'
  BY DEF SuccessIsFinal
<1> USE DEF SuccessIsFinal, SuccessIsHonest
<1>1. ASSUME status = "success"
      PROVE  SuccessIsFinal'
  <2>1. PICK d0 \in Deliveries : owner = d0 /\ pc[d0] = "ended"
    BY <1>1
  <2>2. \A n \in Nodes : execs[n] = 1 /\ row[n] \in {"success", "partial"}
    BY <1>1
  <2>3. UNCHANGED owner /\ UNCHANGED execs /\ pc'[d0] = "ended" /\
        (\A n \in Nodes : row'[n] = row[n])
    <3>1. CASE Outside
      BY <2>1, <3>1, OutsideStep DEF walkVars, ghosts
    <3>2. CASE CloseRows
      BY <2>1, <2>2, <3>2 DEF CloseRows, FinalisedRows, walkVars, ghosts
    <3>3. CASE DeleteRun
      BY <3>3 DEF DeleteRun
    <3>4. ASSUME NEW d \in Deliveries, Moves(d)
          PROVE  <2>3!:
      <4>1. pc[d] # "ended"
        BY <3>4 DEF Moves, Deliver, Delivered, Redeliver, EngineGivesUp, Faults, WorkerCrash,
           Interrupt, Prepare, ReadRun, CheckRows, BeginWalk, CheckCancel, EndWave,
           FinishRun, FinaliseInterrupted, Live
      <4>2. d # d0
        BY <2>1, <4>1
      <4> QED
        BY <2>1, <3>4, <4>2, MoveStep DEF TypeOK
    <3>5. ASSUME NEW d \in Deliveries, CreateStepRow(d)
          PROVE  <2>3!:
      <4>1. ~RowFree(made[d] + 1)
        <5>1. made[d] + 1 \in Nodes
          BY <3>5 DEF CreateStepRow, TypeOK, Nodes
        <5> QED
          BY <2>2, <5>1 DEF RowFree
      <4>2. d # d0
        BY <2>1, <3>5 DEF CreateStepRow
      <4> QED
        BY <2>1, <3>5, <4>1, <4>2 DEF CreateStepRow, GoTo, TypeOK
    <3>6. ASSUME NEW d \in Deliveries, pc[d] \in Walking
          PROVE  FALSE
      BY <2>1, <3>6, WalkerOwns DEF Walking
    <3>7. ASSUME NEW d \in Deliveries, NEW n \in Nodes,
                 \/ SkipNode(d, n) \/ BlockNode(d, n) \/ StartNode(d, n) \/ NodeError(d, n)
                 \/ \E r \in {"ok", "partial", "failed", "raised"} : FinishNode(d, n, r)
          PROVE  FALSE
      BY <3>6, <3>7 DEF SkipNode, BlockNode, StartNode, NodeError, FinishNode, Walking
    <3>8. CASE UNCHANGED vars
      BY <2>1, <3>8 DEF vars, rowVars, walkVars, ghosts
    <3> QED
      BY <3>1, <3>2, <3>3, <3>4, <3>5, <3>7, <3>8, StepKinds
  <2> QED
    BY <2>1, <2>2, <2>3
<1>2. ASSUME status # "success"
      PROVE  SuccessIsFinal'
  <2>1. PICK d \in Deliveries : FinishRun(d)
    <3>1. ~Outside
      BY <1>2, OutsideStep
    <3>2. ~CloseRows /\ ~DeleteRun /\ ~UNCHANGED vars
      BY <1>2 DEF CloseRows, DeleteRun, vars, rowVars
    <3>3. ASSUME NEW d \in Deliveries, NEW n \in Nodes
          PROVE  /\ ~SkipNode(d, n) /\ ~BlockNode(d, n) /\ ~StartNode(d, n)
                 /\ ~NodeError(d, n) /\ ~CreateStepRow(d)
                 /\ \A r \in {"ok", "partial", "failed", "raised"} : ~FinishNode(d, n, r)
      BY <1>2 DEF SkipNode, BlockNode, StartNode, NodeError, CreateStepRow, FinishNode, rowVars
    <3>4. 1 \in Nodes
      BY DEF Nodes
    <3>5. PICK d \in Deliveries : Moves(d)
      BY <3>1, <3>2, <3>3, <3>4, StepKinds
    <3>6. FinishRun(d)
      BY <1>2, <3>5 DEF Moves, Deliver, Redeliver, EngineGivesUp, Faults, WorkerCrash,
         Interrupt, Prepare, ReadRun, CheckRows, BeginWalk, CheckCancel, EndWave,
         FinaliseInterrupted, FailInterrupted, Transition, rowVars
    <3> QED
      BY <3>6
  <2> QED
    BY <1>2, <2>1, SuccessReported
<1> QED
  BY <1>1, <1>2

------------------------------------------------------------------------------
(***************************************************************************)
(* Cancel.                                                                 *)
(***************************************************************************)

\* Once some node has started in a cancelled run, no walk passes its check.
LEMMA NoRunAfterCheck ==
  ASSUME TypeOK, CancelHolds, NEW d \in Deliveries, Moves(d), late # {}
  PROVE  \A e \in Deliveries : pc'[e] = "run" => pc[e] = "run" /\ wave'[e] = wave[e]
<1>1. status \in {"cancelled", "deleted"}
  BY DEF CancelHolds
<1>2. CASE CheckCancel(d)
  BY <1>1, <1>2 DEF CheckCancel, CancelRequested, GoTo, TypeOK
<1>3. CASE EndWave(d)
  BY <1>3 DEF EndWave, GoTo, TypeOK
<1>4. CASE ~CheckCancel(d) /\ ~EndWave(d)
  BY <1>4 DEF Moves, Deliver, Redeliver, EngineGivesUp, Faults, WorkerCrash, Interrupt,
     Prepare, ReadRun, CheckRows, BeginWalk, FinishRun, FinaliseInterrupted, GoTo, TypeOK
<1> QED
  BY <1>2, <1>3, <1>4

\* The half of CancelHolds that is about the nodes started late.
LEMMA LateStep ==
  ASSUME TypeOK, Begun, Owned, CancelHolds, [Next]_vars
  PROVE  /\ late' # {} => status' \in {"cancelled", "deleted"}
         /\ \A e \in Deliveries : pc'[e] = "run" => \A n \in late' : Wave[n] = wave'[e]
         /\ CancelStopsWithinOneWave'
<1> DEFINE Goal == /\ late' # {} => status' \in {"cancelled", "deleted"}
                   /\ \A e \in Deliveries : pc'[e] = "run" => \A n \in late' : Wave[n] = wave'[e]
                   /\ CancelStopsWithinOneWave'
<1> USE DEF CancelHolds, CancelStopsWithinOneWave
<1>1. CASE Outside
  BY <1>1, OutsideStep DEF Active, walkVars, ghosts
<1>2. CASE CloseRows \/ DeleteRun \/ UNCHANGED vars
  BY <1>2 DEF CloseRows, DeleteRun, vars, rowVars, walkVars, ghosts
<1>3. ASSUME NEW d \in Deliveries, Moves(d)
      PROVE  Goal
  <2>1. UNCHANGED late
    BY <1>3, MoveStep
  <2>2. late # {} => status' \in {"cancelled", "deleted"}
    BY <1>3, MoveStep DEF Active
  <2> QED
    BY <1>3, <2>1, <2>2, NoRunAfterCheck
<1>4. ASSUME NEW d \in Deliveries, NEW n \in Nodes,
             CreateStepRow(d) \/ SkipNode(d, n) \/ BlockNode(d, n) \/ NodeError(d, n)
      PROVE  Goal
  <2>1. UNCHANGED <<late, status, wave>>
    BY <1>4 DEF CreateStepRow, SkipNode, BlockNode, NodeError, rowVars, ghosts
  <2>2. \A e \in Deliveries : pc'[e] = "run" => pc[e] = "run"
    BY <1>4 DEF CreateStepRow, SkipNode, BlockNode, NodeError, GoTo, TypeOK
  <2> QED
    BY <2>1, <2>2
<1>5. ASSUME NEW d \in Deliveries, NEW n \in Nodes, StartNode(d, n)
      PROVE  Goal
  <2>1. pc[d] = "run" /\ Wave[n] = wave[d] /\ UNCHANGED <<status, pc, wave>>
    BY <1>5 DEF StartNode
  <2>2. late' = late \/ (late' = late \cup {n} /\ status = "cancelled")
    BY <1>5 DEF StartNode
  <2>3. \A e \in Deliveries : pc[e] = "run" => e = d
    BY <2>1, WalkerOwns DEF Walking
  <2>4. \A k \in late' : Wave[k] = wave[d]
    BY <2>1, <2>2
  <2> QED
    BY <2>1, <2>2, <2>3, <2>4
<1>6. ASSUME NEW d \in Deliveries, NEW n \in Nodes,
             NEW r \in {"ok", "partial", "failed", "raised"}, FinishNode(d, n, r)
      PROVE  Goal
  BY <1>6 DEF FinishNode, ghosts
<1>7. 1 \in Nodes
  BY DEF Nodes
<1> QED
  BY <1>1, <1>2, <1>3, <1>4, <1>5, <1>6, <1>7, StepKinds

\* The half that is about the rows of a cancelled run.
LEMMA CancelledRowsStep ==
  ASSUME TypeOK, Begun, Owned, RowsFollow, CancelHolds, [Next]_vars,
         status' = "cancelled", closing' = "no"
  PROVE  /\ \A e \in Deliveries : pc'[e] = "run" =>
              \A n \in Nodes : row'[n] \notin {"absent", "pending", "running"}
         /\ \A n \in Nodes : row'[n] # "running"
<1> DEFINE Goal == /\ \A e \in Deliveries : pc'[e] = "run" =>
                        \A n \in Nodes : row'[n] \notin {"absent", "pending", "running"}
                   /\ \A n \in Nodes : row'[n] # "running"
<1> USE DEF CancelHolds, CancelledShowsNoRunningStep
<1>1. CASE Outside
  <2>1. status = "cancelled"
    BY <1>1 DEF Outside, Dispatch, CreateRun, EngineAccepts, DispatchRaises, RecordEngineId,
         MarkDispatchFailed, Cancel, FailRun, ReaperLooks, ReaperFails, ApiCrash,
         CloserCrash, FailInterrupted, Transition, Owes, NotTerminal, Active, rowVars
  <2>2. closing = "no"
    BY <1>1, <2>1 DEF Outside, Dispatch, CreateRun, EngineAccepts, DispatchRaises,
         RecordEngineId, MarkDispatchFailed, Cancel, FailRun, ReaperLooks, ReaperFails,
         ApiCrash, CloserCrash, FailInterrupted, Owes, NotTerminal, Active, envVars
  <2> QED
    BY <1>1, <2>1, <2>2, OutsideStep DEF walkVars
<1>2. CASE CloseRows
  <2>1. UNCHANGED <<status, pc, made, owner>> /\ row' = FinalisedRows
    BY <1>2 DEF CloseRows, walkVars, ghosts
  <2>2. \A n \in Nodes : row'[n] \notin {"pending", "running"}
    BY <2>1 DEF FinalisedRows
  <2>3. ASSUME NEW e \in Deliveries, pc[e] = "run", NEW n \in Nodes
        PROVE  row'[n] # "absent"
    <3>1. owner = e /\ made[e] = N /\ status # "deleted"
      BY <2>1, <2>3, WalkerOwns DEF Walking
    <3>2. n <= made[e]
      BY <3>1 DEF Nodes
    <3>3. row[n] # "absent"
      BY <3>1, <3>2 DEF RowsFollow, RowFollows
    <3> QED
      BY <2>1, <3>3 DEF FinalisedRows
  <2> QED
    BY <2>1, <2>2, <2>3
<1>3. ASSUME NEW d \in Deliveries, Moves(d)
      PROVE  Goal
  <2>1. status = "cancelled" /\ UNCHANGED row
    BY <1>3, MoveStep
  <2>2. closing = "no"
    BY <1>3, <2>1 DEF Moves, Deliver, Redeliver, EngineGivesUp, Faults, WorkerCrash,
       Interrupt, Prepare, ReadRun, CheckRows, BeginWalk, CheckCancel, EndWave, FinishRun,
       FinaliseInterrupted, FailInterrupted, Owes, NotTerminal, Active, envVars
  <2>3. \A e \in Deliveries : pc'[e] = "run" => pc[e] = "run"
    BY <1>3, <2>1 DEF Moves, Deliver, Redeliver, EngineGivesUp, Faults, WorkerCrash,
       Interrupt, Prepare, ReadRun, CheckRows, BeginWalk, CheckCancel, CancelRequested,
       EndWave, FinishRun, FinaliseInterrupted, GoTo, TypeOK
  <2> QED
    BY <2>1, <2>2, <2>3
<1>4. CASE DeleteRun \/ UNCHANGED vars
  BY <1>4 DEF DeleteRun, vars, rowVars, envVars, walkVars
<1>5. ASSUME NEW d \in Deliveries, CreateStepRow(d)
      PROVE  Goal
  <2>1. UNCHANGED <<status, closing>>
    BY <1>5 DEF CreateStepRow, envVars
  <2>2. \A n \in Nodes : row'[n] = row[n] \/ (row[n] = "absent" /\ row'[n] = "pending")
    BY <1>5 DEF CreateStepRow, RowFree, TypeOK
  <2>3. \A e \in Deliveries : pc'[e] = "run" => pc[e] = "run"
    BY <1>5 DEF CreateStepRow, GoTo, TypeOK
  <2> QED
    BY <2>1, <2>2, <2>3
<1>6. ASSUME NEW d \in Deliveries, NEW n \in Nodes,
             SkipNode(d, n) \/ BlockNode(d, n) \/ StartNode(d, n) \/ NodeError(d, n)
      PROVE  Goal
  <2>1. UNCHANGED <<status, closing>>
    BY <1>6 DEF SkipNode, BlockNode, StartNode, NodeError, envVars, rowVars
  <2>2. \A e \in Deliveries : pc'[e] = "run" => pc[e] = "run"
    BY <1>6 DEF SkipNode, BlockNode, StartNode, NodeError, GoTo, TypeOK
  <2>3. \A k \in Nodes : \/ row'[k] = row[k]
                         \/ row'[k] \in TerminalStep
                         \/ pc[d] = "run" /\ row'[k] = UpdatedRow(k, "running")
    BY <1>6 DEF SkipNode, BlockNode, StartNode, NodeError, UpdatedRow, rowVars, TypeOK,
                TerminalStep
  <2>4. owner = d
    BY <1>6, WalkerOwns DEF SkipNode, BlockNode, StartNode, NodeError, Walking
  <2>5. ASSUME pc[d] = "run", NEW k \in Nodes, row'[k] # row[k], row'[k] \notin TerminalStep
        PROVE  FALSE
    <3>1. StartNode(d, n) /\ k = n
      BY <1>6, <2>5 DEF SkipNode, BlockNode, StartNode, NodeError, UpdatedRow, rowVars,
                        TypeOK, TerminalStep
    <3>2. row[n] \notin {"absent", "pending", "running"}
      BY <2>1, <2>5
    <3>3. row[n] \notin {"success", "partial"}
      BY <2>1, <2>4, <3>1 DEF RowsFollow, RowFollows, StartNode
    <3>4. row[n] \in TerminalStep
      BY <3>2, <3>3 DEF TypeOK, OpenStep
    <3> QED
      BY <2>1, <2>3, <2>5, <3>1, <3>4 DEF UpdatedRow
  <2>6. \A k \in Nodes : row'[k] = row[k] \/ row'[k] \in TerminalStep
    BY <2>3, <2>5
  <2> QED
    BY <2>1, <2>2, <2>6 DEF TerminalStep
<1>7. ASSUME NEW d \in Deliveries, NEW n \in Nodes,
             NEW r \in {"ok", "partial", "failed", "raised"}, FinishNode(d, n, r)
      PROVE  Goal
  <2>1. UNCHANGED <<status, closing, pc>>
    BY <1>7 DEF FinishNode, envVars
  <2>2. \A k \in Nodes : row'[k] = row[k] \/ row'[k] \in {"success", "partial", "failed", "skipped"}
    BY <1>7 DEF FinishNode, UpdatedRow, TypeOK, TerminalStep
  <2> QED
    BY <2>1, <2>2
<1> QED
  BY <1>1, <1>2, <1>3, <1>4, <1>5, <1>6, <1>7, StepKinds

LEMMA CancelStep ==
  ASSUME TypeOK, Begun, Owned, RowsFollow, CancelHolds, [Next]_vars
  PROVE  CancelHolds'
  BY LateStep, CancelledRowsStep DEF CancelHolds, CancelledShowsNoRunningStep

------------------------------------------------------------------------------
(***************************************************************************)
(* The theorems.                                                           *)
(***************************************************************************)

LEMMA InitRest == Init => Walked /\ RowsFollow /\ SuccessIsFinal /\ CancelHolds
<1> SUFFICES ASSUME Init PROVE Walked /\ RowsFollow /\ SuccessIsFinal /\ CancelHolds
  OBVIOUS
<1>1. \A n \in Nodes : Wave[n] \in Nat /\ ~(Wave[n] < 1)
  OBVIOUS
<1>2. Walked
  BY <1>1 DEF Init, Walked
<1>3. RowsFollow /\ SuccessIsFinal
  BY DEF Init, RowsFollow, SuccessIsFinal
<1>4. CancelHolds
  BY DEF Init, CancelHolds, CancelStopsWithinOneWave, CancelledShowsNoRunningStep
<1> QED
  BY <1>2, <1>3, <1>4

\* The whole inductive invariant.
THEOREM InductiveInvariant == Spec => []IInv
<1>1. Init => Begun /\ Owned /\ Walked /\ RowsFollow /\ SuccessIsFinal /\ CancelHolds
  BY InitOwned, InitRest
<1>2. IInv /\ [Next]_vars =>
        Begun' /\ Owned' /\ Walked' /\ RowsFollow' /\ SuccessIsFinal' /\ CancelHolds'
  BY BegunStep, OwnedStep, WalkedStep, RowsFollowStep, SuccessStep, CancelStep DEF IInv
<1> QED
  BY <1>1, <1>2, TypeCorrect, PTL DEF Spec, IInv

\* A run that reports success executed every node once, and its step rows agree,
\* for every plan and every interleaving of the writers.
THEOREM SuccessIsHonestHolds == Spec => []SuccessIsHonest
<1>1. IInv => SuccessIsHonest
  BY DEF IInv, SuccessIsFinal, SuccessIsHonest
<1> QED
  BY <1>1, InductiveInvariant, PTL

\* After a cancel the executors that still start belong to one generation, and
\* closed rows are not reopened by the worker that is still writing.
THEOREM CancelHoldsAlways == Spec => [](CancelStopsWithinOneWave /\ CancelledShowsNoRunningStep)
<1>1. IInv => CancelStopsWithinOneWave /\ CancelledShowsNoRunningStep
  BY DEF IInv, CancelHolds
<1> QED
  BY <1>1, InductiveInvariant, PTL

\* The step row of a settled node tells what became of it, whoever else closes
\* rows meanwhile.
THEOREM RowsTellTheTruthHolds == Spec => []RowsTellTheTruth
<1>1. IInv => RowsTellTheTruth
  BY RowsFollowTruth DEF IInv
<1> QED
  BY <1>1, InductiveInvariant, PTL

\* Every step of the run is a step of its contract, or leaves it alone.
LEMMA ContractStep ==
  ASSUME IInv, [Next]_vars
  PROVE  [Contract!Next]_(Contract!cvars)
<1> USE DEF IInv, Outcome, Active, Contract!cvars
<1>1. ASSUME UNCHANGED execs,
             \/ status' = status
             \/ status \in Active /\ status' \in Active
      PROVE  UNCHANGED Contract!cvars
  BY <1>1
<1>2. ASSUME UNCHANGED execs, status \in Active, status' \in {"failed", "cancelled"}
      PROVE  Contract!Next
  <2>1. Contract!End(status')
    BY <1>2 DEF Contract!End
  <2> QED
    BY <1>2, <2>1 DEF Contract!Next, Contract!Ended
<1>3. CASE Outside
  <2>1. CASE status = "none" /\ status' = "pending"
    <3>1. Contract!Create
      BY <1>3, <2>1, OutsideStep DEF Contract!Create, ghosts
    <3> QED
      BY <3>1 DEF Contract!Next
  <2> QED
    BY <1>1, <1>2, <1>3, <2>1, OutsideStep DEF ghosts
<1>4. CASE CloseRows \/ UNCHANGED vars
  BY <1>1, <1>4 DEF CloseRows, vars, rowVars, ghosts
<1>5. CASE DeleteRun
  <2>1. Contract!Delete
    BY <1>5 DEF DeleteRun, Contract!Delete, Contract!Ended, Terminal, ghosts
  <2> QED
    BY <2>1 DEF Contract!Next
<1>6. ASSUME NEW d \in Deliveries, Moves(d)
      PROVE  [Contract!Next]_(Contract!cvars)
  <2>1. UNCHANGED execs
    BY <1>6, MoveStep
  <2>2. CASE status \in Active /\ status' = "success"
    <3>1. SuccessIsHonest'
      BY <2>2, SuccessStep DEF SuccessIsFinal
    <3>2. \A n \in Nodes : execs[n] = 1
      BY <2>1, <2>2, <3>1 DEF SuccessIsHonest
    <3>3. Contract!End("success")
      BY <2>1, <2>2, <3>2 DEF Contract!End
    <3> QED
      BY <3>3 DEF Contract!Next, Contract!Ended
  <2> QED
    BY <1>1, <1>2, <1>6, <2>1, <2>2, MoveStep
<1>7. ASSUME NEW d \in Deliveries, NEW n \in Nodes,
             \/ CreateStepRow(d) \/ SkipNode(d, n) \/ BlockNode(d, n) \/ NodeError(d, n)
             \/ \E r \in {"ok", "partial", "failed", "raised"} : FinishNode(d, n, r)
      PROVE  UNCHANGED Contract!cvars
  BY <1>1, <1>7 DEF CreateStepRow, SkipNode, BlockNode, NodeError, FinishNode, rowVars, ghosts
<1>8. ASSUME NEW d \in Deliveries, NEW n \in Nodes, StartNode(d, n)
      PROVE  Contract!Next
  <2>1. owner = d /\ execs[n] = 0 /\ status # "none"
    <3>1. owner = d /\ pc[d] = "run" /\ node[d][n] = "todo"
      BY <1>8, WalkerOwns DEF StartNode, Walking
    <3>2. engine # "absent"
      BY <3>1 DEF Begun
    <3> QED
      BY <3>1, <3>2 DEF Begun, Owned
  <2>2. Contract!Execute(n)
    BY <1>8, <2>1 DEF StartNode, Contract!Execute, TypeOK
  <2> QED
    BY <2>2 DEF Contract!Next
<1>9. 1 \in Nodes
  BY DEF Nodes
<1> QED
  BY <1>3, <1>4, <1>5, <1>6, <1>7, <1>8, <1>9, StepKinds

\* The run as the database shows it keeps the contract every reader of a run
\* relies on: one outcome that never changes, each node executed at most once,
\* success only after all of them.
THEOREM ContractKept == Spec => KeepsContract
<1>1. Init => Contract!Init
  BY DEF Init, Contract!Init, Outcome, Active
<1>2. IInv /\ [Next]_vars => [Contract!Next]_(Contract!cvars)
  BY ContractStep
<1> QED
  BY <1>1, <1>2, InductiveInvariant, PTL DEF Spec, KeepsContract, Contract!Spec

------------------------------------------------------------------------------
(***************************************************************************)
(* How far SkippedNeverExecuted can go wrong.                              *)
(***************************************************************************)

\* A step that is shown as skipped although its executor was invoked belongs to a
\* cancelled run, and was started after the cancel.
MisreportedIsLate ==
  \A n \in Nodes :
    row[n] = "skipped" /\ execs[n] > 0 => status = "cancelled" /\ n \in late

\* A walk begins when all its rows exist, so a row that is created belongs to a
\* node that nobody has started, and a started one never looks pending.
Shown ==
  /\ \A d \in Deliveries : \A n \in Nodes : node[d][n] # "todo" => made[d] = N
  /\ \A n \in Nodes : execs[n] > 0 => row[n] # "pending"
  /\ MisreportedIsLate

\* A walk that has touched a node has made all its rows.
LEMMA TouchedStep ==
  ASSUME TypeOK, Owned, Shown, [Next]_vars,
         NEW e \in Deliveries, NEW m \in Nodes, node'[e][m] # "todo"
  PROVE  made'[e] = N
<1>1. CASE UNCHANGED <<made, node>>
  BY <1>1 DEF Shown
<1>2. ASSUME NEW d \in Deliveries, CreateStepRow(d)
      PROVE  made'[e] = N
  BY <1>2 DEF CreateStepRow, Shown, TypeOK
<1>3. ASSUME NEW d \in Deliveries, NEW n \in Nodes,
             \/ SkipNode(d, n) \/ BlockNode(d, n) \/ StartNode(d, n) \/ NodeError(d, n)
             \/ \E r \in {"ok", "partial", "failed", "raised"} : FinishNode(d, n, r)
      PROVE  made'[e] = N
  <2>1. pc[d] \in Walking /\ made' = made
    BY <1>3 DEF SkipNode, BlockNode, StartNode, NodeError, FinishNode, Walking
  <2>2. e # d => node'[e] = node[e]
    BY <1>3 DEF SkipNode, BlockNode, StartNode, NodeError, FinishNode, TypeOK
  <2> QED
    BY <2>1, <2>2, WalkerOwns DEF Shown
<1> QED
  <2>1. CASE Outside \/ CloseRows \/ DeleteRun \/ UNCHANGED vars
    BY <1>1, <2>1 DEF Outside, Dispatch, CreateRun, EngineAccepts, DispatchRaises,
         RecordEngineId, MarkDispatchFailed, Cancel, FailRun, ReaperLooks, ReaperFails,
         ApiCrash, CloserCrash, CloseRows, DeleteRun, vars, walkVars
  <2>2. ASSUME NEW d \in Deliveries, Moves(d) PROVE UNCHANGED <<made, node>>
    BY <2>2, MoveStep
  <2> QED
    BY <1>1, <1>2, <1>3, <2>1, <2>2, StepKinds

\* The row of a node whose executor was invoked.
LEMMA ShownStep ==
  ASSUME TypeOK, Begun, Owned, Shown, [Next]_vars
  PROVE  Shown'
<1>0. SUFFICES ASSUME NEW m \in Nodes, execs'[m] > 0
               PROVE  /\ row'[m] # "pending"
                      /\ row'[m] = "skipped" => status' = "cancelled" /\ m \in late'
  BY TouchedStep DEF Shown, MisreportedIsLate
<1>1. execs[m] > 0 => /\ row[m] # "pending"
                      /\ row[m] = "skipped" => status = "cancelled" /\ m \in late
  BY DEF Shown, MisreportedIsLate
<1>2. CASE Outside
  BY <1>0, <1>1, <1>2, OutsideStep DEF ghosts, Active
<1>3. ASSUME NEW d \in Deliveries, Moves(d)
      PROVE  /\ row'[m] # "pending"
             /\ row'[m] = "skipped" => status' = "cancelled" /\ m \in late'
  BY <1>0, <1>1, <1>3, MoveStep DEF Active
<1>4. CASE CloseRows
  BY <1>0, <1>1, <1>4 DEF CloseRows, FinalisedRows, ghosts
<1>5. CASE DeleteRun
  BY <1>5 DEF DeleteRun
<1>6. ASSUME NEW d \in Deliveries, CreateStepRow(d)
      PROVE  /\ row'[m] # "pending"
             /\ row'[m] = "skipped" => status' = "cancelled" /\ m \in late'
  <2>1. UNCHANGED <<status, execs, late>> /\ made[d] < N /\ made[d] \in Nat
    BY <1>6 DEF CreateStepRow, TypeOK
  <2>2. CASE row'[m] = row[m]
    BY <1>0, <1>1, <2>1, <2>2
  <2>3. CASE row'[m] # row[m]
    <3>1. m = made[d] + 1 /\ row[m] = "absent" /\ status # "deleted"
      BY <1>6, <2>3 DEF CreateStepRow, RowFree, TypeOK
    <3>2. owner = d \/ owner = NoDelivery
      BY <2>1, <3>1 DEF Owned, TypeOK
    <3>3. node[d][m] = "todo"
      BY <2>1, NAssumption DEF Shown
    <3> QED
      BY <1>0, <2>1, <3>2, <3>3 DEF Owned
  <2> QED
    BY <2>2, <2>3
<1>7. ASSUME NEW d \in Deliveries, NEW n \in Nodes,
             SkipNode(d, n) \/ BlockNode(d, n) \/ StartNode(d, n) \/ NodeError(d, n)
      PROVE  /\ row'[m] # "pending"
             /\ row'[m] = "skipped" => status' = "cancelled" /\ m \in late'
  <2>1. owner = d /\ UNCHANGED status
    BY <1>7, WalkerOwns DEF SkipNode, BlockNode, StartNode, NodeError, Walking, rowVars
  <2>2. CASE SkipNode(d, n) \/ BlockNode(d, n)
    <3>1. execs' = execs /\ late' = late /\ execs[n] = 0
      BY <2>1, <2>2 DEF SkipNode, BlockNode, ghosts, Owned
    <3>2. m # n /\ row'[m] = row[m]
      BY <1>0, <2>2, <3>1 DEF SkipNode, BlockNode, TypeOK
    <3> QED
      BY <1>0, <1>1, <2>1, <3>1, <3>2
  <2>3. CASE StartNode(d, n)
    <3>1. CASE m = n
      BY <2>1, <2>3, <3>1 DEF StartNode, UpdatedRow, TerminalStep, TypeOK
    <3>2. CASE m # n
      BY <1>0, <1>1, <2>1, <2>3, <3>2 DEF StartNode, TypeOK
    <3> QED
      BY <3>1, <3>2
  <2>4. CASE NodeError(d, n)
    BY <1>0, <1>1, <2>4 DEF NodeError, rowVars, ghosts
  <2> QED
    BY <1>7, <2>2, <2>3, <2>4
<1>8. ASSUME NEW d \in Deliveries, NEW n \in Nodes,
             NEW r \in {"ok", "partial", "failed", "raised"}, FinishNode(d, n, r)
      PROVE  /\ row'[m] # "pending"
             /\ row'[m] = "skipped" => status' = "cancelled" /\ m \in late'
  <2>1. UNCHANGED <<status, execs, late>>
    BY <1>8 DEF FinishNode, ghosts
  <2>2. row'[m] = row[m] \/ row'[m] \in {"success", "partial", "failed"}
    BY <1>8 DEF FinishNode, UpdatedRow, TypeOK
  <2> QED
    BY <1>0, <1>1, <2>1, <2>2
<1>9. CASE UNCHANGED vars
  BY <1>0, <1>1, <1>9 DEF vars, rowVars, ghosts
<1> QED
  BY <1>2, <1>3, <1>4, <1>5, <1>6, <1>7, <1>8, <1>9, StepKinds

\* The finding about SkippedNeverExecuted is confined to cancelled runs and, with
\* CancelStopsWithinOneWave, to one generation of them: in a run that ended in any
\* other way a step that is shown as skipped was not executed.
THEOREM MisreportedIsLateHolds == Spec => []MisreportedIsLate
<1>1. Init => Shown
  BY DEF Init, Shown, MisreportedIsLate
<1>2. IInv /\ Shown /\ [Next]_vars => Shown'
  BY ShownStep DEF IInv
<1>3. Shown => MisreportedIsLate
  BY DEF Shown
<1> QED
  BY <1>1, <1>2, <1>3, InductiveInvariant, PTL DEF Spec

------------------------------------------------------------------------------
(***************************************************************************)
(* Nobody forgets a run: what EveryRunEnds rests on, without its fairness. *)
(***************************************************************************)

\* Whoever can still give an active run its outcome: the request that dispatches
\* it, the engine that has not delivered it yet, a task of it (a lost one is
\* noticed by the engine), or the reaper that finds it stuck. Only an orphaned
\* run, whose dispatcher died, may have none of them.
SomebodyFinishesTheRun ==
  status \in Active =>
    \/ api \in {"created", "accepted", "failed"}
    \/ engine = "RUNNING" /\ Delivered = {}
    \/ \E d \in Deliveries : pc[d] \in Live \cup {"lost"}
    \/ Stuck
    \/ Orphaned

\* A finished dispatch leaves an engine id or an ended run, an id means that the
\* engine has the run, and the engine takes the run for running only as long as
\* it has a task of it.
Attended ==
  /\ api \in {"idle", "created"} => engine = "absent"
  /\ api = "done" => engineId = "set" \/ status \notin Active
  /\ engineId = "set" \/ api = "accepted" => engine # "absent"
  /\ engine = "RUNNING" /\ Delivered # {} =>
       \E d \in Deliveries : pc[d] \in Live \cup {"lost"}

\* A step of a task: the engine ends the run only with the last task of it.
LEMMA TaskAttended ==
  ASSUME TypeOK, Begun, Attended, NEW d \in Deliveries, Moves(d)
  PROVE  Attended'
<1> USE DEF TypeOK, GoTo, Live
<1>1. /\ UNCHANGED <<api, engineId>> /\ engine' # "absent" /\ engine # "absent"
      /\ status \notin Active => status' \notin Active
  <2>1. status \notin Active => status' \notin Active
    BY MoveStep
  <2>2. CASE Deliver(d) \/ Redeliver(d) \/ EngineGivesUp(d) \/ Faults(d)
    BY <2>1, <2>2 DEF Deliver, Redeliver, EngineGivesUp, Faults, WorkerCrash, Interrupt,
         EngineRaise, Begun, rowVars, envVars
  <2>3. CASE ReadRun(d) \/ FinishRun(d) \/ FinaliseInterrupted(d)
    BY <2>1, <2>3 DEF ReadRun, FinishRun, FinaliseInterrupted, EngineReturn, EngineRaise,
         Begun, rowVars
  <2>4. CASE Prepare(d) \/ CheckRows(d) \/ BeginWalk(d) \/ CheckCancel(d) \/ EndWave(d)
    BY <2>1, <2>4 DEF Prepare, CheckRows, BeginWalk, CheckCancel, EndWave, Begun, rowVars,
         envVars
  <2> QED
    BY <2>2, <2>3, <2>4 DEF Moves
<1>2. engine' = "RUNNING" => \E e \in Deliveries : pc'[e] \in Live \cup {"lost"}
  <2>1. CASE Deliver(d) \/ Redeliver(d) \/ Faults(d)
    BY <2>1 DEF Deliver, Redeliver, Faults, WorkerCrash, Interrupt
  <2>2. CASE EngineGivesUp(d) \/ FinaliseInterrupted(d)
    BY <2>2 DEF EngineGivesUp, FinaliseInterrupted, EngineRaise
  <2>3. CASE ReadRun(d) \/ FinishRun(d)
    <3>1. CASE pc'[d] \in Live
      BY <3>1
    <3>2. CASE pc'[d] \notin Live
      <4>1. EngineReturn(d) /\ pc' = [pc EXCEPT ![d] = "ended"]
        BY <2>3, <3>2 DEF ReadRun, FinishRun
      <4>2. engine' = "RUNNING" => \E e \in Deliveries \ {d} : pc[e] \in Live
        BY <4>1 DEF EngineReturn, OtherLive
      <4> QED
        BY <4>1, <4>2
    <3> QED
      BY <3>1, <3>2
  <2>4. CASE Prepare(d) \/ CheckRows(d) \/ BeginWalk(d) \/ CheckCancel(d) \/ EndWave(d)
    BY <2>4 DEF Prepare, CheckRows, BeginWalk, CheckCancel, EndWave
  <2> QED
    BY <2>1, <2>2, <2>3, <2>4 DEF Moves
<1> QED
  BY <1>1, <1>2 DEF Attended

LEMMA AttendedStep ==
  ASSUME TypeOK, Begun, Attended, [Next]_vars
  PROVE  Attended'
<1> USE DEF TypeOK
<1>1. CASE Dispatch
  <2>1. UNCHANGED pc
    BY <1>1 DEF Dispatch, CreateRun, EngineAccepts, DispatchRaises, RecordEngineId,
         MarkDispatchFailed, walkVars
  <2>2. CASE CreateRun \/ DispatchRaises \/ RecordEngineId
    BY <2>1, <2>2 DEF CreateRun, DispatchRaises, RecordEngineId, Attended, Delivered,
         Begun, rowVars
  <2>3. CASE EngineAccepts
    <3>1. Delivered = {} /\ Delivered' = {}
      BY <2>1, <2>3 DEF EngineAccepts, Attended, Begun, Delivered
    <3> QED
      BY <2>3, <3>1 DEF EngineAccepts, Attended, rowVars
  <2>4. CASE MarkDispatchFailed
    BY <2>1, <2>4 DEF MarkDispatchFailed, Attended, Delivered, Transition, NotTerminal,
         Active, Terminal
  <2> QED
    BY <1>1, <2>2, <2>3, <2>4 DEF Dispatch
<1>2. CASE \/ Cancel \/ FailRun \/ ReaperLooks \/ ReaperFails \/ ApiCrash \/ CloserCrash
           \/ DeleteRun
  <2>1. UNCHANGED <<pc, engine, engineId>> /\ (api' = api \/ api' = "dead")
    BY <1>2 DEF Cancel, FailRun, ReaperLooks, ReaperFails, ApiCrash, CloserCrash,
         DeleteRun, walkVars, rowVars, envVars
  <2>2. status \notin Active => status' \notin Active
    BY <1>2 DEF Cancel, FailRun, ReaperLooks, ReaperFails, ApiCrash, CloserCrash,
         DeleteRun, rowVars, FailInterrupted, Transition, NotTerminal, Active
  <2> QED
    BY <2>1, <2>2 DEF Attended, Delivered
<1>3. CASE CloseRows
  <2>1. /\ UNCHANGED <<pc, status, engineId, api>>
        /\ engine' = engine \/ (engine' = "CANCELLED" /\ engine = "RUNNING")
    BY <1>3 DEF CloseRows, walkVars
  <2> QED
    BY <2>1 DEF Attended, Delivered
<1>4. ASSUME NEW d \in Deliveries, Moves(d)
      PROVE  Attended'
  BY <1>4, TaskAttended
<1>5. ASSUME NEW d \in Deliveries, CreateStepRow(d)
      PROVE  Attended'
  <2>1. UNCHANGED <<status, engineId, engine, api>> /\ pc'[d] \in Live
    BY <1>5 DEF CreateStepRow, GoTo, Live, envVars
  <2> QED
    BY <2>1 DEF Attended
<1>6. ASSUME NEW d \in Deliveries, NEW n \in Nodes,
             \/ SkipNode(d, n) \/ BlockNode(d, n) \/ StartNode(d, n) \/ NodeError(d, n)
             \/ \E r \in {"ok", "partial", "failed", "raised"} : FinishNode(d, n, r)
      PROVE  Attended'
  <2>1. UNCHANGED <<status, engineId, engine, api>> /\ pc'[d] \in Live
    BY <1>6 DEF SkipNode, BlockNode, StartNode, NodeError, FinishNode, GoTo, Live,
         envVars, rowVars
  <2> QED
    BY <2>1 DEF Attended
<1>7. CASE UNCHANGED vars
  BY <1>7 DEF vars, rowVars, envVars, walkVars, Attended, Delivered
<1> QED
  BY <1>1, <1>2, <1>3, <1>4, <1>5, <1>6, <1>7, StepKinds DEF Outside

\* In every reachable state an active run has somebody who can finish it, or is
\* an orphan: the safety half of EveryRunEnds, for every number of deliveries,
\* crashes and nodes (reap_stuck_runs, EngineReturn).
THEOREM SomebodyFinishesTheRunHolds == Spec => []SomebodyFinishesTheRun
<1>1. Init => Attended
  BY DEF Init, Attended, Active, Delivered
<1>2. IInv /\ Attended /\ [Next]_vars => Attended'
  BY AttendedStep DEF IInv
<1>3. IInv /\ Attended => SomebodyFinishesTheRun
  BY DEF IInv, TypeOK, Begun, Attended, SomebodyFinishesTheRun, Stuck, Orphaned, Active,
         EngineEnded
<1> QED
  BY <1>1, <1>2, <1>3, InductiveInvariant, PTL DEF Spec

------------------------------------------------------------------------------
(***************************************************************************)
(* The contract in the terms of the row.                                   *)
(***************************************************************************)

\* A run that has ended keeps its status until it is deleted, and a deleted one
\* stays deleted, whoever writes late.
StatusIsFinal ==
  [][/\ status \in Terminal => status' \in {status, "deleted"}
     /\ status = "deleted" => status' = "deleted"]_vars

\* Of all the writers that race to end a run (transition_run) exactly one decides,
\* and no losing delivery, reaper or dispatch error overwrites it.
THEOREM StatusIsFinalHolds == Spec => StatusIsFinal
<1>1. ASSUME IInv, [Next]_vars
      PROVE  /\ status \in Terminal => status' \in {status, "deleted"}
             /\ status = "deleted" => status' = "deleted"
  <2>1. [Contract!Next]_(Contract!cvars)
    BY <1>1, ContractStep
  <2> QED
    BY <1>1, <2>1 DEF Contract!Next, Contract!Create, Contract!Execute, Contract!End,
         Contract!Delete, Contract!Ended, Contract!cvars, Outcome, Active, Terminal, IInv,
         TypeOK
<1>2. IInv /\ [Next]_vars =>
        [/\ status \in Terminal => status' \in {status, "deleted"}
         /\ status = "deleted" => status' = "deleted"]_vars
  BY <1>1
<1> QED
  BY <1>2, InductiveInvariant, PTL DEF Spec, StatusIsFinal
==============================================================================
