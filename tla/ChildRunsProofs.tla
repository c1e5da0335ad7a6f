--------------------------- MODULE ChildRunsProofs ---------------------------
(***************************************************************************)
(* Proofs about ChildRuns, for every number of runs, every set of          *)
(* workflows and every depth.                                              *)
(***************************************************************************)
EXTENDS ChildRuns, TLAPS

\* The steps of the specification, one by one.
LEMMA Steps ==
  ASSUME [Next]_vars
  PROVE  \/ Trigger
         \/ \E r \in Runs :
              \/ Claim(r) \/ BeginStep(r) \/ StartGroup(r) \/ CreateChild(r)
              \/ StartRaises(r) \/ Dispatch(r) \/ DispatchRaises(r)
              \/ RecheckPasses(r) \/ RecheckFails(r) \/ GroupsStarted(r)
              \/ WaitEnds(r) \/ Finish(r) \/ Stop(r) \/ ListChildren(r)
              \/ VisitChild(r) \/ DeleteRun(r) \/ WorkerDies(r)
         \/ SweepDies
         \/ UNCHANGED vars
BY DEF Next, StepOf, Sweep

------------------------------------------------------------------------------
(***************************************************************************)
(* Types, in four parts that are disturbed by different steps. Only a run  *)
(* that exists executes a step, and a step has a new child exactly between *)
(* that child's row and the second look at the caller.                     *)
(***************************************************************************)

Statuses == {"none", "deleted"} \cup Active \cup Terminal
StepNames == {"idle", "ready", "wait", "dead"} \cup Starting

RowsOK ==
  /\ last \in 0 .. MaxRuns
  /\ status \in [Runs -> Statuses]
  /\ \A r \in Runs : status[r] = "none" <=> r > last
  /\ parent \in [Runs -> 0 .. MaxRuns]
  /\ \A r \in Runs : parent[r] < r /\ (parent[r] # 0 => status[parent[r]] # "deleted")
  /\ \A r \in Runs : r > last => parent[r] = 0

LinesOK ==
  /\ wf \in [Runs -> Workflows]
  /\ ancestors \in [Runs -> Seq(Workflows)]
  /\ line \in [Runs -> SUBSET Workflows]
  /\ depth \in [Runs -> Nat]
  /\ again \in SUBSET (1 .. last)

SetsOK ==
  /\ accepted \in SUBSET (1 .. last)
  /\ todo \in SUBSET (1 .. last)
  /\ kids \in SUBSET (1 .. last)
  /\ closed \in SUBSET (1 .. last)
  /\ shut \in SUBSET (1 .. last)
  /\ events \in 0 .. MaxEvents
  /\ swept \in {"ok", "died"}

StepsOK ==
  /\ step \in [Runs -> StepNames]
  /\ new \in [Runs -> 0 .. last]
  /\ \A r \in Runs :
       /\ step[r] # "idle" => r <= last
       /\ step[r] \in {"idle", "ready", "wait", "create"} => new[r] = 0
       /\ step[r] \in {"dispatch", "recheck"} => new[r] # 0

IType == RowsOK /\ LinesOK /\ SetsOK /\ StepsOK

LEMMA ITypeGivesType == IType => TypeOK
BY DEF IType, RowsOK, LinesOK, SetsOK, StepsOK, TypeOK, Statuses, StepNames

LEMMA TypeInit == Init => IType
<1> USE BoundsAssumption, WorkflowsAssumption DEF Init
<1>1. Init => RowsOK
  BY DEF RowsOK, Runs, Statuses
<1>2. Init => LinesOK
  BY DEF LinesOK
<1>3. Init => SetsOK
  BY DEF SetsOK
<1>4. Init => StepsOK
  BY DEF StepsOK, StepNames
<1> QED
  BY <1>1, <1>2, <1>3, <1>4 DEF IType

\* The row of a new run.
LEMMA RowCreated ==
  ASSUME RowsOK, LinesOK, NEW p \in 0 .. MaxRuns, NEW w \in Workflows, CreateRow(p, w),
         last < MaxRuns, p <= last, p # 0 => status[p] # "deleted"
  PROVE  RowsOK' /\ LinesOK' /\ last' = last + 1 /\ last + 1 \in Runs
<1>1. last \in Nat /\ MaxRuns \in Nat /\ last' = last + 1 /\ last + 1 \in Runs
  BY BoundsAssumption DEF CreateRow, RowsOK, Runs
<1>2. /\ status' = [status EXCEPT ![last + 1] = "pending"]
      /\ parent' = [parent EXCEPT ![last + 1] = p]
  BY DEF CreateRow
<1>3. RowsOK'
  <2>1. \A r \in Runs : /\ status'[r] = IF r = last + 1 THEN "pending" ELSE status[r]
                        /\ parent'[r] = IF r = last + 1 THEN p ELSE parent[r]
    BY <1>1, <1>2 DEF RowsOK
  <2>2. status' \in [Runs -> Statuses] /\ parent' \in [Runs -> 0 .. MaxRuns]
    BY <1>2 DEF RowsOK, Statuses, Active
  <2>3. \A r \in Runs : status'[r] = "none" <=> r > last'
    BY <1>1, <2>1 DEF RowsOK, Runs
  <2>4. ASSUME NEW r \in Runs
        PROVE  parent'[r] < r /\ (parent'[r] # 0 => status'[parent'[r]] # "deleted")
    <3>1. \A q \in Runs : status[q] # "deleted" => status'[q] # "deleted"
      BY <2>1
    <3>2. CASE r = last + 1
      BY <1>1, <2>1, <3>1, <3>2 DEF Runs
    <3>3. CASE r # last + 1
      BY <2>1, <3>1, <3>3 DEF RowsOK, Runs
    <3> QED
      BY <3>2, <3>3
  <2>5. \A r \in Runs : r > last' => parent'[r] = 0
    BY <1>1, <2>1 DEF RowsOK, Runs
  <2> QED
    BY <1>1, <2>2, <2>3, <2>4, <2>5 DEF RowsOK, Runs
<1>4. LinesOK'
  <2>1. p # 0 => p \in Runs
    BY <1>1 DEF Runs
  <2>2. wf' \in [Runs -> Workflows]
    BY DEF CreateRow, LinesOK
  <2>3. ancestors' \in [Runs -> Seq(Workflows)]
    <3>1. p # 0 => Chain(p) \in Seq(Workflows)
      BY <2>1 DEF Chain, LinesOK
    <3>2. ancestors' = [ancestors EXCEPT ![last + 1] = IF p = 0 THEN << >> ELSE Chain(p)]
      BY DEF CreateRow
    <3>3. << >> \in Seq(Workflows)
      OBVIOUS
    <3> QED
      BY <3>1, <3>2, <3>3 DEF LinesOK
  <2>4. line' \in [Runs -> SUBSET Workflows]
    <3>1. line' = [line EXCEPT ![last + 1] = {w} \cup IF p = 0 THEN {} ELSE line[p]]
      BY DEF CreateRow
    <3>2. ({w} \cup IF p = 0 THEN {} ELSE line[p]) \in SUBSET Workflows
      BY <2>1 DEF LinesOK
    <3> QED
      BY <3>1, <3>2 DEF LinesOK
  <2>5. depth' \in [Runs -> Nat]
    <3>1. depth' = [depth EXCEPT ![last + 1] = IF p = 0 THEN 0 ELSE depth[p] + 1]
      BY DEF CreateRow
    <3>2. (IF p = 0 THEN 0 ELSE depth[p] + 1) \in Nat
      BY <2>1 DEF LinesOK
    <3> QED
      BY <3>1, <3>2 DEF LinesOK
  <2>6. again' \in SUBSET (1 .. last')
    <3>1. again' \subseteq again \cup {last + 1}
      BY DEF CreateRow
    <3>2. again \subseteq 1 .. last
      BY DEF LinesOK
    <3> QED
      BY <1>1, <3>1, <3>2
  <2> QED
    BY <2>2, <2>3, <2>4, <2>5, <2>6 DEF LinesOK
<1> QED
  BY <1>1, <1>3, <1>4

\* The sets of existing runs only grow into a larger set.
LEMMA SetsGrow ==
  ASSUME SetsOK, last \in Nat, last' = last + 1, accepted' \in SUBSET (1 .. last'),
         UNCHANGED <<todo, kids, closed, shut, events, swept>>
  PROVE  SetsOK'
<1>1. 1 .. last \subseteq 1 .. last'
  OBVIOUS
<1> QED
  BY <1>1 DEF SetsOK

\* A run that exists changes its status and stays.
LEMMA StatusChanged ==
  ASSUME RowsOK, NEW c \in Runs, NEW x \in Active \cup Terminal \cup {status[c]}, c <= last,
         status' = [status EXCEPT ![c] = x], UNCHANGED <<last, parent>>
  PROVE  RowsOK'
<1>1. status[c] # "none" /\ x \in Statuses /\ x # "none"
  BY BoundsAssumption DEF RowsOK, Runs, Statuses, Active, Terminal
<1>2. \A r \in Runs : /\ status'[r] = "none" <=> status[r] = "none"
                      /\ status'[r] = "deleted" => status[r] = "deleted"
  BY <1>1 DEF RowsOK, Active, Terminal
<1>3. status' \in [Runs -> Statuses]
  BY <1>1 DEF RowsOK
<1>4. \A r \in Runs : parent[r] # 0 => parent[r] \in Runs
  BY BoundsAssumption DEF RowsOK, Runs
<1> QED
  BY <1>2, <1>3, <1>4 DEF RowsOK

\* The step of an existing run goes on.
LEMMA StepMoved ==
  ASSUME StepsOK, NEW r \in Runs, NEW s \in StepNames, NEW n \in 0 .. last',
         step' = [step EXCEPT ![r] = s], new' = [new EXCEPT ![r] = n],
         last \in Nat, last' \in Nat, last <= last', r <= last,
         s \in {"idle", "ready", "wait", "create"} => n = 0,
         s \in {"dispatch", "recheck"} => n # 0
  PROVE  StepsOK'
<1>1. \A q \in Runs : /\ step'[q] = IF q = r THEN s ELSE step[q]
                      /\ new'[q] = IF q = r THEN n ELSE new[q]
  BY DEF StepsOK
<1>2. step' \in [Runs -> StepNames]
  BY DEF StepsOK
<1>3. new' \in [Runs -> 0 .. last']
  <2>1. 0 .. last \subseteq 0 .. last'
    OBVIOUS
  <2> QED
    BY <2>1 DEF StepsOK
<1>4. ASSUME NEW q \in Runs
      PROVE  /\ step'[q] # "idle" => q <= last'
             /\ step'[q] \in {"idle", "ready", "wait", "create"} => new'[q] = 0
             /\ step'[q] \in {"dispatch", "recheck"} => new'[q] # 0
  BY <1>1 DEF StepsOK, Runs
<1> QED
  BY <1>2, <1>3, <1>4 DEF StepsOK

\* The same for a step that keeps its child.
LEMMA StepMovedOn ==
  ASSUME StepsOK, NEW r \in Runs, NEW s \in StepNames, r <= last,
         step' = [step EXCEPT ![r] = s], UNCHANGED <<new, last>>, last \in Nat,
         s \in {"idle", "ready", "wait", "create"} => new[r] = 0,
         s \in {"dispatch", "recheck"} => new[r] # 0
  PROVE  StepsOK'
<1>1. new' = [new EXCEPT ![r] = new[r]] /\ new[r] \in 0 .. last'
  BY DEF StepsOK
<1>2. last' \in Nat /\ last <= last'
  OBVIOUS
<1> QED
  BY <1>1, <1>2, StepMoved

\* The same for a step that lets go of its child.
LEMMA StepCleared ==
  ASSUME StepsOK, NEW r \in Runs, NEW s \in {"idle", "ready", "wait"}, r <= last,
         step' = [step EXCEPT ![r] = s], new' = [new EXCEPT ![r] = 0],
         UNCHANGED last, last \in Nat
  PROVE  StepsOK'
<1>1. /\ s \in StepNames /\ s \notin {"dispatch", "recheck"}
      /\ 0 \in 0 .. last' /\ last' \in Nat /\ last <= last'
  BY DEF StepNames
<1> QED
  BY <1>1, StepMoved

LEMMA StepsKept ==
  ASSUME StepsOK, UNCHANGED <<step, new>>, last \in Nat, last' \in Nat, last <= last'
  PROVE  StepsOK'
<1>1. 0 .. last \subseteq 0 .. last'
  OBVIOUS
<1> QED
  BY <1>1 DEF StepsOK, Runs

LEMMA PartsKept ==
  /\ RowsOK /\ UNCHANGED <<last, status, parent>> => RowsOK'
  /\ LinesOK /\ UNCHANGED <<last, wf, ancestors, line, depth, again>> => LinesOK'
  /\ SetsOK /\ UNCHANGED <<last, accepted, todo, kids, closed, shut, events, swept>>
       => SetsOK'
BY DEF RowsOK, LinesOK, SetsOK

\* transition_run ends a run or leaves it alone.
LEMMA TransitionEnds ==
  ASSUME RowsOK, NEW c \in Runs, c <= last, NEW s \in Terminal
  PROVE  /\ Transition(c, s) \in Active \cup Terminal \cup {status[c]}
         /\ Transition(c, s) \notin Active
BY DEF Transition, Active, Terminal

LEMMA TypeStep ==
  ASSUME IType, [Next]_vars
  PROVE  IType'
<1>0. /\ last \in Nat /\ MaxRuns \in Nat
      /\ \A r \in Runs : r \in Nat /\ (status[r] # "none" => r <= last)
      /\ RowsOK /\ LinesOK /\ SetsOK /\ StepsOK
      /\ \A r \in Runs : step[r] # "idle" => r <= last
  BY BoundsAssumption DEF IType, RowsOK, StepsOK, Runs
<1>1. ASSUME Trigger PROVE IType'
  <2>1. CreateRow(0, Root) /\ last = 0 /\ accepted' = {1}
        /\ UNCHANGED <<stepVars, sweepVars, events, swept, closed, shut>>
    BY <1>1 DEF Trigger
  <2>2. RowsOK' /\ LinesOK' /\ last' = last + 1
    BY <1>0, <2>1, RowCreated, BoundsAssumption, WorkflowsAssumption
  <2>3. SetsOK'
    BY <1>0, <2>1, <2>2, SetsGrow DEF sweepVars
  <2>4. StepsOK'
    BY <1>0, <2>1, <2>2, StepsKept DEF stepVars
  <2> QED
    BY <2>2, <2>3, <2>4 DEF IType
<1>2. ASSUME NEW r \in Runs, Claim(r) PROVE IType'
  <2>1. RowsOK'
    BY <1>0, <1>2, StatusChanged DEF Claim, Active
  <2> QED
    BY <1>0, <2>1, <1>2, PartsKept, StepsKept DEF Claim, IType, stepVars, sweepVars, lineage
<1>3. ASSUME NEW r \in Runs, BeginStep(r) PROVE IType'
  <2>1. StepsOK'
    BY <1>0, <1>3, StepMovedOn DEF BeginStep, StepsOK, StepNames, Starting, rowVars
  <2> QED
    BY <1>0, <2>1, <1>3, PartsKept DEF BeginStep, IType, rowVars, sweepVars, lineage
<1>4. ASSUME NEW r \in Runs, StartGroup(r) PROVE IType'
  <2>1. StepsOK'
    BY <1>0, <1>4, StepMovedOn DEF StartGroup, StepsOK, StepNames, Starting, rowVars
  <2> QED
    BY <1>0, <2>1, <1>4, PartsKept DEF StartGroup, IType, rowVars, sweepVars, lineage
<1>5. ASSUME NEW r \in Runs, CreateChild(r) PROVE IType'
  <2>1. r <= last /\ last < MaxRuns /\ status[r] # "deleted" /\ new[r] = 0
    BY <1>0, <1>5 DEF CreateChild, StepsOK
  <2>2. PICK w \in Calls[wf[r]] : ChainAllows(r, w) /\ CreateRow(r, w)
    BY <1>5 DEF CreateChild
  <2>3. w \in Workflows /\ r \in 0 .. MaxRuns
    BY <1>0, WorkflowsAssumption DEF LinesOK, Runs
  <2>4. RowsOK' /\ LinesOK' /\ last' = last + 1
    BY <1>0, <2>1, <2>2, <2>3, RowCreated
  <2>5. SetsOK'
    <3>1. accepted' \in SUBSET (1 .. last')
      BY <1>0, <2>4, <1>5 DEF CreateChild, SetsOK
    <3> QED
      BY <1>0, <2>4, <3>1, <1>5, SetsGrow DEF CreateChild, sweepVars
  <2>6. StepsOK'
    <3>1. /\ step' = [step EXCEPT ![r] = "dispatch"] /\ new' = [new EXCEPT ![r] = last + 1]
          /\ last + 1 \in 0 .. last' /\ last + 1 # 0 /\ last' \in Nat /\ last <= last'
      BY <1>0, <2>4, <1>5 DEF CreateChild
    <3> QED
      BY <1>0, <2>1, <3>1, StepMoved DEF StepNames, Starting
  <2> QED
    BY <2>4, <2>5, <2>6 DEF IType
<1>6. ASSUME NEW r \in Runs, StartRaises(r) PROVE IType'
  <2>1. StepsOK'
    BY <1>0, <1>6, StepMovedOn DEF StartRaises, StepsOK, StepNames, Starting, rowVars
  <2> QED
    BY <1>0, <2>1, <1>6, PartsKept DEF StartRaises, IType, rowVars, sweepVars, lineage
<1>7. ASSUME NEW r \in Runs, Dispatch(r) PROVE IType'
  <2>1. new[r] \in Runs /\ new[r] <= last /\ new[r] \in 1 .. last
    BY <1>0, <1>7 DEF Dispatch, StepsOK, Runs, RowsOK
  <2>2. StepsOK'
    BY <1>0, <1>7, StepMovedOn DEF Dispatch, StepsOK, StepNames, Starting
  <2>3. SetsOK'
    BY <1>0, <2>1, <1>7 DEF Dispatch, SetsOK, sweepVars
  <2> QED
    BY <1>0, <2>2, <2>3, <1>7, PartsKept DEF Dispatch, IType, lineage
<1>8. ASSUME NEW r \in Runs, DispatchRaises(r) PROVE IType'
  <2>1. new[r] \in Runs /\ new[r] <= last /\ new[r] \in 1 .. last
    BY <1>0, <1>8 DEF DispatchRaises, StepsOK, Runs, RowsOK
  <2>2. RowsOK'
    BY <1>0, <2>1, <1>8, StatusChanged, TransitionEnds DEF DispatchRaises, Terminal
  <2>3. StepsOK'
    BY <1>0, <1>8, StepCleared DEF DispatchRaises
  <2>4. SetsOK'
    BY <1>0, <2>1, <1>8 DEF DispatchRaises, SetsOK, sweepVars
  <2> QED
    BY <1>0, <2>2, <2>3, <2>4, <1>8, PartsKept DEF DispatchRaises, IType, lineage
<1>9. ASSUME NEW r \in Runs, RecheckPasses(r) PROVE IType'
  <2>1. StepsOK'
    BY <1>0, <1>9, StepCleared DEF RecheckPasses, rowVars
  <2> QED
    BY <1>0, <2>1, <1>9, PartsKept DEF RecheckPasses, IType, rowVars, sweepVars, lineage
<1>10. ASSUME NEW r \in Runs, RecheckFails(r) PROVE IType'
  <2>1. new[r] \in Runs /\ new[r] <= last /\ new[r] \in 1 .. last
    BY <1>0, <1>10 DEF RecheckFails, StepsOK, Runs, RowsOK
  <2>2. StepsOK'
    BY <1>0, <1>10, StepCleared DEF RecheckFails
  <2>3. CASE status[r] = "deleted"
    BY <1>0, <2>2, <2>3, <1>10, PartsKept DEF RecheckFails, IType, sweepVars, lineage
  <2>4. CASE status[r] # "deleted"
    <3>1. /\ status' = [status EXCEPT ![new[r]] = Transition(new[r], "cancelled")]
          /\ shut' = shut \cup {new[r]}
      BY <1>10, <2>4 DEF RecheckFails
    <3>2. RowsOK'
      BY <1>0, <2>1, <3>1, <1>10, StatusChanged, TransitionEnds DEF RecheckFails, Terminal
    <3>3. SetsOK'
      BY <1>0, <2>1, <3>1, <1>10 DEF RecheckFails, SetsOK, sweepVars
    <3> QED
      BY <1>0, <2>2, <3>2, <3>3, <1>10, PartsKept DEF RecheckFails, IType, lineage
  <2> QED
    BY <2>3, <2>4
<1>11. ASSUME NEW r \in Runs, GroupsStarted(r) PROVE IType'
  <2>1. PICK s \in {"wait", "idle"} : step' = [step EXCEPT ![r] = s]
    BY <1>11 DEF GroupsStarted
  <2>2. StepsOK'
    BY <1>0, <2>1, <1>11, StepMovedOn DEF GroupsStarted, StepsOK, StepNames, Starting, rowVars
  <2> QED
    BY <1>0, <2>2, <1>11, PartsKept DEF GroupsStarted, IType, rowVars, sweepVars, lineage
<1>12. ASSUME NEW r \in Runs, WaitEnds(r) PROVE IType'
  <2>1. StepsOK'
    BY <1>0, <1>12, StepMovedOn DEF WaitEnds, StepsOK, StepNames, Starting, rowVars
  <2> QED
    BY <1>0, <2>1, <1>12, PartsKept DEF WaitEnds, IType, rowVars, sweepVars, lineage
<1>13. ASSUME NEW r \in Runs, Finish(r) PROVE IType'
  <2>1. PICK s \in {"success", "failed"} : status' = [status EXCEPT ![r] = s]
    BY <1>13 DEF Finish
  <2>2. RowsOK'
    BY <1>0, <2>1, <1>13, StatusChanged DEF Finish, Terminal
  <2> QED
    BY <1>0, <2>2, <1>13, PartsKept, StepsKept DEF Finish, IType, stepVars, sweepVars, lineage
<1>14. ASSUME NEW r \in Runs, Stop(r) PROVE IType'
  <2>1. PICK s \in {"cancelled", "failed"} : status' = [status EXCEPT ![r] = s]
    BY <1>14 DEF Stop
  <2>2. r <= last
    BY <1>0, <1>14 DEF Stop, Active
  <2>3. RowsOK'
    BY <1>0, <2>1, <2>2, <1>14, StatusChanged DEF Stop, Terminal
  <2>4. SetsOK'
    BY <1>0, <2>2, <1>14, BoundsAssumption DEF Stop, SetsOK, Event, Runs
  <2> QED
    BY <1>0, <2>3, <2>4, <1>14, PartsKept, StepsKept DEF Stop, IType, stepVars, lineage
<1>15. ASSUME NEW r \in Runs, ListChildren(r) PROVE IType'
  <2>1. Listed(r) \in SUBSET (1 .. last)
    <3>1. \A c \in Runs : c > last => parent[c] = 0
      BY <1>0 DEF RowsOK
    <3> QED
      BY <1>0, <3>1 DEF Listed, Runs
  <2>2. SetsOK'
    BY <1>0, <2>1, <1>15 DEF ListChildren, SetsOK, rowVars
  <2> QED
    BY <1>0, <2>2, <1>15, PartsKept, StepsKept DEF ListChildren, IType, rowVars, stepVars, lineage
<1>16. ASSUME NEW r \in Runs, VisitChild(r) PROVE IType'
  <2>1. r <= last
    BY <1>0, <1>16 DEF VisitChild, SetsOK
  <2>2. RowsOK'
    BY <1>0, <2>1, <1>16, StatusChanged, TransitionEnds DEF VisitChild, Terminal
  <2>3. SetsOK'
    BY <1>0, <2>1, <1>16 DEF VisitChild, SetsOK, Runs
  <2> QED
    BY <1>0, <2>2, <2>3, <1>16, PartsKept, StepsKept DEF VisitChild, IType, stepVars, lineage
<1>17. ASSUME NEW r \in Runs, DeleteRun(r) PROVE IType'
  <2>1. /\ status' = [status EXCEPT ![r] = "deleted"] /\ status[r] \in Terminal
        /\ parent' = [c \in Runs |-> ParentAfterDelete(c, r)] /\ last' = last
    BY <1>17 DEF DeleteRun
  <2>2. RowsOK'
    <3>1. \A c \in Runs : /\ status'[c] = IF c = r THEN "deleted" ELSE status[c]
                          /\ parent'[c] = IF parent[c] = r THEN 0 ELSE parent[c]
      BY <1>0, <2>1 DEF RowsOK, ParentAfterDelete
    <3>2. status' \in [Runs -> Statuses] /\ parent' \in [Runs -> 0 .. MaxRuns]
      BY <1>0, <2>1 DEF RowsOK, ParentAfterDelete, Statuses
    <3>3. \A c \in Runs : status'[c] = "none" <=> c > last'
      BY <1>0, <2>1, <3>1 DEF RowsOK, Terminal
    <3>4. \A c \in Runs : parent'[c] < c /\ (parent'[c] # 0 => status'[parent'[c]] # "deleted")
      BY <1>0, <3>1 DEF RowsOK, Runs
    <3>5. \A c \in Runs : c > last' => parent'[c] = 0
      BY <1>0, <2>1, <3>1 DEF RowsOK
    <3> QED
      BY <1>0, <2>1, <3>2, <3>3, <3>4, <3>5 DEF RowsOK
  <2>3. SetsOK'
    BY <1>0, <1>17, BoundsAssumption DEF DeleteRun, SetsOK, Event, sweepVars
  <2> QED
    BY <1>0, <2>2, <2>3, <1>17, PartsKept, StepsKept DEF DeleteRun, IType, stepVars, lineage
<1>18. ASSUME NEW r \in Runs, WorkerDies(r) PROVE IType'
  <2>1. StepsOK'
    BY <1>0, <1>18, StepMovedOn DEF WorkerDies, Starting, StepNames, rowVars
  <2>2. SetsOK'
    BY <1>0, <1>18, BoundsAssumption DEF WorkerDies, SetsOK, Event, rowVars, sweepVars
  <2> QED
    BY <1>0, <2>1, <2>2, <1>18, PartsKept DEF WorkerDies, IType, rowVars, lineage
<1>19. ASSUME SweepDies PROVE IType'
  <2>1. events' \in 0 .. MaxEvents
    BY <1>0, <1>19, BoundsAssumption DEF SweepDies, Event, SetsOK
  <2>2. SetsOK'
    BY <1>0, <2>1, <1>19 DEF SweepDies, SetsOK, rowVars
  <2> QED
    BY <1>0, <2>2, <1>19, PartsKept, StepsKept DEF SweepDies, IType, rowVars, stepVars, lineage
<1>20. ASSUME UNCHANGED vars PROVE IType'
  BY <1>0, <1>20, PartsKept, StepsKept DEF vars, IType, rowVars, stepVars, sweepVars, lineage
<1> QED
  BY Steps,
    <1>1, <1>2, <1>3, <1>4, <1>5, <1>6, <1>7, <1>8, <1>9, <1>10,
    <1>11, <1>12, <1>13, <1>14, <1>15, <1>16, <1>17, <1>18, <1>19, <1>20

\* Every reachable state is well typed: in particular the deletion of a run
\* leaves no parent_run_id behind that refers to it (ON DELETE SET NULL).
THEOREM TypeCorrect == Spec => []TypeOK
<1>1. Spec => []IType
  BY TypeInit, TypeStep, PTL DEF Spec
<1> QED
  BY <1>1, ITypeGivesType, PTL

------------------------------------------------------------------------------
(***************************************************************************)
(* The recursion guard. What ancestor_workflow_ids says of a run is the    *)
(* truth about the runs that led to it, deleted ones included, as it was   *)
(* copied from the caller when that existed.                               *)
(***************************************************************************)

Recorded(r) ==
  /\ Len(ancestors[r]) = depth[r]
  /\ \A w \in line[r] : w = wf[r] \/ \E i \in 1 .. Len(ancestors[r]) : ancestors[r][i] = w

LineInv ==
  /\ again = {}
  /\ \A r \in Runs : depth[r] <= MaxDepth /\ (r <= last => Recorded(r))

LEMMA LineInit == Init => LineInv
BY BoundsAssumption DEF Init, LineInv, Recorded, Runs

\* A chain that permits a workflow does not hold it, and has room.
LEMMA ChainPermits ==
  ASSUME LinesOK, LineInv, NEW p \in Runs, p <= last, NEW w \in Workflows,
         ChainAllows(p, w)
  PROVE  /\ w \notin line[p] /\ depth[p] + 1 <= MaxDepth
         /\ Len(Chain(p)) = depth[p] + 1
         /\ \A x \in line[p] : \E i \in 1 .. Len(Chain(p)) : Chain(p)[i] = x
<1>1. /\ ancestors[p] \in Seq(Workflows) /\ wf[p] \in Workflows
      /\ Len(ancestors[p]) = depth[p] /\ depth[p] \in Nat
      /\ \A x \in line[p] : \/ x = wf[p]
                             \/ \E i \in 1 .. Len(ancestors[p]) : ancestors[p][i] = x
  BY DEF LinesOK, LineInv, Recorded
<1>2. /\ Len(Chain(p)) = Len(ancestors[p]) + 1
      /\ Chain(p)[Len(ancestors[p]) + 1] = wf[p]
      /\ \A i \in 1 .. Len(ancestors[p]) : Chain(p)[i] = ancestors[p][i]
  BY <1>1 DEF Chain
<1>3. \A x \in line[p] : \E i \in 1 .. Len(Chain(p)) : Chain(p)[i] = x
  <2> SUFFICES ASSUME NEW x \in line[p]
               PROVE  \E i \in 1 .. Len(Chain(p)) : Chain(p)[i] = x
    OBVIOUS
  <2>1. CASE x = wf[p]
    BY <1>1, <1>2, <2>1
  <2>2. CASE \E i \in 1 .. Len(ancestors[p]) : ancestors[p][i] = x
    BY <1>1, <1>2, <2>2
  <2> QED
    BY <1>1, <2>1, <2>2
<1>4. (\A i \in 1 .. Len(Chain(p)) : Chain(p)[i] # w) /\ Len(Chain(p)) <= MaxDepth
  BY DEF ChainAllows
<1> QED
  BY <1>1, <1>2, <1>3, <1>4

LEMMA LineCreated ==
  ASSUME RowsOK, LinesOK, LineInv, NEW p \in 0 .. MaxRuns, NEW w \in Workflows,
         CreateRow(p, w), last < MaxRuns, p <= last, p # 0 => ChainAllows(p, w)
  PROVE  LineInv'
<1>0. PICK c \in Runs : c = last + 1
  BY BoundsAssumption DEF RowsOK, Runs
<1>1. last \in Nat /\ last' = c /\ c = last + 1 /\ MaxDepth \in Nat
  BY <1>0, BoundsAssumption DEF CreateRow, RowsOK
<1>2. p # 0 => p \in Runs
  BY BoundsAssumption DEF Runs
<1>3. ASSUME NEW r \in Runs, r # c
      PROVE  /\ depth'[r] = depth[r] /\ ancestors'[r] = ancestors[r]
             /\ line'[r] = line[r] /\ wf'[r] = wf[r]
  BY <1>1, <1>3 DEF CreateRow, LinesOK
<1>4. ASSUME NEW r \in Runs, r # c
      PROVE  depth'[r] <= MaxDepth /\ (r <= last' => Recorded(r)')
  <2>1. r <= last' => r <= last
    BY <1>1, <1>4 DEF Runs
  <2> QED
    BY <1>3, <1>4, <2>1 DEF LineInv, Recorded
<1>5. wf'[c] = w
  BY <1>1 DEF CreateRow, LinesOK
<1>6. CASE p = 0
  <2>1. depth'[c] = 0 /\ ancestors'[c] = << >> /\ line'[c] = {w}
    BY <1>1, <1>6 DEF CreateRow, LinesOK
  <2>2. again' = {}
    BY <1>6 DEF CreateRow, LineInv
  <2>3. depth'[c] <= MaxDepth /\ Recorded(c)'
    BY <1>1, <1>5, <2>1 DEF Recorded
  <2> QED
    BY <1>1, <1>4, <2>2, <2>3 DEF LineInv
<1>7. CASE p # 0
  <2>1. /\ depth'[c] = depth[p] + 1 /\ ancestors'[c] = Chain(p)
        /\ line'[c] = {w} \cup line[p]
    BY <1>1, <1>7 DEF CreateRow, LinesOK
  <2>2. /\ w \notin line[p] /\ depth[p] + 1 <= MaxDepth
        /\ Len(Chain(p)) = depth[p] + 1
        /\ \A x \in line[p] : \E i \in 1 .. Len(Chain(p)) : Chain(p)[i] = x
    BY <1>2, <1>7, ChainPermits
  <2>3. again' = {}
    BY <1>7, <2>2 DEF CreateRow, LineInv
  <2>4. depth'[c] <= MaxDepth /\ Recorded(c)'
    BY <1>5, <2>1, <2>2 DEF Recorded
  <2> QED
    BY <1>1, <1>4, <2>3, <2>4 DEF LineInv
<1> QED
  BY <1>6, <1>7

LEMMA LineStep ==
  ASSUME IType, LineInv, [Next]_vars
  PROVE  LineInv'
<1>1. ASSUME Trigger PROVE LineInv'
  <2>1. CreateRow(0, Root) /\ last = 0
    BY <1>1 DEF Trigger
  <2> QED
    BY <2>1, LineCreated, BoundsAssumption, WorkflowsAssumption DEF IType
<1>2. ASSUME NEW r \in Runs, CreateChild(r) PROVE LineInv'
  <2>1. r <= last /\ last < MaxRuns
    BY <1>2 DEF CreateChild, IType, StepsOK
  <2>2. PICK w \in Calls[wf[r]] : ChainAllows(r, w) /\ CreateRow(r, w)
    BY <1>2 DEF CreateChild
  <2>3. w \in Workflows /\ r \in 0 .. MaxRuns
    BY WorkflowsAssumption, BoundsAssumption DEF IType, LinesOK, Runs
  <2> QED
    BY <2>1, <2>2, <2>3, LineCreated DEF IType
<1>3. ASSUME UNCHANGED <<last, wf, ancestors, line, depth, again>> PROVE LineInv'
  BY <1>3 DEF LineInv, Recorded
<1>4. \/ Trigger
      \/ \E r \in Runs : CreateChild(r)
      \/ UNCHANGED <<last, wf, ancestors, line, depth, again>>
  <2>1. ASSUME NEW r \in Runs,
               \/ Claim(r) \/ BeginStep(r) \/ StartGroup(r)
               \/ StartRaises(r) \/ Dispatch(r) \/ DispatchRaises(r)
               \/ RecheckPasses(r) \/ RecheckFails(r) \/ GroupsStarted(r)
               \/ WaitEnds(r) \/ Finish(r) \/ Stop(r) \/ ListChildren(r)
               \/ VisitChild(r) \/ DeleteRun(r) \/ WorkerDies(r)
        PROVE  UNCHANGED <<last, wf, ancestors, line, depth, again>>
    BY <2>1 DEF Claim, BeginStep, StartGroup, StartRaises, Dispatch, DispatchRaises,
         RecheckPasses, RecheckFails, GroupsStarted, WaitEnds, Finish, Stop,
         ListChildren, VisitChild, DeleteRun, WorkerDies, rowVars, lineage
  <2>2. SweepDies \/ UNCHANGED vars => UNCHANGED <<last, wf, ancestors, line, depth, again>>
    BY DEF SweepDies, vars, rowVars, lineage
  <2> QED
    BY <2>1, <2>2, Steps
<1> QED
  BY <1>1, <1>2, <1>3, <1>4

\* However runs are started, ended and deleted, no run is led to by a run of
\* its own workflow and no chain is longer than MAX_CHILD_RUN_DEPTH.
THEOREM ChainsHold == Spec => []ChainsAreBounded
<1>1. LineInv => ChainsAreBounded
  BY DEF LineInv, ChainsAreBounded
<1>2. Spec => []IType
  BY TypeInit, TypeStep, PTL DEF Spec
<1>3. IType /\ LineInv /\ [Next]_vars => LineInv'
  BY LineStep
<1> QED
  BY LineInit, <1>1, <1>2, <1>3, PTL DEF Spec

------------------------------------------------------------------------------
(***************************************************************************)
(* The sweep of the children. While no sweep was lost, a child of a run    *)
(* whose children were listed is still in its starter's hands, in the      *)
(* sweep's hands, or done with; and whoever is done with has ended.        *)
(***************************************************************************)

Accounted ==
  swept = "ok" =>
    \A p \in closed : \A c \in Runs :
      parent[c] = p => new[p] = c \/ c \in kids \cup todo \cup closed \cup shut

Ended == \A c \in todo \cup closed \cup shut : status[c] \notin Active

SweepInv == Accounted /\ Ended

LEMMA SweepInit == Init => SweepInv
BY DEF Init, SweepInv, Accounted, Ended

LEMMA SweepGives == SweepInv => NoChildLeftBehind
BY DEF SweepInv, Accounted, Ended, NoChildLeftBehind

\* A run of which nothing is said changes its status.
LEMMA EndedBesides ==
  ASSUME RowsOK, Ended, NEW c \in Runs, NEW x, status' = [status EXCEPT ![c] = x],
         c \notin todo \cup closed \cup shut, UNCHANGED <<todo, closed, shut>>,
         todo \subseteq Runs, closed \subseteq Runs, shut \subseteq Runs
  PROVE  Ended'
<1>1. \A r \in Runs : r # c => status'[r] = status[r]
  BY DEF RowsOK
<1> QED
  BY <1>1 DEF Ended

\* A run ends, and may be done with then.
LEMMA EndedOneMore ==
  ASSUME RowsOK, Ended, NEW c \in Runs, NEW x, status' = [status EXCEPT ![c] = x],
         x \notin Active,
         todo' \cup closed' \cup shut' \subseteq todo \cup closed \cup shut \cup {c},
         todo \subseteq Runs, closed \subseteq Runs, shut \subseteq Runs
  PROVE  Ended'
<1>1. \A r \in Runs : status'[r] = IF r = c THEN x ELSE status[r]
  BY DEF RowsOK
<1> QED
  BY <1>1 DEF Ended

LEMMA AccountedKept ==
  ASSUME Accounted, UNCHANGED <<swept, closed, parent, new>>,
         kids \cup todo \cup shut \subseteq kids' \cup todo' \cup shut'
  PROVE  Accounted'
BY DEF Accounted

\* A starter lets go of a child of which nothing more is to be said.
LEMMA AccountedReleased ==
  ASSUME Accounted, StepsOK, NEW r \in Runs, new' = [new EXCEPT ![r] = 0],
         UNCHANGED <<swept, closed, parent, kids, todo>>, shut \subseteq shut',
         closed \subseteq Runs,
         \/ r \notin closed
         \/ new[r] \in shut'
         \/ \A c \in Runs : parent[c] # r
  PROVE  Accounted'
<1>1. \A q \in Runs : new'[q] = IF q = r THEN 0 ELSE new[q]
  BY DEF StepsOK
<1> SUFFICES ASSUME swept = "ok", NEW p \in closed, NEW c \in Runs, parent[c] = p
             PROVE  new'[p] = c \/ c \in kids' \cup todo' \cup closed' \cup shut'
  BY DEF Accounted
<1>2. new[p] = c \/ c \in kids \cup todo \cup closed \cup shut
  BY DEF Accounted
<1> QED
  BY <1>1, <1>2

LEMMA SweepStep ==
  ASSUME IType, SweepInv, [Next]_vars
  PROVE  SweepInv'
<1>0. /\ RowsOK /\ StepsOK /\ last \in Nat
      /\ \A r \in Runs : /\ step[r] \in {"dispatch", "recheck"} => new[r] \in Runs
                         /\ status[r] = "deleted" => \A c \in Runs : parent[c] # r
      /\ last < MaxRuns => last + 1 \in Runs
      /\ todo \subseteq Runs /\ closed \subseteq Runs /\ shut \subseteq Runs
      /\ todo \subseteq 1 .. last /\ closed \subseteq 1 .. last /\ shut \subseteq 1 .. last
      /\ parent \in [Runs -> 0 .. MaxRuns] /\ new \in [Runs -> 0 .. last]
      /\ 0 \notin Runs
  <2>1. /\ RowsOK /\ StepsOK /\ last \in 0 .. MaxRuns /\ MaxRuns \in Nat
        /\ parent \in [Runs -> 0 .. MaxRuns] /\ new \in [Runs -> 0 .. last]
        /\ todo \subseteq 1 .. last /\ closed \subseteq 1 .. last /\ shut \subseteq 1 .. last
    BY BoundsAssumption DEF IType, RowsOK, SetsOK, StepsOK
  <2>2. 1 .. last \subseteq Runs /\ 0 \notin Runs /\ (last < MaxRuns => last + 1 \in Runs)
    BY <2>1 DEF Runs
  <2>3. \A r \in Runs : step[r] \in {"dispatch", "recheck"} => new[r] \in Runs
    BY <2>1, <2>2 DEF StepsOK
  <2>4. \A r \in Runs : status[r] = "deleted" => \A c \in Runs : parent[c] # r
    BY <2>1, <2>2 DEF RowsOK
  <2> QED
    BY <2>1, <2>2, <2>3, <2>4
<1>1. ASSUME Trigger PROVE SweepInv'
  <2>1. SweepInv /\ UNCHANGED <<todo, closed, shut, kids, swept>> /\ last < MaxRuns
    BY <1>1, BoundsAssumption DEF Trigger, sweepVars
  <2>2. PICK c \in Runs : c = last + 1
    BY <1>0, <2>1
  <2>3. /\ status' = [status EXCEPT ![c] = "pending"]
        /\ last = 0
    BY <1>1, <2>2 DEF Trigger, CreateRow
  <2>4. c \notin todo \cup closed \cup shut
    BY <1>0, <2>2
  <2>5. Ended'
    BY <1>0, <2>1, <2>3, <2>4, EndedBesides DEF SweepInv
  <2>6. Accounted'
    <3>1. closed = {}
      BY <1>0, <2>3
    <3> QED
      BY <2>1, <3>1 DEF Accounted
  <2> QED
    BY <2>5, <2>6 DEF SweepInv
<1>2. ASSUME NEW r \in Runs, Claim(r) PROVE SweepInv'
  <2>1. r \notin todo \cup closed \cup shut
    BY <1>2 DEF Claim, SweepInv, Ended, Active
  <2>2. Ended'
    BY <1>2, <1>0, <2>1, EndedBesides DEF Claim, SweepInv, sweepVars
  <2> QED
    BY <1>2, <2>2, AccountedKept DEF Claim, SweepInv, stepVars, sweepVars
<1>3. ASSUME NEW r \in Runs, BeginStep(r) PROVE SweepInv'
  <2>1. UNCHANGED <<status, todo, closed, shut, kids, swept, parent, new>>
    BY <1>3 DEF BeginStep, rowVars, sweepVars
  <2> QED
    BY <2>1 DEF SweepInv, Accounted, Ended
<1>4. ASSUME NEW r \in Runs, StartGroup(r) PROVE SweepInv'
  <2>1. UNCHANGED <<status, todo, closed, shut, kids, swept, parent, new>>
    BY <1>4 DEF StartGroup, rowVars, sweepVars
  <2> QED
    BY <2>1 DEF SweepInv, Accounted, Ended
<1>5. ASSUME NEW r \in Runs, CreateChild(r) PROVE SweepInv'
  <2>1. SweepInv /\ UNCHANGED <<todo, closed, shut, kids, swept>> /\ last < MaxRuns
    BY <1>5, BoundsAssumption DEF CreateChild, sweepVars
  <2>2. PICK c \in Runs : c = last + 1
    BY <1>0, <2>1
  <2>3. /\ status' = [status EXCEPT ![c] = "pending"]
        /\ parent' = [parent EXCEPT ![c] = r] /\ new' = [new EXCEPT ![r] = c] /\ new[r] = 0
    BY <1>5, <2>2 DEF CreateChild, CreateRow, IType, StepsOK
  <2>4. c \notin todo \cup closed \cup shut
    BY <1>0, <2>2
  <2>5. Ended'
    BY <1>0, <2>1, <2>3, <2>4, EndedBesides DEF SweepInv
  <2>6. Accounted'
    <3>1. \A q \in Runs : parent'[q] = IF q = c THEN r ELSE parent[q]
      BY <1>0, <2>3
    <3>2. \A q \in Runs : new'[q] = IF q = r THEN c ELSE new[q]
      BY <1>0, <2>3
    <3>3. ASSUME swept = "ok", NEW p \in closed, NEW d \in Runs, parent'[d] = p
          PROVE  new'[p] = d \/ d \in kids \cup todo \cup closed \cup shut
      <4>1. CASE d = c
        BY <3>1, <3>2, <3>3, <4>1
      <4>2. CASE d # c
        <5>1. new[p] = d \/ d \in kids \cup todo \cup closed \cup shut
          BY <2>1, <3>1, <3>3, <4>2 DEF SweepInv, Accounted
        <5> QED
          BY <1>0, <2>3, <3>2, <5>1
      <4> QED
        BY <4>1, <4>2
    <3> QED
      BY <2>1, <3>3 DEF Accounted
  <2> QED
    BY <2>5, <2>6 DEF SweepInv
<1>6. ASSUME NEW r \in Runs, StartRaises(r) PROVE SweepInv'
  <2>1. UNCHANGED <<status, todo, closed, shut, kids, swept, parent, new>>
    BY <1>6 DEF StartRaises, rowVars, sweepVars
  <2> QED
    BY <2>1 DEF SweepInv, Accounted, Ended
<1>7. ASSUME NEW r \in Runs, Dispatch(r) PROVE SweepInv'
  <2>1. UNCHANGED <<status, todo, closed, shut, kids, swept, parent, new>>
    BY <1>7 DEF Dispatch, rowVars, sweepVars
  <2> QED
    BY <2>1 DEF SweepInv, Accounted, Ended
<1>8. ASSUME NEW r \in Runs, DispatchRaises(r) PROVE SweepInv'
  <2>1. /\ status' = [status EXCEPT ![new[r]] = Transition(new[r], "failed")]
        /\ shut' = shut \cup {new[r]} /\ new' = [new EXCEPT ![r] = 0]
        /\ UNCHANGED <<swept, closed, parent, todo, kids>>
    BY <1>8 DEF DispatchRaises, sweepVars
  <2>2. PICK c \in Runs : c = new[r]
    BY <1>8, <1>0 DEF DispatchRaises
  <2>3. Transition(c, "failed") \notin Active
    BY DEF Transition, Active
  <2>4. Ended'
    BY <1>0, <2>1, <2>2, <2>3, EndedOneMore DEF SweepInv
  <2>5. Accounted'
    BY <1>0, <2>1, AccountedReleased DEF SweepInv
  <2> QED
    BY <2>4, <2>5 DEF SweepInv
<1>9. ASSUME NEW r \in Runs, RecheckPasses(r) PROVE SweepInv'
  <2>1. /\ UNCHANGED <<status, todo, closed, shut, kids, swept, parent>>
        /\ new' = [new EXCEPT ![r] = 0] /\ status[r] \in Active
    BY <1>9 DEF RecheckPasses, StillActive, rowVars, sweepVars
  <2>2. r \notin closed
    BY <2>1 DEF SweepInv, Ended
  <2>3. Accounted'
    BY <1>0, <2>1, <2>2, AccountedReleased DEF SweepInv
  <2> QED
    BY <2>1, <2>3 DEF SweepInv, Ended
<1>10. ASSUME NEW r \in Runs, RecheckFails(r) PROVE SweepInv'
  <2>1. CASE status[r] = "deleted"
    <3>1. /\ UNCHANGED <<status, todo, closed, shut, kids, swept, parent>>
          /\ new' = [new EXCEPT ![r] = 0]
      BY <1>10, <2>1 DEF RecheckFails, sweepVars
    <3>2. \A c \in Runs : parent[c] # r
      BY <1>0, <2>1
    <3>3. Accounted'
      BY <1>0, <3>1, <3>2, AccountedReleased DEF SweepInv
    <3> QED
      BY <3>1, <3>3 DEF SweepInv, Ended
  <2>2. CASE status[r] # "deleted"
    <3>1. /\ status' = [status EXCEPT ![new[r]] = Transition(new[r], "cancelled")]
          /\ shut' = shut \cup {new[r]} /\ new' = [new EXCEPT ![r] = 0]
          /\ UNCHANGED <<swept, closed, parent, todo, kids>>
      BY <1>10, <2>2 DEF RecheckFails, sweepVars
    <3>2. PICK c \in Runs : c = new[r]
      BY <1>10, <1>0 DEF RecheckFails
    <3>3. Transition(c, "cancelled") \notin Active
      BY DEF Transition, Active
    <3>4. Ended'
      BY <1>0, <3>1, <3>2, <3>3, EndedOneMore DEF SweepInv
    <3>5. Accounted'
      BY <1>0, <3>1, AccountedReleased DEF SweepInv
    <3> QED
      BY <3>4, <3>5 DEF SweepInv
  <2> QED
    BY <2>1, <2>2
<1>11. ASSUME NEW r \in Runs, GroupsStarted(r) PROVE SweepInv'
  <2>1. UNCHANGED <<status, todo, closed, shut, kids, swept, parent, new>>
    BY <1>11 DEF GroupsStarted, rowVars, sweepVars
  <2> QED
    BY <2>1 DEF SweepInv, Accounted, Ended
<1>12. ASSUME NEW r \in Runs, WaitEnds(r) PROVE SweepInv'
  <2>1. UNCHANGED <<status, todo, closed, shut, kids, swept, parent, new>>
    BY <1>12 DEF WaitEnds, rowVars, sweepVars
  <2> QED
    BY <2>1 DEF SweepInv, Accounted, Ended
<1>13. ASSUME NEW r \in Runs, Finish(r) PROVE SweepInv'
  <2>1. PICK s \in {"success", "failed"} : status' = [status EXCEPT ![r] = s]
    BY <1>13 DEF Finish
  <2>2. Ended'
    BY <1>13, <1>0, <2>1, EndedOneMore DEF Finish, SweepInv, sweepVars, Active
  <2> QED
    BY <1>13, <2>2, AccountedKept DEF Finish, SweepInv, stepVars, sweepVars
<1>14. ASSUME NEW r \in Runs, Stop(r) PROVE SweepInv'
  <2>1. PICK s \in {"cancelled", "failed"} : status' = [status EXCEPT ![r] = s]
    BY <1>14 DEF Stop
  <2>2. /\ todo' \cup closed' \cup shut' = todo \cup closed \cup shut \cup {r}
        /\ todo \subseteq todo' /\ UNCHANGED <<swept, closed, parent, new, kids, shut>>
    BY <1>14 DEF Stop, stepVars
  <2>3. Ended'
    BY <1>0, <2>1, <2>2, EndedOneMore DEF SweepInv, Active
  <2> QED
    BY <2>2, <2>3, AccountedKept DEF SweepInv
<1>15. ASSUME NEW r \in Runs, ListChildren(r) PROVE SweepInv'
  <2>1. /\ r \in todo /\ todo' = todo \ {r} /\ closed' = closed \cup {r}
        /\ kids' = kids \cup Listed(r) /\ UNCHANGED <<status, parent, new, shut, swept>>
    BY <1>15 DEF ListChildren, rowVars, stepVars
  <2>2. Ended'
    BY <2>1 DEF SweepInv, Ended
  <2>3. Accounted'
    BY <2>1 DEF SweepInv, Accounted, Listed
  <2> QED
    BY <2>2, <2>3 DEF SweepInv
<1>16. ASSUME NEW r \in Runs, VisitChild(r) PROVE SweepInv'
  <2>1. /\ status' = [status EXCEPT ![r] = Transition(r, "cancelled")]
        /\ todo' \cup closed' \cup shut' = todo \cup closed \cup shut \cup {r}
        /\ kids \cup todo \subseteq kids' \cup todo'
        /\ UNCHANGED <<swept, closed, parent, new, shut>>
    BY <1>16 DEF VisitChild, stepVars
  <2>2. Transition(r, "cancelled") \notin Active
    BY DEF Transition, Active
  <2>3. Ended'
    BY <1>0, <2>1, <2>2, EndedOneMore DEF SweepInv
  <2> QED
    BY <2>1, <2>3, AccountedKept DEF SweepInv
<1>17. ASSUME NEW r \in Runs, DeleteRun(r) PROVE SweepInv'
  <2>1. /\ status' = [status EXCEPT ![r] = "deleted"]
        /\ parent' = [c \in Runs |-> ParentAfterDelete(c, r)]
        /\ UNCHANGED <<todo, closed, shut, kids, swept, new>>
    BY <1>17 DEF DeleteRun, stepVars, sweepVars
  <2>2. Ended'
    <3>1. "deleted" \notin Active
      BY DEF Active
    <3>2. todo' \cup closed' \cup shut' \subseteq todo \cup closed \cup shut \cup {r}
      BY <2>1
    <3> QED
      BY <1>0, <2>1, <3>1, <3>2, EndedOneMore DEF SweepInv
  <2>3. \A c \in Runs : parent'[c] = parent[c] \/ parent'[c] = 0
    BY <2>1 DEF ParentAfterDelete
  <2>4. 0 \notin closed
    BY <1>0 DEF Runs
  <2> QED
    BY <2>1, <2>2, <2>3, <2>4 DEF SweepInv, Accounted
<1>18. ASSUME NEW r \in Runs, WorkerDies(r) PROVE SweepInv'
  <2>1. UNCHANGED <<status, todo, closed, shut, kids, swept, parent, new>>
    BY <1>18 DEF WorkerDies, rowVars, sweepVars
  <2> QED
    BY <2>1 DEF SweepInv, Accounted, Ended
<1>19. ASSUME SweepDies PROVE SweepInv'
  <2>1. /\ todo' = {} /\ swept' = "died" /\ UNCHANGED <<status, closed, shut>>
    BY <1>19 DEF SweepDies, rowVars
  <2> QED
    BY <2>1 DEF SweepInv, Accounted, Ended
<1>20. ASSUME UNCHANGED vars PROVE SweepInv'
  BY <1>20 DEF vars, rowVars, stepVars, sweepVars, SweepInv, Accounted, Ended
<1> QED
  BY Steps,
    <1>1, <1>2, <1>3, <1>4, <1>5, <1>6, <1>7, <1>8, <1>9, <1>10,
    <1>11, <1>12, <1>13, <1>14, <1>15, <1>16, <1>17, <1>18, <1>19, <1>20

\* Once every sweep is over, no run whose children were swept has an active
\* child behind it, at any depth, although children were being started, ended
\* and deleted meanwhile.
THEOREM NoChildHolds == Spec => []NoChildLeftBehind
<1>1. Spec => []IType
  BY TypeInit, TypeStep, PTL DEF Spec
<1>2. IType /\ SweepInv /\ [Next]_vars => SweepInv'
  BY SweepStep
<1> QED
  BY SweepInit, SweepGives, <1>1, <1>2, PTL DEF Spec

------------------------------------------------------------------------------
(***************************************************************************)
(* The contract of every run.                                              *)
(***************************************************************************)

KeepContract == \A r \in Runs : Run(r)!Next \/ UNCHANGED Outcome(r)

LEMMA OutcomesKept == UNCHANGED status => KeepContract
BY DEF KeepContract, Outcome

\* One run moves on as the contract has it, the others stay.
LEMMA OneMoves ==
  ASSUME RowsOK, NEW c \in Runs, NEW x, status' = [status EXCEPT ![c] = x],
         Run(c)!Next \/ UNCHANGED Outcome(c)
  PROVE  KeepContract
<1>1. \A q \in Runs : q # c => status'[q] = status[q]
  BY DEF RowsOK
<1>2. \A q \in Runs : q # c => UNCHANGED Outcome(q)
  BY <1>1 DEF Outcome
<1> QED
  BY <1>2 DEF KeepContract

LEMMA RowAppears ==
  ASSUME RowsOK, NEW c \in Runs, status[c] = "none",
         status' = [status EXCEPT ![c] = "pending"]
  PROVE  KeepContract
<1>1. Outcome(c) = "none" /\ Outcome(c)' = "open"
  BY DEF RowsOK, Outcome, Active
<1>2. Run(c)!Create
  BY <1>1 DEF Run!Create
<1>3. Run(c)!Next
  BY <1>2 DEF Run!Next
<1> QED
  BY <1>3, OneMoves

LEMMA RunEnds ==
  ASSUME RowsOK, NEW c \in Runs, status[c] \in Active, NEW s \in Terminal,
         status' = [status EXCEPT ![c] = s]
  PROVE  KeepContract
<1>1. Outcome(c) = "open" /\ Outcome(c)' = s
  BY DEF RowsOK, Outcome, Active, Terminal
<1>2. Run(c)!End(s)
  BY <1>1 DEF Run!End
<1>3. Run(c)!Next
  BY <1>2 DEF Run!Next, Run!Ended, Terminal
<1> QED
  BY <1>3, OneMoves

LEMMA RunDeleted ==
  ASSUME RowsOK, NEW c \in Runs, status[c] \in Terminal,
         status' = [status EXCEPT ![c] = "deleted"]
  PROVE  KeepContract
<1>1. Outcome(c) \in Terminal /\ Outcome(c)' = "deleted"
  BY DEF RowsOK, Outcome, Active, Terminal
<1>2. Run(c)!Delete
  BY <1>1 DEF Run!Delete, Run!Ended, Terminal
<1>3. Run(c)!Next
  BY <1>2 DEF Run!Next
<1> QED
  BY <1>3, OneMoves

LEMMA RunTransits ==
  ASSUME RowsOK, NEW c \in Runs, NEW s \in Terminal,
         status' = [status EXCEPT ![c] = Transition(c, s)]
  PROVE  KeepContract
<1>1. CASE status[c] \in Active
  BY <1>1, RunEnds DEF Transition
<1>2. CASE status[c] \notin Active
  <2>1. status'[c] = status[c]
    BY <1>2 DEF Transition, RowsOK
  <2> QED
    BY <2>1, OneMoves DEF Outcome
<1> QED
  BY <1>1, <1>2

LEMMA ContractStep ==
  ASSUME IType, [Next]_vars
  PROVE  KeepContract
<1>0. /\ RowsOK /\ last \in Nat
      /\ \A r \in Runs : step[r] \in {"dispatch", "recheck"} => new[r] \in Runs
      /\ last < MaxRuns => last + 1 \in Runs /\ status[last + 1] = "none"
  <2>1. /\ RowsOK /\ StepsOK /\ last \in 0 .. MaxRuns /\ MaxRuns \in Nat
        /\ new \in [Runs -> 0 .. last]
    BY BoundsAssumption DEF IType, RowsOK, StepsOK
  <2>2. 1 .. last \subseteq Runs /\ (last < MaxRuns => last + 1 \in Runs)
    BY <2>1 DEF Runs
  <2>3. \A r \in Runs : step[r] \in {"dispatch", "recheck"} => new[r] \in Runs
    BY <2>1, <2>2 DEF StepsOK
  <2>4. last < MaxRuns => status[last + 1] = "none"
    BY <2>1, <2>2 DEF RowsOK
  <2> QED
    BY <2>1, <2>2, <2>3, <2>4
<1>1. ASSUME Trigger PROVE KeepContract
  <2>1. PICK c \in Runs : c = last + 1 /\ status[c] = "none"
    BY <1>1, <1>0, BoundsAssumption DEF Trigger
  <2>2. status' = [status EXCEPT ![c] = "pending"]
    BY <1>1, <2>1 DEF Trigger, CreateRow
  <2> QED
    BY <1>0, <2>1, <2>2, RowAppears
<1>2. ASSUME NEW r \in Runs, Claim(r) PROVE KeepContract
  <2>1. \A q \in Runs : Outcome(q)' = Outcome(q)
    BY <1>2, <1>0 DEF Claim, Outcome, Active, RowsOK
  <2> QED
    BY <2>1 DEF KeepContract
<1>3. ASSUME NEW r \in Runs, BeginStep(r) PROVE KeepContract
  BY <1>3, OutcomesKept DEF BeginStep, rowVars
<1>4. ASSUME NEW r \in Runs, StartGroup(r) PROVE KeepContract
  BY <1>4, OutcomesKept DEF StartGroup, rowVars
<1>5. ASSUME NEW r \in Runs, CreateChild(r) PROVE KeepContract
  <2>1. PICK c \in Runs : c = last + 1 /\ status[c] = "none"
    BY <1>5, <1>0, BoundsAssumption DEF CreateChild
  <2>2. status' = [status EXCEPT ![c] = "pending"]
    BY <1>5, <2>1 DEF CreateChild, CreateRow
  <2> QED
    BY <1>0, <2>1, <2>2, RowAppears
<1>6. ASSUME NEW r \in Runs, StartRaises(r) PROVE KeepContract
  BY <1>6, OutcomesKept DEF StartRaises, rowVars
<1>7. ASSUME NEW r \in Runs, Dispatch(r) PROVE KeepContract
  BY <1>7, OutcomesKept DEF Dispatch, rowVars
<1>8. ASSUME NEW r \in Runs, DispatchRaises(r) PROVE KeepContract
  <2>1. PICK c \in Runs : c = new[r]
    BY <1>8, <1>0 DEF DispatchRaises
  <2> QED
    BY <1>8, <1>0, <2>1, RunTransits DEF DispatchRaises, Terminal
<1>9. ASSUME NEW r \in Runs, RecheckPasses(r) PROVE KeepContract
  BY <1>9, OutcomesKept DEF RecheckPasses, rowVars
<1>10. ASSUME NEW r \in Runs, RecheckFails(r) PROVE KeepContract
  <2>1. PICK c \in Runs : c = new[r]
    BY <1>10, <1>0 DEF RecheckFails
  <2>2. CASE status[r] = "deleted"
    BY <1>10, <2>2, OutcomesKept DEF RecheckFails
  <2>3. CASE status[r] # "deleted"
    BY <1>10, <1>0, <2>1, <2>3, RunTransits DEF RecheckFails, Terminal
  <2> QED
    BY <2>2, <2>3
<1>11. ASSUME NEW r \in Runs, GroupsStarted(r) PROVE KeepContract
  BY <1>11, OutcomesKept DEF GroupsStarted, rowVars
<1>12. ASSUME NEW r \in Runs, WaitEnds(r) PROVE KeepContract
  BY <1>12, OutcomesKept DEF WaitEnds, rowVars
<1>13. ASSUME NEW r \in Runs, Finish(r) PROVE KeepContract
  <2>1. PICK s \in Terminal : status' = [status EXCEPT ![r] = s]
    BY <1>13 DEF Finish, Terminal
  <2> QED
    BY <1>13, <1>0, <2>1, RunEnds DEF Finish, Active
<1>14. ASSUME NEW r \in Runs, Stop(r) PROVE KeepContract
  <2>1. PICK s \in Terminal : status' = [status EXCEPT ![r] = s]
    BY <1>14 DEF Stop, Terminal
  <2> QED
    BY <1>14, <1>0, <2>1, RunEnds DEF Stop
<1>15. ASSUME NEW r \in Runs, ListChildren(r) PROVE KeepContract
  BY <1>15, OutcomesKept DEF ListChildren, rowVars
<1>16. ASSUME NEW r \in Runs, VisitChild(r) PROVE KeepContract
  BY <1>16, <1>0, RunTransits DEF VisitChild, Terminal
<1>17. ASSUME NEW r \in Runs, DeleteRun(r) PROVE KeepContract
  BY <1>17, <1>0, RunDeleted DEF DeleteRun
<1>18. ASSUME NEW r \in Runs, WorkerDies(r) PROVE KeepContract
  BY <1>18, OutcomesKept DEF WorkerDies, rowVars
<1>19. ASSUME SweepDies PROVE KeepContract
  BY <1>19, OutcomesKept DEF SweepDies, rowVars
<1>20. ASSUME UNCHANGED vars PROVE KeepContract
  BY <1>20, OutcomesKept DEF vars, rowVars
<1> QED
  BY Steps,
    <1>1, <1>2, <1>3, <1>4, <1>5, <1>6, <1>7, <1>8, <1>9, <1>10,
    <1>11, <1>12, <1>13, <1>14, <1>15, <1>16, <1>17, <1>18, <1>19, <1>20

\* Each run keeps the contract of a run: it is created once, gets one outcome,
\* which a starter, a sweep, the reaper or the walk decides, and keeps it.
THEOREM RunsKeepContractHolds == Spec => RunsKeepContract
<1>1. Init => \A r \in Runs : Run(r)!Init
  BY DEF Init, Run!Init, Outcome, Active
<1>2. Spec => []IType
  BY TypeInit, TypeStep, PTL DEF Spec
<1>3. IType /\ [Next]_vars => KeepContract
  BY ContractStep
<1>4. Spec => [][KeepContract]_vars
  BY <1>2, <1>3, PTL DEF Spec
<1> QED
  BY <1>1, <1>4, PTL DEF Spec, RunsKeepContract, KeepContract

------------------------------------------------------------------------------
(***************************************************************************)
(* What StopReachesChildren rests on, and the agreement of the two columns *)
(* that say where a run comes from.                                        *)
(***************************************************************************)

\* While no sweep was lost, an active child of a run whose children were listed is
\* either on the sweep's list or still being started, with the second look at the
\* caller ahead of it unless the worker died there.
StragglersAreKnown ==
  swept = "ok" =>
    \A p \in closed : \A c \in Runs :
      parent[c] = p /\ status[c] \in Active =>
        c \in kids \/ (new[p] = c /\ step[p] \in {"dispatch", "recheck", "dead"})

\* A run that still has its parent stores that run's chain and workflow as its own
\* chain: parent_run_id and ancestor_workflow_ids never contradict each other.
LinksAgree == \A c \in Runs : parent[c] # 0 => ancestors[c] = Chain(parent[c])

\* At every moment of a sweep, not only at its end, the children that still run
\* are accounted for: the safety half of StopReachesChildren (cancel_child_runs,
\* start_child_run).
THEOREM StragglersAreKnownHolds == Spec => []StragglersAreKnown
<1>1. IType /\ SweepInv => StragglersAreKnown
  <2> SUFFICES ASSUME IType, SweepInv, swept = "ok", NEW p \in closed, NEW c \in Runs,
                      parent[c] = p, status[c] \in Active
               PROVE  c \in kids \/ (new[p] = c /\ step[p] \in {"dispatch", "recheck", "dead"})
    BY DEF StragglersAreKnown
  <2>1. c \in kids \/ new[p] = c
    BY DEF SweepInv, Accounted, Ended
  <2>2. p \in Runs /\ c # 0
    BY BoundsAssumption DEF IType, RowsOK, SetsOK, Runs
  <2>3. new[p] # 0 => step[p] \in {"dispatch", "recheck", "dead"}
    BY <2>2 DEF IType, StepsOK, StepNames, Starting
  <2> QED
    BY <2>1, <2>2, <2>3
<1>2. Spec => []IType
  BY TypeInit, TypeStep, PTL DEF Spec
<1>3. IType /\ SweepInv /\ [Next]_vars => SweepInv'
  BY SweepStep
<1> QED
  BY SweepInit, <1>1, <1>2, <1>3, PTL DEF Spec

\* A new row keeps the columns of the others in agreement: nobody is its child yet.
LEMMA LinkCreated ==
  ASSUME RowsOK, LinesOK, LinksAgree, NEW p \in 0 .. MaxRuns, NEW w \in Workflows,
         CreateRow(p, w), last < MaxRuns, p <= last
  PROVE  LinksAgree'
<1>0. last \in Nat /\ last + 1 \in Runs /\ MaxRuns \in Nat
  BY BoundsAssumption DEF RowsOK, Runs
<1>1. ASSUME NEW r \in Runs
      PROVE  /\ parent'[r] = IF r = last + 1 THEN p ELSE parent[r]
             /\ r # last + 1 => ancestors'[r] = ancestors[r] /\ wf'[r] = wf[r]
             /\ r = last + 1 /\ p # 0 => ancestors'[r] = Chain(p)
  BY <1>0 DEF CreateRow, RowsOK, LinesOK
<1>2. ASSUME NEW q \in Runs, q # last + 1
      PROVE  Chain(q)' = Chain(q)
  BY <1>1, <1>2 DEF Chain
<1> SUFFICES ASSUME NEW c \in Runs, parent'[c] # 0
             PROVE  ancestors'[c] = Chain(parent[c])'
  BY DEF LinksAgree
<1>3. CASE c = last + 1
  <2>1. p \in Runs /\ p # last + 1 /\ parent'[c] = p
    BY <1>0, <1>1, <1>3 DEF Runs
  <2> QED
    BY <1>1, <1>2, <1>3, <2>1
<1>4. CASE c # last + 1
  <2>1. parent'[c] = parent[c] /\ ancestors'[c] = ancestors[c]
    BY <1>1, <1>4
  <2>2. parent[c] \in Runs /\ parent[c] # last + 1
    BY <1>0, <1>4, <2>1 DEF RowsOK, Runs
  <2> QED
    BY <1>2, <2>1, <2>2 DEF LinksAgree
<1> QED
  BY <1>3, <1>4

LEMMA LinkStep ==
  ASSUME IType, LinksAgree, [Next]_vars
  PROVE  LinksAgree'
<1>1. ASSUME Trigger PROVE LinksAgree'
  <2>1. CreateRow(0, Root) /\ last = 0
    BY <1>1 DEF Trigger
  <2> QED
    BY <2>1, LinkCreated, BoundsAssumption, WorkflowsAssumption DEF IType
<1>2. ASSUME NEW r \in Runs, CreateChild(r) PROVE LinksAgree'
  <2>1. r <= last /\ last < MaxRuns
    BY <1>2 DEF CreateChild, IType, StepsOK
  <2>2. PICK w \in Calls[wf[r]] : ChainAllows(r, w) /\ CreateRow(r, w)
    BY <1>2 DEF CreateChild
  <2>3. w \in Workflows /\ r \in 0 .. MaxRuns
    BY WorkflowsAssumption, BoundsAssumption DEF IType, LinesOK, Runs
  <2> QED
    BY <2>1, <2>2, <2>3, LinkCreated DEF IType
<1>3. ASSUME NEW r \in Runs, DeleteRun(r) PROVE LinksAgree'
  <2>1. /\ UNCHANGED <<wf, ancestors>>
        /\ parent' = [c \in Runs |-> IF parent[c] = r THEN 0 ELSE parent[c]]
    BY <1>3 DEF DeleteRun, ParentAfterDelete
  <2>2. \A c \in Runs : parent'[c] = 0 \/ parent'[c] = parent[c]
    BY <2>1
  <2> QED
    BY <2>1, <2>2 DEF LinksAgree, Chain
<1>4. ASSUME UNCHANGED <<wf, parent, ancestors>> PROVE LinksAgree'
  BY <1>4 DEF LinksAgree, Chain
<1>5. ASSUME NEW r \in Runs,
             \/ Claim(r) \/ BeginStep(r) \/ StartGroup(r)
             \/ StartRaises(r) \/ Dispatch(r) \/ DispatchRaises(r)
             \/ RecheckPasses(r) \/ RecheckFails(r) \/ GroupsStarted(r)
             \/ WaitEnds(r) \/ Finish(r) \/ Stop(r) \/ ListChildren(r)
             \/ VisitChild(r) \/ WorkerDies(r)
      PROVE  UNCHANGED <<wf, parent, ancestors>>
  BY <1>5 DEF Claim, BeginStep, StartGroup, StartRaises, Dispatch, DispatchRaises,
       RecheckPasses, RecheckFails, GroupsStarted, WaitEnds, Finish, Stop,
       ListChildren, VisitChild, WorkerDies, rowVars
<1>6. SweepDies \/ UNCHANGED vars => UNCHANGED <<wf, parent, ancestors>>
  BY DEF SweepDies, vars, rowVars
<1> QED
  BY <1>1, <1>2, <1>3, <1>4, <1>5, <1>6, Steps

\* Whatever is deleted in between (ON DELETE SET NULL), the chain a run was given
\* when it was created stays that of the parent it points to.
THEOREM LinksAgreeHolds == Spec => []LinksAgree
<1>1. Init => LinksAgree
  BY DEF Init, LinksAgree
<1>2. Spec => []IType
  BY TypeInit, TypeStep, PTL DEF Spec
<1>3. IType /\ LinksAgree /\ [Next]_vars => LinksAgree'
  BY LinkStep
<1> QED
  BY <1>1, <1>2, <1>3, PTL DEF Spec
==============================================================================
