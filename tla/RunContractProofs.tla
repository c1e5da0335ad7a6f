-------------------------- MODULE RunContractProofs --------------------------
(***************************************************************************)
(* What the contract of a run comes to. RunLifecycle, WaitAndRun,          *)
(* ChangeRequest and ChildRuns are proved to keep the contract, so these   *)
(* are promises about their runs, for any set of nodes.                    *)
(***************************************************************************)
EXTENDS RunContract, TLAPS

\* A run that does not exist has executed nothing, no node is executed twice, and
\* a run that reports success has executed every node.
Promise ==
  /\ outcome \in Outcomes
  /\ did \in [Nodes -> 0 .. 1]
  /\ outcome = "none" => \A n \in Nodes : did[n] = 0
  /\ outcome = "success" => \A n \in Nodes : did[n] = 1

\* An outcome is final: a reader that has seen a run end sees the same outcome
\* ever after, or no row; a deleted run does not come back; and no execution is
\* undone.
Final ==
  [][/\ outcome \in Ended => outcome' \in {outcome, "deleted"}
     /\ outcome = "deleted" => outcome' = "deleted"
     /\ \A n \in Nodes : did[n] = 1 => did'[n] = 1]_cvars

\* Execution may go on after the outcome (a walk that has not noticed a cancel),
\* which disturbs no success: there is nothing left to execute.
LEMMA PromiseStep == Promise /\ [Next]_cvars => Promise'
<1> SUFFICES ASSUME Promise, [Next]_cvars PROVE Promise'
  OBVIOUS
<1> USE DEF Promise, Outcomes, Ended
<1>1. CASE Create
  BY <1>1 DEF Create
<1>2. ASSUME NEW n \in Nodes, Execute(n) PROVE Promise'
  BY <1>2 DEF Execute
<1>3. ASSUME NEW o \in Ended, End(o) PROVE Promise'
  BY <1>3 DEF End
<1>4. CASE Delete
  BY <1>4 DEF Delete
<1>5. CASE UNCHANGED cvars
  BY <1>5 DEF cvars
<1> QED
  BY <1>1, <1>2, <1>3, <1>4, <1>5 DEF Next

\* The contract gives its readers (a polling start-workflow step, a change request
\* that waits for its deploy run) Promise and Final.
THEOREM ContractPromises == Spec => []Promise /\ Final
<1>1. Init => Promise
  BY DEF Init, Promise, Outcomes
<1>2. Promise /\ [Next]_cvars =>
        [/\ outcome \in Ended => outcome' \in {outcome, "deleted"}
         /\ outcome = "deleted" => outcome' = "deleted"
         /\ \A n \in Nodes : did[n] = 1 => did'[n] = 1]_cvars
  BY DEF Promise, Next, Create, Execute, End, Delete, Ended, cvars
<1> QED
  BY <1>1, <1>2, PromiseStep, PTL DEF Spec, Final
==============================================================================
