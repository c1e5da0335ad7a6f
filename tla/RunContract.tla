----------------------------- MODULE RunContract -----------------------------
(***************************************************************************)
(* What a workflow run promises to everything that reads its row: the run  *)
(* list, a start-workflow step polling a child, and the change request     *)
(* that is waiting for its deploy run.                                     *)
(*                                                                         *)
(*   - a run is open until it gets exactly one outcome, and that outcome   *)
(*     never changes (models/runs.py, TERMINAL_RUN_STATUSES);              *)
(*   - a node's executor, which talks to devices and has no idempotency    *)
(*     token, is invoked at most once (step_runner/runner.py, C1-16);      *)
(*   - "success" is only reported when every node was executed.            *)
(*                                                                         *)
(* It deliberately does not promise that nothing is executed once the run  *)
(* has an outcome: a walk that is under way notices a cancel at its next   *)
(* wave, and does not notice "failed" at all.                              *)
(***************************************************************************)
EXTENDS Naturals

CONSTANT Nodes          \* the executable nodes of the workflow's canvas

VARIABLES outcome,      \* what the run row says, "open" for every active status
          did           \* how often each node's executor was invoked

cvars == <<outcome, did>>

Ended == {"success", "failed", "cancelled"}
Outcomes == {"none", "open", "deleted"} \cup Ended

Init ==
  /\ outcome = "none"
  /\ did = [n \in Nodes |-> 0]

Create ==
  /\ outcome = "none"
  /\ outcome' = "open"
  /\ UNCHANGED did

Execute(n) ==
  /\ outcome # "none"
  /\ did[n] = 0
  /\ did' = [did EXCEPT ![n] = 1]
  /\ UNCHANGED outcome

End(o) ==
  /\ outcome = "open"
  /\ o = "success" => \A n \in Nodes : did[n] = 1
  /\ outcome' = o
  /\ UNCHANGED did

Delete ==
  /\ outcome \in Ended
  /\ outcome' = "deleted"
  /\ UNCHANGED did

Next ==
  \/ Create
  \/ \E n \in Nodes : Execute(n)
  \/ \E o \in Ended : End(o)
  \/ Delete

Spec == Init /\ [][Next]_cvars
==============================================================================
