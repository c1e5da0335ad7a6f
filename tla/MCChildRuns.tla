----------------------------- MODULE MCChildRuns -----------------------------
(* Workflow "a" starts "b"; "b" starts "c", and tries "a" again; "c" tries  *)
(* "a". Three runs: two children of one run, or a chain of the full depth.  *)
EXTENDS ChildRuns

MCCalls == [w \in Workflows |-> CASE w = "a" -> {"b"}
                                  [] w = "b" -> {"c", "a"}
                                  [] w = "c" -> {"a"}]
==============================================================================
