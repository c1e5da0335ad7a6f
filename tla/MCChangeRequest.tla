--------------------------- MODULE MCChangeRequest ---------------------------
(***************************************************************************)
(* Three requests: a click, a webhook and a retry can all win once. Two    *)
(* reconcilers, so that one can be stale. A deploy workflow of one node:   *)
(* what the module needs of a run is whether it executed anything.         *)
(***************************************************************************)
EXTENDS ChangeRequest
==============================================================================
