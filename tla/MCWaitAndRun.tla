----------------------------- MODULE MCWaitAndRun -----------------------------
(***************************************************************************)
(* Three groups in batches of two: a full batch and a short one, two gates *)
(* when the first batch waits too. Two clicks, so that one can overtake    *)
(* the other or be repeated, and one fault.                                *)
(***************************************************************************)
EXTENDS WaitAndRun
==============================================================================
