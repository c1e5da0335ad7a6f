----------------------------- MODULE MCSchedule ------------------------------
(* Two requests and a trigger that overlap; three entries: the first one    *)
(* and one for each of two edits.                                           *)
EXTENDS Schedule, TLC

UserSymmetry == Permutations(Users)
==============================================================================
