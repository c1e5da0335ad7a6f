---------------------------- MODULE MCRunLifecycle ----------------------------
(***************************************************************************)
(* A plan of three nodes in two generations: 1 and 2 run concurrently, 3   *)
(* depends on both. Two deliveries are enough for every overlap: a third   *)
(* meets the same rows as the second.                                      *)
(***************************************************************************)
EXTENDS RunLifecycle, TLC

MCWave == <<1, 1, 2>>
MCParents == <<{}, {}, {1, 2}>>

\* One node, for the liveness run: whether a run ends, and whether its rows
\* are closed, depends on the writers and not on the number of nodes.
MCSingleWave == <<1>>
MCSingleParents == <<{}>>

DeliverySymmetry == Permutations(Deliveries)
==============================================================================
