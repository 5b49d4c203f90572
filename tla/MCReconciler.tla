---------------------------- MODULE MCReconciler ----------------------------
(***************************************************************************)
(* Small instances of module Reconciler for TLC.                           *)
(***************************************************************************)
EXTENDS Reconciler, TLC

CONSTANTS n1, n2, n3, c1, p1, p2, v1, v2, aws, gcp

PoolSpec(desired, maxUnavailable, provider) ==
  [ desired |-> desired, maxUnavailable |-> maxUnavailable, maxProvision |-> 2,
    image |-> v1, provider |-> provider ]

OnePool == [p \in {p1} |-> c1]
TwoPools == [p \in {p1, p2} |-> c1]

\* Desired counts 1 and 2: a pool can grow, shrink, and lose one of two nodes.
CoreSpecs == {PoolSpec(1, 1, aws), PoolSpec(2, 1, aws)}

\* One node per pool: what two pools of a cluster share is the rate limit.
SmallSpecs == {PoolSpec(1, 1, aws)}

\* One pool of two nodes.
PairSpecs == {PoolSpec(2, 1, aws)}

Symmetry == Permutations(NodeId)
=============================================================================
