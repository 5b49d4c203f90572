------------------------------- MODULE MCDemos -------------------------------
(***************************************************************************)
(* The fleet of the scripts at the size of sim/simulate.py: three clouds   *)
(* with two nodes each.                                                    *)
(***************************************************************************)
EXTENDS Demos

CONSTANTS fleet_mini, eks, gke, aks, v1, v2, aws, gcp, azure

OneCluster == [p \in {eks, gke, aks} |-> fleet_mini]

TwoNodesAt(q) ==
  [desired |-> 2, maxUnavailable |-> 1, maxProvision |-> 2, image |-> v1, provider |-> q]

ThreeClouds ==
  [p \in {eks, gke, aks} |->
     TwoNodesAt(CASE p = eks -> aws [] p = gke -> gcp [] p = aks -> azure)]

ThreeSpecs == {TwoNodesAt(q) : q \in {aws, gcp, azure}}
=============================================================================
