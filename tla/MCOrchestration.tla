--------------------------- MODULE MCOrchestration ---------------------------
(***************************************************************************)
(* A small instance of module Orchestration for TLC.                       *)
(***************************************************************************)
EXTENDS Orchestration

CONSTANTS n1, n2, c1, p1, v1, v2, aws

OnePool == [p \in {p1} |-> c1]

\* Two nodes, of which one or none may be replaced at a time.
TwoNodes ==
  { [ desired |-> 2, maxUnavailable |-> u, maxProvision |-> 2, image |-> v1, provider |-> aws ] :
      u \in {0, 1} }
============================================================================
