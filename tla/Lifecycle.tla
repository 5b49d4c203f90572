------------------------------ MODULE Lifecycle ------------------------------
(***************************************************************************)
(* The node lifecycle of control_plane/models.py and the transition table  *)
(* of control_plane/state_machine.py, as constant definitions.  The state  *)
(* "ABSENT" is ours: it is the state of a node id the store has no record  *)
(* for.                                                                    *)
(***************************************************************************)

NodeState ==
  { "REQUESTED", "PROVISIONING", "BOOTSTRAPPING", "REGISTERING", "HEALTHY",
    "UPDATING", "DRAINING", "DECOMMISSIONING", "TERMINATED", "FAILED" }

\* A node "occupies a real instance we may have to pay for / clean up".
LIVE_STATES == NodeState \ {"REQUESTED", "TERMINATED"}

\* The states the self-heal, roll and scale-down budgets count.
DestructiveStates == {"DRAINING", "DECOMMISSIONING"}

\* The states _reconcile_pool counts against desired_count: live, and not on
\* the way out.
CONTRIBUTING == LIVE_STATES \ {"DRAINING", "DECOMMISSIONING", "FAILED"}

\* The states the reconciler's _advance has a stage for.
InFlightStates ==
  { "REQUESTED", "PROVISIONING", "BOOTSTRAPPING", "REGISTERING",
    "DRAINING", "DECOMMISSIONING" }

ClusterState ==
  {"PLANNED", "PROVISIONING", "ACTIVE", "SCALING", "DRAINING", "DECOMMISSIONED"}

NODE_TRANSITIONS ==
  [ REQUESTED       |-> {"PROVISIONING", "FAILED"},
    PROVISIONING    |-> {"BOOTSTRAPPING", "FAILED"},
    BOOTSTRAPPING   |-> {"REGISTERING", "FAILED"},
    REGISTERING     |-> {"HEALTHY", "FAILED"},
    HEALTHY         |-> {"UPDATING", "DRAINING", "FAILED"},
    UPDATING        |-> {"HEALTHY", "FAILED", "DRAINING"},
    FAILED          |-> {"DRAINING", "DECOMMISSIONING"},
    DRAINING        |-> {"DECOMMISSIONING", "FAILED"},
    DECOMMISSIONING |-> {"TERMINATED", "FAILED"},
    TERMINATED      |-> {} ]

can_transition(src, dst) == dst \in NODE_TRANSITIONS[src]
=============================================================================
