----------------------------- MODULE NodeMachine -----------------------------
(***************************************************************************)
(* What control_plane/state_machine.py and the documentation promise about *)
(* a fleet of nodes: a record appears as REQUESTED, moves along the        *)
(* transition table, leaves the table only when an operator forces it, and *)
(* disappears only once it is TERMINATED.  Control alternates between the  *)
(* operators and the control loop.  Module Reconciler implements this      *)
(* specification.                                                          *)
(***************************************************************************)
EXTENDS Lifecycle

CONSTANTS
  NodeId,
  MayForce            \* whether operators use emergency teardown at all

VARIABLES
  state,              \* state[n]: the lifecycle state of n, or "ABSENT"
  retired,            \* the nodes whose cluster is to be decommissioned
  attended            \* whether it is the operators' turn

vars == <<state, retired, attended>>

Init ==
  /\ state = [n \in NodeId |-> "ABSENT"]
  /\ retired = {}
  /\ attended = TRUE

Create(n) ==
  /\ state[n] = "ABSENT"
  /\ state' = [state EXCEPT ![n] = "REQUESTED"]
  /\ UNCHANGED retired

Move(n) ==
  /\ state[n] # "ABSENT"
  /\ \E dst \in NODE_TRANSITIONS[state[n]] : state' = [state EXCEPT ![n] = dst]
  /\ UNCHANGED retired

\* Whole-cluster teardown starts and finishes the drain of a node between two
\* writes of the store: two moves of the table, one visible change.
DrainOut(n) ==
  /\ n \in retired
  /\ state[n] \in {"HEALTHY", "UPDATING", "FAILED"}
  /\ state' = [state EXCEPT ![n] = "DECOMMISSIONING"]
  /\ UNCHANGED retired

Collect(n) ==
  /\ state[n] = "TERMINATED"
  /\ state' = [state EXCEPT ![n] = "ABSENT"]
  /\ retired' = retired \ {n}

\* The control loop's steps: never an undrained teardown in a serving cluster.
Controller ==
  /\ ~attended
  /\ \E n \in NodeId : Create(n) \/ Move(n) \/ DrainOut(n) \/ Collect(n)
  /\ attended' \in BOOLEAN

\* Emergency teardown, from whatever state the node is in.
Force(n) ==
  /\ MayForce
  /\ state[n] # "ABSENT"
  /\ state' = [state EXCEPT ![n] = "DECOMMISSIONING"]
  /\ UNCHANGED retired

\* Operators change the desired state of clusters.
Retire ==
  /\ retired' \in SUBSET {n \in NodeId : state[n] # "ABSENT"}
  /\ UNCHANGED state

Operator ==
  /\ attended
  /\ Retire \/ \E n \in NodeId : Force(n)
  /\ UNCHANGED attended

HandOver ==
  /\ attended' = ~attended
  /\ UNCHANGED <<state, retired>>

Next == Controller \/ Operator \/ HandOver

Spec == Init /\ [][Next]_vars
=============================================================================
