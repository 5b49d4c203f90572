------------------------------ MODULE Telemetry ------------------------------
(***************************************************************************)
(* The metrics of observability/telemetry.py over the control loop: the    *)
(* counters the reconciler increments as it acts, the list of actions of a *)
(* tick, which is counted by type at its end, and the gauges that          *)
(* collect() derives from the store after every tick.  All of it is memory *)
(* of one process: a restart begins at zero.                               *)
(*                                                                         *)
(* Simplifications: the labels of counters are left out except the reason  *)
(* of a failure, of an action only its type is kept, and the availability  *)
(* ratio, a quotient of two gauges, is not stored.                         *)
(***************************************************************************)
EXTENDS Reconciler

VARIABLES
  count,              \* the counters
  actions,            \* how many actions of each type the tick has taken
  gauge,              \* what collect() set last
  began               \* what the store held when the process started

tvars == <<vars, count, actions, gauge, began>>

Reason == {"heartbeat_timeout", "agent_reported", "security_gate"}

ActionType ==
  { "detect-failed", "advance", "self-heal", "rolling-update", "create",
    "scale-down", "gc", "cluster" }

\* The type of the action that a phase of the tick logs for a node
TypeIn ==
  [ detect |-> "detect-failed", advance |-> "advance", heal |-> "self-heal",
    roll |-> "rolling-update", create |-> "create", down |-> "scale-down",
    teardown |-> "advance", gc |-> "gc" ]

NoActions == [t \in ActionType |-> 0]

ZeroCounters ==
  [ ticks |-> 0, created |-> 0, terminated |-> 0, heals |-> 0, rejected |-> 0,
    failed |-> [r \in Reason |-> 0], actions |-> NoActions ]

NoGauges == [pools |-> <<>>, clusters |-> <<>>]

Records == {n \in NodeId : node[n].state # "ABSENT"}
Failed == {n \in NodeId : node[n].state = "FAILED"}

StoreNow == [records |-> Cardinality(Records), failed |-> Cardinality(Failed)]

TInit ==
  /\ Init
  /\ count = ZeroCounters /\ actions = NoActions /\ gauge = NoGauges
  /\ began = StoreNow

-----------------------------------------------------------------------------
(* Counters *)

One(b) == IF b THEN 1 ELSE 0

\* (Variant: a node counts as terminated before its record is removed.)
TerminatesAtTeardown(n) == tick.pc = "advance" /\ node'[n].state = "TERMINATED"

\* nodes_created, nodes_terminated, self_heals
Creates(n) == tick.pc = "create"
Terminates(n) == tick.pc = "gc"
Heals(n) == tick.pc = "heal"

\* security_rejections: only in _reconcile_pool, not in _drain_cluster
Rejects(n) ==
  tick.pc = "advance" /\ node[n].state = "REGISTERING" /\ node'[n].state = "FAILED"

\* (Variant: nodes that agents report are counted when they are healed.)
FailsUnreported(n) ==
  CASE tick.pc = "detect" /\ node[n].signal = "stale" -> {"heartbeat_timeout"}
    [] Rejects(n) -> {"security_gate"}
    [] OTHER -> {}

\* nodes_failed, by reason; creations that fail are not counted.
Fails(n) ==
  CASE tick.pc = "detect" -> {IF node[n].signal = "stale" THEN "heartbeat_timeout"
                              ELSE "agent_reported"}
    [] Rejects(n) -> {"security_gate"}
    [] OTHER -> {}

\* (Variant: a node that goes is taken off the nodes created.)
CountedNet(n) ==
  [ count EXCEPT
      !.created = @ + One(Creates(n)) - One(Terminates(n)),
      !.terminated = @ + One(Terminates(n)),
      !.heals = @ + One(Heals(n)), !.rejected = @ + One(Rejects(n)),
      !.failed = [r \in Reason |-> @[r] + One(r \in Fails(n))] ]

Counted(n) ==
  [ count EXCEPT
      !.created = @ + One(Creates(n)), !.terminated = @ + One(Terminates(n)),
      !.heals = @ + One(Heals(n)), !.rejected = @ + One(Rejects(n)),
      !.failed = [r \in Reason |-> @[r] + One(r \in Fails(n))] ]

Logged(t) == [actions EXCEPT ![t] = @ + 1]

\* (Variant: a tick is counted without its actions when nothing changed hands.)
TickCountedOnce ==
  [ count EXCEPT !.ticks = @ + 1,
                 !.actions = [t \in ActionType |-> @[t] + One(actions[t] > 0)] ]

\* The end of tick(): the tick and its actions, by type
TickCounted ==
  [ count EXCEPT !.ticks = @ + 1, !.actions = [t \in ActionType |-> @[t] + actions[t]] ]

-----------------------------------------------------------------------------
(* Gauges *)

StatesIn(p) == {node[n].state : n \in {m \in NodeId : node[m].pool = p}}

\* collect(): everything is cleared and set again; only states that some node is in
\* get a sample, so that others disappear.
collect ==
  [ pools |-> [ p \in {q \in Pool : spec[q] # None} |->
                  [ provider |-> spec[p].provider,
                    desired |-> spec[p].desired,
                    healthy |-> Cardinality(InState(p, {"HEALTHY"})),
                    by_state |-> [s \in StatesIn(p) |-> Cardinality(InState(p, {s}))] ] ],
    clusters |-> [c \in {d \in Cluster : cluster[d].state # "ABSENT"} |-> cluster[c].state] ]

-----------------------------------------------------------------------------
(* The control loop with its metrics *)

NodeActs(n) ==
  /\ PerNode(n)
  /\ count' = Counted(n) /\ actions' = Logged(TypeIn[tick.pc])
  /\ UNCHANGED <<gauge, began>>

\* Changes of a cluster's state are silent, except the end of its teardown.
PhaseStep ==
  /\ Tick /\ tick.pc # "gc" /\ node' = node
  /\ actions' = IF tick.pc = "teardown" /\ ~tick.anyLive THEN Logged("cluster") ELSE actions
  /\ UNCHANGED <<count, gauge, began>>

\* (Variant: a state that no node is in any more keeps its sample.)
LastStepUncleared ==
  /\ EndTick
  /\ count' = TickCounted /\ actions' = NoActions
  /\ gauge' =
       [ collect EXCEPT
           !.pools = [ p \in DOMAIN @ |->
             IF p \notin DOMAIN gauge.pools THEN @[p]
             ELSE [ @[p] EXCEPT !.by_state =
                      [ s \in DOMAIN @ \union DOMAIN gauge.pools[p].by_state |->
                          IF s \in DOMAIN @ THEN @[s] ELSE gauge.pools[p].by_state[s] ] ] ] ]
  /\ UNCHANGED began

LastStep ==
  /\ EndTick
  /\ count' = TickCounted /\ actions' = NoActions /\ gauge' = collect
  /\ UNCHANGED began

\* A tick begins with an empty list of actions; its last step has reset it.
TTick == (\E n \in NodeId : NodeActs(n)) \/ PhaseStep \/ LastStep

TOperator == Operator /\ UNCHANGED <<count, actions, gauge, began>>

\* A new process: new Telemetry, new Reconciler, and the store as it was saved
NewProcess ==
  /\ count' = ZeroCounters /\ actions' = NoActions /\ gauge' = NoGauges
  /\ began' = StoreNow'

TFailure == Failure /\ NewProcess

TNext == TTick \/ TOperator \/ TFailure

TSpec == TInit /\ [][TNext]_tvars

-----------------------------------------------------------------------------
(* Properties *)

CounterRecord ==
  [ ticks : Nat, created : Nat, terminated : Nat, heals : Nat, rejected : Nat,
    failed : [Reason -> Nat], actions : [ActionType -> Nat] ]

\* Every counter is a natural number.
TelemetryTypeOK ==
  /\ count \in CounterRecord /\ actions \in [ActionType -> Nat]
  /\ began \in [records : Nat, failed : Nat]

\* No node comes or goes uncounted: at every moment, within a tick too, the store
\* holds what it held at the start of the process, plus the nodes created, minus
\* the nodes terminated (nodes_created_total, nodes_terminated_total).
RecordsAccounted ==
  Cardinality(Records) + count.terminated = began.records + count.created

FailuresCounted ==
  count.failed["heartbeat_timeout"] + count.failed["agent_reported"]
    + count.failed["security_gate"]

\* A node is healed or waits for it only if its failure was counted, or is older than
\* the process: what the alert on self-heals shows has been shown by the failure rate
\* before (nodes_failed_total, self_heal_total).  So it is where no creation fails
\* and no cluster is torn down while nodes of it are being provisioned: failures in
\* create_instance and in _drain_cluster are logged as actions and never counted.
FailuresAccounted ==
  count.heals + Cardinality(Failed) <= began.failed + FailuresCounted

\* Between ticks the two ways of counting agree: the counters incremented where
\* something happens, and the actions counted at the end of the tick.
ActionsAgree ==
  tick.pc = "idle" =>
    /\ count.actions["create"] = count.created /\ count.actions["gc"] = count.terminated
    /\ count.actions["self-heal"] = count.heals
    /\ count.actions["detect-failed"] + count.rejected = FailuresCounted

\* Between ticks the gauges show the nodes the store holds, pool by pool and state by
\* state, and no others: collect() runs after the last write of a tick, takes back
\* the sample of a state that has become empty, and nothing but a tick moves nodes
\* while the process runs (a forced decommission is a process of its own, cli.py).
GaugesTrue ==
  tick.pc = "idle" /\ count.ticks > 0 =>
    \A p \in DOMAIN gauge.pools :
      /\ gauge.pools[p].by_state = [s \in StatesIn(p) |-> Cardinality(InState(p, {s}))]
      /\ gauge.pools[p].healthy = Cardinality(InState(p, {"HEALTHY"}))

-----------------------------------------------------------------------------
(* The inductive invariant behind the proofs of TelemetryProofs *)

\* A node fails and no counter says so: the creation of its instance failed, or the
\* gate turned it down during the teardown of its cluster.
FailsUncounted ==
  \E n \in NodeId :
    /\ node[n].state # "FAILED" /\ node'[n].state = "FAILED"
    /\ node[n].state = "REQUESTED" \/ tick.pc = "teardown"

\* Within a tick the actions not counted yet make up the difference.
ActionsShape ==
  /\ tick.pc = "idle" => actions = NoActions
  /\ count.actions["create"] + actions["create"] = count.created
  /\ count.actions["gc"] + actions["gc"] = count.terminated
  /\ count.actions["self-heal"] + actions["self-heal"] = count.heals
  /\ count.actions["detect-failed"] + actions["detect-failed"] + count.rejected
       = FailuresCounted
=============================================================================
