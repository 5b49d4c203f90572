----------------------------- MODULE Reconciler -----------------------------
(***************************************************************************)
(* The control loop of control_plane/reconciler.py, with the workflows it  *)
(* calls (provision, drain, decommission), the operator API that changes   *)
(* the desired state (control_plane/api.py), the persisted store and the   *)
(* provider fleets.                                                        *)
(*                                                                         *)
(* One action per write of the store.  `tick' is the reconciler's program  *)
(* counter and its local variables; `node', `cluster' and `spec' are the   *)
(* store; `fleet' is the cloud.  The process has one thread, so the API    *)
(* and the environment act between ticks; the process may crash anywhere.  *)
(*                                                                         *)
(* Simplifications: the order in which Python walks a dict is left open;   *)
(* config_hash is a function of image_digest and set with it, so `image'   *)
(* stands for both; last_heartbeat and health are one field, `signal';     *)
(* `reason', telemetry, regions and instance types are left out.           *)
(***************************************************************************)
EXTENDS Lifecycle, Integers, FiniteSets

CONSTANTS
  NodeId,             \* ids a node may get; a collected id may be given again
  Cluster, Pool,
  ClusterOf,          \* ClusterOf[p]: the cluster that declares pool p
  Image, Provider,
  PoolSpecs,          \* the NodePool values operators declare
  GlobalMaxReplacements,
  Ops,                \* what operators and the environment do (see AllOps)
  Reports,            \* the health signals that reach the control plane
  None

AllOps ==
  { "reapply",        \* apply_cluster on a cluster or pool already declared
    "migrate",        \* ... that names another provider for a pool
    "scale", "update", "decommission", "force",
    "createFails",    \* instance creation may fail
    "crash" }         \* the control plane may crash and restart

NodePool ==
  [ desired : Nat, maxUnavailable : Nat, maxProvision : Nat,
    image : Image, provider : Provider ]

ASSUME NodeIdFinite == IsFiniteSet(NodeId)
ASSUME ClusterOfType == ClusterOf \in [Pool -> Cluster]
ASSUME PoolSpecsType == PoolSpecs \subseteq NodePool
ASSUME GlobalMaxType == GlobalMaxReplacements \in Nat
ASSUME OpsType == Ops \subseteq AllOps
ASSUME ReportsType == Reports \subseteq {"ok", "failed", "stale"}
ASSUME NoneIsFresh ==
  /\ None \notin Image \union Provider \union Pool \union Cluster
  /\ None \notin NodePool

\* What a provider's fleet holds for a node id: nothing, a record of a failed
\* creation, or a running instance, which is the image it was created with.
ASSUME NoImageIsAStatus == {"none", "failed"} \intersect Image = {}
FleetStatus == {"none", "failed"} \union Image

VARIABLES
  node,               \* node[n]: the store's record of n
  cluster,            \* cluster[c]: state and desired_state
  spec,               \* spec[p]: the NodePool last declared, or None
  fleet,              \* fleet[q][n]: what provider q holds for n
  tick                \* the reconciler's control state

vars == <<node, cluster, spec, fleet, tick>>

Signal == {"none", "ok", "failed", "stale"}

NodeRecord ==
  [ state : NodeState \union {"ABSENT"},
    pool : Pool \union {None},
    inst : Provider \union {None},      \* instance_id "<provider>:<n>"
    image : Image \union {None},        \* image_digest, config_hash
    attested : BOOLEAN,
    secure : BOOLEAN,                   \* security_passed
    baseline : BOOLEAN,                 \* _baseline, which save() leaves out
    signal : Signal ]                   \* health and age of last_heartbeat

Absent ==
  [ state |-> "ABSENT", pool |-> None, inst |-> None, image |-> None,
    attested |-> FALSE, secure |-> FALSE, baseline |-> FALSE,
    signal |-> "none" ]

Requested(p) == [Absent EXCEPT !.state = "REQUESTED", !.pool = p]

ClusterRecord ==
  [ state : ClusterState \union {"ABSENT"},
    desired : {"ACTIVE", "DECOMMISSIONED"} ]

\* The control state between two ticks.
Idle ==
  [ pc |-> "idle", clusters |-> {}, cluster |-> None, pools |-> {},
    pool |-> None, nodes |-> {}, budget |-> 0, used |-> 0, anyLive |-> FALSE ]

PC ==
  { "idle", "detect", "clusters", "pools", "advance", "heal", "roll",
    "create", "down", "teardown", "gc" }

TickRecord ==
  [ pc : PC, clusters : SUBSET Cluster, cluster : Cluster \union {None},
    pools : SUBSET Pool, pool : Pool \union {None}, nodes : SUBSET NodeId,
    budget : Nat, used : Nat, anyLive : BOOLEAN ]

\* What a new ProviderRegistry has: a provider for every name, and no instances.
EmptyFleets == [q \in Provider |-> [n \in NodeId |-> "none"]]

Init ==
  /\ node = [n \in NodeId |-> Absent]
  /\ cluster = [c \in Cluster |-> [state |-> "ABSENT", desired |-> "ACTIVE"]]
  /\ spec = [p \in Pool |-> None]
  /\ fleet = EmptyFleets
  /\ tick = Idle

-----------------------------------------------------------------------------
(* Queries over the store *)

InState(p, states) == {n \in NodeId : node[n].pool = p /\ node[n].state \in states}

Destructive(p) == Cardinality(InState(p, DestructiveStates))

\* HEALTHY nodes on another image than the pool's desired one.
Stale(p) == {n \in InState(p, {"HEALTHY"}) : node[n].image # spec[p].image}

\* (Variant: only HEALTHY nodes count against the desired number.)
DeficitOfHealthy(p) == spec[p].desired - Cardinality(InState(p, {"HEALTHY"}))

Deficit(p) == spec[p].desired - Cardinality(InState(p, CONTRIBUTING))

PoolsOf(c) == {p \in Pool : ClusterOf[p] = c /\ spec[p] # None}

PoolSatisfied(p) == Cardinality(InState(p, {"HEALTHY"})) >= spec[p].desired

-----------------------------------------------------------------------------
(* Budgets, computed once per phase from the store as it then is *)

Lesser(a, b) == IF a < b THEN a ELSE b
Positive(a) == IF a > 0 THEN a ELSE 0

\* (Variants: nothing in flight is deducted; a node that only failed is.)
SlackInFull(p) == spec[p].maxUnavailable
SlackLessFailed(p) ==
  Positive(spec[p].maxUnavailable - Destructive(p) - Cardinality(InState(p, {"FAILED"})))

\* Room left in the pool's destructive budget.
Slack(p) == Positive(spec[p].maxUnavailable - Destructive(p))

\* (Variant: the rate limit is forgotten.)
HealBudgetPerPool(p) == Slack(p)

HealBudget(p) == Lesser(GlobalMaxReplacements - tick.used, Slack(p))
\* (Variant: what self-heal has just drained is not deducted.)
RollBudgetInFull(p) == spec[p].maxUnavailable
\* (Variant: one node of the budget is always kept.)
RollBudgetLessOne(p) == Positive(Slack(p) - 1)

RollBudget(p) == Slack(p)
CreateBudget(p) == Positive(Lesser(Deficit(p), spec[p].maxProvision))
DownBudget(p) == Lesser(Positive(-Deficit(p)), Slack(p))

-----------------------------------------------------------------------------
(* transition(), and the stages of the provision, drain and decommission   *)
(* workflows.  A stage acts on node n, whose record is r, for a pool whose *)
(* declaration is s.                                                       *)

\* The table is not a guard here: property RefinesLifecycle checks that every
\* unforced transition the code makes is in it.
transition(r, dst) == [r EXCEPT !.state = dst]

\* force=True bypasses the table only with an approver; otherwise it raises there.
forceAllowed(r, dst, approved) ==
  r.state = dst \/ can_transition(r.state, dst) \/ approved

\* (Variant: without the guard on the state.)
drainStartAnyState(r) == transition(r, "DRAINING")

\* drain.start
drainStart(r) ==
  IF r.state \in {"HEALTHY", "FAILED", "UPDATING"} THEN transition(r, "DRAINING") ELSE r

\* create_instance is keyed by the node id: an instance or a failed record
\* that is already there is returned as it is.
CreateOutcomes(n, s) ==
  IF fleet[s.provider][n] # "none" THEN {fleet[s.provider][n]}
  ELSE {s.image} \union (IF "createFails" \in Ops THEN {"failed"} ELSE {})

\* (Variants: the deletion is skipped; it leaves a status create does not know.)
InstanceKept(n, r, s) == fleet
InstanceMarkedGone(n, r, s) ==
  IF r.inst = s.provider THEN [fleet EXCEPT ![s.provider][n] = "gone"] ELSE fleet

\* delete_instance: does nothing unless this provider runs the instance.
InstanceDeleted(n, r, s) ==
  IF r.inst = s.provider THEN [fleet EXCEPT ![s.provider][n] = "none"] ELSE fleet

\* policy.evaluate, against the image the pool wants now.
GatePasses(r, s) == r.image = s.image /\ r.attested /\ r.baseline

\* A node on its way out never serves again, and nothing reads its signals
\* any more; the gate is the only reader of _baseline.  Forgetting what is
\* never read again keeps the state space small.
LeavingStates == {"FAILED", "DRAINING", "DECOMMISSIONING", "TERMINATED"}

Forget(r) ==
  IF r.state \in LeavingStates
  THEN [Absent EXCEPT !.state = r.state, !.pool = r.pool, !.inst = r.inst]
  ELSE [r EXCEPT !.baseline = @ /\ r.state # "HEALTHY"]

\* put_node
Put(n, r) == node' = [node EXCEPT ![n] = Forget(r)]

\* (Variant: an instance that was there already is not recorded.)
CreateInstanceOnce(n, r, s) ==
  /\ r.state = "REQUESTED"
  /\ \E out \in CreateOutcomes(n, s) :
       /\ fleet' = [fleet EXCEPT ![s.provider][n] = out]
       /\ Put(n, IF out = "failed" THEN transition(r, "FAILED")
                 ELSE transition(IF fleet[s.provider][n] = "none"
                                 THEN [r EXCEPT !.inst = s.provider] ELSE r, "PROVISIONING"))

CreateInstance(n, r, s) ==
  /\ r.state = "REQUESTED"
  /\ \E out \in CreateOutcomes(n, s) :
       /\ fleet' = [fleet EXCEPT ![s.provider][n] = out]
       /\ Put(n, IF out = "failed" THEN transition(r, "FAILED")
                 ELSE transition([r EXCEPT !.inst = s.provider], "PROVISIONING"))

\* apply_security_baseline; the network attached is not looked at again.
BaselineApplied(r) == [r EXCEPT !.baseline = TRUE]

ApplyBaseline(n, r) ==
  /\ r.state = "PROVISIONING"
  /\ Put(n, transition(BaselineApplied(r), "BOOTSTRAPPING"))
  /\ UNCHANGED fleet

\* The agent's bootstrap and attest: the hash is of a configuration in which only
\* the image varies, and attest always answers.
Bootstrapped(r, image) == [r EXCEPT !.image = image, !.attested = TRUE]

Bootstrap(n, r, s) ==
  /\ r.state = "BOOTSTRAPPING"
  /\ Put(n, transition(Bootstrapped(r, s.image), "REGISTERING"))
  /\ UNCHANGED fleet

Register(n, r, s) ==
  /\ r.state = "REGISTERING"
  /\ Put(n, IF GatePasses(r, s) THEN transition([r EXCEPT !.secure = TRUE], "HEALTHY")
            ELSE transition(r, "FAILED"))
  /\ UNCHANGED fleet

DrainStep(n, r) ==
  /\ r.state = "DRAINING"
  /\ Put(n, transition(r, "DECOMMISSIONING"))
  /\ UNCHANGED fleet

DecommissionStep(n, r, s) ==
  /\ r.state = "DECOMMISSIONING"
  /\ fleet' = InstanceDeleted(n, r, s)
  /\ Put(n, transition(r, "TERMINATED"))

Stage(n, r, s) ==
  \/ CreateInstance(n, r, s)
  \/ ApplyBaseline(n, r)
  \/ Bootstrap(n, r, s)
  \/ Register(n, r, s)
  \/ DrainStep(n, r)
  \/ DecommissionStep(n, r, s)

-----------------------------------------------------------------------------
(* One tick *)

BeginTick ==
  /\ tick.pc = "idle"
  /\ tick' = [Idle EXCEPT !.pc = "detect"]
  /\ UNCHANGED <<node, cluster, spec, fleet>>

\* (Variant: a node that never reported is timed out.)
SuspectIfSilent(n) == node[n].state = "HEALTHY" /\ node[n].signal # "ok"

\* _detect_failures: a node that never reported (signal "none") is not timed out.
Suspect(n) == node[n].state = "HEALTHY" /\ node[n].signal \in {"failed", "stale"}

DetectFailure(n) ==
  /\ tick.pc = "detect"
  /\ Suspect(n)
  /\ Put(n, transition(node[n], "FAILED"))
  /\ UNCHANGED <<cluster, spec, fleet, tick>>

EndDetect ==
  /\ tick.pc = "detect"
  /\ \A n \in NodeId : ~Suspect(n)
  /\ tick' = [tick EXCEPT !.pc = "clusters",
                          !.clusters = {c \in Cluster : cluster[c].state # "ABSENT"}]
  /\ UNCHANGED <<node, cluster, spec, fleet>>

\* _reconcile_cluster, first write
LeavePlanned(c) ==
  /\ tick.pc = "clusters" /\ c \in tick.clusters
  /\ cluster[c].state = "PLANNED"
  /\ cluster' = [cluster EXCEPT ![c].state = "PROVISIONING"]
  /\ UNCHANGED <<node, spec, fleet, tick>>

\* ... of a cluster to be decommissioned that is already DECOMMISSIONED
SkipCluster(c) ==
  /\ tick.pc = "clusters" /\ c \in tick.clusters
  /\ cluster[c].state = "DECOMMISSIONED" /\ cluster[c].desired = "DECOMMISSIONED"
  /\ tick' = [tick EXCEPT !.clusters = @ \ {c}]
  /\ UNCHANGED <<node, cluster, spec, fleet>>

\* ... of a serving cluster
StartPools(c) ==
  /\ tick.pc = "clusters" /\ c \in tick.clusters
  /\ cluster[c].state # "PLANNED" /\ cluster[c].desired = "ACTIVE"
  /\ tick' = [tick EXCEPT !.pc = "pools", !.clusters = @ \ {c}, !.cluster = c,
                          !.pools = PoolsOf(c), !.used = 0]
  /\ UNCHANGED <<node, cluster, spec, fleet>>

\* _reconcile_pool, 1: advance every in-flight node one stage
StartPool(p) ==
  /\ tick.pc = "pools" /\ p \in tick.pools
  /\ tick' = [tick EXCEPT !.pc = "advance", !.pools = @ \ {p}, !.pool = p,
                          !.nodes = InState(p, InFlightStates)]
  /\ UNCHANGED <<node, cluster, spec, fleet>>

AdvanceNode(n) ==
  /\ tick.pc = "advance" /\ n \in tick.nodes
  /\ Stage(n, node[n], spec[tick.pool])
  /\ tick' = [tick EXCEPT !.nodes = @ \ {n}]
  /\ UNCHANGED <<cluster, spec>>

\* 2: drain FAILED nodes within the budget
BeginHeal ==
  /\ tick.pc = "advance" /\ tick.nodes = {}
  /\ tick' = [tick EXCEPT !.pc = "heal", !.nodes = InState(tick.pool, {"FAILED"}),
                          !.budget = HealBudget(tick.pool)]
  /\ UNCHANGED <<node, cluster, spec, fleet>>

\* The body shared by the self-heal, roll and scale-down loops.
DrainOne(n) ==
  /\ n \in tick.nodes /\ tick.budget > 0
  /\ Put(n, drainStart(node[n]))
  /\ UNCHANGED <<cluster, spec, fleet>>

HealNode(n) ==
  /\ tick.pc = "heal"
  /\ DrainOne(n)
  /\ tick' = [tick EXCEPT !.nodes = @ \ {n}, !.budget = @ - 1, !.used = @ + 1]

LoopDone == tick.nodes = {} \/ tick.budget = 0

\* 2b: drain stale HEALTHY nodes within what is left of the budget
BeginRoll ==
  /\ tick.pc = "heal" /\ LoopDone
  /\ tick' = [tick EXCEPT !.pc = "roll", !.nodes = Stale(tick.pool),
                          !.budget = RollBudget(tick.pool)]
  /\ UNCHANGED <<node, cluster, spec, fleet>>

RollNode(n) ==
  /\ tick.pc = "roll"
  /\ DrainOne(n)
  /\ tick' = [tick EXCEPT !.nodes = @ \ {n}, !.budget = @ - 1]

\* 3 and 4: the deficit decides between creating and scaling down
BeginScale ==
  /\ tick.pc = "roll" /\ LoopDone
  /\ tick' =
       IF Deficit(tick.pool) >= 0
       THEN [tick EXCEPT !.pc = "create", !.nodes = {}, !.budget = CreateBudget(tick.pool)]
       ELSE [tick EXCEPT !.pc = "down", !.nodes = InState(tick.pool, {"HEALTHY"}),
                         !.budget = DownBudget(tick.pool)]
  /\ UNCHANGED <<node, cluster, spec, fleet>>

\* An id with no record and no instance anywhere: what uuid4 gives.
FreshId(n) == node[n] = Absent /\ \A q \in Provider : fleet[q][n] \notin Image

\* Reusing an id of the bounded set forgets a failed creation under its old use.
Recycled(n) == [q \in Provider |-> [fleet[q] EXCEPT ![n] = "none"]]

CreateNode(n) ==
  /\ tick.pc = "create" /\ tick.budget > 0 /\ FreshId(n)
  /\ Put(n, Requested(tick.pool))
  /\ fleet' = Recycled(n)
  /\ cluster' = [cluster EXCEPT ![tick.cluster].state = IF @ = "ACTIVE" THEN "SCALING" ELSE @]
  /\ tick' = [tick EXCEPT !.budget = @ - 1]
  /\ UNCHANGED spec

ScaleDownNode(n) ==
  /\ tick.pc = "down"
  /\ DrainOne(n)
  /\ tick' = [tick EXCEPT !.nodes = @ \ {n}, !.budget = @ - 1]

\* Creation also ends when the bounded set of ids is used up.
FinishPool ==
  /\ \/ tick.pc = "create" /\ (tick.budget = 0 \/ \A n \in NodeId : ~FreshId(n))
     \/ tick.pc = "down" /\ LoopDone
  /\ tick' = [tick EXCEPT !.pc = "pools", !.pool = None, !.nodes = {}, !.budget = 0]
  /\ UNCHANGED <<node, cluster, spec, fleet>>

FinishCluster ==
  /\ tick.pc = "pools" /\ tick.pools = {}
  /\ cluster' =
       IF \A p \in PoolsOf(tick.cluster) : PoolSatisfied(p)
       THEN [cluster EXCEPT ![tick.cluster].state = "ACTIVE"] ELSE cluster
  /\ tick' = [tick EXCEPT !.pc = "clusters", !.cluster = None, !.used = 0]
  /\ UNCHANGED <<node, spec, fleet>>

\* (Variant: nodes that failed are left to self-heal.)
TeardownTargetsServing(c) == UNION {InState(p, LIVE_STATES \ {"FAILED"}) : p \in PoolsOf(c)}

\* The nodes one pass of _drain_cluster visits.
TeardownTargets(c) == UNION {InState(p, LIVE_STATES) : p \in PoolsOf(c)}

\* _drain_cluster
StartTeardown(c) ==
  /\ tick.pc = "clusters" /\ c \in tick.clusters
  /\ cluster[c].desired = "DECOMMISSIONED"
  /\ cluster[c].state \notin {"PLANNED", "DECOMMISSIONED"}
  /\ cluster' = [cluster EXCEPT ![c].state = "DRAINING"]
  /\ tick' = [tick EXCEPT !.pc = "teardown", !.clusters = @ \ {c}, !.cluster = c,
                          !.nodes = TeardownTargets(c), !.anyLive = TeardownTargets(c) # {}]
  /\ UNCHANGED <<node, spec, fleet>>

TeardownNode(n) ==
  /\ tick.pc = "teardown" /\ n \in tick.nodes
  /\ Stage(n, drainStart(node[n]), spec[node[n].pool])
  /\ tick' = [tick EXCEPT !.nodes = @ \ {n}]
  /\ UNCHANGED <<cluster, spec>>

FinishTeardown ==
  /\ tick.pc = "teardown" /\ tick.nodes = {}
  /\ cluster' = IF tick.anyLive THEN cluster
                ELSE [cluster EXCEPT ![tick.cluster].state = "DECOMMISSIONED"]
  /\ tick' = [tick EXCEPT !.pc = "clusters", !.cluster = None, !.anyLive = FALSE]
  /\ UNCHANGED <<node, spec, fleet>>

\* _gc_terminated
BeginGc ==
  /\ tick.pc = "clusters" /\ tick.clusters = {}
  /\ tick' = [tick EXCEPT !.pc = "gc"]
  /\ UNCHANGED <<node, cluster, spec, fleet>>

\* (Variant: a node is collected as soon as it is drained.)
GcNodeDrained(n) ==
  /\ tick.pc = "gc" /\ node[n].state \in {"DECOMMISSIONING", "TERMINATED"}
  /\ Put(n, Absent)
  /\ UNCHANGED <<cluster, spec, fleet, tick>>

GcNode(n) ==
  /\ tick.pc = "gc" /\ node[n].state = "TERMINATED"
  /\ Put(n, Absent)
  /\ UNCHANGED <<cluster, spec, fleet, tick>>

EndTick ==
  /\ tick.pc = "gc"
  /\ \A n \in NodeId : node[n].state # "TERMINATED"
  /\ tick' = Idle
  /\ UNCHANGED <<node, cluster, spec, fleet>>

PerNode(n) ==
  \/ DetectFailure(n) \/ AdvanceNode(n) \/ HealNode(n) \/ RollNode(n)
  \/ CreateNode(n) \/ ScaleDownNode(n) \/ TeardownNode(n) \/ GcNode(n)

Tick ==
  \/ BeginTick \/ EndDetect
  \/ \E c \in Cluster : LeavePlanned(c) \/ SkipCluster(c) \/ StartPools(c) \/ StartTeardown(c)
  \/ \E p \in Pool : StartPool(p)
  \/ BeginHeal \/ BeginRoll \/ BeginScale \/ FinishPool \/ FinishCluster
  \/ FinishTeardown \/ BeginGc \/ EndTick
  \/ \E n \in NodeId : PerNode(n)

-----------------------------------------------------------------------------
(* The operator API, between ticks *)

Declared(c) == cluster[c].state # "ABSENT"

ApplyCluster(c) ==
  /\ tick.pc = "idle"
  /\ Declared(c) => "reapply" \in Ops
  /\ \E ps \in SUBSET {p \in Pool : ClusterOf[p] = c} : \E f \in [ps -> PoolSpecs] :
       /\ spec' = [p \in Pool |-> IF p \in ps THEN f[p] ELSE spec[p]]
       /\ "migrate" \notin Ops =>
            \A p \in ps : spec[p] # None => f[p].provider = spec[p].provider
  /\ cluster' = [cluster EXCEPT ![c] =
                   [state |-> IF Declared(c) THEN @.state ELSE "PLANNED",
                    desired |-> "ACTIVE"]]
  /\ UNCHANGED <<node, fleet, tick>>

ScalePool(p) ==
  /\ tick.pc = "idle" /\ "scale" \in Ops /\ spec[p] # None
  /\ \E d \in {s.desired : s \in PoolSpecs} : spec' = [spec EXCEPT ![p].desired = d]
  /\ UNCHANGED <<node, cluster, fleet, tick>>

\* rolling_update: a change of the pool's desired image
RollingUpdate(p) ==
  /\ tick.pc = "idle" /\ "update" \in Ops /\ spec[p] # None
  /\ \E i \in Image : spec' = [spec EXCEPT ![p].image = i]
  /\ UNCHANGED <<node, cluster, fleet, tick>>

DecommissionCluster(c) ==
  /\ tick.pc = "idle" /\ "decommission" \in Ops /\ Declared(c)
  /\ cluster' = [cluster EXCEPT ![c].desired = "DECOMMISSIONED"]
  /\ UNCHANGED <<node, spec, fleet, tick>>

\* report_health: status and time stamp are stored as they come, so a report
\* that arrives late replaces a newer one.
ReportHealth(n) ==
  /\ tick.pc = "idle" /\ node[n].state # "ABSENT"
  /\ \E s \in Reports : Put(n, [node[n] EXCEPT !.signal = s])
  /\ UNCHANGED <<cluster, spec, fleet, tick>>

\* Time passes: the last heartbeat of n is now older than HEARTBEAT_TIMEOUT.
HeartbeatExpires(n) ==
  /\ tick.pc = "idle" /\ "stale" \in Reports /\ node[n].signal \in {"ok", "failed"}
  /\ Put(n, [node[n] EXCEPT !.signal = "stale"])
  /\ UNCHANGED <<cluster, spec, fleet, tick>>

\* Emergency teardown; approved_by may be empty, and then the call may raise.
ForceDecommissionNode(n) ==
  /\ tick.pc = "idle" /\ "force" \in Ops /\ node[n].state # "ABSENT"
  /\ \E approved \in BOOLEAN :
       IF forceAllowed(node[n], "DECOMMISSIONING", approved)
       THEN Put(n, transition(node[n], "DECOMMISSIONING")) ELSE UNCHANGED node
  /\ UNCHANGED <<cluster, spec, fleet, tick>>

Operator ==
  \/ \E c \in Cluster : ApplyCluster(c) \/ DecommissionCluster(c)
  \/ \E p \in Pool : ScalePool(p) \/ RollingUpdate(p)
  \/ \E n \in NodeId : ReportHealth(n) \/ HeartbeatExpires(n) \/ ForceDecommissionNode(n)

-----------------------------------------------------------------------------
(* A crash and a restart: the store is loaded again from its file, which   *)
(* has every write and lacks _baseline; the instances run on.              *)

Reloaded == [n \in NodeId |-> [node[n] EXCEPT !.baseline = FALSE]]

Restart ==
  /\ "crash" \in Ops
  /\ node' = Reloaded
  /\ tick' = Idle
  /\ UNCHANGED spec

Crash == Restart /\ UNCHANGED <<cluster, fleet>>

\* After the provider has acted on a node and before the store is written.
CrashInStage(n) ==
  LET s == spec[node[n].pool]
  IN /\ tick.pc \in {"advance", "teardown"} /\ n \in tick.nodes
     /\ \/ /\ node[n].state = "REQUESTED"
           /\ \E out \in CreateOutcomes(n, s) : fleet' = [fleet EXCEPT ![s.provider][n] = out]
        \/ /\ node[n].state = "DECOMMISSIONING"
           /\ fleet' = InstanceDeleted(n, node[n], s)
     /\ Restart
     /\ UNCHANGED cluster

\* After a created node is written and before its cluster is.
CrashInCreate(n) ==
  /\ tick.pc = "create" /\ tick.budget > 0 /\ FreshId(n)
  /\ "crash" \in Ops
  /\ node' = [Reloaded EXCEPT ![n] = Requested(tick.pool)]
  /\ fleet' = Recycled(n)
  /\ tick' = Idle
  /\ UNCHANGED <<cluster, spec>>

Failure == Crash \/ \E n \in NodeId : CrashInStage(n) \/ CrashInCreate(n)

Next == Tick \/ Operator \/ Failure

Spec == Init /\ [][Next]_vars

\* The loop keeps ticking: nothing else is fair, neither operators nor failures.
FairSpec == Spec /\ WF_vars(Tick)

-----------------------------------------------------------------------------
(* Properties *)

\* Every variable keeps its type; budgets never go below zero.
TypeOK ==
  /\ node \in [NodeId -> NodeRecord]
  /\ cluster \in [Cluster -> ClusterRecord]
  /\ spec \in [Pool -> NodePool \union {None}]
  /\ fleet \in [Provider -> [NodeId -> FleetStatus]]
  /\ tick \in TickRecord

\* A HEALTHY node went through the security gate, is attested and configured,
\* and has an instance that runs: whatever crashed between the stages that
\* made it (provision.py, policy.py; tests/helpers.py, system invariant 2).
HealthyIsAdmitted ==
  \A n \in NodeId : node[n].state = "HEALTHY" =>
    /\ node[n].secure /\ node[n].attested /\ node[n].image # None
    /\ \E q \in Provider : node[n].inst = q /\ fleet[q][n] \in Image

\* An instance that runs, and whose node's record neither names it nor is about to,
\* when the reconciler retries a creation it had not written down.
Lost(q, n) ==
  /\ fleet[q][n] \in Image /\ node[n].inst # q
  /\ ~(node[n].state = "REQUESTED" /\ spec[node[n].pool].provider = q)

\* No instance runs that the store has lost track of (provision.py, decommission.py,
\* _gc_terminated).
NoOrphan == \A q \in Provider, n \in NodeId : ~Lost(q, n)

Serving(c) == Declared(c) /\ cluster[c].desired = "ACTIVE"

\* A pool of a serving cluster never has more nodes on their way out than
\* max_unavailable (tests/helpers.py, system invariant 3).
BudgetHeld ==
  \A c \in Cluster : Serving(c) =>
    \A p \in PoolsOf(c) : Destructive(p) <= spec[p].maxUnavailable

StartsDrain(n) ==
  node[n].state \notin DestructiveStates /\ node'[n].state \in DestructiveStates

\* Whatever operators did before, the reconciler itself never takes a node of
\* a serving cluster down when that exceeds the pool's budget: self-heal, roll
\* and scale-down share one budget within a tick (_reconcile_pool).
DrainWithinBudget ==
  [][ Tick /\ tick.pc # "teardown" =>
        \A p \in Pool : (\E n \in NodeId : node[n].pool = p /\ StartsDrain(n)) =>
          Destructive(p)' <= spec[p].maxUnavailable ]_vars

\* The self-heals of one pass over a cluster, in all its pools together, stay
\* within global_max_replacements (_reconcile_cluster).
RateLimited == tick.used <= GlobalMaxReplacements

\* A node is created only while the pool, with every node that is being
\* provisioned and the ones only requested, is below its desired count; REQUESTED
\* is not in LIVE_STATES, so the deficit does not see such a node by itself.
NoOverProvision ==
  [][ \A p \in Pool :
        (\E n \in NodeId : node[n].state = "ABSENT" /\ node'[n] = Requested(p)) =>
          Cardinality(InState(p, CONTRIBUTING \union {"REQUESTED"}))' <= spec[p].desired ]_vars

\* The reconciler and the API move nodes only as state_machine.py promises:
\* along the table, never from service to teardown except through a drain, by
\* cluster teardown or by force, and out of the store only from TERMINATED.
Machine ==
  INSTANCE NodeMachine WITH
    state <- [n \in NodeId |-> node[n].state],
    retired <- {n \in NodeId : node[n].state # "ABSENT"
                  /\ cluster[ClusterOf[node[n].pool]].desired = "DECOMMISSIONED"},
    attended <- tick.pc = "idle",
    MayForce <- "force" \in Ops

RefinesLifecycle == Machine!Spec

NodeOf(n, c) == node[n].pool # None /\ ClusterOf[node[n].pool] = c

\* When a cluster is marked DECOMMISSIONED, every instance that a record of it names
\* is deleted, and the records left are TERMINATED or only REQUESTED.  An instance that
\* no record names yet may still run: teardown does not visit REQUESTED nodes, and a
\* crash may have come after create_instance (_drain_cluster).
TeardownDeletesRecorded ==
  [][ \A c \in Cluster :
        cluster[c].state # "DECOMMISSIONED" /\ cluster'[c].state = "DECOMMISSIONED" =>
          \A n \in NodeId : NodeOf(n, c) =>
            /\ node[n].state \in {"REQUESTED", "TERMINATED"}
            /\ node[n].inst # None => fleet[node[n].inst][n] \notin Image ]_vars

\* Where pools stay with their provider, an instance is lost in one way only: emergency
\* teardown of a node whose creation was cut short before its instance was recorded.
\* Crashes, teardown of the cluster, its redeclaration and the removal of records lose
\* none, also of nodes that were forced (workflows/decommission.py, api.py).
LostByForceOnly ==
  [][ \A q \in Provider, n \in NodeId : ~Lost(q, n) /\ Lost(q, n)' =>
        /\ tick.pc = "idle" /\ node[n].state = "REQUESTED"
        /\ node'[n].state = "DECOMMISSIONING" ]_vars

PoolConverged(p) ==
  /\ Cardinality(InState(p, {"HEALTHY"})) = spec[p].desired
  /\ \A n \in NodeId : node[n].pool = p =>
       /\ node[n].state = "HEALTHY" /\ node[n].image = spec[p].image
       /\ node[n].signal \notin {"failed", "stale"}

Converged ==
  \A c \in Cluster : Declared(c) =>
    IF Serving(c) THEN cluster[c].state = "ACTIVE" /\ \A p \in PoolsOf(c) : PoolConverged(p)
    ELSE cluster[c].state = "DECOMMISSIONED"
         /\ \A n \in NodeId : node[n].pool = None \/ ClusterOf[node[n].pool] # c

\* Re-running a tick on a converged store changes nothing, at no provider
\* either (reconciler.py, "IDEMPOTENT").
QuietWhenConverged ==
  [][ Converged /\ Tick => UNCHANGED <<node, cluster, fleet>> ]_vars

CreateFailed ==
  \E n \in NodeId : node[n].state = "REQUESTED" /\ node'[n].state = "FAILED"

\* Converged, but for nodes that were only REQUESTED when their cluster was torn down.
Settled ==
  \A c \in Cluster : Declared(c) =>
    IF Serving(c) THEN cluster[c].state = "ACTIVE" /\ \A p \in PoolsOf(c) : PoolConverged(p)
    ELSE cluster[c].state = "DECOMMISSIONED"
         /\ \A n \in NodeId : NodeOf(n, c) => node[n].state = "REQUESTED"

\* Left alone, with creations that succeed, the system settles and stays settled,
\* whatever scaling, updates, a decommission, failed creations, bad reports and crashes
\* left behind, in whatever order they came (tests/chaos/test_property_invariants.py).
\* Not so where a torn-down cluster is declared again (DecommissionedRunsNothing) or a
\* node left of it is forced: it is then live, and no tick visits it (_drain_cluster).
Convergence ==
  <>[][Tick /\ ~CreateFailed]_vars => <>[]Settled

-----------------------------------------------------------------------------
(* The inductive invariant behind the proofs of ReconcilerProofs *)

PoolPhases == {"advance", "heal", "roll", "create", "down"}

\* The locals of a tick name declared pools of the cluster it is working on.
TickShape ==
  /\ \A p \in tick.pools : spec[p] # None
  /\ tick.pc \in PoolPhases => tick.pool \in Pool /\ spec[tick.pool] # None
  /\ tick.pc \in PoolPhases \union {"pools", "teardown"} => tick.cluster \in Cluster

\* A record belongs to a declared pool; an id without one has left no trace.
NodeShape ==
  \A n \in NodeId :
    IF node[n].state = "ABSENT" THEN node[n] = Absent
    ELSE node[n].pool \in Pool /\ spec[node[n].pool] # None

\* What self-heal has used and may still use stays within the rate limit.
RateShape ==
  tick.used + (IF tick.pc = "heal" THEN tick.budget ELSE 0) <= GlobalMaxReplacements

Shape == TypeOK /\ TickShape /\ NodeShape /\ RateShape

\* From PROVISIONING to HEALTHY a node has an instance that runs.
Equipped ==
  \A n \in NodeId :
    /\ node[n].state \in {"PROVISIONING", "BOOTSTRAPPING", "REGISTERING", "HEALTHY"} =>
         \E q \in Provider : node[n].inst = q /\ fleet[q][n] \in Image
    /\ node[n].state = "HEALTHY" => node[n].secure /\ node[n].attested /\ node[n].image # None

\* While a drain loop may still drain, what is left of its budget fits into the
\* pool's destructive budget.
BudgetShape ==
  tick.pc \in {"heal", "roll", "down"} /\ tick.budget > 0 =>
    Destructive(tick.pool) + tick.budget <= spec[tick.pool].maxUnavailable

\* The reconciler works on the pools of one serving cluster, on the nodes of one
\* pool at a time, or tears one cluster down; nothing changes that within a tick.
WorkShape ==
  /\ tick.pc \in PoolPhases \union {"pools"} =>
       /\ cluster[tick.cluster].desired = "ACTIVE"
       /\ \A p \in tick.pools : ClusterOf[p] = tick.cluster
  /\ tick.pc \in PoolPhases =>
       /\ ClusterOf[tick.pool] = tick.cluster
       /\ \A n \in tick.nodes : node[n].pool = tick.pool
  /\ tick.pc = "teardown" =>
       /\ cluster[tick.cluster].desired = "DECOMMISSIONED"
       /\ \A n \in tick.nodes : node[n].pool \in Pool /\ ClusterOf[node[n].pool] = tick.cluster

\* An instance that a record names is where the node's pool says, and is gone when the
\* node is TERMINATED; a node that is only REQUESTED names none.
Named ==
  \A n \in NodeId :
    /\ node[n].inst # None =>
         node[n].inst = spec[node[n].pool].provider /\ node[n].state # "REQUESTED"
    /\ \A q \in Provider :
         node[n].inst = q /\ node[n].state = "TERMINATED" => fleet[q][n] \notin Image

\* A teardown that has found no node to visit has left none behind.
EmptyShape ==
  tick.pc = "teardown" /\ ~tick.anyLive =>
    /\ tick.nodes = {}
    /\ \A p \in Pool : ClusterOf[p] = tick.cluster => InState(p, LIVE_STATES) = {}

\* A pool whose in-flight nodes have been advanced has none that is only requested,
\* and what may still be created fits under its desired count.
CreateShape ==
  LET p == tick.pool
  IN /\ tick.pc = "advance" => InState(p, {"REQUESTED"}) \subseteq tick.nodes
     /\ tick.pc \in {"heal", "roll"} => InState(p, {"REQUESTED"}) = {}
     /\ tick.pc = "create" /\ tick.budget > 0 =>
          Cardinality(InState(p, CONTRIBUTING \union {"REQUESTED"})) + tick.budget
            <= spec[p].desired

\* Every entry on a work list is a reason to change something, also when earlier
\* entries have been worked on since the list was made.
WorkIsDue ==
  /\ tick.pc # "idle" => \A c \in tick.clusters : Declared(c)
  /\ tick.pc \in PoolPhases \union {"pools"} => Declared(tick.cluster)
  /\ tick.pc = "heal" => \A n \in tick.nodes : node[n].state = "FAILED"
  /\ tick.pc = "roll" => \A n \in tick.nodes : node[n].image # spec[tick.pool].image
  /\ tick.pc = "down" /\ tick.budget > 0 =>
       spec[tick.pool].desired + tick.budget <= Cardinality(InState(tick.pool, CONTRIBUTING))
  /\ tick.pc = "teardown" => cluster[tick.cluster].state = "DRAINING"

\* The pools of a cluster are declared with it or later.
DeclaredFirst == \A p \in Pool : spec[p] # None => Declared(ClusterOf[p])

IInv ==
  Shape /\ Equipped /\ WorkShape /\ BudgetShape /\ CreateShape /\ WorkIsDue /\ DeclaredFirst

-----------------------------------------------------------------------------
(* What the documentation says and the code does not do *)

\* RUNBOOK.md 3, "restarting the control plane is always safe and never loses
\* progress": with instances that all come up, no failure reports and no change
\* of image, no node is ever given up as FAILED (_baseline is not persisted).
RestartLosesNothing == \A n \in NodeId : node[n].state # "FAILED"

\* RUNBOOK.md 2.5, "instances are deleted, network released" and the cluster is
\* DECOMMISSIONED: also when it had been declared again (_drain_cluster returns at
\* once while the state is still DECOMMISSIONED from the first teardown).
DecommissionedRunsNothing ==
  \A c \in Cluster :
    tick.pc = "idle" /\ Declared(c) /\ ~Serving(c) /\ cluster[c].state = "DECOMMISSIONED" =>
      \A q \in Provider, n \in NodeId :
        node[n].pool # None /\ ClusterOf[node[n].pool] = c => fleet[q][n] \notin Image

\* RUNBOOK.md 2.2, "Pool stays at desired healthy count throughout" a rolling
\* update, read as leniently as possible: once up, a pool that nothing but an
\* update disturbs has at most max_unavailable nodes fewer (Destructive does not
\* count replacements that do not serve yet).
PoolHeldDuringRoll ==
  \A p \in Pool : spec[p] # None /\ cluster[ClusterOf[p]].state \in {"ACTIVE", "SCALING"} =>
    Cardinality(InState(p, {"HEALTHY"})) >= spec[p].desired - spec[p].maxUnavailable

\* agent/node_agent.py, "two nodes with the same hash are identical": nodes that serve
\* in one pool with the same configuration hash run the same image, as the provider
\* has it (the hash is made from the pool's image at bootstrap, and the gate compares
\* it with the pool again; neither looks at what the instance was created with).
SameHashIdentical ==
  \A q \in Provider, m, n \in NodeId :
    /\ node[m].state = "HEALTHY" /\ node[n].state = "HEALTHY"
    /\ node[m].pool = node[n].pool /\ node[m].image = node[n].image
    /\ node[m].inst = q /\ node[n].inst = q
    => fleet[q][m] = fleet[q][n]
=============================================================================
