-------------------------- MODULE ReconcilerProofs --------------------------
(***************************************************************************)
(* Proofs about module Reconciler, for every fleet, every set of pools and *)
(* images, every budget and every choice of what operators and the         *)
(* environment do.  The argument is one inductive invariant, IInv.  Here   *)
(* are its layer Shape (types, declared pools, rate limit), which all the  *)
(* others rest on, and those about budgets: the reconciler takes nodes     *)
(* down only within the pool's budget, and creates them only below its     *)
(* desired count.  What is needed for that: what one step does to one node *)
(* (NodeStep), that the locals of a tick still name what they named when   *)
(* its phase began (WorkShape), and that what a drain loop may still take  *)
(* down, or a creation loop make, fits (BudgetShape, CreateShape).         *)
(***************************************************************************)
EXTENDS Reconciler, FiniteSetTheorems, TLAPS

-----------------------------------------------------------------------------
(* What the record helpers preserve *)

\* transition() changes the lifecycle state, nothing else.
LEMMA TransitionKeeps ==
  ASSUME NEW r \in NodeRecord, NEW dst \in NodeState
  PROVE  /\ transition(r, dst) \in NodeRecord
         /\ transition(r, dst).state = dst
         /\ transition(r, dst).pool = r.pool
         /\ transition(r, dst).inst = r.inst
         /\ transition(r, dst).image = r.image
         /\ transition(r, dst).attested = r.attested
         /\ transition(r, dst).secure = r.secure
BY DEF transition, NodeRecord

\* drain.start either leaves the record alone or moves it to DRAINING.
LEMMA DrainStartKeeps ==
  ASSUME NEW r \in NodeRecord
  PROVE  /\ drainStart(r) \in NodeRecord
         /\ drainStart(r).pool = r.pool
         /\ drainStart(r).inst = r.inst
         /\ \/ drainStart(r) = r /\ r.state \notin {"HEALTHY", "FAILED", "UPDATING"}
            \/ drainStart(r).state = "DRAINING" /\ r.state \in {"HEALTHY", "FAILED", "UPDATING"}
BY TransitionKeeps DEF drainStart, NodeState

\* Forgetting what is never read again keeps what the invariants speak of.
LEMMA ForgetKeeps ==
  ASSUME NEW r \in NodeRecord
  PROVE  /\ Forget(r) \in NodeRecord
         /\ Forget(r).state = r.state
         /\ Forget(r).pool = r.pool
         /\ Forget(r).inst = r.inst
         /\ r.state \notin LeavingStates =>
              /\ Forget(r).image = r.image
              /\ Forget(r).attested = r.attested
              /\ Forget(r).secure = r.secure
<1>1. CASE r.state \in LeavingStates
  BY <1>1 DEF Forget, NodeRecord, Absent, Signal
<1>2. CASE r.state \notin LeavingStates
  BY <1>2 DEF Forget, NodeRecord
<1> QED
  BY <1>1, <1>2

\* The records that are written as they stand.
LEMMA ConstantRecords ==
  /\ Absent \in NodeRecord
  /\ \A p \in Pool : /\ Requested(p) \in NodeRecord
                     /\ Requested(p).pool = p
                     /\ Requested(p).state = "REQUESTED"
BY DEF Absent, Requested, NodeRecord, NodeState, Signal

\* An absent node stays as it is under both helpers.
LEMMA AbsentKept ==
  /\ drainStart(Absent) = Absent
  /\ Forget(Absent) = Absent
<1>1. \A r \in NodeRecord : r.baseline = FALSE => [r EXCEPT !.baseline = FALSE] = r
  BY DEF NodeRecord
<1>2. Absent \in NodeRecord /\ Absent.baseline = FALSE /\ Absent.state = "ABSENT"
  BY ConstantRecords DEF Absent
<1>3. Forget(Absent) = [Absent EXCEPT !.baseline = FALSE]
  BY <1>2 DEF Forget, LeavingStates
<1> QED
  BY <1>1, <1>2, <1>3 DEF drainStart

\* A forced decommission moves its node to DECOMMISSIONING, or is refused.
LEMMA ForceEffect ==
  ASSUME TypeOK, NEW n \in NodeId, ForceDecommissionNode(n)
  PROVE  /\ "force" \in Ops /\ node[n].state # "ABSENT"
         /\ UNCHANGED <<cluster, spec, fleet, tick>>
         /\ \/ UNCHANGED node
            \/ \E r \in NodeRecord : /\ Put(n, r) /\ r.state = "DECOMMISSIONING"
                                    /\ r.pool = node[n].pool /\ r.inst = node[n].inst
<1>1. node[n] \in NodeRecord /\ "DECOMMISSIONING" \in NodeState
  BY DEF TypeOK, NodeState
<1> QED
  BY <1>1, TransitionKeeps DEF ForceDecommissionNode

-----------------------------------------------------------------------------
(* Counting nodes *)

\* Every set of nodes of a pool is finite.
LEMMA InStateFinite ==
  ASSUME NEW p, NEW states
  PROVE  /\ IsFiniteSet(InState(p, states))
         /\ Cardinality(InState(p, states)) \in Nat
BY NodeIdFinite, FS_Subset, FS_CardinalityType DEF InState

\* The budgets are natural numbers.
LEMMA BudgetTypes ==
  ASSUME NEW p \in Pool, spec[p] \in NodePool
  PROVE  /\ Destructive(p) \in Nat
         /\ Slack(p) \in Nat
         /\ RollBudget(p) \in Nat
         /\ Deficit(p) \in Int
         /\ CreateBudget(p) \in Nat
         /\ DownBudget(p) \in Nat
         /\ tick.used \in Nat /\ tick.used <= GlobalMaxReplacements =>
              HealBudget(p) \in Nat /\ tick.used + HealBudget(p) <= GlobalMaxReplacements
<1>1. /\ Destructive(p) \in Nat
      /\ Cardinality(InState(p, CONTRIBUTING)) \in Nat
  BY InStateFinite DEF Destructive
<1>2. spec[p].maxUnavailable \in Nat /\ spec[p].maxProvision \in Nat /\ spec[p].desired \in Nat
  BY DEF NodePool
<1> QED
  BY <1>1, <1>2, GlobalMaxType
  DEF Slack, RollBudget, Deficit, CreateBudget, DownBudget, HealBudget, Lesser, Positive

-----------------------------------------------------------------------------
(* Shape is inductive *)

\* create_instance answers with a fleet status; anything but "failed" is an
\* instance that runs.
LEMMA CreateOutcomesType ==
  ASSUME TypeOK, NEW n \in NodeId, NEW s \in NodePool, NEW out \in CreateOutcomes(n, s)
  PROVE  /\ s.provider \in Provider /\ s.image \in Image
         /\ out \in FleetStatus
         /\ out # "failed" => out \in Image
BY DEF TypeOK, CreateOutcomes, NodePool, FleetStatus

\* A stage replaces one record by another of the same pool, and keeps the
\* fleet's type.
LEMMA StageEffect ==
  ASSUME TypeOK, NEW n \in NodeId, NEW r \in NodeRecord, NEW s \in NodePool, Stage(n, r, s)
  PROVE  /\ \E r2 \in NodeRecord :
              /\ node' = [node EXCEPT ![n] = r2]
              /\ r2.pool = r.pool
              /\ r2.state \in NodeState
         /\ fleet' \in [Provider -> [NodeId -> FleetStatus]]
<1> DEFINE Written(r1) == Put(n, r1) /\ r1 \in NodeRecord /\ r1.pool = r.pool
                          /\ r1.state \in NodeState
<1>1. ASSUME NEW r1 \in NodeRecord, Written(r1)
      PROVE  \E r2 \in NodeRecord :
               /\ node' = [node EXCEPT ![n] = r2]
               /\ r2.pool = r.pool
               /\ r2.state \in NodeState
  <2>1. /\ Forget(r1) \in NodeRecord /\ Forget(r1).pool = r.pool
        /\ Forget(r1).state \in NodeState
    BY <1>1, ForgetKeeps
  <2>2. node' = [node EXCEPT ![n] = Forget(r1)]
    BY <1>1 DEF Put
  <2> HIDE DEF Written
  <2> QED
    BY <2>1, <2>2
<1>2. ASSUME NEW dst \in NodeState, NEW r1 \in NodeRecord, r1.pool = r.pool
      PROVE  /\ transition(r1, dst) \in NodeRecord
             /\ transition(r1, dst).pool = r.pool
             /\ transition(r1, dst).state \in NodeState
  BY <1>2, TransitionKeeps
<1>3. /\ s.provider \in Provider
      /\ s.image \in Image
  BY DEF NodePool
<1>4. /\ [r EXCEPT !.inst = s.provider] \in NodeRecord
      /\ [r EXCEPT !.baseline = TRUE] \in NodeRecord
      /\ [r EXCEPT !.image = s.image, !.attested = TRUE] \in NodeRecord
      /\ [r EXCEPT !.secure = TRUE] \in NodeRecord
      /\ [r EXCEPT !.inst = s.provider].pool = r.pool
      /\ [r EXCEPT !.baseline = TRUE].pool = r.pool
      /\ [r EXCEPT !.image = s.image, !.attested = TRUE].pool = r.pool
      /\ [r EXCEPT !.secure = TRUE].pool = r.pool
  BY <1>3 DEF NodeRecord
<1>5. {"FAILED", "PROVISIONING", "BOOTSTRAPPING", "REGISTERING", "HEALTHY",
       "DECOMMISSIONING", "TERMINATED"} \subseteq NodeState
  BY DEF NodeState
<1>6. CASE CreateInstance(n, r, s)
  <2>1. PICK out \in CreateOutcomes(n, s) :
          /\ fleet' = [fleet EXCEPT ![s.provider][n] = out]
          /\ Put(n, IF out = "failed" THEN transition(r, "FAILED")
                    ELSE transition([r EXCEPT !.inst = s.provider], "PROVISIONING"))
    BY <1>6 DEF CreateInstance
  <2>2. fleet' \in [Provider -> [NodeId -> FleetStatus]]
    BY <2>1, CreateOutcomesType DEF TypeOK
  <2> QED
    BY <2>1, <2>2, <1>1, <1>2, <1>4, <1>5
<1>7. CASE ApplyBaseline(n, r)
  BY <1>7, <1>1, <1>2, <1>4, <1>5 DEF ApplyBaseline, BaselineApplied, TypeOK
<1>8. CASE Bootstrap(n, r, s)
  BY <1>8, <1>1, <1>2, <1>4, <1>5 DEF Bootstrap, Bootstrapped, TypeOK
<1>9. CASE Register(n, r, s)
  BY <1>9, <1>1, <1>2, <1>4, <1>5 DEF Register, TypeOK
<1>10. CASE DrainStep(n, r)
  BY <1>10, <1>1, <1>2, <1>5 DEF DrainStep, TypeOK
<1>11. CASE DecommissionStep(n, r, s)
  <2>1. fleet' \in [Provider -> [NodeId -> FleetStatus]]
    BY <1>11, <1>3 DEF DecommissionStep, InstanceDeleted, TypeOK, FleetStatus
  <2> QED
    BY <1>11, <2>1, <1>1, <1>2, <1>5 DEF DecommissionStep
<1> QED
  BY <1>6, <1>7, <1>8, <1>9, <1>10, <1>11 DEF Stage

\* Writing one record of an unchanged pool keeps the node part of Shape.
LEMMA PutKeepsNodes ==
  ASSUME TypeOK, NodeShape, UNCHANGED spec, NEW n \in NodeId, NEW r \in NodeRecord,
         node' = [node EXCEPT ![n] = r],
         \/ r = Absent
         \/ r.state # "ABSENT" /\ r.pool \in Pool /\ spec[r.pool] # None
  PROVE  /\ node' \in [NodeId -> NodeRecord]
         /\ NodeShape'
<1>1. Absent.state = "ABSENT"
  BY DEF Absent
<1> QED
  BY <1>1 DEF TypeOK, NodeShape

\* A reload keeps it too.
LEMMA ReloadKeepsNodes ==
  ASSUME TypeOK, NodeShape, UNCHANGED spec, node' = Reloaded
  PROVE  /\ node' \in [NodeId -> NodeRecord]
         /\ NodeShape'
<1>1. \A n \in NodeId :
        /\ node'[n] = [node[n] EXCEPT !.baseline = FALSE]
        /\ node[n] \in NodeRecord
  BY DEF Reloaded, TypeOK
<1>2. \A r \in NodeRecord :
        /\ [r EXCEPT !.baseline = FALSE] \in NodeRecord
        /\ [r EXCEPT !.baseline = FALSE].state = r.state
        /\ [r EXCEPT !.baseline = FALSE].pool = r.pool
  BY DEF NodeRecord
<1>3. [Absent EXCEPT !.baseline = FALSE] = Absent
  <2>1. \A r \in NodeRecord : r.baseline = FALSE => [r EXCEPT !.baseline = FALSE] = r
    BY DEF NodeRecord
  <2>2. Absent \in NodeRecord /\ Absent.baseline = FALSE
    BY ConstantRecords DEF Absent
  <2> QED
    BY <2>1, <2>2
<1>4. node' \in [NodeId -> NodeRecord]
  BY <1>1, <1>2 DEF Reloaded
<1>5. NodeShape'
  <2> SUFFICES ASSUME NEW n \in NodeId
               PROVE  IF node'[n].state = "ABSENT" THEN node'[n] = Absent
                      ELSE node'[n].pool \in Pool /\ spec'[node'[n].pool] # None
    BY DEF NodeShape
  <2>1. CASE node[n].state = "ABSENT"
    BY <2>1, <1>1, <1>3 DEF NodeShape, Absent
  <2>2. CASE node[n].state # "ABSENT"
    <3>1. node'[n].state = node[n].state /\ node'[n].pool = node[n].pool
      BY <1>1, <1>2
    <3> QED
      BY <2>2, <3>1 DEF NodeShape
  <2> QED
    BY <2>1, <2>2
<1> QED
  BY <1>4, <1>5

\* A step that only moves the tick along, inside its types.
LEMMA TickStepKeeps ==
  ASSUME TypeOK, NodeShape, UNCHANGED <<node, spec, fleet>>,
         cluster' \in [Cluster -> ClusterRecord], tick' \in TickRecord
  PROVE  TypeOK' /\ NodeShape'
BY DEF TypeOK, NodeShape

\* The control states between two ticks and at its start.
LEMMA IdleShape ==
  /\ Idle \in TickRecord
  /\ [Idle EXCEPT !.pc = "detect"] \in TickRecord
  /\ Idle.pools = {} /\ Idle.pc = "idle" /\ Idle.used = 0 /\ Idle.budget = 0
BY DEF Idle, TickRecord, PC

LEMMA ShapeInit == Init => Shape
<1> SUFFICES ASSUME Init PROVE Shape
  OBVIOUS
<1>1. TypeOK
  BY ConstantRecords, IdleShape DEF Init, EmptyFleets, TypeOK, ClusterRecord, ClusterState, FleetStatus
<1>2. TickShape /\ RateShape
  BY IdleShape, GlobalMaxType DEF Init, TickShape, RateShape, PoolPhases
<1>3. NodeShape
  BY DEF Init, EmptyFleets, NodeShape, Absent
<1> QED
  BY <1>1, <1>2, <1>3 DEF Shape

\* The bookkeeping steps of a tick.
LEMMA ShapeBookkeeping ==
  ASSUME Shape,
         \/ BeginTick \/ EndDetect
         \/ \E c \in Cluster : LeavePlanned(c) \/ SkipCluster(c) \/ StartPools(c)
                               \/ StartTeardown(c)
         \/ \E p \in Pool : StartPool(p)
         \/ BeginHeal \/ BeginRoll \/ BeginScale \/ FinishPool \/ FinishCluster
         \/ FinishTeardown \/ BeginGc \/ EndTick
  PROVE  Shape'
<1> USE DEF Shape
<1>a. tick \in TickRecord /\ cluster \in [Cluster -> ClusterRecord]
  BY DEF TypeOK
<1>b. \A c \in Cluster, st \in ClusterState :
        [cluster EXCEPT ![c].state = st] \in [Cluster -> ClusterRecord]
  BY <1>a DEF ClusterRecord
<1>c. {"PROVISIONING", "ACTIVE", "DRAINING", "DECOMMISSIONED"} \subseteq ClusterState
  BY DEF ClusterState
<1>d. tick.used \in Nat /\ tick.budget \in Nat /\ tick.used <= GlobalMaxReplacements
  BY <1>a, GlobalMaxType DEF TickRecord, RateShape
<1>e. tick.pc \in PoolPhases => tick.pool \in Pool /\ spec[tick.pool] \in NodePool
  BY DEF TickShape, TypeOK
<1>1. CASE BeginTick
  BY <1>1, <1>a, IdleShape, TickStepKeeps, GlobalMaxType
  DEF BeginTick, TickShape, RateShape, PoolPhases, Idle
<1>2. CASE EndDetect
  <2>1. tick' \in TickRecord
    BY <1>2, <1>a DEF EndDetect, TickRecord, PC
  <2> QED
    BY <1>2, <2>1, <1>a, <1>d, TickStepKeeps
    DEF EndDetect, TickShape, RateShape, PoolPhases, TickRecord
<1>3. ASSUME NEW c \in Cluster, LeavePlanned(c) PROVE Shape'
  BY <1>3, <1>a, <1>b, <1>c, TickStepKeeps DEF LeavePlanned, TickShape, RateShape
<1>4. ASSUME NEW c \in Cluster, SkipCluster(c) PROVE Shape'
  <2>1. tick' \in TickRecord
    BY <1>4, <1>a DEF SkipCluster, TickRecord
  <2> QED
    BY <1>4, <2>1, <1>a, <1>d, TickStepKeeps
    DEF SkipCluster, TickShape, RateShape, PoolPhases, TickRecord
<1>5. ASSUME NEW c \in Cluster, StartPools(c) PROVE Shape'
  <2>1. tick' \in TickRecord
    BY <1>5, <1>a DEF StartPools, TickRecord, PC, PoolsOf
  <2>2. /\ tick'.pc = "pools" /\ tick'.pools = PoolsOf(c)
        /\ tick'.cluster = c /\ tick'.used = 0
    BY <1>5, <1>a DEF StartPools, TickRecord
  <2>3. TypeOK' /\ NodeShape' /\ UNCHANGED spec
    BY <1>5, <2>1, <1>a, TickStepKeeps DEF StartPools
  <2>4. TickShape'
    BY <2>2, <2>3 DEF TickShape, PoolPhases, PoolsOf
  <2>5. RateShape'
    BY <2>2, GlobalMaxType DEF RateShape
  <2> QED
    BY <2>3, <2>4, <2>5
<1>6. ASSUME NEW c \in Cluster, StartTeardown(c) PROVE Shape'
  <2>0. TeardownTargets(c) \subseteq NodeId
    BY DEF TeardownTargets, InState
  <2>1. tick' \in TickRecord
    BY <1>6, <1>a, <2>0 DEF StartTeardown, TickRecord, PC
  <2> QED
    BY <1>6, <2>1, <1>a, <1>b, <1>c, <1>d, TickStepKeeps
    DEF StartTeardown, TickShape, RateShape, PoolPhases, TickRecord
<1>7. ASSUME NEW p \in Pool, StartPool(p) PROVE Shape'
  <2>1. tick' \in TickRecord
    BY <1>7, <1>a DEF StartPool, TickRecord, PC, InState
  <2> QED
    BY <1>7, <2>1, <1>a, <1>d, TickStepKeeps
    DEF StartPool, TickShape, RateShape, PoolPhases, TickRecord
<1>8. CASE BeginHeal
  <2>1. /\ HealBudget(tick.pool) \in Nat
        /\ tick.used + HealBudget(tick.pool) <= GlobalMaxReplacements
    BY <1>8, <1>d, <1>e, BudgetTypes DEF BeginHeal, PoolPhases
  <2>2. tick' \in TickRecord
    BY <1>8, <1>a, <2>1 DEF BeginHeal, TickRecord, PC, InState
  <2> QED
    BY <1>8, <2>1, <2>2, <1>a, TickStepKeeps
    DEF BeginHeal, TickShape, RateShape, PoolPhases, TickRecord
<1>9. CASE BeginRoll
  <2>1. RollBudget(tick.pool) \in Nat
    BY <1>9, <1>e, BudgetTypes DEF BeginRoll, PoolPhases
  <2>2. tick' \in TickRecord
    BY <1>9, <1>a, <2>1 DEF BeginRoll, TickRecord, PC, InState, Stale
  <2> QED
    BY <1>9, <2>2, <1>a, <1>d, TickStepKeeps
    DEF BeginRoll, TickShape, RateShape, PoolPhases, TickRecord
<1>10. CASE BeginScale
  <2>1. CreateBudget(tick.pool) \in Nat /\ DownBudget(tick.pool) \in Nat
    BY <1>10, <1>e, BudgetTypes DEF BeginScale, PoolPhases
  <2>2. tick' \in TickRecord
    BY <1>10, <1>a, <2>1 DEF BeginScale, TickRecord, PC, InState
  <2> QED
    BY <1>10, <2>2, <1>a, <1>d, TickStepKeeps
    DEF BeginScale, TickShape, RateShape, PoolPhases, TickRecord
<1>11. CASE FinishPool
  <2>1. tick' \in TickRecord
    BY <1>11, <1>a DEF FinishPool, TickRecord, PC
  <2> QED
    BY <1>11, <2>1, <1>a, <1>d, TickStepKeeps
    DEF FinishPool, TickShape, RateShape, PoolPhases, TickRecord
<1>12. CASE FinishCluster
  <2>1. tick' \in TickRecord
    BY <1>12, <1>a DEF FinishCluster, TickRecord, PC
  <2>2. tick.cluster \in Cluster
    BY <1>12 DEF FinishCluster, TickShape
  <2> QED
    BY <1>12, <2>1, <2>2, <1>a, <1>b, <1>c, GlobalMaxType, TickStepKeeps
    DEF FinishCluster, TickShape, RateShape, PoolPhases, TickRecord
<1>13. CASE FinishTeardown
  <2>1. tick' \in TickRecord
    BY <1>13, <1>a DEF FinishTeardown, TickRecord, PC
  <2>2. tick.cluster \in Cluster
    BY <1>13 DEF FinishTeardown, TickShape
  <2> QED
    BY <1>13, <2>1, <2>2, <1>a, <1>b, <1>c, <1>d, TickStepKeeps
    DEF FinishTeardown, TickShape, RateShape, PoolPhases, TickRecord
<1>14. CASE BeginGc
  <2>1. tick' \in TickRecord
    BY <1>14, <1>a DEF BeginGc, TickRecord, PC
  <2> QED
    BY <1>14, <2>1, <1>a, <1>d, TickStepKeeps
    DEF BeginGc, TickShape, RateShape, PoolPhases, TickRecord
<1>15. CASE EndTick
  BY <1>15, <1>a, IdleShape, TickStepKeeps, GlobalMaxType
  DEF EndTick, TickShape, RateShape, PoolPhases
<1> QED
  BY <1>1, <1>2, <1>3, <1>4, <1>5, <1>6, <1>7, <1>8, <1>9, <1>10, <1>11, <1>12, <1>13,
     <1>14, <1>15

\* The steps of a tick that write a node.
LEMMA ShapeNodeSteps ==
  ASSUME Shape, NEW n \in NodeId, PerNode(n)
  PROVE  Shape'
<1> USE DEF Shape
<1>a. /\ tick \in TickRecord
      /\ cluster \in [Cluster -> ClusterRecord]
      /\ node[n] \in NodeRecord
      /\ node[n].state \in NodeState \union {"ABSENT"}
      /\ node[n].pool \in Pool \union {None}
      /\ fleet \in [Provider -> [NodeId -> FleetStatus]]
      /\ spec \in [Pool -> NodePool \union {None}]
  BY DEF TypeOK, NodeRecord
<1>b. tick.used \in Nat /\ tick.budget \in Nat /\ tick.used <= GlobalMaxReplacements
  BY <1>a, GlobalMaxType DEF TickRecord, RateShape
<1>c. tick.pc \in PoolPhases => tick.pool \in Pool /\ spec[tick.pool] \in NodePool
  BY DEF TickShape, TypeOK
<1>d. node[n].state # "ABSENT" => node[n].pool \in Pool /\ spec[node[n].pool] # None
  BY DEF NodeShape
<1>e. NodeState \subseteq NodeState \union {"ABSENT"} /\ "ABSENT" \notin NodeState
  BY DEF NodeState
\* A step that writes a record of n's own pool, and a tick inside its types.
<1>f. ASSUME NEW r \in NodeRecord, node' = [node EXCEPT ![n] = r],
             r.pool = node[n].pool, r.state # "ABSENT", node[n].state # "ABSENT",
             UNCHANGED <<spec, cluster>>, fleet' \in [Provider -> [NodeId -> FleetStatus]],
             tick' \in TickRecord
      PROVE  TypeOK' /\ NodeShape'
  <2>1. node' \in [NodeId -> NodeRecord] /\ NodeShape'
    BY <1>d, <1>f, PutKeepsNodes
  <2> QED
    BY <2>1, <1>a, <1>f DEF TypeOK
<1>1. CASE DetectFailure(n)
  <2>1. node[n].state = "HEALTHY"
    BY <1>1 DEF DetectFailure, Suspect
  <2>2. PICK r \in NodeRecord : /\ node' = [node EXCEPT ![n] = r]
                                /\ r.pool = node[n].pool /\ r.state = "FAILED"
    <3>1. "FAILED" \in NodeState
      BY DEF NodeState
    <3> QED
      <4>1. LET r == Forget(transition(node[n], "FAILED"))
            IN r \in NodeRecord /\ r.pool = node[n].pool /\ r.state = "FAILED"
        BY <1>a, <3>1, TransitionKeeps, ForgetKeeps
      <4> QED
        BY <1>1, <4>1 DEF DetectFailure, Put
  <2>3. UNCHANGED <<spec, cluster, fleet, tick>>
    BY <1>1 DEF DetectFailure
  <2>4. TypeOK' /\ NodeShape'
    BY <2>1, <2>2, <2>3, <1>a, <1>f
  <2>5. TickShape' /\ RateShape'
    BY <2>3 DEF TickShape, RateShape
  <2> QED
    BY <2>4, <2>5
<1>2. CASE AdvanceNode(n)
  <2>1. tick' = [tick EXCEPT !.nodes = @ \ {n}] /\ UNCHANGED <<spec, cluster>>
        /\ tick.pc = "advance"
    BY <1>2 DEF AdvanceNode
  <2>2. tick' \in TickRecord
    BY <2>1, <1>a DEF TickRecord
  <2>3. node[n].state # "ABSENT"
    BY <1>2 DEF AdvanceNode, Stage, CreateInstance, ApplyBaseline, Bootstrap, Register,
                DrainStep, DecommissionStep
  <2>4. /\ \E r \in NodeRecord : /\ node' = [node EXCEPT ![n] = r]
                                 /\ r.pool = node[n].pool /\ r.state \in NodeState
        /\ fleet' \in [Provider -> [NodeId -> FleetStatus]]
    BY <1>2, <1>a, <1>c, <2>1, StageEffect DEF AdvanceNode, PoolPhases
  <2>5. TypeOK' /\ NodeShape'
    BY <2>1, <2>2, <2>3, <2>4, <1>e, <1>f
  <2>6. TickShape' /\ RateShape'
    BY <2>1, <1>a, <1>b DEF TickShape, RateShape, TickRecord
  <2> QED
    BY <2>5, <2>6
\* The three drain loops.
<1>g. ASSUME DrainOne(n), tick' \in TickRecord
      PROVE  TypeOK' /\ NodeShape'
  <2>1. CASE node[n].state = "ABSENT"
    <3>1. node[n] = Absent
      BY <2>1 DEF NodeShape
    <3>2. drainStart(Absent) = Absent /\ Forget(Absent) = Absent
      BY AbsentKept
    <3>3. node' = [node EXCEPT ![n] = Absent]
      BY <1>g, <3>1, <3>2 DEF DrainOne, Put
    <3>4. node' \in [NodeId -> NodeRecord] /\ NodeShape'
      BY <1>g, <3>3, ConstantRecords, PutKeepsNodes DEF DrainOne
    <3> QED
      BY <3>4, <1>a, <1>g DEF TypeOK, DrainOne
  <2>2. CASE node[n].state # "ABSENT"
    <3>1. /\ Forget(drainStart(node[n])) \in NodeRecord
          /\ Forget(drainStart(node[n])).pool = node[n].pool
          /\ Forget(drainStart(node[n])).state # "ABSENT"
      BY <2>2, <1>a, DrainStartKeeps, ForgetKeeps
    <3> QED
      BY <1>g, <2>2, <3>1, <1>a, <1>f DEF DrainOne, Put
  <2> QED
    BY <2>1, <2>2
<1>3. CASE HealNode(n)
  <2>1. /\ tick' = [tick EXCEPT !.nodes = @ \ {n}, !.budget = @ - 1, !.used = @ + 1]
        /\ tick.pc = "heal" /\ tick.budget > 0 /\ UNCHANGED <<spec, cluster>>
    BY <1>3 DEF HealNode, DrainOne
  <2>2. tick' \in TickRecord
    <3>1. tick.budget - 1 \in Nat /\ tick.used + 1 \in Nat
      BY <2>1, <1>b
    <3>2. tick.nodes \ {n} \in SUBSET NodeId
      BY <1>a DEF TickRecord
    <3> QED
      BY <2>1, <3>1, <3>2, <1>a DEF TickRecord
  <2>3. TickShape' /\ RateShape'
    BY <2>1, <1>a, <1>b, GlobalMaxType DEF TickShape, RateShape, TickRecord
  <2> QED
    BY <1>3, <1>g, <2>2, <2>3 DEF HealNode
<1>4. CASE RollNode(n) \/ ScaleDownNode(n)
  <2>1. /\ tick' = [tick EXCEPT !.nodes = @ \ {n}, !.budget = @ - 1]
        /\ tick.pc # "heal" /\ tick.budget > 0 /\ DrainOne(n) /\ UNCHANGED <<spec, cluster>>
    BY <1>4 DEF RollNode, ScaleDownNode, DrainOne
  <2>2. tick' \in TickRecord
    <3>1. tick.budget - 1 \in Nat /\ tick.used + 1 \in Nat
      BY <2>1, <1>b
    <3>2. tick.nodes \ {n} \in SUBSET NodeId
      BY <1>a DEF TickRecord
    <3> QED
      BY <2>1, <3>1, <3>2, <1>a DEF TickRecord
  <2>3. TickShape' /\ RateShape'
    BY <2>1, <1>a, <1>b, GlobalMaxType DEF TickShape, RateShape, TickRecord
  <2> QED
    BY <1>g, <2>1, <2>2, <2>3
<1>5. CASE CreateNode(n)
  <2>1. /\ tick' = [tick EXCEPT !.budget = @ - 1] /\ UNCHANGED spec
        /\ tick.pc = "create" /\ tick.budget > 0 /\ tick.pool \in Pool
        /\ spec[tick.pool] # None /\ tick.cluster \in Cluster
    BY <1>5 DEF CreateNode, TickShape, PoolPhases
  <2>2. tick' \in TickRecord
    BY <2>1, <1>a, <1>b DEF TickRecord
  <2>3. /\ Forget(Requested(tick.pool)) \in NodeRecord
        /\ Forget(Requested(tick.pool)).pool = tick.pool
        /\ Forget(Requested(tick.pool)).state = "REQUESTED"
    BY <2>1, ConstantRecords, ForgetKeeps
  <2>4. node' \in [NodeId -> NodeRecord] /\ NodeShape'
    BY <1>5, <2>1, <2>3, PutKeepsNodes DEF CreateNode, Put
  <2>5. fleet' \in [Provider -> [NodeId -> FleetStatus]]
    BY <1>5, <1>a DEF CreateNode, Recycled, FleetStatus
  <2>6. cluster' \in [Cluster -> ClusterRecord]
    BY <1>5, <1>a, <2>1 DEF CreateNode, ClusterRecord, ClusterState
  <2>7. TickShape' /\ RateShape'
    BY <2>1, <1>a, <1>b, GlobalMaxType DEF TickShape, RateShape, TickRecord
  <2> QED
    BY <2>1, <2>2, <2>4, <2>5, <2>6, <2>7, <1>a DEF TypeOK
<1>6. CASE TeardownNode(n)
  <2>1. tick' = [tick EXCEPT !.nodes = @ \ {n}] /\ UNCHANGED <<spec, cluster>>
        /\ tick.pc = "teardown"
    BY <1>6 DEF TeardownNode
  <2>2. tick' \in TickRecord
    BY <2>1, <1>a DEF TickRecord
  <2>3. drainStart(node[n]) \in NodeRecord /\ drainStart(node[n]).pool = node[n].pool
    BY <1>a, DrainStartKeeps
  <2>4. node[n].state # "ABSENT"
    <3>1. drainStart(node[n]).state # "ABSENT"
      BY <1>6 DEF TeardownNode, Stage, CreateInstance, ApplyBaseline, Bootstrap, Register,
                  DrainStep, DecommissionStep
    <3> QED
      BY <3>1 DEF drainStart
  <2>5. /\ \E r \in NodeRecord : /\ node' = [node EXCEPT ![n] = r]
                                 /\ r.pool = node[n].pool /\ r.state \in NodeState
        /\ fleet' \in [Provider -> [NodeId -> FleetStatus]]
    <3>1. spec[node[n].pool] \in NodePool
      BY <2>4, <1>a, <1>d
    <3> QED
      BY <1>6, <2>3, <3>1, StageEffect DEF TeardownNode
  <2>6. TypeOK' /\ NodeShape'
    BY <2>1, <2>2, <2>4, <2>5, <1>e, <1>f
  <2>7. TickShape' /\ RateShape'
    BY <2>1, <1>a, <1>b DEF TickShape, RateShape, TickRecord
  <2> QED
    BY <2>6, <2>7
<1>7. CASE GcNode(n)
  <2>1. Forget(Absent) = Absent
    BY AbsentKept
  <2>2. node' = [node EXCEPT ![n] = Absent] /\ UNCHANGED <<spec, cluster, fleet, tick>>
    BY <1>7, <2>1 DEF GcNode, Put
  <2>3. node' \in [NodeId -> NodeRecord] /\ NodeShape'
    BY <2>2, ConstantRecords, PutKeepsNodes
  <2>4. TickShape' /\ RateShape'
    BY <2>2 DEF TickShape, RateShape
  <2> QED
    BY <2>2, <2>3, <2>4, <1>a DEF TypeOK
<1> QED
  BY <1>1, <1>2, <1>3, <1>4, <1>5, <1>6, <1>7 DEF PerNode

\* The operators' and the environment's steps, between two ticks.
LEMMA ShapeOperator ==
  ASSUME Shape, Operator
  PROVE  Shape'
<1> USE DEF Shape
<1>a. /\ tick \in TickRecord
      /\ cluster \in [Cluster -> ClusterRecord]
      /\ spec \in [Pool -> NodePool \union {None}]
      /\ fleet \in [Provider -> [NodeId -> FleetStatus]]
      /\ \A n \in NodeId : node[n] \in NodeRecord
  BY DEF TypeOK
<1>b. None \notin NodePool
  BY NoneIsFresh
\* A change of declarations that forgets none of them.
<1>c. ASSUME UNCHANGED <<node, fleet, tick>>, cluster' \in [Cluster -> ClusterRecord],
             spec' \in [Pool -> NodePool \union {None}],
             \A p \in Pool : spec[p] # None => spec'[p] # None
      PROVE  Shape'
  <2>1. TypeOK' /\ NodeShape'
    BY <1>c DEF TypeOK, NodeShape
  <2>2. TickShape' /\ RateShape'
    BY <1>a, <1>c DEF TickShape, RateShape, TickRecord
  <2> QED
    BY <2>1, <2>2
\* A write of one record of a node that is there.
<1>d. ASSUME NEW n \in NodeId, NEW r \in NodeRecord, node[n].state # "ABSENT",
             r.pool = node[n].pool, r.state # "ABSENT", Put(n, r),
             UNCHANGED <<cluster, spec, fleet, tick>>
      PROVE  Shape'
  <2>1. /\ Forget(r) \in NodeRecord
        /\ Forget(r).state # "ABSENT"
        /\ Forget(r).pool \in Pool /\ spec[Forget(r).pool] # None
    BY <1>d, ForgetKeeps DEF NodeShape
  <2>2. node' \in [NodeId -> NodeRecord] /\ NodeShape'
    BY <1>d, <2>1, PutKeepsNodes DEF Put
  <2>3. TickShape' /\ RateShape' /\ TypeOK'
    BY <1>a, <1>d, <2>2 DEF TickShape, RateShape, TypeOK
  <2> QED
    BY <2>2, <2>3
<1>1. ASSUME NEW c \in Cluster, ApplyCluster(c) PROVE Shape'
  <2>1. PICK ps \in SUBSET {p \in Pool : ClusterOf[p] = c} : \E f \in [ps -> PoolSpecs] :
          spec' = [p \in Pool |-> IF p \in ps THEN f[p] ELSE spec[p]]
    BY <1>1 DEF ApplyCluster
  <2>2. PICK f \in [ps -> PoolSpecs] :
          spec' = [p \in Pool |-> IF p \in ps THEN f[p] ELSE spec[p]]
    BY <2>1
  <2>3. \A p \in ps : f[p] \in NodePool
    BY <2>2, PoolSpecsType
  <2>4. /\ spec' \in [Pool -> NodePool \union {None}]
        /\ \A p \in Pool : spec[p] # None => spec'[p] # None
    BY <2>2, <2>3, <1>a, <1>b
  <2>5. cluster' \in [Cluster -> ClusterRecord]
    BY <1>1, <1>a DEF ApplyCluster, ClusterRecord, ClusterState
  <2> QED
    BY <1>1, <1>c, <2>4, <2>5 DEF ApplyCluster
<1>2. ASSUME NEW c \in Cluster, DecommissionCluster(c) PROVE Shape'
  <2>1. cluster' \in [Cluster -> ClusterRecord]
    BY <1>2, <1>a DEF DecommissionCluster, ClusterRecord
  <2> QED
    BY <1>2, <1>a, <1>c, <2>1 DEF DecommissionCluster
<1>3. ASSUME NEW p \in Pool, ScalePool(p) PROVE Shape'
  <2>1. PICK s \in PoolSpecs : spec' = [spec EXCEPT ![p].desired = s.desired]
    BY <1>3 DEF ScalePool
  <2>2. spec[p] \in NodePool /\ s.desired \in Nat
    BY <1>3, <1>a, PoolSpecsType DEF ScalePool, NodePool
  <2>3. [spec[p] EXCEPT !.desired = s.desired] \in NodePool
    BY <2>2 DEF NodePool
  <2>4. /\ spec' \in [Pool -> NodePool \union {None}]
        /\ \A q \in Pool : spec[q] # None => spec'[q] # None
    BY <2>1, <2>3, <1>a, <1>b
  <2> QED
    BY <1>3, <1>a, <1>c, <2>4 DEF ScalePool
<1>4. ASSUME NEW p \in Pool, RollingUpdate(p) PROVE Shape'
  <2>1. PICK i \in Image : spec' = [spec EXCEPT ![p].image = i]
    BY <1>4 DEF RollingUpdate
  <2>2. spec[p] \in NodePool
    BY <1>4, <1>a DEF RollingUpdate
  <2>3. [spec[p] EXCEPT !.image = i] \in NodePool
    BY <2>2 DEF NodePool
  <2>4. /\ spec' \in [Pool -> NodePool \union {None}]
        /\ \A q \in Pool : spec[q] # None => spec'[q] # None
    BY <2>1, <2>3, <1>a, <1>b
  <2> QED
    BY <1>4, <1>a, <1>c, <2>4 DEF RollingUpdate
<1>5. \A r \in NodeRecord, s \in Signal :
        /\ [r EXCEPT !.signal = s] \in NodeRecord
        /\ [r EXCEPT !.signal = s].state = r.state
        /\ [r EXCEPT !.signal = s].pool = r.pool
  BY DEF NodeRecord
<1>6. ASSUME NEW n \in NodeId, ReportHealth(n) PROVE Shape'
  <2>1. PICK s \in Reports : Put(n, [node[n] EXCEPT !.signal = s])
    BY <1>6 DEF ReportHealth
  <2>2. s \in Signal
    BY ReportsType DEF Signal
  <2> QED
    BY <1>6, <1>5, <1>a, <1>d, <2>1, <2>2 DEF ReportHealth
<1>7. ASSUME NEW n \in NodeId, HeartbeatExpires(n) PROVE Shape'
  <2>1. "stale" \in Signal
    BY DEF Signal
  <2>2. node[n].state # "ABSENT"
    BY <1>7 DEF HeartbeatExpires, NodeShape, Absent
  <2> QED
    BY <1>7, <1>5, <1>a, <1>d, <2>1, <2>2 DEF HeartbeatExpires
<1>8. ASSUME NEW n \in NodeId, ForceDecommissionNode(n) PROVE Shape'
  <2>1. TypeOK
    BY DEF Shape
  <2> QED
    BY <1>8, <1>a, <1>c, <1>d, <2>1, ForceEffect
<1> QED
  BY <1>1, <1>2, <1>3, <1>4, <1>6, <1>7, <1>8 DEF Operator

\* Crashes.
LEMMA ShapeFailure ==
  ASSUME Shape, Failure
  PROVE  Shape'
<1> USE DEF Shape
<1>a. /\ cluster \in [Cluster -> ClusterRecord]
      /\ spec \in [Pool -> NodePool \union {None}]
      /\ fleet \in [Provider -> [NodeId -> FleetStatus]]
  BY DEF TypeOK
<1>b. ASSUME node' \in [NodeId -> NodeRecord], NodeShape', tick' = Idle,
             UNCHANGED <<cluster, spec>>, fleet' \in [Provider -> [NodeId -> FleetStatus]]
      PROVE  Shape'
  BY <1>a, <1>b, IdleShape, GlobalMaxType DEF TypeOK, TickShape, RateShape, PoolPhases
<1>1. CASE Crash
  BY <1>1, <1>a, <1>b, ReloadKeepsNodes DEF Crash, Restart
<1>2. ASSUME NEW n \in NodeId, CrashInStage(n) PROVE Shape'
  <2> DEFINE s == spec[node[n].pool]
  <2>1. node[n].state # "ABSENT" /\ s \in NodePool
    BY <1>2, <1>a DEF CrashInStage, NodeShape
  <2>2. s.provider \in Provider
    BY <2>1 DEF NodePool
  <2>3. fleet' \in [Provider -> [NodeId -> FleetStatus]]
    <3>1. CASE \E out \in CreateOutcomes(n, s) : fleet' = [fleet EXCEPT ![s.provider][n] = out]
      BY <3>1, <1>a, <2>1, CreateOutcomesType
    <3>2. CASE fleet' = InstanceDeleted(n, node[n], s)
      BY <3>2, <1>a, <2>2 DEF InstanceDeleted, FleetStatus
    <3> QED
      BY <1>2, <3>1, <3>2 DEF CrashInStage
  <2> QED
    BY <1>2, <1>b, <2>3, ReloadKeepsNodes DEF CrashInStage, Restart
<1>3. ASSUME NEW n \in NodeId, CrashInCreate(n) PROVE Shape'
  <2>1. tick.pool \in Pool /\ spec[tick.pool] # None /\ UNCHANGED spec
    BY <1>3 DEF CrashInCreate, TickShape, PoolPhases
  <2>2. Reloaded \in [NodeId -> NodeRecord]
    <3>1. \A r \in NodeRecord : [r EXCEPT !.baseline = FALSE] \in NodeRecord
      BY DEF NodeRecord
    <3> QED
      BY <3>1 DEF Reloaded, TypeOK
  <2>3. node' \in [NodeId -> NodeRecord]
    BY <1>3, <2>1, <2>2, ConstantRecords DEF CrashInCreate
  <2>4. NodeShape'
    <3> SUFFICES ASSUME NEW m \in NodeId
                 PROVE  IF node'[m].state = "ABSENT" THEN node'[m] = Absent
                        ELSE node'[m].pool \in Pool /\ spec'[node'[m].pool] # None
      BY DEF NodeShape
    <3>1. CASE m = n
      <4>1. node'[m] = Requested(tick.pool)
        BY <1>3, <2>2, <3>1 DEF CrashInCreate
      <4> QED
        BY <4>1, <2>1, ConstantRecords
    <3>2. CASE m # n
      <4>1. node'[m] = [node[m] EXCEPT !.baseline = FALSE]
        BY <1>3, <3>2 DEF CrashInCreate, Reloaded
      <4>2. \A r \in NodeRecord :
              /\ [r EXCEPT !.baseline = FALSE].state = r.state
              /\ [r EXCEPT !.baseline = FALSE].pool = r.pool
              /\ r.baseline = FALSE => [r EXCEPT !.baseline = FALSE] = r
        BY DEF NodeRecord
      <4>3. /\ node'[m].state = node[m].state /\ node'[m].pool = node[m].pool
            /\ node[m].baseline = FALSE => node'[m] = node[m]
        BY <4>1, <4>2 DEF TypeOK
      <4>4. Absent.baseline = FALSE
        BY DEF Absent
      <4>5. CASE node[m].state = "ABSENT"
        BY <4>3, <4>4, <4>5 DEF NodeShape
      <4>6. CASE node[m].state # "ABSENT"
        BY <4>3, <4>6, <2>1 DEF NodeShape
      <4> QED
        BY <4>5, <4>6
    <3> QED
      BY <3>1, <3>2
  <2>5. fleet' \in [Provider -> [NodeId -> FleetStatus]]
    BY <1>3, <1>a DEF CrashInCreate, Recycled, FleetStatus
  <2> QED
    BY <1>3, <1>b, <2>1, <2>3, <2>4, <2>5 DEF CrashInCreate
<1> QED
  BY <1>1, <1>2, <1>3 DEF Failure

\* Every step keeps Shape.
LEMMA ShapeStep == Shape /\ [Next]_vars => Shape'
<1> SUFFICES ASSUME Shape, [Next]_vars PROVE Shape'
  OBVIOUS
<1>1. CASE Tick
  BY <1>1, ShapeBookkeeping, ShapeNodeSteps DEF Tick
<1>2. CASE Operator
  BY <1>2, ShapeOperator
<1>3. CASE Failure
  BY <1>3, ShapeFailure
<1>4. CASE UNCHANGED vars
  BY <1>4 DEF vars, Shape, TypeOK, TickShape, NodeShape, RateShape
<1> QED
  BY <1>1, <1>2, <1>3, <1>4 DEF Next

LEMMA ShapeAlways == Spec => []Shape
BY ShapeInit, ShapeStep, PTL DEF Spec

\* TypeOK holds whatever operators, providers and crashes do: every budget the
\* reconciler computes is a natural number (_reconcile_pool).
THEOREM TypeCorrect == Spec => []TypeOK
<1>1. Shape => TypeOK
  BY DEF Shape
<1> QED
  BY <1>1, ShapeAlways, PTL

\* The self-heals of one pass over a cluster never exceed
\* global_max_replacements, however many pools share it (_reconcile_cluster).
THEOREM RateLimitHolds == Spec => []RateLimited
<1>1. Shape => RateLimited
  BY GlobalMaxType DEF Shape, TypeOK, TickRecord, RateShape, RateLimited
<1> QED
  BY <1>1, ShapeAlways, PTL

-----------------------------------------------------------------------------
(* What one step does to one node *)

\* A stage follows the table; none but the end of a drain leads to teardown, and none
\* but the creation of the instance and the gate fails.
LEMMA StageMoves ==
  ASSUME TypeOK, NEW n \in NodeId, NEW r \in NodeRecord, NEW s \in NodePool, Stage(n, r, s)
  PROVE  /\ \A m \in NodeId \ {n} : node'[m] = node[m]
         /\ node'[n].pool = r.pool
         /\ node'[n].state \in NODE_TRANSITIONS[r.state]
         /\ r.state \in InFlightStates
         /\ node'[n].state \in DestructiveStates => r.state = "DRAINING"
         /\ node'[n].state = "FAILED" => r.state \in {"REQUESTED", "REGISTERING"}
<1>1. {"FAILED", "PROVISIONING", "BOOTSTRAPPING", "REGISTERING", "HEALTHY",
       "DECOMMISSIONING", "TERMINATED"} \subseteq NodeState
  BY DEF NodeState
<1>2. ASSUME NEW r1 \in NodeRecord, NEW dst \in NodeState, Put(n, transition(r1, dst)),
             r1.pool = r.pool
      PROVE  /\ \A m \in NodeId \ {n} : node'[m] = node[m]
             /\ node'[n].pool = r.pool
             /\ node'[n].state = dst
  <2>1. node' = [node EXCEPT ![n] = Forget(transition(r1, dst))]
    BY <1>2 DEF Put
  <2>2. /\ Forget(transition(r1, dst)).pool = r.pool
        /\ Forget(transition(r1, dst)).state = dst
    BY <1>2, TransitionKeeps, ForgetKeeps
  <2> QED
    BY <2>1, <2>2 DEF TypeOK
<1>3. s.provider \in Provider /\ s.image \in Image
  BY DEF NodePool
<1>4. /\ [r EXCEPT !.inst = s.provider] \in NodeRecord
      /\ [r EXCEPT !.baseline = TRUE] \in NodeRecord
      /\ [r EXCEPT !.image = s.image, !.attested = TRUE] \in NodeRecord
      /\ [r EXCEPT !.secure = TRUE] \in NodeRecord
      /\ [r EXCEPT !.inst = s.provider].pool = r.pool
      /\ [r EXCEPT !.baseline = TRUE].pool = r.pool
      /\ [r EXCEPT !.image = s.image, !.attested = TRUE].pool = r.pool
      /\ [r EXCEPT !.secure = TRUE].pool = r.pool
  BY <1>3 DEF NodeRecord
<1> DEFINE Goal == /\ \A m \in NodeId \ {n} : node'[m] = node[m]
                   /\ node'[n].pool = r.pool
                   /\ node'[n].state \in NODE_TRANSITIONS[r.state]
                   /\ r.state \in InFlightStates
                   /\ node'[n].state \in DestructiveStates => r.state = "DRAINING"
                   /\ node'[n].state = "FAILED" => r.state \in {"REQUESTED", "REGISTERING"}
<1>5. ASSUME NEW r1 \in NodeRecord, NEW dst \in NodeState, Put(n, transition(r1, dst)),
             r1.pool = r.pool, r.state \in InFlightStates,
             dst \in NODE_TRANSITIONS[r.state],
             dst \in DestructiveStates => r.state = "DRAINING",
             dst = "FAILED" => r.state \in {"REQUESTED", "REGISTERING"}
      PROVE  Goal
  BY <1>5, <1>2
<1>6. CASE CreateInstance(n, r, s)
  <2>1. /\ r.state = "REQUESTED"
        /\ \/ Put(n, transition(r, "FAILED"))
           \/ Put(n, transition([r EXCEPT !.inst = s.provider], "PROVISIONING"))
    BY <1>6 DEF CreateInstance
  <2>2. /\ {"FAILED", "PROVISIONING"} \subseteq NODE_TRANSITIONS["REQUESTED"]
        /\ {"FAILED", "PROVISIONING"} \intersect DestructiveStates = {}
        /\ "REQUESTED" \in InFlightStates
    BY DEF NODE_TRANSITIONS, DestructiveStates, InFlightStates
  <2> QED
    BY <2>1, <2>2, <1>1, <1>4, <1>5
<1>7. CASE ApplyBaseline(n, r)
  <2>1. /\ r.state = "PROVISIONING"
        /\ Put(n, transition([r EXCEPT !.baseline = TRUE], "BOOTSTRAPPING"))
    BY <1>7 DEF ApplyBaseline, BaselineApplied
  <2>2. /\ "BOOTSTRAPPING" \in NODE_TRANSITIONS["PROVISIONING"]
        /\ "BOOTSTRAPPING" \notin DestructiveStates
        /\ "PROVISIONING" \in InFlightStates
    BY DEF NODE_TRANSITIONS, DestructiveStates, InFlightStates
  <2> QED
    BY <2>1, <2>2, <1>1, <1>4, <1>5
<1>8. CASE Bootstrap(n, r, s)
  <2>1. /\ r.state = "BOOTSTRAPPING"
        /\ Put(n, transition([r EXCEPT !.image = s.image, !.attested = TRUE], "REGISTERING"))
    BY <1>8 DEF Bootstrap, Bootstrapped
  <2>2. /\ "REGISTERING" \in NODE_TRANSITIONS["BOOTSTRAPPING"]
        /\ "REGISTERING" \notin DestructiveStates
        /\ "BOOTSTRAPPING" \in InFlightStates
    BY DEF NODE_TRANSITIONS, DestructiveStates, InFlightStates
  <2> QED
    BY <2>1, <2>2, <1>1, <1>4, <1>5
<1>9. CASE Register(n, r, s)
  <2>1. /\ r.state = "REGISTERING"
        /\ \/ Put(n, transition([r EXCEPT !.secure = TRUE], "HEALTHY"))
           \/ Put(n, transition(r, "FAILED"))
    BY <1>9 DEF Register
  <2>2. /\ {"FAILED", "HEALTHY"} \subseteq NODE_TRANSITIONS["REGISTERING"]
        /\ {"FAILED", "HEALTHY"} \intersect DestructiveStates = {}
        /\ "REGISTERING" \in InFlightStates
    BY DEF NODE_TRANSITIONS, DestructiveStates, InFlightStates
  <2> QED
    BY <2>1, <2>2, <1>1, <1>4, <1>5
<1>10. CASE DrainStep(n, r)
  <2>1. r.state = "DRAINING" /\ Put(n, transition(r, "DECOMMISSIONING"))
    BY <1>10 DEF DrainStep
  <2>2. "DECOMMISSIONING" \in NODE_TRANSITIONS["DRAINING"] /\ "DRAINING" \in InFlightStates
    BY DEF NODE_TRANSITIONS, InFlightStates
  <2> QED
    BY <2>1, <2>2, <1>1, <1>5
<1>11. CASE DecommissionStep(n, r, s)
  <2>1. r.state = "DECOMMISSIONING" /\ Put(n, transition(r, "TERMINATED"))
    BY <1>11 DEF DecommissionStep
  <2>2. /\ "TERMINATED" \in NODE_TRANSITIONS["DECOMMISSIONING"]
        /\ "TERMINATED" \notin DestructiveStates
        /\ "DECOMMISSIONING" \in InFlightStates
    BY DEF NODE_TRANSITIONS, DestructiveStates, InFlightStates
  <2> QED
    BY <2>1, <2>2, <1>1, <1>5
<1> QED
  BY <1>6, <1>7, <1>8, <1>9, <1>10, <1>11 DEF Stage

\* The changes a step of the tick can make to a node that is there.
Created(n) ==
  /\ tick.pc = "create" /\ node[n] = Absent
  /\ node'[n].state = "REQUESTED" /\ node'[n].pool = tick.pool

Collected(n) ==
  /\ tick.pc = "gc" /\ node[n].state = "TERMINATED"
  /\ node'[n] = Absent

Moved(n) ==
  /\ node[n].state # "ABSENT" /\ node'[n].pool = node[n].pool
  /\ node'[n].state \in NODE_TRANSITIONS[node[n].state]

DrainedOut(n) ==
  /\ tick.pc = "teardown" /\ n \in tick.nodes
  /\ node[n].state \in {"HEALTHY", "UPDATING", "FAILED"}
  /\ node'[n].pool = node[n].pool
  /\ node'[n].state = "DECOMMISSIONING"

\* Only a drain loop with budget left starts a drain in a serving cluster.
MayDrain(n) == tick.pc \in {"heal", "roll", "down"} /\ n \in tick.nodes /\ tick.budget > 0

LEMMA NodeStep ==
  ASSUME Shape, WorkShape, NEW n \in NodeId, PerNode(n)
  PROVE  /\ \A m \in NodeId \ {n} : node'[m] = node[m]
         /\ \/ Created(n)
            \/ Collected(n)
            \/ Moved(n) /\ tick.pc \notin {"create", "gc"}
            \/ DrainedOut(n)
            \/ /\ tick.pc \in {"heal", "roll", "down"}
               /\ node'[n].state = node[n].state /\ node'[n].pool = node[n].pool
         /\ StartsDrain(n) => tick.pc = "teardown" \/ MayDrain(n)
<1>a. TypeOK /\ node[n] \in NodeRecord
  BY DEF Shape, TypeOK
<1>b. ASSUME NEW r \in NodeRecord, Put(n, r)
      PROVE  /\ \A m \in NodeId \ {n} : node'[m] = node[m]
             /\ node'[n].state = r.state /\ node'[n].pool = r.pool
  BY <1>a, <1>b, ForgetKeeps DEF Put, TypeOK
<1>1. CASE DetectFailure(n)
  <2>1. /\ node[n].state = "HEALTHY" /\ tick.pc = "detect"
        /\ Put(n, transition(node[n], "FAILED"))
    BY <1>1 DEF DetectFailure, Suspect
  <2>2. /\ transition(node[n], "FAILED") \in NodeRecord
        /\ transition(node[n], "FAILED").state = "FAILED"
        /\ transition(node[n], "FAILED").pool = node[n].pool
    BY <1>a, TransitionKeeps DEF NodeState
  <2>3. "FAILED" \in NODE_TRANSITIONS["HEALTHY"] /\ "FAILED" \notin DestructiveStates
    BY DEF NODE_TRANSITIONS, DestructiveStates
  <2> QED
    BY <2>1, <2>2, <2>3, <1>b DEF Moved, StartsDrain
<1>2. CASE AdvanceNode(n)
  <2>1. tick.pc = "advance" /\ Stage(n, node[n], spec[tick.pool]) /\ spec[tick.pool] \in NodePool
    BY <1>2 DEF AdvanceNode, Shape, TypeOK, TickShape, PoolPhases
  <2>2. /\ \A m \in NodeId \ {n} : node'[m] = node[m]
        /\ node'[n].pool = node[n].pool
        /\ node'[n].state \in NODE_TRANSITIONS[node[n].state]
        /\ node[n].state \in InFlightStates
        /\ node'[n].state \in DestructiveStates => node[n].state = "DRAINING"
    BY <2>1, <1>a, StageMoves
  <2>3. "DRAINING" \in DestructiveStates /\ "ABSENT" \notin InFlightStates
    BY DEF DestructiveStates, InFlightStates
  <2> QED
    BY <2>1, <2>2, <2>3 DEF Moved, StartsDrain
<1>3. CASE HealNode(n) \/ RollNode(n) \/ ScaleDownNode(n)
  <2>1. /\ Put(n, drainStart(node[n]))
        /\ tick.pc \in {"heal", "roll", "down"} /\ n \in tick.nodes /\ tick.budget > 0
    BY <1>3 DEF HealNode, RollNode, ScaleDownNode, DrainOne
  <2>2. "DRAINING" \in NODE_TRANSITIONS["HEALTHY"] /\ "DRAINING" \in NODE_TRANSITIONS["FAILED"]
        /\ "DRAINING" \in NODE_TRANSITIONS["UPDATING"]
    BY DEF NODE_TRANSITIONS
  <2>3. /\ \A m \in NodeId \ {n} : node'[m] = node[m]
        /\ node'[n].state = drainStart(node[n]).state /\ node'[n].pool = node[n].pool
    BY <2>1, <1>a, <1>b, DrainStartKeeps
  <2>4. CASE node[n].state \in {"HEALTHY", "FAILED", "UPDATING"}
    BY <2>1, <2>2, <2>3, <2>4, <1>a, DrainStartKeeps DEF Moved, MayDrain
  <2>5. CASE node[n].state \notin {"HEALTHY", "FAILED", "UPDATING"}
    BY <2>1, <2>3, <2>5, <1>a, DrainStartKeeps DEF StartsDrain
  <2> QED
    BY <2>4, <2>5
<1>4. CASE CreateNode(n)
  <2>1. /\ tick.pc = "create" /\ node[n] = Absent /\ Put(n, Requested(tick.pool))
        /\ tick.pool \in Pool
    BY <1>4 DEF CreateNode, FreshId, Shape, TickShape, PoolPhases
  <2>2. "REQUESTED" \notin DestructiveStates
    BY DEF DestructiveStates
  <2> QED
    BY <2>1, <2>2, <1>b, ConstantRecords DEF Created, StartsDrain
<1>5. CASE TeardownNode(n)
  <2> DEFINE r == drainStart(node[n])
  <2>1. tick.pc = "teardown" /\ n \in tick.nodes /\ Stage(n, r, spec[node[n].pool])
    BY <1>5 DEF TeardownNode
  <2>2. spec[node[n].pool] \in NodePool
    <3>1. node[n].pool \in Pool
      BY <2>1 DEF WorkShape
    <3>2. node[n].state # "ABSENT"
      BY <3>1, NoneIsFresh DEF Shape, NodeShape, Absent
    <3> QED
      BY <3>2 DEF Shape, NodeShape, TypeOK
  <2>3. /\ \A m \in NodeId \ {n} : node'[m] = node[m]
        /\ node'[n].pool = r.pool
        /\ node'[n].state \in NODE_TRANSITIONS[r.state]
        /\ r.state \in InFlightStates
    <3>1. r \in NodeRecord
      BY <1>a, DrainStartKeeps
    <3> HIDE DEF r
    <3> QED
      BY <3>1, <2>1, <2>2, <1>a, StageMoves
  <2>4. "ABSENT" \notin InFlightStates
    BY DEF InFlightStates
  <2>5. CASE node[n].state \in {"HEALTHY", "FAILED", "UPDATING"}
    <3>1. r.state = "DRAINING" /\ r.pool = node[n].pool
      BY <2>5, <1>a, DrainStartKeeps
    <3>2. node'[n].state \in {"DECOMMISSIONING", "FAILED"}
      BY <3>1, <2>3 DEF NODE_TRANSITIONS
    <3>3. node'[n].state = "DECOMMISSIONING"
      <4>1. DrainStep(n, r)
        BY <3>1, <2>1 DEF Stage, CreateInstance, ApplyBaseline, Bootstrap, Register,
                          DrainStep, DecommissionStep
      <4>2. Put(n, transition(r, "DECOMMISSIONING")) /\ r \in NodeRecord
        BY <4>1, <1>a, DrainStartKeeps DEF DrainStep
      <4> HIDE DEF r
      <4> QED
        BY <4>2, <1>b, TransitionKeeps DEF NodeState
    <3> QED
      BY <3>1, <3>3, <2>1, <2>3, <2>5 DEF DrainedOut
  <2>6. CASE node[n].state \notin {"HEALTHY", "FAILED", "UPDATING"}
    <3>1. r = node[n]
      BY <2>6, <1>a, DrainStartKeeps DEF NodeState
    <3> QED
      BY <3>1, <2>1, <2>3, <2>4 DEF Moved
  <2> QED
    BY <2>5, <2>6
<1>6. CASE GcNode(n)
  <2>1. /\ tick.pc = "gc" /\ node[n].state = "TERMINATED"
        /\ node' = [node EXCEPT ![n] = Absent]
    BY <1>6, AbsentKept DEF GcNode, Put
  <2>2. Absent.state \notin DestructiveStates
    BY DEF Absent, DestructiveStates
  <2> QED
    BY <2>1, <2>2, <1>a DEF Collected, StartsDrain, TypeOK
<1> QED
  BY <1>1, <1>2, <1>3, <1>4, <1>5, <1>6 DEF PerNode

-----------------------------------------------------------------------------
(* WorkShape is inductive *)

\* A node step moves the tick along inside its phase and retires no cluster.
LEMMA NodeStepFrame ==
  ASSUME Shape, NEW n \in NodeId, PerNode(n)
  PROVE  /\ tick'.pc = tick.pc /\ tick'.pool = tick.pool /\ tick'.cluster = tick.cluster
         /\ tick'.pools = tick.pools /\ tick'.nodes \subseteq tick.nodes
         /\ UNCHANGED spec
         /\ \A c \in Cluster : /\ cluster'[c].desired = cluster[c].desired
                               /\ Declared(c)' <=> Declared(c)
<1>1. tick \in TickRecord /\ cluster \in [Cluster -> ClusterRecord]
  BY DEF Shape, TypeOK
<1>2. CASE CreateNode(n)
  <2>1. /\ tick' = [tick EXCEPT !.budget = @ - 1] /\ UNCHANGED spec
        /\ cluster' = [cluster EXCEPT ![tick.cluster].state =
                         IF @ = "ACTIVE" THEN "SCALING" ELSE @]
        /\ tick.cluster \in Cluster
    BY <1>2 DEF CreateNode, Shape, TickShape, PoolPhases
  <2>2. \A c \in Cluster : /\ cluster'[c].desired = cluster[c].desired
                           /\ Declared(c)' <=> Declared(c)
    BY <2>1, <1>1 DEF ClusterRecord, Declared
  <2> QED
    BY <2>1, <2>2, <1>1 DEF TickRecord
<1>3. CASE ~CreateNode(n)
  <2>1. UNCHANGED <<cluster, spec>>
    BY <1>3 DEF PerNode, DetectFailure, AdvanceNode, HealNode, RollNode, ScaleDownNode,
                TeardownNode, GcNode, DrainOne
  <2>2. \/ UNCHANGED tick
        \/ tick' = [tick EXCEPT !.nodes = @ \ {n}]
        \/ tick' = [tick EXCEPT !.nodes = @ \ {n}, !.budget = @ - 1]
        \/ tick' = [tick EXCEPT !.nodes = @ \ {n}, !.budget = @ - 1, !.used = @ + 1]
    BY <1>3 DEF PerNode, DetectFailure, AdvanceNode, HealNode, RollNode, ScaleDownNode,
                TeardownNode, GcNode
  <2> QED
    BY <2>1, <2>2, <1>1 DEF TickRecord, Declared
<1> QED
  BY <1>2, <1>3

\* While a phase is under way its nodes keep their pool.
LEMMA PoolKept ==
  ASSUME Shape, WorkShape, NEW n \in NodeId, PerNode(n),
         tick.pc \in PoolPhases \union {"teardown"}, NEW m \in tick.nodes
  PROVE  node'[m].pool = node[m].pool
<1>1. m \in NodeId /\ node[m].pool \in Pool
  BY DEF WorkShape, Shape, TypeOK, TickRecord, TickShape
<1>2. node[m] # Absent
  BY <1>1, NoneIsFresh DEF Absent
<1> QED
  BY <1>1, <1>2, NodeStep DEF Created, Collected, Moved, DrainedOut, PoolPhases

LEMMA WorkNodeSteps ==
  ASSUME Shape, WorkShape, NEW n \in NodeId, PerNode(n)
  PROVE  WorkShape'
<1>1. tick.pc \in PoolPhases \union {"pools", "teardown"} => tick.cluster \in Cluster
  BY DEF Shape, TickShape
<1> QED
  BY <1>1, NodeStepFrame, PoolKept DEF WorkShape

LEMMA WorkBookkeeping ==
  ASSUME Shape, WorkShape,
         \/ BeginTick \/ EndDetect
         \/ \E c \in Cluster : LeavePlanned(c) \/ SkipCluster(c) \/ StartPools(c)
                               \/ StartTeardown(c)
         \/ \E p \in Pool : StartPool(p)
         \/ BeginHeal \/ BeginRoll \/ BeginScale \/ FinishPool \/ FinishCluster
         \/ FinishTeardown \/ BeginGc \/ EndTick
  PROVE  WorkShape'
<1>a. tick \in TickRecord /\ cluster \in [Cluster -> ClusterRecord]
  BY DEF Shape, TypeOK
<1>b. UNCHANGED <<node, spec>>
  BY DEF BeginTick, EndDetect, LeavePlanned, SkipCluster, StartPools, StartTeardown, StartPool,
         BeginHeal, BeginRoll, BeginScale, FinishPool, FinishCluster, FinishTeardown, BeginGc,
         EndTick
\* Phases about which WorkShape says nothing.
<1>c. ASSUME tick'.pc \in {"idle", "detect", "clusters", "gc"}
      PROVE  WorkShape'
  BY <1>c DEF WorkShape, PoolPhases
\* Phases of the pool that is being worked on.
<1>d. ASSUME tick.pc \in PoolPhases, tick'.pc \in PoolPhases, tick'.pool = tick.pool,
             tick'.cluster = tick.cluster, tick'.pools = tick.pools, UNCHANGED cluster,
             \A n \in tick'.nodes : node[n].pool = tick.pool
      PROVE  WorkShape'
  BY <1>b, <1>d DEF WorkShape, PoolPhases
<1>1. CASE BeginTick \/ EndDetect \/ FinishCluster \/ FinishTeardown \/ BeginGc \/ EndTick
           \/ \E c \in Cluster : LeavePlanned(c) \/ SkipCluster(c)
  <2>1. CASE BeginTick \/ EndTick
    BY <2>1, <1>c DEF BeginTick, EndTick, Idle
  <2>2. CASE EndDetect \/ FinishCluster \/ FinishTeardown \/ BeginGc
    BY <2>2, <1>a, <1>c DEF EndDetect, FinishCluster, FinishTeardown, BeginGc, TickRecord
  <2>3. CASE \E c \in Cluster : LeavePlanned(c) \/ SkipCluster(c)
    BY <2>3, <1>a, <1>c DEF LeavePlanned, SkipCluster, TickRecord
  <2> QED
    BY <1>1, <2>1, <2>2, <2>3
<1>2. ASSUME NEW c \in Cluster, StartPools(c) PROVE WorkShape'
  <2>1. /\ tick'.pc = "pools" /\ tick'.cluster = c /\ tick'.pools = PoolsOf(c)
        /\ cluster[c].desired = "ACTIVE" /\ UNCHANGED cluster
    BY <1>2, <1>a DEF StartPools, TickRecord
  <2> QED
    BY <2>1 DEF WorkShape, PoolPhases, PoolsOf
<1>3. ASSUME NEW c \in Cluster, StartTeardown(c) PROVE WorkShape'
  <2>1. /\ tick'.pc = "teardown" /\ tick'.cluster = c /\ tick'.nodes = TeardownTargets(c)
        /\ cluster[c].desired = "DECOMMISSIONED"
        /\ cluster' = [cluster EXCEPT ![c].state = "DRAINING"]
    BY <1>3, <1>a DEF StartTeardown, TickRecord
  <2>2. cluster'[c].desired = "DECOMMISSIONED"
    BY <2>1, <1>a DEF ClusterRecord
  <2>3. \A n \in TeardownTargets(c) : node[n].pool \in Pool /\ ClusterOf[node[n].pool] = c
    BY DEF TeardownTargets, InState, PoolsOf
  <2> QED
    BY <2>1, <2>2, <2>3, <1>b DEF WorkShape, PoolPhases
<1>4. ASSUME NEW p \in Pool, StartPool(p) PROVE WorkShape'
  <2>1. /\ tick.pc = "pools" /\ p \in tick.pools /\ UNCHANGED cluster
        /\ tick'.pc = "advance" /\ tick'.pool = p /\ tick'.cluster = tick.cluster
        /\ tick'.pools = tick.pools \ {p} /\ tick'.nodes = InState(p, InFlightStates)
    BY <1>4, <1>a DEF StartPool, TickRecord
  <2> QED
    BY <2>1, <1>b DEF WorkShape, PoolPhases, InState
<1>5. CASE BeginHeal
  <2>1. /\ tick.pc = "advance" /\ UNCHANGED cluster /\ tick'.pc = "heal"
        /\ tick'.pool = tick.pool /\ tick'.cluster = tick.cluster
        /\ tick'.pools = tick.pools /\ tick'.nodes = InState(tick.pool, {"FAILED"})
    BY <1>5, <1>a DEF BeginHeal, TickRecord
  <2> QED
    BY <2>1, <1>d DEF PoolPhases, InState
<1>6. CASE BeginRoll
  <2>1. /\ tick.pc = "heal" /\ UNCHANGED cluster /\ tick'.pc = "roll"
        /\ tick'.pool = tick.pool /\ tick'.cluster = tick.cluster
        /\ tick'.pools = tick.pools /\ tick'.nodes = Stale(tick.pool)
    BY <1>6, <1>a DEF BeginRoll, TickRecord
  <2> QED
    BY <2>1, <1>d DEF PoolPhases, InState, Stale
<1>7. CASE BeginScale
  <2>1. /\ tick.pc = "roll" /\ UNCHANGED cluster /\ tick'.pc \in {"create", "down"}
        /\ tick'.pool = tick.pool /\ tick'.cluster = tick.cluster
        /\ tick'.pools = tick.pools
        /\ tick'.nodes = {} \/ tick'.nodes = InState(tick.pool, {"HEALTHY"})
    BY <1>7, <1>a DEF BeginScale, TickRecord
  <2> QED
    BY <2>1, <1>d DEF PoolPhases, InState
<1>8. CASE FinishPool
  <2>1. /\ tick.pc \in PoolPhases /\ UNCHANGED cluster /\ tick'.pc = "pools"
        /\ tick'.cluster = tick.cluster /\ tick'.pools = tick.pools
    BY <1>8, <1>a DEF FinishPool, TickRecord, PoolPhases
  <2> QED
    BY <2>1 DEF WorkShape, PoolPhases
<1> QED
  BY <1>1, <1>2, <1>3, <1>4, <1>5, <1>6, <1>7, <1>8

\* Operators act between ticks, and a crash ends the tick.
LEMMA IdleNext ==
  ASSUME Operator \/ Failure
  PROVE  tick'.pc = "idle"
BY IdleShape
DEF Operator, ApplyCluster, DecommissionCluster, ScalePool, RollingUpdate, ReportHealth,
    HeartbeatExpires, ForceDecommissionNode, Failure, Crash, CrashInStage, CrashInCreate,
    Restart

LEMMA WorkElsewhere ==
  ASSUME Operator \/ Failure
  PROVE  WorkShape' /\ BudgetShape'
BY IdleNext DEF WorkShape, BudgetShape, PoolPhases

LEMMA WorkStep == Shape /\ WorkShape /\ [Next]_vars => WorkShape'
<1> SUFFICES ASSUME Shape, WorkShape, [Next]_vars PROVE WorkShape'
  OBVIOUS
<1>1. CASE Tick
  BY <1>1, WorkNodeSteps, WorkBookkeeping DEF Tick
<1>2. CASE Operator \/ Failure
  BY <1>2, WorkElsewhere
<1>3. CASE UNCHANGED vars
  BY <1>3 DEF vars, WorkShape
<1> QED
  BY <1>1, <1>2, <1>3 DEF Next

LEMMA WorkInit == Init => WorkShape
BY IdleShape DEF Init, WorkShape, PoolPhases

LEMMA WorkAlways == Spec => []WorkShape
BY WorkInit, WorkStep, ShapeAlways, PTL DEF Spec

-----------------------------------------------------------------------------
(* Counting the nodes on their way out *)

\* Where only n may have changed, the count grows by one at most, and not at
\* all when n was counted before or is not counted now.
LEMMA CountStep ==
  ASSUME TypeOK, NEW n \in NodeId, NEW p,
         \A m \in NodeId \ {n} : node'[m] = node[m]
  PROVE  /\ Destructive(p)' \in Nat
         /\ Destructive(p)' <= Destructive(p) + 1
         /\ (n \in InState(p, DestructiveStates)' => n \in InState(p, DestructiveStates))
            => Destructive(p)' <= Destructive(p)
         /\ n \notin InState(p, DestructiveStates)' => Destructive(p)' <= Destructive(p)
<1> DEFINE S == InState(p, DestructiveStates)
           T == {m \in NodeId : node'[m].pool = p /\ node'[m].state \in DestructiveStates}
<1>1. /\ Destructive(p) = Cardinality(S) /\ Destructive(p)' = Cardinality(T)
      /\ InState(p, DestructiveStates)' = T
  BY DEF Destructive, InState
<1>2. IsFiniteSet(S) /\ Cardinality(S) \in Nat
  BY InStateFinite
<1>3. IsFiniteSet(T) /\ Cardinality(T) \in Nat
  BY NodeIdFinite, FS_Subset, FS_CardinalityType
<1>4. \A m \in T : m = n \/ m \in S
  BY DEF InState
<1>5. IsFiniteSet(S \union {n}) /\ Cardinality(S \union {n}) <= Cardinality(S) + 1
  <2> HIDE DEF S
  <2>1. /\ IsFiniteSet(S \union {n})
        /\ Cardinality(S \union {n}) = IF n \in S THEN Cardinality(S) ELSE Cardinality(S) + 1
    BY <1>2, FS_AddElement
  <2> QED
    BY <2>1, <1>2
<1>6. Cardinality(T) <= Cardinality(S \union {n})
  <2>1. T \subseteq S \union {n}
    BY <1>4
  <2> QED
    BY <2>1, <1>5, FS_Subset
<1>7. n \notin T \/ n \in S => Cardinality(T) <= Cardinality(S)
  <2> SUFFICES ASSUME n \notin T \/ n \in S PROVE Cardinality(T) <= Cardinality(S)
    OBVIOUS
  <2>1. T \subseteq S
    BY <1>4
  <2> QED
    BY <2>1, <1>2, FS_Subset
<1>8. Cardinality(S \union {n}) \in Nat
  BY <1>5, FS_CardinalityType
<1> HIDE DEF S, T
<1>9. Cardinality(T) <= Cardinality(S) + 1
  BY <1>2, <1>3, <1>5, <1>6, <1>8
<1> QED
  BY <1>1, <1>3, <1>7, <1>9 DEF S

\* A step that starts no drain of a node of p does not raise the count of p.
LEMMA CountKept ==
  ASSUME Shape, WorkShape, NEW n \in NodeId, PerNode(n), NEW p \in Pool,
         ~(node[n].pool = p /\ StartsDrain(n))
  PROVE  Destructive(p)' <= Destructive(p)
<1>1. TypeOK /\ \A m \in NodeId \ {n} : node'[m] = node[m]
  BY NodeStep DEF Shape
<1>2. n \in InState(p, DestructiveStates)' => n \in InState(p, DestructiveStates)
  <2>1. SUFFICES ASSUME node'[n].pool = p, node'[n].state \in DestructiveStates
                 PROVE  node[n].pool = p /\ node[n].state \in DestructiveStates
    BY DEF InState
  <2>2. node'[n].state # "REQUESTED" /\ node'[n] # Absent
    BY <2>1 DEF DestructiveStates, Absent
  <2>3. node'[n].pool = node[n].pool
    BY <2>2, NodeStep DEF Created, Collected, Moved, DrainedOut
  <2> QED
    BY <2>1, <2>3 DEF StartsDrain
<1> QED
  BY <1>1, <1>2, CountStep

-----------------------------------------------------------------------------
(* BudgetShape is inductive *)

\* A budget that is cut to the pool's slack fits when it is not zero.
LEMMA SlackFits ==
  ASSUME NEW p \in Pool, spec[p] \in NodePool, NEW b \in Int, b <= Slack(p), b > 0
  PROVE  Destructive(p) + b <= spec[p].maxUnavailable
<1>1. Destructive(p) \in Nat /\ spec[p].maxUnavailable \in Nat
  BY BudgetTypes DEF NodePool
<1> QED
  BY <1>1 DEF Slack, Positive

LEMMA BudgetNodeSteps ==
  ASSUME Shape, WorkShape, BudgetShape, NEW n \in NodeId, PerNode(n)
  PROVE  BudgetShape'
<1>1. SUFFICES ASSUME tick'.pc \in {"heal", "roll", "down"}, tick'.budget > 0,
                      NEW p, p = tick'.pool
               PROVE  Destructive(p)' + tick'.budget <= spec'[p].maxUnavailable
  BY DEF BudgetShape, Destructive, InState
<1>2. /\ tick.pc \in {"heal", "roll", "down"} /\ p = tick.pool /\ UNCHANGED spec
      /\ tick \in TickRecord /\ p \in Pool
  BY <1>1, NodeStepFrame DEF Shape, TypeOK, TickShape, PoolPhases
<1>3. tick' \in TickRecord /\ tick.budget \in Nat /\ tick'.budget = tick.budget - 1
  <2>1. \/ tick' = [tick EXCEPT !.nodes = @ \ {n}, !.budget = @ - 1]
        \/ tick' = [tick EXCEPT !.nodes = @ \ {n}, !.budget = @ - 1, !.used = @ + 1]
    BY <1>2 DEF PerNode, DetectFailure, AdvanceNode, HealNode, RollNode, ScaleDownNode,
                CreateNode, TeardownNode, GcNode
  <2>2. tick' \in TickRecord
    BY ShapeNodeSteps DEF Shape, TypeOK
  <2> QED
    BY <2>1, <2>2, <1>2 DEF TickRecord
<1>4. Destructive(p) + tick.budget <= spec[p].maxUnavailable
  BY <1>1, <1>2, <1>3 DEF BudgetShape
<1>5. /\ Destructive(p)' \in Nat
      /\ Destructive(p)' <= Destructive(p) + 1
  BY CountStep, NodeStep DEF Shape
<1>6. Destructive(p) \in Nat /\ spec[p].maxUnavailable \in Nat
  <2>1. spec[p] \in NodePool
    BY <1>2 DEF Shape, TypeOK, TickShape, PoolPhases
  <2> QED
    BY <2>1, <1>2, BudgetTypes DEF NodePool
<1> QED
  BY <1>2, <1>3, <1>4, <1>5, <1>6

LEMMA BudgetBookkeeping ==
  ASSUME Shape, BudgetShape,
         \/ BeginTick \/ EndDetect
         \/ \E c \in Cluster : LeavePlanned(c) \/ SkipCluster(c) \/ StartPools(c)
                               \/ StartTeardown(c)
         \/ \E p \in Pool : StartPool(p)
         \/ BeginHeal \/ BeginRoll \/ BeginScale \/ FinishPool \/ FinishCluster
         \/ FinishTeardown \/ BeginGc \/ EndTick
  PROVE  BudgetShape'
<1>a. tick \in TickRecord /\ UNCHANGED <<node, spec>>
  BY DEF Shape, TypeOK, BeginTick, EndDetect, LeavePlanned, SkipCluster, StartPools,
         StartTeardown, StartPool, BeginHeal, BeginRoll, BeginScale, FinishPool,
         FinishCluster, FinishTeardown, BeginGc, EndTick
<1>b. tick.pc \in PoolPhases => tick.pool \in Pool /\ spec[tick.pool] \in NodePool
  BY DEF Shape, TickShape, TypeOK
<1>c. ASSUME NEW b \in Int, tick.pc \in PoolPhases, tick'.pool = tick.pool,
             b <= Slack(tick.pool), tick'.budget = b
      PROVE  BudgetShape'
  <2>1. SUFFICES ASSUME b > 0, NEW p, p = tick.pool
                 PROVE  Destructive(p)' + b <= spec[p].maxUnavailable
    BY <1>a, <1>c DEF BudgetShape, Destructive, InState
  <2>2. Destructive(p)' = Destructive(p)
    BY <1>a DEF Destructive, InState
  <2>3. Destructive(p) + b <= spec[p].maxUnavailable
    BY <2>1, <1>b, <1>c, SlackFits
  <2> QED
    BY <2>2, <2>3
<1>d. ASSUME tick'.pc \notin {"heal", "roll", "down"} PROVE BudgetShape'
  BY <1>d DEF BudgetShape
<1>1. CASE BeginHeal
  <2>1. /\ tick.pc \in PoolPhases /\ tick'.pool = tick.pool
        /\ tick'.budget = HealBudget(tick.pool)
    BY <1>1, <1>a DEF BeginHeal, TickRecord, PoolPhases
  <2>2. tick.used \in Nat /\ Slack(tick.pool) \in Nat
    BY <2>1, <1>a, <1>b, BudgetTypes DEF TickRecord
  <2>3. HealBudget(tick.pool) \in Int /\ HealBudget(tick.pool) <= Slack(tick.pool)
    BY <2>2, GlobalMaxType DEF HealBudget, Lesser
  <2> QED
    BY <2>1, <2>3, <1>c
<1>2. CASE BeginRoll
  <2>1. /\ tick.pc \in PoolPhases /\ tick'.pool = tick.pool
        /\ tick'.budget = RollBudget(tick.pool)
    BY <1>2, <1>a DEF BeginRoll, TickRecord, PoolPhases
  <2>2. RollBudget(tick.pool) \in Int /\ RollBudget(tick.pool) <= Slack(tick.pool)
    BY <2>1, <1>b, BudgetTypes DEF RollBudget
  <2> QED
    BY <2>1, <2>2, <1>c
<1>3. CASE BeginScale
  <2>1. CASE Deficit(tick.pool) >= 0
    BY <2>1, <1>3, <1>a, <1>d DEF BeginScale, TickRecord
  <2>2. CASE ~(Deficit(tick.pool) >= 0)
    <3>1. /\ tick.pc \in PoolPhases /\ tick'.pool = tick.pool
          /\ tick'.budget = DownBudget(tick.pool)
      BY <2>2, <1>3, <1>a DEF BeginScale, TickRecord, PoolPhases
    <3>2. DownBudget(tick.pool) \in Int /\ DownBudget(tick.pool) <= Slack(tick.pool)
      <4>1. Slack(tick.pool) \in Nat /\ Deficit(tick.pool) \in Int
        BY <3>1, <1>b, BudgetTypes
      <4> QED
        BY <4>1 DEF DownBudget, Lesser, Positive
    <3> QED
      BY <3>1, <3>2, <1>c
  <2> QED
    BY <2>1, <2>2
<1>4. CASE BeginTick \/ EndTick
  BY <1>4, <1>d DEF BeginTick, EndTick, Idle
<1>5. CASE EndDetect \/ FinishPool \/ FinishCluster \/ FinishTeardown \/ BeginGc
  BY <1>5, <1>a, <1>d
  DEF EndDetect, FinishPool, FinishCluster, FinishTeardown, BeginGc, TickRecord
<1>6. CASE \/ \E c \in Cluster : LeavePlanned(c) \/ SkipCluster(c) \/ StartPools(c)
                                 \/ StartTeardown(c)
           \/ \E p \in Pool : StartPool(p)
  BY <1>6, <1>a, <1>d
  DEF LeavePlanned, SkipCluster, StartPools, StartTeardown, StartPool, TickRecord
<1> QED
  BY <1>1, <1>2, <1>3, <1>4, <1>5, <1>6

LEMMA BudgetStep == Shape /\ WorkShape /\ BudgetShape /\ [Next]_vars => BudgetShape'
<1> SUFFICES ASSUME Shape, WorkShape, BudgetShape, [Next]_vars PROVE BudgetShape'
  OBVIOUS
<1>1. CASE Tick
  BY <1>1, BudgetNodeSteps, BudgetBookkeeping DEF Tick
<1>2. CASE Operator \/ Failure
  BY <1>2, WorkElsewhere
<1>3. CASE UNCHANGED vars
  BY <1>3 DEF vars, BudgetShape, Destructive, InState
<1> QED
  BY <1>1, <1>2, <1>3 DEF Next

LEMMA BudgetInit == Init => BudgetShape
BY IdleShape DEF Init, BudgetShape

LEMMA BudgetAlways == Spec => []BudgetShape
BY BudgetInit, BudgetStep, WorkAlways, ShapeAlways, PTL DEF Spec

\* Whatever operators did before, the reconciler takes a node of a serving
\* cluster down only while that fits into max_unavailable: self-heal, rolling
\* update and scale-down share the budget (_reconcile_pool).
LEMMA OneDrainFits ==
  ASSUME Shape, WorkShape, BudgetShape, Tick, tick.pc # "teardown", NEW p \in Pool,
         NEW n \in NodeId, node[n].pool = p, StartsDrain(n)
  PROVE  Destructive(p)' <= spec[p].maxUnavailable
<1>1. PICK m \in NodeId : PerNode(m)
  <2>1. ~UNCHANGED node
    BY DEF StartsDrain
  <2> QED
    BY <2>1
    DEF Tick, BeginTick, EndDetect, LeavePlanned, SkipCluster, StartPools, StartTeardown,
        StartPool, BeginHeal, BeginRoll, BeginScale, FinishPool, FinishCluster,
        FinishTeardown, BeginGc, EndTick
<1>2. PerNode(n)
  <2>1. node'[n] # node[n]
    BY DEF StartsDrain
  <2> QED
    BY <2>1, <1>1, NodeStep
<1>3. MayDrain(n)
  BY <1>2, NodeStep
<1>4. tick.pool = p
  BY <1>3 DEF WorkShape, MayDrain, PoolPhases
<1>5. Destructive(p) + tick.budget <= spec[p].maxUnavailable
  BY <1>3, <1>4 DEF BudgetShape, MayDrain
<1>6. Destructive(p)' \in Nat /\ Destructive(p)' <= Destructive(p) + 1
  BY <1>2, NodeStep, CountStep DEF Shape
<1>7. tick.budget \in Nat /\ tick.budget > 0
  BY <1>3 DEF MayDrain, Shape, TypeOK, TickRecord
<1>8. Destructive(p) \in Nat /\ spec[p].maxUnavailable \in Nat
  <2>1. spec[p] \in NodePool
    BY <1>3, <1>4 DEF MayDrain, Shape, TypeOK, TickShape, PoolPhases
  <2> QED
    BY <2>1, BudgetTypes DEF NodePool
<1> QED
  BY <1>5, <1>6, <1>7, <1>8

\* The same, as a property of every behaviour.
THEOREM DrainsFit == Spec => DrainWithinBudget
<1> DEFINE A == Tick /\ tick.pc # "teardown" =>
                  \A p \in Pool : (\E n \in NodeId : node[n].pool = p /\ StartsDrain(n)) =>
                    Destructive(p)' <= spec[p].maxUnavailable
<1>1. Shape /\ WorkShape /\ BudgetShape /\ [Next]_vars => [A]_vars
  BY OneDrainFits
<1>2. Spec => [][A]_vars
  BY <1>1, ShapeAlways, WorkAlways, BudgetAlways, PTL DEF Spec
<1> QED
  BY <1>2 DEF DrainWithinBudget

-----------------------------------------------------------------------------
(* BudgetHeld, where operators neither declare twice nor use force *)

LEMMA DeclaredStep == Shape /\ WorkShape /\ DeclaredFirst /\ [Next]_vars => DeclaredFirst'
<1> SUFFICES ASSUME Shape, WorkShape, DeclaredFirst, [Next]_vars PROVE DeclaredFirst'
  OBVIOUS
<1>a. /\ cluster \in [Cluster -> ClusterRecord] /\ spec \in [Pool -> NodePool \union {None}]
      /\ \A p \in Pool : ClusterOf[p] \in Cluster
  BY ClusterOfType DEF Shape, TypeOK
<1>b. ASSUME UNCHANGED spec,
             \A c \in Cluster : cluster'[c] = cluster[c] \/ cluster'[c].state # "ABSENT"
      PROVE  DeclaredFirst'
  BY <1>a, <1>b DEF DeclaredFirst, Declared
<1>c. ASSUME UNCHANGED cluster, \A p \in Pool : spec'[p] # None => spec[p] # None
      PROVE  DeclaredFirst'
  BY <1>c DEF DeclaredFirst, Declared
<1>1. ASSUME NEW n \in NodeId, PerNode(n) PROVE DeclaredFirst'
  BY <1>1, <1>a, NodeStepFrame DEF DeclaredFirst
<1>2. CASE Tick /\ ~\E n \in NodeId : PerNode(n)
  <2>1. UNCHANGED spec
    BY <1>2
    DEF Tick, BeginTick, EndDetect, LeavePlanned, SkipCluster, StartPools, StartTeardown,
        StartPool, BeginHeal, BeginRoll, BeginScale, FinishPool, FinishCluster,
        FinishTeardown, BeginGc, EndTick
  <2>2. \/ UNCHANGED cluster
        \/ \E c \in Cluster, st \in {"PROVISIONING", "ACTIVE", "DRAINING", "DECOMMISSIONED"} :
             cluster' = [cluster EXCEPT ![c].state = st]
    <3>1. CASE FinishCluster \/ FinishTeardown
      <4>1. tick.cluster \in Cluster
        BY <3>1 DEF FinishCluster, FinishTeardown, Shape, TickShape
      <4> QED
        BY <3>1, <4>1 DEF FinishCluster, FinishTeardown
    <3>2. CASE ~(FinishCluster \/ FinishTeardown)
      BY <1>2, <3>2
      DEF Tick, BeginTick, EndDetect, LeavePlanned, SkipCluster, StartPools, StartTeardown,
          StartPool, BeginHeal, BeginRoll, BeginScale, FinishPool, BeginGc, EndTick
    <3> QED
      BY <3>1, <3>2
  <2>3. \A c \in Cluster : cluster'[c] = cluster[c] \/ cluster'[c].state # "ABSENT"
    BY <2>2, <1>a DEF ClusterRecord
  <2> QED
    BY <2>1, <2>3, <1>b
<1>3. ASSUME NEW c \in Cluster, ApplyCluster(c) PROVE DeclaredFirst'
  <2>1. PICK ps \in SUBSET {p \in Pool : ClusterOf[p] = c} :
          \E f \in [ps -> PoolSpecs] :
            spec' = [p \in Pool |-> IF p \in ps THEN f[p] ELSE spec[p]]
    BY <1>3 DEF ApplyCluster
  <2>2. \A p \in Pool : ClusterOf[p] # c => spec'[p] = spec[p]
    BY <2>1
  <2>3. /\ cluster'[c].state # "ABSENT"
        /\ \A d \in Cluster \ {c} : cluster'[d] = cluster[d]
    BY <1>3, <1>a DEF ApplyCluster, Declared
  <2> QED
    BY <2>2, <2>3, <1>a DEF DeclaredFirst, Declared
<1>4. ASSUME NEW c \in Cluster, DecommissionCluster(c) PROVE DeclaredFirst'
  <2>1. \A d \in Cluster : cluster'[d].state = cluster[d].state
    BY <1>4, <1>a DEF DecommissionCluster, ClusterRecord
  <2> QED
    BY <1>4, <2>1, <1>a DEF DecommissionCluster, DeclaredFirst, Declared
<1>5. ASSUME NEW p \in Pool, ScalePool(p) \/ RollingUpdate(p) PROVE DeclaredFirst'
  <2>1. UNCHANGED cluster /\ \A q \in Pool : spec'[q] # None => spec[q] # None
    BY <1>5, <1>a DEF ScalePool, RollingUpdate
  <2> QED
    BY <2>1, <1>c
<1>6. ASSUME NEW n \in NodeId, ReportHealth(n) \/ HeartbeatExpires(n) \/ ForceDecommissionNode(n)
      PROVE  DeclaredFirst'
  BY <1>6, <1>b DEF ReportHealth, HeartbeatExpires, ForceDecommissionNode
<1>7. CASE Failure
  BY <1>7, <1>b DEF Failure, Crash, CrashInStage, CrashInCreate, Restart
<1>8. CASE UNCHANGED vars
  BY <1>8, <1>b DEF vars
<1> QED
  BY <1>1, <1>2, <1>3, <1>4, <1>5, <1>6, <1>7, <1>8 DEF Next, Tick, Operator

LEMMA DeclaredAlways == Spec => []DeclaredFirst
<1>1. Init => DeclaredFirst
  BY DEF Init, DeclaredFirst
<1> QED
  BY <1>1, DeclaredStep, ShapeAlways, WorkAlways, PTL DEF Spec

\* A pool that is not declared has no nodes.
LEMMA UndeclaredIsEmpty ==
  ASSUME Shape, NEW p \in Pool, spec[p] = None
  PROVE  \A n \in NodeId : node[n].pool # p
<1> SUFFICES ASSUME NEW n \in NodeId, node[n].pool = p PROVE FALSE
  OBVIOUS
<1>1. node[n].state # "ABSENT"
  BY NoneIsFresh DEF Shape, NodeShape, Absent
<1> QED
  BY <1>1 DEF Shape, NodeShape

LEMMA HeldNodeSteps ==
  ASSUME Shape, WorkShape, BudgetShape, BudgetHeld, NEW n \in NodeId, PerNode(n)
  PROVE  BudgetHeld'
<1> SUFFICES ASSUME NEW c \in Cluster, Serving(c)', NEW p \in Pool, ClusterOf[p] = c,
                    spec[p] # None
             PROVE  Destructive(p)' <= spec[p].maxUnavailable
  BY NodeStepFrame DEF BudgetHeld, PoolsOf
<1>1. Serving(c) /\ Destructive(p) <= spec[p].maxUnavailable
  BY NodeStepFrame DEF BudgetHeld, PoolsOf, Serving
<1>2. CASE node[n].pool = p /\ StartsDrain(n)
  <2>1. tick.pc # "teardown"
    <3> SUFFICES ASSUME tick.pc = "teardown" PROVE FALSE
      OBVIOUS
    <3>1. n \in tick.nodes
      BY <1>2 DEF PerNode, DetectFailure, AdvanceNode, HealNode, RollNode, ScaleDownNode,
                  CreateNode, TeardownNode, GcNode
    <3> QED
      BY <3>1, <1>1, <1>2 DEF WorkShape, Serving
  <2> QED
    BY <1>2, <2>1, OneDrainFits DEF Tick
<1>3. CASE ~(node[n].pool = p /\ StartsDrain(n))
  <2>1. Destructive(p)' <= Destructive(p) /\ Destructive(p)' \in Nat
    BY <1>3, CountKept, CountStep, NodeStep DEF Shape
  <2>2. Destructive(p) \in Nat /\ spec[p].maxUnavailable \in Nat
    <3>1. spec[p] \in NodePool
      BY DEF Shape, TypeOK
    <3> QED
      BY <3>1, BudgetTypes DEF NodePool
  <2> QED
    BY <2>1, <2>2, <1>1
<1> QED
  BY <1>2, <1>3

\* Steps that change neither which nodes are going nor which budget holds.
LEMMA HeldFrame ==
  ASSUME BudgetHeld,
         \A n \in NodeId : \/ node'[n].state \notin DestructiveStates
                           \/ node'[n].pool = node[n].pool /\ node'[n].state = node[n].state,
         Shape, \A n \in NodeId : node'[n].state \notin DestructiveStates =>
                                    node[n].state \notin DestructiveStates,
         \A c \in Cluster : Serving(c)' => Serving(c) \/ PoolsOf(c)' = {},
         \A p \in Pool : spec'[p] # None => spec[p] # None
                                            /\ spec'[p].maxUnavailable = spec[p].maxUnavailable
  PROVE  BudgetHeld'
<1>1. \A p \in Pool : Destructive(p)' = Destructive(p)
  <2> SUFFICES ASSUME NEW p \in Pool
               PROVE  {n \in NodeId : node'[n].pool = p /\ node'[n].state \in DestructiveStates}
                      = {n \in NodeId : node[n].pool = p /\ node[n].state \in DestructiveStates}
    BY DEF Destructive, InState
  <2> QED
    OBVIOUS
<1> QED
  BY <1>1 DEF BudgetHeld, PoolsOf

LEMMA HeldBookkeeping ==
  ASSUME Shape, WorkShape, DeclaredFirst, BudgetHeld, Tick, ~\E n \in NodeId : PerNode(n)
  PROVE  BudgetHeld'
<1>a. cluster \in [Cluster -> ClusterRecord]
  BY DEF Shape, TypeOK
<1>1. UNCHANGED <<node, spec>>
  BY DEF Tick, BeginTick, EndDetect, LeavePlanned, SkipCluster, StartPools, StartTeardown,
         StartPool, BeginHeal, BeginRoll, BeginScale, FinishPool, FinishCluster,
         FinishTeardown, BeginGc, EndTick
<1>2. \A c \in Cluster : Serving(c)' => Serving(c) \/ PoolsOf(c)' = {}
  <2> SUFFICES ASSUME NEW c \in Cluster, Serving(c)', ~Serving(c) PROVE PoolsOf(c)' = {}
    OBVIOUS
  <2>1. \/ UNCHANGED cluster
        \/ \E d \in Cluster, st \in {"PROVISIONING", "ACTIVE", "DRAINING", "DECOMMISSIONED"} :
             cluster' = [cluster EXCEPT ![d].state = st]
    <3>1. CASE FinishCluster \/ FinishTeardown
      <4>1. tick.cluster \in Cluster
        BY <3>1 DEF FinishCluster, FinishTeardown, Shape, TickShape
      <4> QED
        BY <3>1, <4>1 DEF FinishCluster, FinishTeardown
    <3>2. CASE ~(FinishCluster \/ FinishTeardown)
      BY <3>2
      DEF Tick, BeginTick, EndDetect, LeavePlanned, SkipCluster, StartPools, StartTeardown,
          StartPool, BeginHeal, BeginRoll, BeginScale, FinishPool, BeginGc, EndTick
    <3> QED
      BY <3>1, <3>2
  <2>3. \A d \in Cluster : cluster'[d].desired = cluster[d].desired
    BY <2>1, <1>a DEF ClusterRecord
  <2>4. ~Declared(c)
    BY <2>3 DEF Serving
  <2> QED
    BY <2>4, <1>1 DEF DeclaredFirst, PoolsOf
<1> QED
  BY <1>1, <1>2, HeldFrame

LEMMA HeldOperator ==
  ASSUME "reapply" \notin Ops, "force" \notin Ops, Shape, DeclaredFirst, BudgetHeld, Operator
  PROVE  BudgetHeld'
<1>a. /\ cluster \in [Cluster -> ClusterRecord] /\ spec \in [Pool -> NodePool \union {None}]
      /\ node \in [NodeId -> NodeRecord] /\ \A p \in Pool : ClusterOf[p] \in Cluster
  BY ClusterOfType DEF Shape, TypeOK
<1>1. ASSUME NEW c \in Cluster, ApplyCluster(c) PROVE BudgetHeld'
  <2>1. ~Declared(c) /\ UNCHANGED node
    BY <1>1 DEF ApplyCluster
  <2>2. PICK ps \in SUBSET {p \in Pool : ClusterOf[p] = c} :
          \E f \in [ps -> PoolSpecs] :
            spec' = [p \in Pool |-> IF p \in ps THEN f[p] ELSE spec[p]]
    BY <1>1 DEF ApplyCluster
  <2>3. \A p \in Pool : ClusterOf[p] # c => spec'[p] = spec[p]
    BY <2>2
  <2>4. \A d \in Cluster \ {c} : cluster'[d] = cluster[d]
    BY <1>1, <1>a DEF ApplyCluster
  <2> SUFFICES ASSUME NEW d \in Cluster, Serving(d)', NEW p \in Pool, ClusterOf[p] = d,
                      spec'[p] # None
               PROVE  Destructive(p)' <= spec'[p].maxUnavailable
    BY DEF BudgetHeld, PoolsOf
  <2>5. Destructive(p)' = Destructive(p)
    BY <2>1 DEF Destructive, InState
  <2>6. CASE d = c
    <3>1. spec[p] = None
      BY <2>1, <2>6 DEF DeclaredFirst
    <3>2. InState(p, DestructiveStates) = {}
      BY <3>1, UndeclaredIsEmpty DEF InState
    <3>3. Destructive(p) = 0
      BY <3>2, FS_EmptySet DEF Destructive
    <3>4. spec'[p].maxUnavailable \in Nat
      <4>1. Shape'
        BY ShapeOperator
      <4>2. spec'[p] \in NodePool
        BY <4>1 DEF Shape, TypeOK
      <4> QED
        BY <4>2 DEF NodePool
    <3> QED
      BY <2>5, <3>3, <3>4
  <2>7. CASE d # c
    BY <2>3, <2>4, <2>5, <2>7 DEF BudgetHeld, PoolsOf, Serving, Declared
  <2> QED
    BY <2>6, <2>7
<1>2. ASSUME NEW c \in Cluster, DecommissionCluster(c) PROVE BudgetHeld'
  <2>1. \A d \in Cluster : Serving(d)' => Serving(d)
    BY <1>2, <1>a DEF DecommissionCluster, Serving, Declared, ClusterRecord
  <2> QED
    BY <1>2, <2>1, HeldFrame DEF DecommissionCluster
<1>3. ASSUME NEW p \in Pool, ScalePool(p) \/ RollingUpdate(p) PROVE BudgetHeld'
  <2>1. spec[p] \in NodePool
    BY <1>3, <1>a DEF ScalePool, RollingUpdate
  <2>2. \A s \in NodePool, d \in Nat, i \in Image :
          /\ [s EXCEPT !.desired = d].maxUnavailable = s.maxUnavailable
          /\ [s EXCEPT !.image = i].maxUnavailable = s.maxUnavailable
    BY DEF NodePool
  <2>3. \A s \in PoolSpecs : s.desired \in Nat
    BY PoolSpecsType DEF NodePool
  <2>4. \A q \in Pool : spec'[q] # None =>
          spec[q] # None /\ spec'[q].maxUnavailable = spec[q].maxUnavailable
    <3>1. CASE ScalePool(p)
      <4>1. PICK s \in PoolSpecs : spec' = [spec EXCEPT ![p].desired = s.desired]
        BY <3>1 DEF ScalePool
      <4>2. spec' = [spec EXCEPT ![p] = [spec[p] EXCEPT !.desired = s.desired]]
        BY <4>1
      <4>3. [spec[p] EXCEPT !.desired = s.desired].maxUnavailable = spec[p].maxUnavailable
        BY <2>1, <2>2, <2>3
      <4> QED
        BY <4>2, <4>3, <2>1, <1>a, NoneIsFresh
    <3>2. CASE RollingUpdate(p)
      <4>1. PICK i \in Image : spec' = [spec EXCEPT ![p].image = i]
        BY <3>2 DEF RollingUpdate
      <4>2. spec' = [spec EXCEPT ![p] = [spec[p] EXCEPT !.image = i]]
        BY <4>1
      <4>3. [spec[p] EXCEPT !.image = i].maxUnavailable = spec[p].maxUnavailable
        BY <2>1, <2>2, <2>3
      <4> QED
        BY <4>2, <4>3, <2>1, <1>a, NoneIsFresh
    <3> QED
      BY <1>3, <3>1, <3>2
  <2>5. UNCHANGED <<node, cluster>>
    BY <1>3 DEF ScalePool, RollingUpdate
  <2> QED
    BY <2>4, <2>5, HeldFrame DEF Serving, Declared
<1>4. ASSUME NEW n \in NodeId, ReportHealth(n) \/ HeartbeatExpires(n) PROVE BudgetHeld'
  <2>1. PICK s \in Signal : Put(n, [node[n] EXCEPT !.signal = s])
    BY <1>4, ReportsType DEF ReportHealth, HeartbeatExpires, Signal
  <2>2. LET r == [node[n] EXCEPT !.signal = s]
        IN r \in NodeRecord /\ r.state = node[n].state /\ r.pool = node[n].pool
    BY <1>a DEF NodeRecord
  <2>3. \A m \in NodeId : node'[m].pool = node[m].pool /\ node'[m].state = node[m].state
    BY <2>1, <2>2, <1>a, ForgetKeeps DEF Put
  <2>4. UNCHANGED <<cluster, spec>>
    BY <1>4 DEF ReportHealth, HeartbeatExpires
  <2> QED
    BY <2>3, <2>4, HeldFrame DEF Serving, Declared
<1> QED
  BY <1>1, <1>2, <1>3, <1>4 DEF Operator, ForceDecommissionNode

LEMMA HeldFailure ==
  ASSUME Shape, BudgetHeld, Failure
  PROVE  BudgetHeld'
<1>1. \A m \in NodeId : Reloaded[m].pool = node[m].pool /\ Reloaded[m].state = node[m].state
  <2>1. \A r \in NodeRecord :
          LET r0 == [r EXCEPT !.baseline = FALSE] IN r0.pool = r.pool /\ r0.state = r.state
    BY DEF NodeRecord
  <2> QED
    BY <2>1 DEF Reloaded, Shape, TypeOK
<1>2. UNCHANGED <<cluster, spec>>
  BY DEF Failure, Crash, CrashInStage, CrashInCreate, Restart
<1>3. CASE node' = Reloaded
  BY <1>1, <1>2, <1>3, HeldFrame DEF Serving, Declared
<1>4. ASSUME NEW n \in NodeId, CrashInCreate(n) PROVE BudgetHeld'
  <2>1. /\ node' = [Reloaded EXCEPT ![n] = Requested(tick.pool)]
        /\ node[n] = Absent /\ tick.pool \in Pool
    BY <1>4 DEF CrashInCreate, FreshId, Shape, TickShape, PoolPhases
  <2>2. /\ Requested(tick.pool).state \notin DestructiveStates
        /\ Absent.state \notin DestructiveStates
    BY <2>1, ConstantRecords DEF Absent, DestructiveStates
  <2>3. \A m \in NodeId :
          /\ m = n => node'[m].state \notin DestructiveStates
                      /\ node[m].state \notin DestructiveStates
          /\ m # n => node'[m] = Reloaded[m]
    BY <2>1, <2>2 DEF Reloaded
  <2> QED
    BY <2>3, <1>1, <1>2, HeldFrame DEF Serving, Declared
<1> QED
  BY <1>3, <1>4 DEF Failure, Crash, CrashInStage, Restart

\* Where operators declare a cluster once and use no emergency teardown, a
\* serving pool never has more nodes on their way out than max_unavailable, for
\* any number of clusters, pools and nodes (tests/helpers.py, invariant 3).
THEOREM BudgetsHold ==
  ASSUME "reapply" \notin Ops, "force" \notin Ops
  PROVE  Spec => []BudgetHeld
<1>1. Init => BudgetHeld
  BY DEF Init, BudgetHeld, Serving, Declared
<1>2. Shape /\ WorkShape /\ BudgetShape /\ DeclaredFirst /\ BudgetHeld /\ [Next]_vars
        => BudgetHeld'
  <2> SUFFICES ASSUME Shape, WorkShape, BudgetShape, DeclaredFirst, BudgetHeld, [Next]_vars
               PROVE  BudgetHeld'
    OBVIOUS
  <2>1. CASE Tick
    BY <2>1, HeldNodeSteps, HeldBookkeeping
  <2>2. CASE Operator
    BY <2>2, HeldOperator
  <2>3. CASE Failure
    BY <2>3, HeldFailure
  <2>4. CASE UNCHANGED vars
    BY <2>4 DEF vars, BudgetHeld, Serving, Declared, PoolsOf, Destructive, InState
  <2> QED
    BY <2>1, <2>2, <2>3, <2>4 DEF Next
<1> QED
  BY <1>1, <1>2, ShapeAlways, WorkAlways, BudgetAlways, DeclaredAlways, PTL DEF Spec

-----------------------------------------------------------------------------
(* CreateShape is inductive, and nothing is created beyond the desired count *)

\* Where only n may have changed, a count of a pool changes by one at most.
LEMMA CountNear ==
  ASSUME NEW n \in NodeId, NEW p, NEW states,
         \A m \in NodeId \ {n} : node'[m].pool = node[m].pool /\ node'[m].state = node[m].state
  PROVE  /\ Cardinality(InState(p, states)) \in Nat
         /\ Cardinality(InState(p, states))' \in Nat
         /\ Cardinality(InState(p, states))' <= Cardinality(InState(p, states)) + 1
         /\ Cardinality(InState(p, states)) <= Cardinality(InState(p, states))' + 1
<1> DEFINE S == InState(p, states)
           T == {m \in NodeId : node'[m].pool = p /\ node'[m].state \in states}
<1>1. Cardinality(InState(p, states))' = Cardinality(T)
  BY DEF InState
<1>2. S \subseteq T \union {n} /\ T \subseteq S \union {n}
  BY DEF InState
<1>3. IsFiniteSet(S) /\ IsFiniteSet(T)
  BY InStateFinite, NodeIdFinite, FS_Subset
<1> HIDE DEF S, T
<1>4. ASSUME NEW A, NEW B, IsFiniteSet(A), IsFiniteSet(B), A \subseteq B \union {n}
      PROVE  /\ Cardinality(A) \in Nat /\ Cardinality(B) \in Nat
             /\ Cardinality(A) <= Cardinality(B) + 1
  <2>1. /\ IsFiniteSet(B \union {n})
        /\ Cardinality(B \union {n}) = IF n \in B THEN Cardinality(B) ELSE Cardinality(B) + 1
    BY <1>4, FS_AddElement
  <2>2. Cardinality(A) <= Cardinality(B \union {n})
    BY <2>1, <1>4, FS_Subset
  <2>3. Cardinality(A) \in Nat /\ Cardinality(B) \in Nat
    BY <1>4, FS_CardinalityType
  <2> QED
    BY <2>1, <2>2, <2>3
<1> QED
  BY <1>1, <1>2, <1>3, <1>4 DEF S

\* Only a creation makes a node that is requested, and advancing one ends that.
LEMMA RequestedBefore ==
  ASSUME Shape, WorkShape, NEW n \in NodeId, PerNode(n), tick.pc # "create",
         NEW m \in NodeId, node'[m].state = "REQUESTED"
  PROVE  /\ node[m].state = "REQUESTED" /\ node'[m].pool = node[m].pool
         /\ tick.pc = "advance" => m # n
<1>1. \A st \in NodeState : "REQUESTED" \notin NODE_TRANSITIONS[st]
  BY DEF NodeState, NODE_TRANSITIONS
<1>2. node[n].state \in NodeState \union {"ABSENT"}
  BY DEF Shape, TypeOK, NodeRecord
<1>3. Absent.state # "REQUESTED"
  BY DEF Absent
<1> QED
  BY <1>1, <1>2, <1>3, NodeStep DEF Created, Collected, Moved, DrainedOut

LEMMA CreateNodeSteps ==
  ASSUME Shape, WorkShape, CreateShape, NEW n \in NodeId, PerNode(n)
  PROVE  CreateShape'
<1>a. tick'.pc = tick.pc /\ tick'.pool = tick.pool /\ UNCHANGED spec /\ tick \in TickRecord
  BY NodeStepFrame DEF Shape, TypeOK
<1>1. CASE tick.pc = "create"
  <2>1. CreateNode(n)
    BY <1>1 DEF PerNode, DetectFailure, AdvanceNode, HealNode, RollNode, ScaleDownNode,
                TeardownNode, GcNode
  <2>2. tick'.budget = tick.budget - 1 /\ tick.budget > 0 /\ tick.budget \in Nat
    BY <2>1, <1>a DEF CreateNode, TickRecord
  <2>3. tick.pool \in Pool /\ spec[tick.pool].desired \in Nat
    BY <1>1 DEF Shape, TypeOK, TickShape, PoolPhases, NodePool
  <2> SUFFICES ASSUME NEW p, p = tick.pool
               PROVE  Cardinality(InState(p, CONTRIBUTING \union {"REQUESTED"}))'
                        + tick'.budget <= spec[p].desired
    BY <1>1, <1>a DEF CreateShape, InState
  <2>4. Cardinality(InState(p, CONTRIBUTING \union {"REQUESTED"})) + tick.budget
          <= spec[p].desired
    BY <1>1, <2>2 DEF CreateShape
  <2> DEFINE states == CONTRIBUTING \union {"REQUESTED"}
  <2>5. /\ Cardinality(InState(p, states)) \in Nat /\ Cardinality(InState(p, states))' \in Nat
        /\ Cardinality(InState(p, states))' <= Cardinality(InState(p, states)) + 1
    BY NodeStep, CountNear
  <2> QED
    BY <2>2, <2>3, <2>4, <2>5
<1>2. CASE tick.pc \in {"heal", "roll"}
  BY <1>2, <1>a, RequestedBefore DEF CreateShape, InState
<1>3. CASE tick.pc = "advance"
  <2>1. tick'.nodes = tick.nodes \ {n}
    BY <1>3, <1>a DEF PerNode, DetectFailure, AdvanceNode, HealNode, RollNode, ScaleDownNode,
                      CreateNode, TeardownNode, GcNode, TickRecord
  <2> QED
    BY <1>3, <1>a, <2>1, RequestedBefore DEF CreateShape, InState
<1>4. CASE tick.pc \notin {"create", "heal", "roll", "advance"}
  BY <1>4, <1>a DEF CreateShape
<1> QED
  BY <1>1, <1>2, <1>3, <1>4

LEMMA CreateBookkeeping ==
  ASSUME Shape, CreateShape, Tick, ~\E n \in NodeId : PerNode(n)
  PROVE  CreateShape'
<1>a. tick \in TickRecord /\ UNCHANGED <<node, spec>>
  BY DEF Shape, TypeOK, Tick, BeginTick, EndDetect, LeavePlanned, SkipCluster, StartPools,
         StartTeardown, StartPool, BeginHeal, BeginRoll, BeginScale, FinishPool,
         FinishCluster, FinishTeardown, BeginGc, EndTick
<1>b. ASSUME tick'.pc \notin {"advance", "heal", "roll", "create"} PROVE CreateShape'
  BY <1>b DEF CreateShape
<1>1. ASSUME NEW p \in Pool, StartPool(p) PROVE CreateShape'
  <2>1. tick'.pc = "advance" /\ tick'.pool = p /\ tick'.nodes = InState(p, InFlightStates)
    BY <1>1, <1>a DEF StartPool, TickRecord
  <2> QED
    BY <2>1, <1>a DEF CreateShape, InState, InFlightStates
<1>2. CASE BeginHeal
  <2>1. /\ tick.pc = "advance" /\ tick.nodes = {}
        /\ tick'.pc = "heal" /\ tick'.pool = tick.pool
    BY <1>2, <1>a DEF BeginHeal, TickRecord
  <2> QED
    BY <2>1, <1>a DEF CreateShape, InState
<1>3. CASE BeginRoll
  <2>1. tick.pc = "heal" /\ tick'.pc = "roll" /\ tick'.pool = tick.pool
    BY <1>3, <1>a DEF BeginRoll, TickRecord
  <2> QED
    BY <2>1, <1>a DEF CreateShape, InState
<1>4. CASE BeginScale
  <2>1. CASE ~(Deficit(tick.pool) >= 0)
    BY <2>1, <1>4, <1>a, <1>b DEF BeginScale, TickRecord
  <2>2. CASE Deficit(tick.pool) >= 0
    <3>1. /\ tick.pc = "roll" /\ tick'.pc = "create" /\ tick'.pool = tick.pool
          /\ tick'.budget = CreateBudget(tick.pool)
      BY <2>2, <1>4, <1>a DEF BeginScale, TickRecord
    <3>2. tick.pool \in Pool /\ spec[tick.pool] \in NodePool
      BY <3>1 DEF Shape, TypeOK, TickShape, PoolPhases
    <3>3. InState(tick.pool, CONTRIBUTING \union {"REQUESTED"}) = InState(tick.pool, CONTRIBUTING)
      BY <3>1 DEF CreateShape, InState
    <3>4. CreateBudget(tick.pool) > 0 =>
            Cardinality(InState(tick.pool, CONTRIBUTING)) + CreateBudget(tick.pool)
              <= spec[tick.pool].desired
      <4>1. /\ spec[tick.pool].desired \in Nat /\ spec[tick.pool].maxProvision \in Nat
            /\ Cardinality(InState(tick.pool, CONTRIBUTING)) \in Nat
        BY <3>2, InStateFinite DEF NodePool
      <4> QED
        BY <4>1 DEF CreateBudget, Deficit, Lesser, Positive
    <3>5. ASSUME NEW p, p = tick.pool
          PROVE  InState(p, CONTRIBUTING \union {"REQUESTED"})'
                   = InState(p, CONTRIBUTING \union {"REQUESTED"})
      BY <1>a DEF InState
    <3> SUFFICES ASSUME NEW p, p = tick.pool, tick'.budget > 0
                 PROVE  Cardinality(InState(p, CONTRIBUTING \union {"REQUESTED"}))'
                          + tick'.budget <= spec[p].desired
      BY <1>a, <3>1 DEF CreateShape, InState
    <3> QED
      BY <3>1, <3>3, <3>4, <3>5
  <2> QED
    BY <2>1, <2>2
<1>5. CASE BeginTick \/ EndTick
  BY <1>5, <1>b DEF BeginTick, EndTick, Idle
<1>6. CASE EndDetect \/ FinishPool \/ FinishCluster \/ FinishTeardown \/ BeginGc
  BY <1>6, <1>a, <1>b
  DEF EndDetect, FinishPool, FinishCluster, FinishTeardown, BeginGc, TickRecord
<1>7. ASSUME NEW c \in Cluster,
             LeavePlanned(c) \/ SkipCluster(c) \/ StartPools(c) \/ StartTeardown(c)
      PROVE  CreateShape'
  BY <1>7, <1>a, <1>b DEF LeavePlanned, SkipCluster, StartPools, StartTeardown, TickRecord
<1> QED
  BY <1>1, <1>2, <1>3, <1>4, <1>5, <1>6, <1>7 DEF Tick

LEMMA CreateAlways == Spec => []CreateShape
<1>1. Init => CreateShape
  BY IdleShape DEF Init, CreateShape
<1>2. Shape /\ WorkShape /\ CreateShape /\ [Next]_vars => CreateShape'
  <2> SUFFICES ASSUME Shape, WorkShape, CreateShape, [Next]_vars PROVE CreateShape'
    OBVIOUS
  <2>1. CASE Tick
    BY <2>1, CreateNodeSteps, CreateBookkeeping
  <2>2. CASE Operator \/ Failure
    BY <2>2, IdleNext DEF CreateShape
  <2>3. CASE UNCHANGED vars
    BY <2>3 DEF vars, CreateShape, InState
  <2> QED
    BY <2>1, <2>2, <2>3 DEF Next
<1> QED
  BY <1>1, <1>2, ShapeAlways, WorkAlways, PTL DEF Spec

\* A step that makes a requested node out of none is a creation, for the pool that is
\* being worked on.
LEMMA OneCreation ==
  ASSUME Shape, WorkShape, Next, NEW p \in Pool, NEW n \in NodeId,
         node[n].state = "ABSENT", node'[n] = Requested(p)
  PROVE  /\ tick.pc = "create" /\ tick.budget > 0 /\ tick.pool = p /\ UNCHANGED spec
         /\ \A m \in NodeId \ {n} : node'[m].pool = node[m].pool /\ node'[m].state = node[m].state
<1>a. /\ node \in [NodeId -> NodeRecord] /\ node[n] = Absent
      /\ node'[n].state = "REQUESTED" /\ node'[n].pool = p
  BY ConstantRecords DEF Shape, TypeOK, NodeShape
<1>1. CASE \E m \in NodeId : PerNode(m)
  <2>1. PICK m \in NodeId : PerNode(m)
    BY <1>1
  <2>2. m = n
    BY <2>1, <1>a, NodeStep DEF Absent
  <2>3. Created(n)
    BY <2>1, <2>2, <1>a, NodeStep DEF Collected, Moved, DrainedOut, Absent
  <2>4. tick.budget > 0
    BY <2>1, <2>2, <2>3 DEF Created, PerNode, DetectFailure, AdvanceNode, HealNode, RollNode,
                            ScaleDownNode, CreateNode, TeardownNode, GcNode
  <2> QED
    BY <2>1, <2>2, <2>3, <2>4, <1>a, NodeStep, NodeStepFrame DEF Created
<1>2. CASE Tick /\ ~\E m \in NodeId : PerNode(m)
  <2>1. UNCHANGED node
    BY <1>2 DEF Tick, BeginTick, EndDetect, LeavePlanned, SkipCluster, StartPools,
                StartTeardown, StartPool, BeginHeal, BeginRoll, BeginScale, FinishPool,
                FinishCluster, FinishTeardown, BeginGc, EndTick
  <2> QED
    BY <2>1, <1>a
<1>3. CASE Operator
  <2>1. ASSUME NEW m \in NodeId,
               ReportHealth(m) \/ HeartbeatExpires(m) \/ ForceDecommissionNode(m)
        PROVE  node'[n] = node[n]
    <3>1. UNCHANGED node \/ \E r : Put(m, r)
      BY <2>1 DEF ReportHealth, HeartbeatExpires, ForceDecommissionNode
    <3>2. m # n
      BY <2>1, <1>a DEF ReportHealth, HeartbeatExpires, ForceDecommissionNode, Absent
    <3> QED
      BY <3>1, <3>2, <1>a DEF Put
  <2>2. node'[n] = node[n]
    BY <1>3, <2>1 DEF Operator, ApplyCluster, DecommissionCluster, ScalePool, RollingUpdate
  <2> QED
    BY <2>2, <1>a
<1>4. CASE Failure
  <2>1. \A m \in NodeId : Reloaded[m].pool = node[m].pool /\ Reloaded[m].state = node[m].state
    <3>1. \A r \in NodeRecord :
            LET r0 == [r EXCEPT !.baseline = FALSE] IN r0.pool = r.pool /\ r0.state = r.state
      BY DEF NodeRecord
    <3> QED
      BY <3>1, <1>a DEF Reloaded
  <2>2. PICK m \in NodeId : CrashInCreate(m)
    BY <1>4, <2>1, <1>a DEF Failure, Crash, CrashInStage, Restart
  <2>3. node' = [Reloaded EXCEPT ![m] = Requested(tick.pool)] /\ tick.pool \in Pool
    BY <2>2 DEF CrashInCreate, Shape, TickShape, PoolPhases
  <2>4. \A k \in NodeId \ {m} : node'[k] = Reloaded[k]
    BY <2>3 DEF Reloaded
  <2>5. m = n
    BY <2>1, <2>4, <1>a
  <2>6. node'[n] = Requested(tick.pool)
    BY <2>3, <2>5 DEF Reloaded
  <2>7. tick.pool = p
    BY <2>3, <2>6, <1>a, ConstantRecords
  <2> QED
    BY <2>1, <2>2, <2>4, <2>5, <2>7 DEF CrashInCreate
<1> QED
  BY <1>1, <1>2, <1>3, <1>4 DEF Next

\* The reconciler creates a node only below the desired count, with every node counted
\* that is provisioned or only requested, also when creations were cut short by a crash
\* before (_reconcile_pool, 3: the deficit itself leaves REQUESTED nodes out).
THEOREM NothingOverProvisioned == Spec => NoOverProvision
<1> DEFINE A == \A p \in Pool :
                  (\E n \in NodeId : node[n].state = "ABSENT" /\ node'[n] = Requested(p)) =>
                    Cardinality(InState(p, CONTRIBUTING \union {"REQUESTED"}))' <= spec[p].desired
<1>1. Shape /\ WorkShape /\ CreateShape /\ [Next]_vars => [A]_vars
  <2> SUFFICES ASSUME Shape, WorkShape, CreateShape, Next, NEW p \in Pool, NEW n \in NodeId,
                      node[n].state = "ABSENT", node'[n] = Requested(p)
               PROVE  Cardinality(InState(p, CONTRIBUTING \union {"REQUESTED"}))'
                        <= spec[p].desired
    BY DEF A
  <2>1. /\ tick.pc = "create" /\ tick.budget > 0 /\ tick.pool = p
        /\ \A m \in NodeId \ {n} : node'[m].pool = node[m].pool /\ node'[m].state = node[m].state
    BY OneCreation
  <2> DEFINE states == CONTRIBUTING \union {"REQUESTED"}
  <2>2. Cardinality(InState(p, states)) + tick.budget <= spec[p].desired
    BY <2>1 DEF CreateShape
  <2>3. /\ Cardinality(InState(p, states)) \in Nat /\ Cardinality(InState(p, states))' \in Nat
        /\ Cardinality(InState(p, states))' <= Cardinality(InState(p, states)) + 1
    BY <2>1, CountNear
  <2>4. tick.budget \in Nat /\ spec[p].desired \in Nat
    <3>1. spec[p] \in NodePool
      BY <2>1 DEF Shape, TypeOK, TickShape, PoolPhases
    <3> QED
      BY <3>1 DEF Shape, TypeOK, TickRecord, NodePool
  <2> QED
    BY <2>1, <2>2, <2>3, <2>4
<1>2. Spec => [][A]_vars
  BY <1>1, ShapeAlways, WorkAlways, CreateAlways, PTL DEF Spec
<1> QED
  BY <1>2 DEF NoOverProvision
=============================================================================
