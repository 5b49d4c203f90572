--------------------------- MODULE OwnershipProofs ---------------------------
(***************************************************************************)
(* No node serves that the security gate has not let in; no instance is    *)
(* lost but by emergency teardown of a node that had not recorded it; and  *)
(* a cluster that is marked DECOMMISSIONED has no recorded instance left.  *)
(* The last two rest on what a node's record and the fleets say of one id  *)
(* (Kept): an instance is created at the provider its pool names, and      *)
(* deleted there.  The last sections show that the loop and its operators  *)
(* implement NodeMachine, and that a converged store is left alone.        *)
(***************************************************************************)
EXTENDS ReconcilerProofs

-----------------------------------------------------------------------------
(* Admission.  No node serves without having passed the security gate and  *)
(* without an instance that runs.  The gate itself is one step; what makes *)
(* the claim hold is the way there: an instance recorded at PROVISIONING   *)
(* is never deleted before DECOMMISSIONING, whatever crashes in between.   *)

EquippedStates == {"PROVISIONING", "BOOTSTRAPPING", "REGISTERING", "HEALTHY"}

\* What Equipped says of node n, if r is its record and f are the fleets.
Ready(n, r, f) ==
  /\ r.state \in EquippedStates => \E q \in Provider : r.inst = q /\ f[q][n] \in Image
  /\ r.state = "HEALTHY" => r.secure /\ r.attested /\ r.image # None

LEMMA EquippedIsReady == Equipped <=> \A n \in NodeId : Ready(n, node[n], fleet)
BY DEF Equipped, Ready, EquippedStates

\* A step that writes one record, and touches the fleets at its id at most.
LEMMA OneNode ==
  ASSUME TypeOK, Equipped, NEW n \in NodeId, NEW r,
         node' = [node EXCEPT ![n] = r],
         \A q \in Provider, m \in NodeId \ {n} : fleet'[q][m] = fleet[q][m],
         Ready(n, r, fleet')
  PROVE  Equipped'
<1> SUFFICES ASSUME NEW m \in NodeId PROVE Ready(m, node'[m], fleet')
  BY DEF Equipped, Ready, EquippedStates
<1>1. CASE m = n
  BY <1>1 DEF TypeOK
<1>2. CASE m # n
  <2>1. node'[m] = node[m] /\ Ready(m, node[m], fleet)
    BY <1>2, EquippedIsReady DEF TypeOK
  <2> QED
    BY <1>2, <2>1 DEF Ready
<1> QED
  BY <1>1, <1>2

\* A node that does not serve and is not about to needs nothing.
LEMMA NotServing ==
  ASSUME NEW n, NEW r, NEW f, r.state \notin EquippedStates
  PROVE  Ready(n, r, f)
BY DEF Ready, EquippedStates

\* Forgetting what is never read again leaves a ready node ready.
LEMMA ForgetReady ==
  ASSUME NEW n, NEW r \in NodeRecord, NEW f, Ready(n, r, f)
  PROVE  Ready(n, Forget(r), f)
<1>1. CASE r.state \in LeavingStates
  BY <1>1, ForgetKeeps, NotServing DEF LeavingStates, EquippedStates
<1>2. CASE r.state \notin LeavingStates
  BY <1>2, ForgetKeeps DEF Ready
<1> QED
  BY <1>1, <1>2

\* Every stage leaves its node ready, and the others alone.
LEMMA StageEquips ==
  ASSUME TypeOK, Equipped, NEW n \in NodeId, NEW r \in NodeRecord, NEW s \in NodePool,
         Ready(n, r, fleet), Stage(n, r, s)
  PROVE  Equipped'
<1>1. /\ s.provider \in Provider
      /\ s.image \in Image
      /\ fleet \in [Provider -> [NodeId -> FleetStatus]]
  BY DEF NodePool, TypeOK
<1>2. {"FAILED", "PROVISIONING", "BOOTSTRAPPING", "REGISTERING", "HEALTHY",
       "DECOMMISSIONING", "TERMINATED"} \subseteq NodeState
  BY DEF NodeState
\* A written record that is ready is all it takes.
<1>3. ASSUME NEW r1 \in NodeRecord, Put(n, r1), Ready(n, r1, fleet'),
             \A q \in Provider, m \in NodeId \ {n} : fleet'[q][m] = fleet[q][m]
      PROVE  Equipped'
  <2>1. node' = [node EXCEPT ![n] = Forget(r1)]
    BY <1>3 DEF Put
  <2>2. Ready(n, Forget(r1), fleet')
    BY <1>3, ForgetReady
  <2> QED
    BY <1>3, <2>1, <2>2, OneNode
<1>4. ASSUME NEW r1 \in NodeRecord, NEW dst \in {"FAILED", "DECOMMISSIONING", "TERMINATED"},
             Put(n, transition(r1, dst)),
             \A q \in Provider, m \in NodeId \ {n} : fleet'[q][m] = fleet[q][m]
      PROVE  Equipped'
  <2>1. /\ transition(r1, dst) \in NodeRecord
        /\ transition(r1, dst).state \notin EquippedStates
    <3>1. dst \in NodeState /\ dst \notin EquippedStates
      BY <1>2 DEF EquippedStates
    <3>2. transition(r1, dst) \in NodeRecord /\ transition(r1, dst).state = dst
      BY <3>1, TransitionKeeps
    <3> QED
      BY <3>1, <3>2
  <2> QED
    BY <1>3, <1>4, <2>1, NotServing
<1>5. CASE CreateInstance(n, r, s)
  <2>1. PICK out \in CreateOutcomes(n, s) :
          /\ fleet' = [fleet EXCEPT ![s.provider][n] = out]
          /\ Put(n, IF out = "failed" THEN transition(r, "FAILED")
                    ELSE transition([r EXCEPT !.inst = s.provider], "PROVISIONING"))
    BY <1>5 DEF CreateInstance
  <2>2. /\ \A q \in Provider, m \in NodeId \ {n} : fleet'[q][m] = fleet[q][m]
        /\ fleet'[s.provider][n] = out
    BY <2>1, <1>1
  <2>3. CASE out = "failed"
    BY <2>1, <2>2, <2>3, <1>4
  <2>4. CASE out # "failed"
    <3> DEFINE r0 == [r EXCEPT !.inst = s.provider]
    <3>1. r0 \in NodeRecord /\ r0.inst = s.provider
      BY <1>1 DEF NodeRecord
    <3>2. /\ transition(r0, "PROVISIONING") \in NodeRecord
          /\ transition(r0, "PROVISIONING").inst = s.provider
          /\ transition(r0, "PROVISIONING").state = "PROVISIONING"
      BY <3>1, <1>2, TransitionKeeps
    <3>3. fleet'[s.provider][n] \in Image
      BY <2>2, <2>4, CreateOutcomesType
    <3>4. Ready(n, transition(r0, "PROVISIONING"), fleet')
      BY <3>2, <3>3, <1>1 DEF Ready
    <3> QED
      BY <2>1, <2>2, <2>4, <3>2, <3>4, <1>3
  <2> QED
    BY <2>3, <2>4
<1>6. CASE ApplyBaseline(n, r)
  <2> DEFINE r0 == [r EXCEPT !.baseline = TRUE]
  <2>1. r0 \in NodeRecord /\ r0.inst = r.inst
    BY DEF NodeRecord
  <2>2. /\ transition(r0, "BOOTSTRAPPING") \in NodeRecord
        /\ transition(r0, "BOOTSTRAPPING").inst = r.inst
        /\ transition(r0, "BOOTSTRAPPING").state = "BOOTSTRAPPING"
    BY <2>1, <1>2, TransitionKeeps
  <2>3. r.state = "PROVISIONING" /\ UNCHANGED fleet /\ Put(n, transition(r0, "BOOTSTRAPPING"))
    BY <1>6 DEF ApplyBaseline, BaselineApplied
  <2>4. Ready(n, transition(r0, "BOOTSTRAPPING"), fleet')
    BY <2>2, <2>3 DEF Ready, EquippedStates
  <2> QED
    BY <2>2, <2>3, <2>4, <1>3
<1>7. CASE Bootstrap(n, r, s)
  <2> DEFINE r0 == [r EXCEPT !.image = s.image, !.attested = TRUE]
  <2>1. r0 \in NodeRecord /\ r0.inst = r.inst
    BY <1>1 DEF NodeRecord
  <2>2. /\ transition(r0, "REGISTERING") \in NodeRecord
        /\ transition(r0, "REGISTERING").inst = r.inst
        /\ transition(r0, "REGISTERING").state = "REGISTERING"
    BY <2>1, <1>2, TransitionKeeps
  <2>3. r.state = "BOOTSTRAPPING" /\ UNCHANGED fleet /\ Put(n, transition(r0, "REGISTERING"))
    BY <1>7 DEF Bootstrap, Bootstrapped
  <2>4. Ready(n, transition(r0, "REGISTERING"), fleet')
    BY <2>2, <2>3 DEF Ready, EquippedStates
  <2> QED
    BY <2>2, <2>3, <2>4, <1>3
<1>8. CASE Register(n, r, s)
  <2> DEFINE r0 == [r EXCEPT !.secure = TRUE]
  <2>1. CASE GatePasses(r, s)
    <3>1. /\ r0 \in NodeRecord /\ r0.inst = r.inst /\ r0.secure
          /\ r0.attested = r.attested /\ r0.image = r.image
      BY DEF NodeRecord
    <3>2. /\ transition(r0, "HEALTHY") \in NodeRecord
          /\ transition(r0, "HEALTHY").inst = r.inst
          /\ transition(r0, "HEALTHY").state = "HEALTHY"
          /\ transition(r0, "HEALTHY").secure
          /\ transition(r0, "HEALTHY").attested = r.attested
          /\ transition(r0, "HEALTHY").image = r.image
      BY <3>1, <1>2, TransitionKeeps
    <3>3. r.state = "REGISTERING" /\ UNCHANGED fleet /\ Put(n, transition(r0, "HEALTHY"))
      BY <1>8, <2>1 DEF Register
    <3>4. r.attested /\ r.image # None
      BY <2>1, <1>1, NoneIsFresh DEF GatePasses
    <3>5. Ready(n, transition(r0, "HEALTHY"), fleet')
      BY <3>2, <3>3, <3>4 DEF Ready, EquippedStates
    <3> QED
      BY <3>2, <3>3, <3>5, <1>3
  <2>2. CASE ~GatePasses(r, s)
    BY <1>8, <2>2, <1>4 DEF Register
  <2> QED
    BY <2>1, <2>2
<1>9. CASE DrainStep(n, r)
  BY <1>9, <1>4 DEF DrainStep
<1>10. CASE DecommissionStep(n, r, s)
  <2>1. \A q \in Provider, m \in NodeId \ {n} : fleet'[q][m] = fleet[q][m]
    BY <1>10, <1>1 DEF DecommissionStep, InstanceDeleted
  <2> QED
    BY <1>10, <2>1, <1>4 DEF DecommissionStep
<1> QED
  BY <1>5, <1>6, <1>7, <1>8, <1>9, <1>10 DEF Stage

\* drain.start takes a node out of service or leaves it as ready as it was.
LEMMA DrainStartReady ==
  ASSUME NEW n, NEW r \in NodeRecord, NEW f, Ready(n, r, f)
  PROVE  Ready(n, drainStart(r), f)
BY DrainStartKeeps, NotServing DEF EquippedStates

\* The steps of a tick that write a node.
LEMMA EquippedNodeSteps ==
  ASSUME Shape, Equipped, NEW n \in NodeId, PerNode(n)
  PROVE  Equipped'
<1>a. TypeOK /\ node[n] \in NodeRecord /\ Ready(n, node[n], fleet)
  BY EquippedIsReady DEF Shape, TypeOK
\* Writes that keep the fleets.
<1>b. ASSUME NEW r \in NodeRecord, Put(n, r), Ready(n, r, fleet), UNCHANGED fleet
      PROVE  Equipped'
  BY <1>a, <1>b, ForgetReady, OneNode DEF Put
<1>1. CASE DetectFailure(n)
  <2>1. /\ transition(node[n], "FAILED") \in NodeRecord
        /\ transition(node[n], "FAILED").state \notin EquippedStates
    BY <1>a, TransitionKeeps DEF NodeState, EquippedStates
  <2> QED
    BY <1>1, <1>b, <2>1, NotServing DEF DetectFailure
<1>2. CASE AdvanceNode(n)
  <2>1. spec[tick.pool] \in NodePool
    BY <1>2 DEF AdvanceNode, Shape, TypeOK, TickShape, PoolPhases
  <2> QED
    BY <1>2, <1>a, <2>1, StageEquips DEF AdvanceNode
<1>3. CASE HealNode(n) \/ RollNode(n) \/ ScaleDownNode(n)
  <2>1. Put(n, drainStart(node[n])) /\ UNCHANGED fleet
    BY <1>3 DEF HealNode, RollNode, ScaleDownNode, DrainOne
  <2> QED
    BY <2>1, <1>a, <1>b, DrainStartKeeps, DrainStartReady
<1>4. CASE CreateNode(n)
  <2>1. Put(n, Requested(tick.pool)) /\ fleet' = Recycled(n) /\ tick.pool \in Pool
    BY <1>4 DEF CreateNode, Shape, TickShape, PoolPhases
  <2>2. /\ Forget(Requested(tick.pool)).state = "REQUESTED"
    BY <2>1, ConstantRecords, ForgetKeeps
  <2>3. \A q \in Provider, m \in NodeId \ {n} : fleet'[q][m] = fleet[q][m]
    BY <2>1, <1>a DEF Recycled, TypeOK
  <2> QED
    BY <2>1, <2>2, <2>3, <1>a, NotServing, OneNode DEF Put, EquippedStates
<1>5. CASE TeardownNode(n)
  <2>1. Stage(n, drainStart(node[n]), spec[node[n].pool])
    BY <1>5 DEF TeardownNode
  <2>2. node[n].state # "ABSENT"
    <3>1. drainStart(node[n]).state # "ABSENT"
      BY <2>1 DEF Stage, CreateInstance, ApplyBaseline, Bootstrap, Register, DrainStep,
                  DecommissionStep
    <3> QED
      BY <3>1 DEF drainStart
  <2>3. spec[node[n].pool] \in NodePool
    BY <2>2 DEF Shape, NodeShape, TypeOK
  <2> QED
    BY <2>1, <2>3, <1>a, DrainStartKeeps, DrainStartReady, StageEquips
<1>6. CASE GcNode(n)
  <2>1. Absent.state \notin EquippedStates /\ UNCHANGED fleet /\ Put(n, Absent)
    BY <1>6 DEF GcNode, Absent, EquippedStates
  <2> QED
    BY <2>1, <1>b, ConstantRecords, NotServing
<1> QED
  BY <1>1, <1>2, <1>3, <1>4, <1>5, <1>6 DEF PerNode

\* Reports and emergency teardown.
LEMMA EquippedOperator ==
  ASSUME Shape, Equipped, Operator
  PROVE  Equipped'
<1>a. TypeOK /\ \A n \in NodeId : node[n] \in NodeRecord /\ Ready(n, node[n], fleet)
  BY EquippedIsReady DEF Shape, TypeOK
<1>b. ASSUME NEW n \in NodeId, NEW r \in NodeRecord, Put(n, r), Ready(n, r, fleet),
             UNCHANGED fleet
      PROVE  Equipped'
  BY <1>a, <1>b, ForgetReady, OneNode DEF Put
<1>1. CASE UNCHANGED <<node, fleet>>
  BY <1>1 DEF Equipped
<1>2. ASSUME NEW n \in NodeId, NEW s \in Signal, Put(n, [node[n] EXCEPT !.signal = s]),
             UNCHANGED fleet
      PROVE  Equipped'
  <2>1. \A r \in NodeRecord :
          /\ [r EXCEPT !.signal = s] \in NodeRecord
          /\ [r EXCEPT !.signal = s].state = r.state
          /\ [r EXCEPT !.signal = s].inst = r.inst
          /\ [r EXCEPT !.signal = s].image = r.image
          /\ [r EXCEPT !.signal = s].attested = r.attested
          /\ [r EXCEPT !.signal = s].secure = r.secure
    BY DEF NodeRecord
  <2>2. Ready(n, [node[n] EXCEPT !.signal = s], fleet)
    BY <2>1, <1>a DEF Ready
  <2> QED
    BY <1>2, <1>a, <1>b, <2>1, <2>2
<1>3. ASSUME NEW n \in NodeId, ForceDecommissionNode(n)
      PROVE  Equipped'
  <2>1. /\ UNCHANGED fleet
        /\ \/ UNCHANGED node
           \/ \E r \in NodeRecord : Put(n, r) /\ r.state = "DECOMMISSIONING"
    BY <1>a, <1>3, ForceEffect
  <2>2. ASSUME NEW r, r.state = "DECOMMISSIONING" PROVE Ready(n, r, fleet)
    BY <2>2, NotServing DEF EquippedStates
  <2> QED
    BY <1>1, <1>b, <2>1, <2>2
<1>4. Reports \subseteq Signal /\ "stale" \in Signal
  BY ReportsType DEF Signal
<1> QED
  BY <1>1, <1>2, <1>3, <1>4
  DEF Operator, ApplyCluster, DecommissionCluster, ScalePool, RollingUpdate, ReportHealth,
      HeartbeatExpires

\* A crash loses no instance of a node that serves or is about to.
LEMMA EquippedFailure ==
  ASSUME Shape, Equipped, Failure
  PROVE  Equipped'
<1>a. TypeOK /\ \A n \in NodeId : node[n] \in NodeRecord /\ Ready(n, node[n], fleet)
  BY EquippedIsReady DEF Shape, TypeOK
<1>b. \A m \in NodeId :
        /\ Reloaded[m].state = node[m].state /\ Reloaded[m].inst = node[m].inst
        /\ Reloaded[m].image = node[m].image /\ Reloaded[m].attested = node[m].attested
        /\ Reloaded[m].secure = node[m].secure
  <2>1. \A r \in NodeRecord :
          LET r0 == [r EXCEPT !.baseline = FALSE]
          IN /\ r0.state = r.state /\ r0.inst = r.inst /\ r0.image = r.image
             /\ r0.attested = r.attested /\ r0.secure = r.secure
    BY DEF NodeRecord
  <2> QED
    BY <2>1, <1>a DEF Reloaded
\* Only an instance of a node that does not serve may be touched.
<1>c. ASSUME NEW n \in NodeId, node'[n].state \notin EquippedStates,
             \A m \in NodeId \ {n} :
               node'[m] = Reloaded[m] /\ \A q \in Provider : fleet'[q][m] = fleet[q][m]
      PROVE  Equipped'
  <2> SUFFICES ASSUME NEW m \in NodeId PROVE Ready(m, node'[m], fleet')
    BY DEF Equipped, Ready, EquippedStates
  <2>1. CASE m = n
    BY <2>1, <1>c, NotServing
  <2>2. CASE m # n
    BY <2>2, <1>a, <1>b, <1>c DEF Ready
  <2> QED
    BY <2>1, <2>2
<1>1. CASE Crash
  <2> SUFFICES ASSUME NEW m \in NodeId PROVE Ready(m, node'[m], fleet')
    BY DEF Equipped, Ready, EquippedStates
  <2> QED
    BY <1>1, <1>a, <1>b DEF Crash, Restart, Ready
<1>2. ASSUME NEW n \in NodeId, CrashInStage(n) PROVE Equipped'
  <2> DEFINE s == spec[node[n].pool]
  <2>1. node' = Reloaded /\ node[n].state \in {"REQUESTED", "DECOMMISSIONING"}
    BY <1>2 DEF CrashInStage, Restart
  <2>2. s \in NodePool /\ s.provider \in Provider
    <3>1. s \in NodePool
      BY <2>1 DEF Shape, NodeShape, TypeOK
    <3> QED
      BY <3>1 DEF NodePool
  <2>3. \A q \in Provider, m \in NodeId \ {n} : fleet'[q][m] = fleet[q][m]
    <3>1. CASE \E out \in CreateOutcomes(n, s) : fleet' = [fleet EXCEPT ![s.provider][n] = out]
      BY <3>1, <1>a, <2>2 DEF TypeOK
    <3>2. CASE fleet' = InstanceDeleted(n, node[n], s)
      BY <3>2, <1>a, <2>2 DEF InstanceDeleted, TypeOK
    <3> QED
      BY <1>2, <3>1, <3>2 DEF CrashInStage
  <2>4. node'[n].state \notin EquippedStates
    BY <2>1, <1>b DEF EquippedStates
  <2> QED
    BY <2>1, <2>3, <2>4, <1>c
<1>3. ASSUME NEW n \in NodeId, CrashInCreate(n) PROVE Equipped'
  <2>1. /\ node' = [Reloaded EXCEPT ![n] = Requested(tick.pool)]
        /\ fleet' = Recycled(n) /\ tick.pool \in Pool
    BY <1>3 DEF CrashInCreate, Shape, TickShape, PoolPhases
  <2>2. node'[n].state \notin EquippedStates
    BY <2>1, ConstantRecords DEF Reloaded, EquippedStates
  <2>3. \A m \in NodeId \ {n} :
          node'[m] = Reloaded[m] /\ \A q \in Provider : fleet'[q][m] = fleet[q][m]
    BY <2>1, <1>a DEF Recycled, Reloaded, TypeOK
  <2> QED
    BY <2>2, <2>3, <1>c
<1> QED
  BY <1>1, <1>2, <1>3 DEF Failure

LEMMA EquippedStep == Shape /\ Equipped /\ [Next]_vars => Equipped'
<1> SUFFICES ASSUME Shape, Equipped, [Next]_vars PROVE Equipped'
  OBVIOUS
<1>1. CASE UNCHANGED <<node, fleet>>
  BY <1>1 DEF Equipped
<1>2. CASE Tick
  <2>1. CASE \E n \in NodeId : PerNode(n)
    BY <2>1, EquippedNodeSteps
  <2>2. CASE ~\E n \in NodeId : PerNode(n)
    <3>1. UNCHANGED <<node, fleet>>
      BY <1>2, <2>2
      DEF Tick, BeginTick, EndDetect, LeavePlanned, SkipCluster, StartPools, StartTeardown,
          StartPool, BeginHeal, BeginRoll, BeginScale, FinishPool, FinishCluster,
          FinishTeardown, BeginGc, EndTick
    <3> QED
      BY <3>1, <1>1
  <2> QED
    BY <2>1, <2>2
<1>3. CASE Operator
  BY <1>3, EquippedOperator
<1>4. CASE Failure
  BY <1>4, EquippedFailure
<1>5. CASE UNCHANGED vars
  BY <1>5, <1>1 DEF vars
<1> QED
  BY <1>2, <1>3, <1>4, <1>5 DEF Next

LEMMA EquippedInit == Init => Equipped
BY DEF Init, Equipped, Absent

LEMMA EquippedAlways == Spec => []Equipped
BY EquippedInit, EquippedStep, ShapeAlways, PTL DEF Spec

\* Every HEALTHY node has passed the gate, is attested, is configured with a
\* known image and has an instance that runs (provision.py, policy.py): for
\* any fleet, any sequence of declarations, failures and crashes.
THEOREM Admission == Spec => []HealthyIsAdmitted
<1>1. Equipped => HealthyIsAdmitted
  BY DEF Equipped, HealthyIsAdmitted
<1> QED
  BY <1>1, EquippedAlways, PTL

-----------------------------------------------------------------------------
(* Ownership of one id: where its instance is.  A record names no provider *)
(* but its pool's, and only a forced removal of a node that was about to   *)
(* name one loses an instance.  Which instances are lost already is left   *)
(* open: S[n] are the providers at which n's instance, if any, is owned.   *)

\* Of node n, if r is its record, sp the declarations and f the fleets: what Named
\* says, and that r names what runs at the providers in own, or is about to.
Kept(own, n, r, sp, f) ==
  /\ \A q \in Provider :
       /\ q \in own /\ f[q][n] \in Image =>
            r.inst = q \/ (r.state = "REQUESTED" /\ sp[r.pool].provider = q)
       /\ r.inst = q /\ r.state = "TERMINATED" => f[q][n] \notin Image
  /\ r.inst # None => r.inst = sp[r.pool].provider /\ r.state # "REQUESTED"

OwnedOn(S) == \A n \in NodeId : Kept(S[n], n, node[n], spec, fleet)

\* A step that changes the records and the fleets at one id at most
LEMMA OneKept ==
  ASSUME NEW S, OwnedOn(S), NEW n \in NodeId, UNCHANGED spec,
         Kept(S[n], n, node'[n], spec, fleet'),
         \A m \in NodeId \ {n} :
           /\ node'[m].state = node[m].state /\ node'[m].pool = node[m].pool
           /\ node'[m].inst = node[m].inst
           /\ \A q \in Provider : fleet'[q][m] = fleet[q][m]
  PROVE  OwnedOn(S)'
<1> SUFFICES ASSUME NEW m \in NodeId PROVE Kept(S[m], m, node'[m], spec, fleet')
  BY DEF OwnedOn
<1>1. CASE m # n
  <2>1. Kept(S[m], m, node[m], spec, fleet)
    BY DEF OwnedOn
  <2> QED
    BY <1>1, <2>1 DEF Kept
<1> QED
  BY <1>1

LEMMA WrittenFields ==
  ASSUME TypeOK, NEW n \in NodeId, NEW r \in NodeRecord, Put(n, r)
  PROVE  /\ node'[n].state = r.state /\ node'[n].pool = r.pool /\ node'[n].inst = r.inst
         /\ \A m \in NodeId \ {n} : node'[m] = node[m]
BY ForgetKeeps DEF Put, TypeOK

LEMMA StageKeeps ==
  ASSUME NEW own, TypeOK, NEW n \in NodeId, NEW r \in NodeRecord, NEW s \in NodePool,
         s = spec[r.pool], Stage(n, r, s), Kept(own, n, r, spec, fleet)
  PROVE  /\ Kept(own, n, node'[n], spec, fleet')
         /\ \A m \in NodeId \ {n} :
              node'[m] = node[m] /\ \A q \in Provider : fleet'[q][m] = fleet[q][m]
<1>a. /\ s.provider \in Provider /\ s.image \in Image
      /\ fleet \in [Provider -> [NodeId -> FleetStatus]]
  BY DEF NodePool, TypeOK
<1>b. {"FAILED", "PROVISIONING", "BOOTSTRAPPING", "REGISTERING", "HEALTHY",
       "DECOMMISSIONING", "TERMINATED"} \subseteq NodeState
  BY DEF NodeState
<1>c. \A m \in NodeId \ {n} : node'[m] = node[m]
  BY StageMoves
<1>e. ASSUME NEW r1 \in NodeRecord, NEW dst \in NodeState, Put(n, transition(r1, dst))
      PROVE  node'[n].state = dst /\ node'[n].pool = r1.pool /\ node'[n].inst = r1.inst
  BY <1>e, TransitionKeeps, WrittenFields
\* A stage that leaves the fleets alone keeps the instance, and is not the last one.
<1>d. ASSUME NEW r1 \in NodeRecord, NEW dst \in NodeState, Put(n, transition(r1, dst)),
             r1.pool = r.pool, r1.inst = r.inst, r.state # "REQUESTED",
             dst \notin {"REQUESTED", "TERMINATED"}, UNCHANGED fleet
      PROVE  Kept(own, n, node'[n], spec, fleet')
  <2>1. node'[n].state = dst /\ node'[n].pool = r.pool /\ node'[n].inst = r.inst
    BY <1>d, <1>e
  <2> QED
    BY <1>d, <2>1 DEF Kept
<1>1. CASE CreateInstance(n, r, s)
  <2>0. r.state = "REQUESTED"
    BY <1>1 DEF CreateInstance
  <2>1. PICK out \in CreateOutcomes(n, s) :
          /\ fleet' = [fleet EXCEPT ![s.provider][n] = out]
          /\ Put(n, IF out = "failed" THEN transition(r, "FAILED")
                    ELSE transition([r EXCEPT !.inst = s.provider], "PROVISIONING"))
    BY <1>1 DEF CreateInstance
  <2>2. /\ \A m \in NodeId \ {n}, q \in Provider : fleet'[q][m] = fleet[q][m]
        /\ \A q \in Provider \ {s.provider} : fleet'[q][n] = fleet[q][n]
        /\ fleet'[s.provider][n] = out
    BY <2>1, <1>a
  <2>3. /\ \A q \in Provider \ {s.provider} : q \in own => fleet[q][n] \notin Image
        /\ r.inst = None
    BY <1>a, <2>0, NoneIsFresh DEF Kept
  <2>4. CASE out = "failed"
    <3>1. node'[n].state = "FAILED" /\ node'[n].pool = r.pool /\ node'[n].inst = r.inst
      BY <2>1, <2>4, <1>b, <1>e
    <3>2. out \notin Image
      BY <2>4, NoImageIsAStatus
    <3> QED
      BY <1>c, <2>2, <2>3, <3>1, <3>2 DEF Kept
  <2>5. CASE out # "failed"
    <3> DEFINE r0 == [r EXCEPT !.inst = s.provider]
    <3>1. r0 \in NodeRecord /\ r0.inst = s.provider /\ r0.pool = r.pool
      BY <1>a DEF NodeRecord
    <3>2. Put(n, transition(r0, "PROVISIONING"))
      BY <2>1, <2>5
    <3> HIDE DEF r0
    <3>3. /\ node'[n].state = "PROVISIONING" /\ node'[n].pool = r.pool
          /\ node'[n].inst = s.provider
      BY <3>1, <3>2, <1>b, <1>e
    <3> QED
      BY <1>c, <2>2, <2>3, <3>3 DEF Kept
  <2> QED
    BY <2>4, <2>5
<1>2. CASE ApplyBaseline(n, r) \/ Bootstrap(n, r, s) \/ Register(n, r, s) \/ DrainStep(n, r)
  <2>1. /\ [r EXCEPT !.baseline = TRUE] \in NodeRecord
        /\ [r EXCEPT !.baseline = TRUE].pool = r.pool
        /\ [r EXCEPT !.baseline = TRUE].inst = r.inst
        /\ [r EXCEPT !.image = s.image, !.attested = TRUE] \in NodeRecord
        /\ [r EXCEPT !.image = s.image, !.attested = TRUE].pool = r.pool
        /\ [r EXCEPT !.image = s.image, !.attested = TRUE].inst = r.inst
        /\ [r EXCEPT !.secure = TRUE] \in NodeRecord
        /\ [r EXCEPT !.secure = TRUE].pool = r.pool
        /\ [r EXCEPT !.secure = TRUE].inst = r.inst
    BY <1>a DEF NodeRecord
  <2>2. /\ UNCHANGED fleet /\ r.state # "REQUESTED"
        /\ \/ Put(n, transition([r EXCEPT !.baseline = TRUE], "BOOTSTRAPPING"))
           \/ Put(n, transition([r EXCEPT !.image = s.image, !.attested = TRUE], "REGISTERING"))
           \/ Put(n, transition([r EXCEPT !.secure = TRUE], "HEALTHY"))
           \/ Put(n, transition(r, "FAILED"))
           \/ Put(n, transition(r, "DECOMMISSIONING"))
    BY <1>2 DEF ApplyBaseline, BaselineApplied, Bootstrap, Bootstrapped, Register, DrainStep
  <2>3. Kept(own, n, node'[n], spec, fleet')
    BY <1>b, <1>d, <2>1, <2>2
  <2> QED
    BY <1>c, <2>2, <2>3
<1>3. CASE DecommissionStep(n, r, s)
  <2>1. /\ r.state = "DECOMMISSIONING" /\ Put(n, transition(r, "TERMINATED"))
        /\ fleet' = InstanceDeleted(n, r, s)
    BY <1>3 DEF DecommissionStep
  <2>2. /\ node'[n].state = "TERMINATED" /\ node'[n].pool = r.pool /\ node'[n].inst = r.inst
    BY <2>1, <1>b, <1>e
  <2>3. \A m \in NodeId \ {n}, q \in Provider : fleet'[q][m] = fleet[q][m]
    BY <2>1, <1>a DEF InstanceDeleted
  <2>4. /\ \A q \in Provider : fleet'[q][n] \in Image => fleet[q][n] \in Image
        /\ fleet'[s.provider][n] \in Image => r.inst # s.provider
    BY <1>a, <2>1, NoImageIsAStatus DEF InstanceDeleted
  <2> QED
    BY <1>c, <2>1, <2>2, <2>3, <2>4, NoneIsFresh DEF Kept
<1> QED
  BY <1>1, <1>2, <1>3 DEF Stage

-----------------------------------------------------------------------------
(* OwnedOn is inductive where no pool moves to another provider by         *)
(* declaration and no node that is owned is forced out of REQUESTED.       *)

LEMMA OwnedNodeSteps ==
  ASSUME NEW S, Shape, WorkShape, OwnedOn(S), NEW n \in NodeId, PerNode(n)
  PROVE  OwnedOn(S)'
<1>a. /\ TypeOK /\ node[n] \in NodeRecord /\ UNCHANGED spec
      /\ Kept(S[n], n, node[n], spec, fleet)
  BY NodeStepFrame DEF OwnedOn, Shape, TypeOK
\* The record moves between two states in which it owns what it owns.
<1>b. ASSUME NEW r \in NodeRecord, Put(n, r), UNCHANGED fleet,
             r.pool = node[n].pool, r.inst = node[n].inst,
             r.state = node[n].state \/ {r.state, node[n].state} \intersect {"REQUESTED", "TERMINATED"} = {}
      PROVE  OwnedOn(S)'
  <2>1. /\ node'[n].state = r.state /\ node'[n].pool = r.pool /\ node'[n].inst = r.inst
        /\ \A m \in NodeId \ {n} : node'[m] = node[m]
    BY <1>a, <1>b, WrittenFields
  <2>2. Kept(S[n], n, node'[n], spec, fleet')
    BY <1>a, <1>b, <2>1 DEF Kept
  <2> QED
    BY <1>a, <1>b, <2>1, <2>2, OneKept
<1>1. CASE DetectFailure(n)
  <2>1. /\ Put(n, transition(node[n], "FAILED")) /\ UNCHANGED fleet
        /\ node[n].state = "HEALTHY"
    BY <1>1 DEF DetectFailure, Suspect
  <2> QED
    BY <1>a, <1>b, <2>1, TransitionKeeps DEF NodeState
<1>2. CASE HealNode(n) \/ RollNode(n) \/ ScaleDownNode(n)
  <2>1. Put(n, drainStart(node[n])) /\ UNCHANGED fleet
    BY <1>2 DEF HealNode, RollNode, ScaleDownNode, DrainOne
  <2>2. /\ drainStart(node[n]).pool = node[n].pool /\ drainStart(node[n]).inst = node[n].inst
        /\ \/ drainStart(node[n]).state = node[n].state
           \/ {drainStart(node[n]).state, node[n].state}
                \intersect {"REQUESTED", "TERMINATED"} = {}
    BY <1>a, DrainStartKeeps
  <2>3. drainStart(node[n]) \in NodeRecord
    BY <1>a, DrainStartKeeps
  <2> HIDE DEF drainStart
  <2> QED
    BY <1>b, <2>1, <2>2, <2>3
<1>3. CASE AdvanceNode(n)
  <2>1. /\ tick.pc = "advance" /\ Stage(n, node[n], spec[tick.pool])
        /\ spec[tick.pool] \in NodePool /\ node[n].pool = tick.pool
    BY <1>3 DEF AdvanceNode, Shape, TypeOK, TickShape, WorkShape, PoolPhases
  <2>2. /\ Kept(S[n], n, node'[n], spec, fleet')
        /\ \A m \in NodeId \ {n} :
             node'[m] = node[m] /\ \A q \in Provider : fleet'[q][m] = fleet[q][m]
    BY <1>a, <2>1, StageKeeps
  <2> QED
    BY <1>a, <2>2, OneKept
<1>4. CASE TeardownNode(n)
  <2> DEFINE r == drainStart(node[n])
  <2>1. tick.pc = "teardown" /\ n \in tick.nodes /\ Stage(n, r, spec[node[n].pool])
    BY <1>4 DEF TeardownNode
  <2>2. spec[node[n].pool] \in NodePool
    <3>1. node[n].pool \in Pool
      BY <2>1 DEF WorkShape
    <3>2. node[n].state # "ABSENT"
      BY <3>1, NoneIsFresh DEF Shape, NodeShape, Absent
    <3> QED
      BY <3>2 DEF Shape, NodeShape, TypeOK
  <2>3. r \in NodeRecord /\ r.pool = node[n].pool /\ r.inst = node[n].inst
        /\ \/ r.state = node[n].state
           \/ {r.state, node[n].state} \intersect {"REQUESTED", "TERMINATED"} = {}
    BY <1>a, DrainStartKeeps
  <2> HIDE DEF r
  <2>4. Kept(S[n], n, r, spec, fleet)
    BY <1>a, <2>3 DEF Kept
  <2>5. /\ Kept(S[n], n, node'[n], spec, fleet')
        /\ \A m \in NodeId \ {n} :
             node'[m] = node[m] /\ \A q \in Provider : fleet'[q][m] = fleet[q][m]
    BY <1>a, <2>1, <2>2, <2>3, <2>4, StageKeeps
  <2> QED
    BY <1>a, <2>5, OneKept
<1>5. CASE CreateNode(n)
  <2>1. Put(n, Requested(tick.pool)) /\ fleet' = Recycled(n) /\ tick.pool \in Pool
    BY <1>5 DEF CreateNode, Shape, TickShape, PoolPhases
  <2>2. /\ \A q \in Provider : fleet'[q][n] = "none"
        /\ \A q \in Provider, m \in NodeId \ {n} : fleet'[q][m] = fleet[q][m]
    BY <1>a, <2>1 DEF Recycled, TypeOK
  <2>3. /\ node'[n].state = "REQUESTED" /\ node'[n].inst = None
        /\ \A m \in NodeId \ {n} : node'[m] = node[m]
    <3>1. Requested(tick.pool).inst = None
      BY DEF Requested, Absent
    <3> QED
      BY <1>a, <2>1, <3>1, ConstantRecords, WrittenFields
  <2>4. Kept(S[n], n, node'[n], spec, fleet')
    BY <2>2, <2>3, NoImageIsAStatus DEF Kept
  <2> QED
    BY <1>a, <2>2, <2>3, <2>4, OneKept
<1>6. CASE GcNode(n)
  <2>1. node[n].state = "TERMINATED" /\ Put(n, Absent) /\ UNCHANGED fleet
    BY <1>6 DEF GcNode
  <2>2. /\ node'[n].state = "ABSENT" /\ node'[n].inst = None
        /\ \A m \in NodeId \ {n} : node'[m] = node[m]
    <3>1. Absent.state = "ABSENT" /\ Absent.inst = None
      BY DEF Absent
    <3> QED
      BY <1>a, <2>1, <3>1, ConstantRecords, WrittenFields
  <2>3. Kept(S[n], n, node'[n], spec, fleet')
    BY <1>a, <2>1, <2>2 DEF Kept
  <2> QED
    BY <1>a, <2>1, <2>2, <2>3, OneKept
<1> QED
  BY <1>1, <1>2, <1>3, <1>4, <1>5, <1>6 DEF PerNode

\* A declaration may change everything of a pool but its provider.
LEMMA OwnedOperator ==
  ASSUME NEW S, "migrate" \notin Ops, Shape, OwnedOn(S), Operator,
         \A n \in NodeId : node[n].state = "REQUESTED" /\ node'[n].state = "DECOMMISSIONING"
                          => S[n] = {}
  PROVE  OwnedOn(S)'
<1>a. /\ TypeOK /\ spec \in [Pool -> NodePool \union {None}] /\ NodeShape
      /\ \A n \in NodeId : node[n] \in NodeRecord
  BY DEF Shape, TypeOK
<1>b. ASSUME UNCHANGED <<node, fleet>>,
             \A p \in Pool : spec[p] # None => spec'[p].provider = spec[p].provider
      PROVE  OwnedOn(S)'
  <2> SUFFICES ASSUME NEW n \in NodeId PROVE Kept(S[n], n, node[n], spec', fleet)
    BY <1>b DEF OwnedOn
  <2>1. Kept(S[n], n, node[n], spec, fleet)
    BY DEF OwnedOn
  <2>2. CASE node[n].state = "ABSENT"
    <3>1. node[n].inst = None
      BY <1>a, <2>2 DEF NodeShape, Absent
    <3> QED
      BY <2>1, <2>2, <3>1 DEF Kept
  <2>3. CASE node[n].state # "ABSENT"
    <3>1. spec'[node[n].pool].provider = spec[node[n].pool].provider
      BY <1>a, <1>b, <2>3 DEF NodeShape
    <3> QED
      BY <2>1, <3>1 DEF Kept
  <2> QED
    BY <2>2, <2>3
<1>1. ASSUME NEW c \in Cluster, ApplyCluster(c) PROVE OwnedOn(S)'
  <2>1. PICK ps \in SUBSET {p \in Pool : ClusterOf[p] = c} : \E f \in [ps -> PoolSpecs] :
          /\ spec' = [p \in Pool |-> IF p \in ps THEN f[p] ELSE spec[p]]
          /\ "migrate" \notin Ops =>
               \A p \in ps : spec[p] # None => f[p].provider = spec[p].provider
    BY <1>1 DEF ApplyCluster
  <2>2. PICK f \in [ps -> PoolSpecs] :
          /\ spec' = [p \in Pool |-> IF p \in ps THEN f[p] ELSE spec[p]]
          /\ \A p \in ps : spec[p] # None => f[p].provider = spec[p].provider
    BY <2>1
  <2> QED
    BY <1>1, <1>b, <2>2 DEF ApplyCluster
<1>2. ASSUME NEW c \in Cluster, DecommissionCluster(c) PROVE OwnedOn(S)'
  BY <1>2, <1>b DEF DecommissionCluster
<1>3. ASSUME NEW p \in Pool, ScalePool(p) \/ RollingUpdate(p) PROVE OwnedOn(S)'
  <2>1. /\ spec[p] \in NodePool /\ UNCHANGED <<node, fleet>>
        /\ \/ \E s \in PoolSpecs : spec' = [spec EXCEPT ![p].desired = s.desired]
           \/ \E i \in Image : spec' = [spec EXCEPT ![p].image = i]
    BY <1>3, <1>a DEF ScalePool, RollingUpdate
  <2>2. \A q \in Pool : spec[q] # None => spec'[q].provider = spec[q].provider
    BY <1>a, <2>1 DEF NodePool
  <2> QED
    BY <1>b, <2>1, <2>2
<1>4. ASSUME NEW n \in NodeId, ReportHealth(n) \/ HeartbeatExpires(n) PROVE OwnedOn(S)'
  <2>1. UNCHANGED <<spec, fleet>> /\ \E s \in Signal : Put(n, [node[n] EXCEPT !.signal = s])
    BY <1>4, ReportsType DEF ReportHealth, HeartbeatExpires, Signal
  <2>2. PICK s \in Signal : Put(n, [node[n] EXCEPT !.signal = s])
    BY <2>1
  <2>3. LET r == [node[n] EXCEPT !.signal = s]
        IN r \in NodeRecord /\ r.state = node[n].state /\ r.pool = node[n].pool
           /\ r.inst = node[n].inst
    BY <1>a DEF NodeRecord
  <2>4. /\ node'[n].state = node[n].state /\ node'[n].pool = node[n].pool
        /\ node'[n].inst = node[n].inst /\ \A m \in NodeId \ {n} : node'[m] = node[m]
    BY <1>a, <2>2, <2>3, WrittenFields
  <2>5. Kept(S[n], n, node'[n], spec, fleet')
    BY <2>1, <2>4 DEF OwnedOn, Kept
  <2> QED
    BY <2>1, <2>4, <2>5, OneKept
<1>5. ASSUME NEW n \in NodeId, ForceDecommissionNode(n) PROVE OwnedOn(S)'
  <2>1. UNCHANGED <<spec, fleet>>
    BY <1>5 DEF ForceDecommissionNode
  <2>2. CASE UNCHANGED node
    BY <2>1, <2>2 DEF OwnedOn
  <2>3. CASE ~UNCHANGED node
    <3>1. PICK r \in NodeRecord : /\ Put(n, r) /\ r.state = "DECOMMISSIONING"
                                 /\ r.pool = node[n].pool /\ r.inst = node[n].inst
      BY <1>a, <1>5, <2>3, ForceEffect
    <3>2. /\ node'[n].state = "DECOMMISSIONING" /\ node'[n].pool = node[n].pool
          /\ node'[n].inst = node[n].inst /\ \A m \in NodeId \ {n} : node'[m] = node[m]
      BY <1>a, <3>1, WrittenFields
    <3>3. node[n].state = "REQUESTED" => S[n] = {}
      BY <3>2
    <3>4. Kept(S[n], n, node'[n], spec, fleet')
      BY <2>1, <3>2, <3>3 DEF OwnedOn, Kept
    <3> QED
      BY <2>1, <3>2, <3>4, OneKept
  <2> QED
    BY <2>2, <2>3
<1> QED
  BY <1>1, <1>2, <1>3, <1>4, <1>5 DEF Operator

\* The store that is loaded again owns what it owned; what a provider did before a
\* crash will be done again.
LEMMA OwnedFailure ==
  ASSUME NEW S, Shape, OwnedOn(S), Failure
  PROVE  OwnedOn(S)'
<1>a. /\ TypeOK /\ spec \in [Pool -> NodePool \union {None}]
      /\ fleet \in [Provider -> [NodeId -> FleetStatus]]
      /\ \A m \in NodeId : /\ Reloaded[m].state = node[m].state
                           /\ Reloaded[m].pool = node[m].pool
                           /\ Reloaded[m].inst = node[m].inst
  <2>1. \A r \in NodeRecord :
          /\ [r EXCEPT !.baseline = FALSE].state = r.state
          /\ [r EXCEPT !.baseline = FALSE].pool = r.pool
          /\ [r EXCEPT !.baseline = FALSE].inst = r.inst
    BY DEF NodeRecord
  <2> QED
    BY <2>1 DEF Shape, TypeOK, Reloaded
<1>b. \A m \in NodeId : Kept(S[m], m, node[m], spec, fleet)
  BY DEF OwnedOn
<1>1. CASE Crash
  <2> SUFFICES ASSUME NEW m \in NodeId PROVE Kept(S[m], m, node'[m], spec, fleet)
    BY <1>1 DEF Crash, Restart, OwnedOn
  <2> QED
    BY <1>1, <1>a, <1>b DEF Crash, Restart, Kept
<1>2. ASSUME NEW n \in NodeId, CrashInStage(n) PROVE OwnedOn(S)'
  <2> DEFINE s == spec[node[n].pool]
  <2>1. node' = Reloaded /\ node[n].state \in {"REQUESTED", "DECOMMISSIONING"} /\ UNCHANGED spec
    BY <1>2 DEF CrashInStage, Restart
  <2>2. s \in NodePool /\ s.provider \in Provider
    <3>1. s \in NodePool
      BY <2>1 DEF Shape, NodeShape, TypeOK
    <3> QED
      BY <3>1 DEF NodePool
  <2>3. CASE node[n].state = "REQUESTED"
             /\ \E out \in CreateOutcomes(n, s) : fleet' = [fleet EXCEPT ![s.provider][n] = out]
    <3>1. /\ \A q \in Provider \ {s.provider} : fleet'[q][n] = fleet[q][n]
          /\ \A q \in Provider, m \in NodeId \ {n} : fleet'[q][m] = fleet[q][m]
      BY <2>2, <2>3, <1>a
    <3>2. Kept(S[n], n, node'[n], spec, fleet')
      <4>a. node[n].state = "REQUESTED"
        BY <2>3
      <4>b. /\ Reloaded[n].state = node[n].state /\ Reloaded[n].pool = node[n].pool
            /\ Reloaded[n].inst = node[n].inst
        BY <1>a
      <4>1. /\ node'[n].state = "REQUESTED" /\ node'[n].pool = node[n].pool
            /\ node'[n].inst = node[n].inst /\ node[n].state = "REQUESTED"
            /\ Kept(S[n], n, node[n], spec, fleet)
        BY <2>1, <4>a, <4>b, <1>b
      <4>2. ASSUME NEW q \in Provider, q \in S[n], fleet'[q][n] \in Image, q # s.provider
            PROVE  FALSE
        BY <3>1, <4>1, <4>2, NoneIsFresh DEF Kept
      <4> QED
        BY <4>1, <4>2 DEF Kept
    <3> QED
      BY <1>a, <2>1, <3>1, <3>2, OneKept
  <2>4. CASE node[n].state = "DECOMMISSIONING" /\ fleet' = InstanceDeleted(n, node[n], s)
    <3>1. /\ \A q \in Provider : fleet'[q][n] \in Image => fleet[q][n] \in Image
          /\ \A q \in Provider, m \in NodeId \ {n} : fleet'[q][m] = fleet[q][m]
      BY <2>2, <2>4, <1>a, NoImageIsAStatus DEF InstanceDeleted
    <3>2. Kept(S[n], n, node'[n], spec, fleet')
      BY <1>a, <1>b, <2>1, <2>4, <3>1 DEF Kept
    <3> QED
      BY <1>a, <2>1, <3>1, <3>2, OneKept
  <2> QED
    BY <1>2, <2>3, <2>4 DEF CrashInStage
<1>3. ASSUME NEW n \in NodeId, CrashInCreate(n) PROVE OwnedOn(S)'
  <2>1. /\ node' = [Reloaded EXCEPT ![n] = Requested(tick.pool)]
        /\ fleet' = Recycled(n) /\ tick.pool \in Pool /\ UNCHANGED spec
    BY <1>3 DEF CrashInCreate, Shape, TickShape, PoolPhases
  <2>2. /\ \A q \in Provider : fleet'[q][n] = "none"
        /\ \A q \in Provider, m \in NodeId \ {n} : fleet'[q][m] = fleet[q][m]
    BY <1>a, <2>1 DEF Recycled
  <2>3. /\ node'[n] = Requested(tick.pool)
        /\ \A m \in NodeId \ {n} : node'[m] = Reloaded[m]
    BY <2>1 DEF Reloaded
  <2>4. Kept(S[n], n, node'[n], spec, fleet')
    <3>1. Requested(tick.pool).inst = None /\ Requested(tick.pool).state = "REQUESTED"
      BY <2>1, ConstantRecords DEF Requested, Absent
    <3> QED
      BY <2>2, <2>3, <3>1, NoImageIsAStatus DEF Kept
  <2> QED
    BY <1>a, <2>1, <2>2, <2>3, <2>4, OneKept
<1> QED
  BY <1>1, <1>2, <1>3 DEF Failure

\* What a step of the loop that works on no node leaves alone
LEMMA Bookkeeping ==
  ASSUME Tick, ~\E n \in NodeId : PerNode(n)
  PROVE  UNCHANGED <<node, spec, fleet>>
BY DEF Tick, BeginTick, EndDetect, LeavePlanned, SkipCluster, StartPools, StartTeardown,
       StartPool, BeginHeal, BeginRoll, BeginScale, FinishPool, FinishCluster,
       FinishTeardown, BeginGc, EndTick

\* A node that was only requested is forced: the one step that may lose an instance.
Abandoned(n) ==
  /\ tick.pc = "idle" /\ node[n].state = "REQUESTED"
  /\ node'[n].state = "DECOMMISSIONING"

\* A step loses no instance but the abandoned ones, and records stay well named.
LEMMA NamedStep ==
  ASSUME "migrate" \notin Ops, Shape, WorkShape, Named, [Next]_vars
  PROVE  /\ Named'
         /\ \A q \in Provider, n \in NodeId : ~Lost(q, n) /\ Lost(q, n)' => Abandoned(n)
<1>1. PICK S : \A n \in NodeId :
                 S[n] = IF Abandoned(n) THEN {} ELSE {q \in Provider : ~Lost(q, n)}
  <2> DEFINE T == [n \in NodeId |-> IF Abandoned(n) THEN {} ELSE {q \in Provider : ~Lost(q, n)}]
  <2>1. \A n \in NodeId : T[n] = IF Abandoned(n) THEN {} ELSE {q \in Provider : ~Lost(q, n)}
    OBVIOUS
  <2> QED
    BY <2>1
<1>2. OwnedOn(S)
  <2> SUFFICES ASSUME NEW n \in NodeId PROVE Kept(S[n], n, node[n], spec, fleet)
    BY DEF OwnedOn
  <2>1. \A q \in Provider : q \in S[n] => ~Lost(q, n)
    BY <1>1
  <2> QED
    BY <2>1 DEF Kept, Named, Lost
<1>3. OwnedOn(S)'
  <2>1. CASE UNCHANGED <<node, spec, fleet>>
    BY <1>2, <2>1 DEF OwnedOn
  <2>2. CASE Tick
    BY <1>2, <2>1, <2>2, Bookkeeping, OwnedNodeSteps
  <2>3. CASE Operator
    <3>1. tick.pc = "idle"
      BY <2>3 DEF Operator, ApplyCluster, DecommissionCluster, ScalePool, RollingUpdate,
                  ReportHealth, HeartbeatExpires, ForceDecommissionNode
    <3>2. \A n \in NodeId : node[n].state = "REQUESTED" /\ node'[n].state = "DECOMMISSIONING"
                          => S[n] = {}
      BY <1>1, <3>1 DEF Abandoned
    <3> QED
      BY <1>2, <2>3, <3>2, OwnedOperator
  <2>4. CASE Failure
    BY <1>2, <2>4, OwnedFailure
  <2> QED
    BY <2>1, <2>2, <2>3, <2>4 DEF Next, vars
<1>4. Named'
  BY <1>3 DEF OwnedOn, Kept, Named
<1>5. ASSUME NEW q \in Provider, NEW n \in NodeId, ~Lost(q, n), Lost(q, n)', ~Abandoned(n)
      PROVE  FALSE
  <2>1. q \in S[n]
    BY <1>1, <1>5
  <2>2. Kept(S[n], n, node'[n], spec', fleet')
    BY <1>3 DEF OwnedOn
  <2> QED
    BY <1>5, <2>1, <2>2 DEF Kept, Lost
<1> QED
  BY <1>4, <1>5

LEMMA NamedInit == Init => Named
BY DEF Init, Named, Absent

\* A node that is abandoned was forced.
LEMMA OnlyForceAbandons ==
  ASSUME "force" \notin Ops, Shape, [Next]_vars, NEW n \in NodeId
  PROVE  ~Abandoned(n)
<1> SUFFICES ASSUME Abandoned(n) PROVE FALSE
  OBVIOUS
<1>a. /\ TypeOK /\ tick.pc = "idle" /\ node'[n].state # node[n].state
      /\ \A m \in NodeId : node[m] \in NodeRecord
  BY DEF Abandoned, Shape, TypeOK
<1>1. CASE UNCHANGED node
  BY <1>1, <1>a
<1>2. CASE Tick
  <2>1. BeginTick
    BY <1>2, <1>a
    DEF Tick, EndDetect, LeavePlanned, SkipCluster, StartPools, StartTeardown, StartPool,
        BeginHeal, BeginRoll, BeginScale, FinishPool, FinishCluster, FinishTeardown, BeginGc,
        EndTick, PerNode, DetectFailure, AdvanceNode, HealNode, RollNode, CreateNode,
        ScaleDownNode, TeardownNode, GcNode
  <2> QED
    BY <1>1, <2>1 DEF BeginTick
<1>3. ASSUME NEW m \in NodeId, ReportHealth(m) \/ HeartbeatExpires(m) PROVE FALSE
  <2>1. PICK s \in Signal : Put(m, [node[m] EXCEPT !.signal = s])
    BY <1>3, ReportsType DEF ReportHealth, HeartbeatExpires, Signal
  <2>2. LET r == [node[m] EXCEPT !.signal = s]
        IN r \in NodeRecord /\ r.state = node[m].state
    BY <1>a DEF NodeRecord
  <2> QED
    BY <1>a, <2>1, <2>2, WrittenFields
<1>4. CASE Operator
  BY <1>1, <1>3, <1>4
  DEF Operator, ApplyCluster, DecommissionCluster, ScalePool, RollingUpdate,
      ForceDecommissionNode
<1>5. CASE Failure
  <2>1. node' = Reloaded
    BY <1>5, <1>a DEF Failure, Crash, CrashInStage, CrashInCreate, Restart
  <2>2. \A r \in NodeRecord : [r EXCEPT !.baseline = FALSE].state = r.state
    BY DEF NodeRecord
  <2> QED
    BY <2>1, <2>2, <1>a DEF Reloaded
<1> QED
  BY <1>1, <1>2, <1>4, <1>5 DEF Next, vars

\* Records are well named wherever pools stay with their provider.
LEMMA NamedAlways ==
  ASSUME "migrate" \notin Ops
  PROVE  Spec => []Named
<1>1. Shape /\ WorkShape /\ Named /\ [Next]_vars => Named'
  BY NamedStep
<1> QED
  BY <1>1, NamedInit, ShapeAlways, WorkAlways, PTL DEF Spec

\* An instance is lost only with a node that is forced before its instance was recorded:
\* not by a creation that fails, nor wherever the process crashes, between the provider's
\* call and the write of the store too, nor by teardown, redeclaration and the removal of
\* records, also of nodes that were forced later (create_instance and delete_instance
\* are keyed by the node's id).
THEOREM OnlyForceLoses ==
  ASSUME "migrate" \notin Ops
  PROVE  Spec => LostByForceOnly
<1> DEFINE A == \A q \in Provider, n \in NodeId : ~Lost(q, n) /\ Lost(q, n)' =>
                  /\ tick.pc = "idle" /\ node[n].state = "REQUESTED"
                  /\ node'[n].state = "DECOMMISSIONING"
<1>1. Shape /\ WorkShape /\ Named /\ [Next]_vars => [A]_vars
  BY NamedStep DEF Abandoned
<1>2. Spec => [][A]_vars
  BY <1>1, NamedAlways, ShapeAlways, WorkAlways, PTL DEF Spec
<1> QED
  BY <1>2 DEF LostByForceOnly

\* Where nothing is forced, no instance runs that the store has lost track of.
THEOREM NothingOrphaned ==
  ASSUME "migrate" \notin Ops, "force" \notin Ops
  PROVE  Spec => []NoOrphan
<1>1. Init => NoOrphan
  BY NoImageIsAStatus DEF Init, EmptyFleets, NoOrphan, Lost
<1>2. Shape /\ WorkShape /\ Named /\ NoOrphan /\ [Next]_vars => NoOrphan'
  <2> SUFFICES ASSUME Shape, WorkShape, Named, NoOrphan, [Next]_vars,
                      NEW q \in Provider, NEW n \in NodeId
               PROVE  ~Lost(q, n)'
    BY DEF NoOrphan
  <2>1. ~Lost(q, n) /\ ~Abandoned(n)
    BY OnlyForceAbandons DEF NoOrphan
  <2> QED
    BY <2>1, NamedStep
<1> QED
  BY <1>1, <1>2, NamedAlways, ShapeAlways, WorkAlways, PTL DEF Spec

-----------------------------------------------------------------------------
(* Teardown *)

LEMMA EmptyStep ==
  ASSUME Shape, EmptyShape, [Next]_vars
  PROVE  EmptyShape'
<1>a. tick \in TickRecord
  BY DEF Shape, TypeOK
<1>1. ASSUME NEW n \in NodeId, PerNode(n) PROVE EmptyShape'
  <2>1. SUFFICES ASSUME tick.pc = "teardown" PROVE EmptyShape'
    BY <1>1, NodeStepFrame DEF EmptyShape
  <2>2. TeardownNode(n)
    BY <1>1, <2>1 DEF PerNode, DetectFailure, AdvanceNode, HealNode, RollNode, CreateNode,
                      ScaleDownNode, GcNode
  <2>3. n \in tick.nodes /\ tick'.anyLive = tick.anyLive
    BY <2>2, <1>a DEF TeardownNode, TickRecord
  <2> QED
    BY <2>1, <2>3 DEF EmptyShape
<1>2. ASSUME NEW c \in Cluster, StartTeardown(c) PROVE EmptyShape'
  <2>1. /\ tick'.cluster = c /\ tick'.nodes = TeardownTargets(c) /\ UNCHANGED <<node, spec>>
        /\ tick'.anyLive = (TeardownTargets(c) # {})
    BY <1>2, <1>a DEF StartTeardown, TickRecord
  <2>2. ASSUME TeardownTargets(c) = {}, NEW p \in Pool, ClusterOf[p] = c
        PROVE  InState(p, LIVE_STATES) = {}
    <3>1. CASE spec[p] # None
      BY <2>2, <3>1 DEF TeardownTargets, PoolsOf
    <3>2. CASE spec[p] = None
      BY <3>2, UndeclaredIsEmpty DEF InState
    <3> QED
      BY <3>1, <3>2
  <2> QED
    BY <2>1, <2>2 DEF EmptyShape, InState
\* Everything else leads to another phase.
<1>3. ASSUME tick'.pc # "teardown" PROVE EmptyShape'
  BY <1>3 DEF EmptyShape
<1>4. CASE BeginTick \/ EndDetect \/ BeginHeal \/ BeginRoll \/ BeginScale \/ FinishPool
           \/ FinishCluster \/ FinishTeardown \/ BeginGc \/ EndTick
  <2>1. CASE BeginTick \/ EndTick
    BY <1>3, <2>1 DEF BeginTick, EndTick, Idle
  <2>2. CASE ~(BeginTick \/ EndTick)
    BY <1>3, <1>4, <2>2, <1>a
    DEF EndDetect, BeginHeal, BeginRoll, BeginScale, FinishPool, FinishCluster,
        FinishTeardown, BeginGc, TickRecord
  <2> QED
    BY <2>1, <2>2
<1>5. ASSUME NEW c \in Cluster, LeavePlanned(c) \/ SkipCluster(c) \/ StartPools(c)
      PROVE  EmptyShape'
  BY <1>3, <1>5, <1>a DEF LeavePlanned, SkipCluster, StartPools, TickRecord
<1>6. ASSUME NEW p \in Pool, StartPool(p) PROVE EmptyShape'
  BY <1>3, <1>6, <1>a DEF StartPool, TickRecord
<1>7. CASE Operator \/ Failure
  <2>1. tick'.pc = "idle"
    BY <1>7, IdleShape
    DEF Operator, ApplyCluster, DecommissionCluster, ScalePool, RollingUpdate, ReportHealth,
        HeartbeatExpires, ForceDecommissionNode, Failure, Crash, CrashInStage, CrashInCreate,
        Restart
  <2> QED
    BY <1>3, <2>1
<1>8. CASE UNCHANGED vars
  BY <1>8 DEF vars, EmptyShape, InState
<1> QED
  BY <1>1, <1>2, <1>4, <1>5, <1>6, <1>7, <1>8 DEF Next, Tick

\* Only the end of a teardown marks a cluster DECOMMISSIONED.
LEMMA OnlyTeardownMarks ==
  ASSUME Shape, [Next]_vars, NEW c \in Cluster,
         cluster[c].state # "DECOMMISSIONED", cluster'[c].state = "DECOMMISSIONED"
  PROVE  FinishTeardown /\ c = tick.cluster /\ ~tick.anyLive
<1>a. cluster \in [Cluster -> ClusterRecord]
  BY DEF Shape, TypeOK
<1>1. CASE FinishTeardown
  BY <1>1, <1>a DEF FinishTeardown, ClusterRecord
<1>2. CASE FinishCluster
  BY <1>2, <1>a DEF FinishCluster, ClusterRecord
<1>3. ASSUME NEW d \in Cluster, LeavePlanned(d) \/ StartTeardown(d) PROVE FALSE
  BY <1>3, <1>a DEF LeavePlanned, StartTeardown, ClusterRecord
<1>4. ASSUME NEW n \in NodeId, CreateNode(n) PROVE FALSE
  BY <1>4, <1>a DEF CreateNode, ClusterRecord
<1>5. ASSUME NEW d \in Cluster, ApplyCluster(d) PROVE FALSE
  <2>1. cluster' = [cluster EXCEPT ![d] = [state |-> IF Declared(d) THEN cluster[d].state ELSE "PLANNED",
                                           desired |-> "ACTIVE"]]
    BY <1>5 DEF ApplyCluster
  <2> QED
    BY <2>1, <1>a
<1>6. ASSUME NEW d \in Cluster, DecommissionCluster(d) PROVE FALSE
  BY <1>6, <1>a DEF DecommissionCluster, ClusterRecord
<1>7. CASE UNCHANGED cluster
  BY <1>7
<1> QED
  BY <1>1, <1>2, <1>3, <1>4, <1>5, <1>6, <1>7
  DEF Next, vars, Tick, BeginTick, EndDetect, SkipCluster, StartPools, StartPool, BeginHeal,
      BeginRoll, BeginScale, FinishPool, BeginGc, EndTick, PerNode, DetectFailure, AdvanceNode,
      HealNode, RollNode, ScaleDownNode, TeardownNode, GcNode, DrainOne, Operator, ScalePool,
      RollingUpdate, ReportHealth, HeartbeatExpires, ForceDecommissionNode, Failure, Crash,
      CrashInStage, CrashInCreate, Restart

\* A cluster is marked DECOMMISSIONED only when every instance that a record of it names
\* is deleted, also after crashes in its teardown, declarations within it and forced
\* removals before it (_drain_cluster).
THEOREM TeardownCompletes ==
  ASSUME "migrate" \notin Ops
  PROVE  Spec => TeardownDeletesRecorded
<1> DEFINE A == \A c \in Cluster :
                  cluster[c].state # "DECOMMISSIONED" /\ cluster'[c].state = "DECOMMISSIONED" =>
                    \A n \in NodeId : NodeOf(n, c) =>
                      /\ node[n].state \in {"REQUESTED", "TERMINATED"}
                      /\ node[n].inst # None => fleet[node[n].inst][n] \notin Image
<1>1. Init => EmptyShape
  BY IdleShape DEF Init, EmptyShape
<1>2. Shape /\ EmptyShape /\ [Next]_vars => EmptyShape'
  BY EmptyStep
<1>3. Shape /\ Named /\ EmptyShape /\ [Next]_vars => [A]_vars
  <2> SUFFICES ASSUME Shape, Named, EmptyShape, [Next]_vars, NEW c \in Cluster,
                      cluster[c].state # "DECOMMISSIONED",
                      cluster'[c].state = "DECOMMISSIONED",
                      NEW n \in NodeId, NodeOf(n, c)
               PROVE  /\ node[n].state \in {"REQUESTED", "TERMINATED"}
                      /\ node[n].inst # None => fleet[node[n].inst][n] \notin Image
    OBVIOUS
  <2>1. tick.pc = "teardown" /\ ~tick.anyLive /\ c = tick.cluster
    BY OnlyTeardownMarks DEF FinishTeardown
  <2>2. node[n].state \in NodeState /\ node[n].pool \in Pool
    BY NoneIsFresh DEF NodeOf, Shape, TypeOK, NodeShape, NodeRecord, Absent
  <2>3. node[n].state \notin LIVE_STATES
    BY <2>1, <2>2 DEF EmptyShape, InState, NodeOf
  <2>4. node[n].state \in {"REQUESTED", "TERMINATED"}
    BY <2>2, <2>3 DEF NodeState, LIVE_STATES
  <2>5. node[n].inst \in Provider \union {None}
    BY DEF Shape, TypeOK, NodeRecord
  <2> QED
    BY <2>4, <2>5 DEF Named
<1>4. Spec => [][A]_vars
  BY <1>1, <1>2, <1>3, NamedAlways, ShapeAlways, PTL DEF Spec
<1> QED
  BY <1>4, Zenon DEF TeardownDeletesRecorded

-----------------------------------------------------------------------------
(* The lifecycle: every step is one of NodeMachine, under the mapping that  *)
(* Reconciler states.                                                       *)

StateOf == [n \in NodeId |-> node[n].state]

Retired ==
  {n \in NodeId : node[n].state # "ABSENT"
                  /\ cluster[ClusterOf[node[n].pool]].desired = "DECOMMISSIONED"}

\* Where the records keep state and pool and the clusters what is desired of them, no
\* node is retired or restored.
LEMMA RetiredKept ==
  ASSUME \A n \in NodeId : node'[n].state = node[n].state /\ node'[n].pool = node[n].pool,
         Shape, \A c \in Cluster : cluster'[c].desired = cluster[c].desired
  PROVE  StateOf' = StateOf /\ Retired' = Retired
<1>1. \A n \in NodeId : node[n].state # "ABSENT" => ClusterOf[node[n].pool] \in Cluster
  BY ClusterOfType DEF Shape, NodeShape
<1> QED
  BY <1>1 DEF StateOf, Retired

LEMMA NodeStepMoves ==
  ASSUME Shape, Shape', WorkShape, NEW n \in NodeId, PerNode(n)
  PROVE  [Machine!Next]_(Machine!vars)
<1>a. /\ \A m \in NodeId \ {n} : node'[m] = node[m]
      /\ \/ Created(n)
         \/ Collected(n)
         \/ Moved(n) /\ tick.pc \notin {"create", "gc"}
         \/ DrainedOut(n)
         \/ /\ tick.pc \in {"heal", "roll", "down"}
            /\ node'[n].state = node[n].state /\ node'[n].pool = node[n].pool
  BY NodeStep
<1>b. /\ tick.pc # "idle" /\ tick'.pc = tick.pc
      /\ \A c \in Cluster : cluster'[c].desired = cluster[c].desired
      /\ \A m \in NodeId : node[m].state # "ABSENT" => ClusterOf[node[m].pool] \in Cluster
  BY NodeStepFrame, ClusterOfType
  DEF PerNode, DetectFailure, AdvanceNode, HealNode, RollNode, CreateNode, ScaleDownNode,
      TeardownNode, GcNode, Shape, NodeShape
<1>c. StateOf' = [StateOf EXCEPT ![n] = node'[n].state]
  BY <1>a DEF StateOf
<1>1. CASE Created(n)
  <2>1. StateOf[n] = "ABSENT" /\ StateOf' = [StateOf EXCEPT ![n] = "REQUESTED"]
    BY <1>1, <1>c DEF Created, StateOf, Absent
  <2>2. Retired' = Retired
    <3>1. cluster'[ClusterOf[node'[n].pool]].desired = "ACTIVE"
      BY <1>1, <1>b DEF Created, WorkShape, PoolPhases, Shape, TickShape
    <3>2. node[n].state = "ABSENT" /\ "ACTIVE" # "DECOMMISSIONED"
      BY <1>1 DEF Created, Absent
    <3> QED
      BY <3>1, <3>2, <1>a, <1>b DEF Retired
  <2> QED
    BY <2>1, <2>2, <1>b DEF Machine!Next, Machine!Controller, Machine!Create, StateOf, Retired
<1>2. CASE Collected(n)
  <2>1. StateOf[n] = "TERMINATED" /\ StateOf' = [StateOf EXCEPT ![n] = "ABSENT"]
    BY <1>2, <1>c DEF Collected, StateOf, Absent
  <2>2. Retired' = Retired \ {n}
    BY <1>2, <1>a, <1>b DEF Collected, Retired, Absent
  <2> QED
    BY <2>1, <2>2, <1>b DEF Machine!Next, Machine!Controller, Machine!Collect, StateOf, Retired
<1>3. CASE Moved(n)
  <2>1. StateOf[n] # "ABSENT" /\ node'[n].state \in NODE_TRANSITIONS[StateOf[n]]
    BY <1>3 DEF Moved, StateOf
  <2>2. node'[n].state # "ABSENT"
    <3>1. node[n].state \in NodeState
      BY <1>3 DEF Moved, Shape, TypeOK, NodeRecord
    <3> QED
      BY <1>3, <3>1 DEF Moved, NODE_TRANSITIONS, NodeState
  <2>3. Retired' = Retired
    BY <1>3, <2>2, <1>a, <1>b DEF Moved, Retired
  <2> QED
    BY <2>1, <2>2, <2>3, <1>b, <1>c
    DEF Machine!Next, Machine!Controller, Machine!Move, Machine!NODE_TRANSITIONS,
        NODE_TRANSITIONS, StateOf, Retired
<1>4. CASE DrainedOut(n)
  <2>1. /\ StateOf[n] \in {"HEALTHY", "UPDATING", "FAILED"}
        /\ StateOf' = [StateOf EXCEPT ![n] = "DECOMMISSIONING"]
    BY <1>4, <1>c DEF DrainedOut, StateOf
  <2>2. n \in Retired
    BY <1>4 DEF DrainedOut, WorkShape, Retired
  <2>3. Retired' = Retired
    BY <1>4, <1>a, <1>b DEF DrainedOut, Retired
  <2> QED
    BY <2>1, <2>2, <2>3, <1>b
    DEF Machine!Next, Machine!Controller, Machine!DrainOut, StateOf, Retired
<1>5. CASE node'[n].state = node[n].state /\ node'[n].pool = node[n].pool
  <2>1. StateOf' = StateOf /\ Retired' = Retired
    BY <1>5, <1>a, <1>b, RetiredKept
  <2> QED
    BY <2>1, <1>b DEF Machine!vars, StateOf, Retired
<1> QED
  BY <1>a, <1>1, <1>2, <1>3, <1>4, <1>5

LEMMA BookkeepingHandsOver ==
  ASSUME Shape, Tick, ~\E n \in NodeId : PerNode(n)
  PROVE  [Machine!Next]_(Machine!vars)
<1>1. UNCHANGED node
  BY Bookkeeping
<1>2. \A c \in Cluster : cluster'[c].desired = cluster[c].desired
  <2>a. cluster \in [Cluster -> ClusterRecord]
    BY DEF Shape, TypeOK
  <2>1. ASSUME NEW d, NEW s, cluster' = [cluster EXCEPT ![d].state = s]
        PROVE  \A c \in Cluster : cluster'[c].desired = cluster[c].desired
    BY <2>a, <2>1 DEF ClusterRecord
  <2>2. UNCHANGED cluster \/ \E d, s : cluster' = [cluster EXCEPT ![d].state = s]
    BY DEF Tick, BeginTick, EndDetect, LeavePlanned, SkipCluster, StartPools, StartTeardown,
           StartPool, BeginHeal, BeginRoll, BeginScale, FinishPool, FinishCluster,
           FinishTeardown, BeginGc, EndTick
  <2> QED
    BY <2>1, <2>2
<1>3. StateOf' = StateOf /\ Retired' = Retired
  BY <1>1, <1>2, RetiredKept
<1> QED
  BY <1>3 DEF Machine!Next, Machine!HandOver, Machine!vars, StateOf, Retired

LEMMA OperatorMoves ==
  ASSUME Shape, Operator
  PROVE  [Machine!Next]_(Machine!vars)
<1>a. /\ tick.pc = "idle" /\ UNCHANGED tick
      /\ \A n \in NodeId : node[n] \in NodeRecord
  BY DEF Operator, ApplyCluster, DecommissionCluster, ScalePool, RollingUpdate, ReportHealth,
         HeartbeatExpires, ForceDecommissionNode, Shape, TypeOK
<1>1. CASE UNCHANGED node
  <2>1. StateOf' = StateOf /\ Retired' \in SUBSET {n \in NodeId : StateOf[n] # "ABSENT"}
    BY <1>1 DEF StateOf, Retired
  <2> QED
    BY <2>1, <1>a
    DEF Machine!Next, Machine!Operator, Machine!Retire, StateOf, Retired
<1>2. ASSUME NEW n \in NodeId, ReportHealth(n) \/ HeartbeatExpires(n)
      PROVE  [Machine!Next]_(Machine!vars)
  <2>1. PICK s \in Signal : Put(n, [node[n] EXCEPT !.signal = s])
    BY <1>2, ReportsType DEF ReportHealth, HeartbeatExpires, Signal
  <2>2. LET r == [node[n] EXCEPT !.signal = s]
        IN r \in NodeRecord /\ r.state = node[n].state /\ r.pool = node[n].pool
    BY <1>a DEF NodeRecord
  <2>3. \A m \in NodeId : node'[m].state = node[m].state /\ node'[m].pool = node[m].pool
    BY <2>1, <2>2, WrittenFields DEF Shape
  <2>4. UNCHANGED cluster
    BY <1>2 DEF ReportHealth, HeartbeatExpires
  <2>5. StateOf' = StateOf /\ Retired' = Retired
    BY <2>3, <2>4, RetiredKept
  <2> QED
    BY <2>5, <1>a DEF Machine!vars, StateOf, Retired
<1>3. ASSUME NEW n \in NodeId, ForceDecommissionNode(n)
      PROVE  [Machine!Next]_(Machine!vars)
  <2>1. /\ "force" \in Ops /\ node[n].state # "ABSENT" /\ UNCHANGED cluster
        /\ \/ UNCHANGED node
           \/ \E r \in NodeRecord :
                Put(n, r) /\ r.state = "DECOMMISSIONING" /\ r.pool = node[n].pool
    BY <1>3, ForceEffect DEF Shape
  <2> SUFFICES ASSUME ~UNCHANGED node PROVE [Machine!Next]_(Machine!vars)
    BY <1>1
  <2>2. /\ node'[n].state = "DECOMMISSIONING" /\ node'[n].pool = node[n].pool
        /\ \A m \in NodeId \ {n} : node'[m] = node[m]
    BY <2>1, WrittenFields DEF Shape
  <2>3. StateOf' = [StateOf EXCEPT ![n] = "DECOMMISSIONING"] /\ StateOf[n] # "ABSENT"
    BY <2>1, <2>2 DEF StateOf
  <2>4. Retired' = Retired
    BY <2>1, <2>2 DEF Retired
  <2> QED
    BY <2>1, <2>3, <2>4, <1>a
    DEF Machine!Next, Machine!Operator, Machine!Force, StateOf, Retired
<1> QED
  BY <1>1, <1>2, <1>3
  DEF Operator, ApplyCluster, DecommissionCluster, ScalePool, RollingUpdate

LEMMA FailureMoves ==
  ASSUME Shape, WorkShape, Failure
  PROVE  [Machine!Next]_(Machine!vars)
<1>a. /\ TypeOK /\ tick'.pc = "idle" /\ UNCHANGED cluster
  BY IdleShape DEF Shape, Failure, Crash, CrashInStage, CrashInCreate, Restart
<1>b. \A m \in NodeId : Reloaded[m].state = node[m].state /\ Reloaded[m].pool = node[m].pool
  <2>1. \A r \in NodeRecord : /\ [r EXCEPT !.baseline = FALSE].state = r.state
                             /\ [r EXCEPT !.baseline = FALSE].pool = r.pool
    BY DEF NodeRecord
  <2> QED
    BY <2>1, <1>a DEF TypeOK, Reloaded
<1>1. CASE node' = Reloaded
  <2>1. StateOf' = StateOf /\ Retired' = Retired
    BY <1>1, <1>a, <1>b, RetiredKept
  <2> QED
    BY <2>1, <1>a DEF Machine!Next, Machine!HandOver, Machine!vars, StateOf, Retired
<1>2. ASSUME NEW n \in NodeId, CrashInCreate(n)
      PROVE  [Machine!Next]_(Machine!vars)
  <2>1. /\ node' = [Reloaded EXCEPT ![n] = Requested(tick.pool)] /\ node[n] = Absent
        /\ tick.pc = "create" /\ tick.pool \in Pool /\ tick.cluster \in Cluster
        /\ ClusterOf[tick.pool] = tick.cluster /\ cluster[tick.cluster].desired = "ACTIVE"
    BY <1>2 DEF CrashInCreate, FreshId, Shape, TickShape, WorkShape, PoolPhases
  <2>2. /\ node'[n].state = "REQUESTED" /\ node'[n].pool = tick.pool
        /\ \A m \in NodeId \ {n} : /\ node'[m].state = node[m].state
                                 /\ node'[m].pool = node[m].pool
    BY <2>1, <1>b, ConstantRecords DEF Reloaded
  <2>3. node[n].state = "ABSENT"
    BY <2>1 DEF Absent
  <2>4. StateOf' = [StateOf EXCEPT ![n] = "REQUESTED"] /\ StateOf[n] = "ABSENT"
    BY <2>2, <2>3 DEF StateOf
  <2>5. Retired' = Retired
    BY <1>a, <2>1, <2>2, <2>3 DEF Retired
  <2> QED
    BY <2>1, <2>4, <2>5, <1>a
    DEF Machine!Next, Machine!Controller, Machine!Create, StateOf, Retired
<1> QED
  BY <1>1, <1>2 DEF Failure, Crash, CrashInStage, Restart

\* The reconciler and the API move nodes only as state_machine.py promises, for any
\* number of nodes, pools and clusters and whatever crashes: Reconciler implements
\* NodeMachine.
THEOREM ImplementsLifecycle == Spec => RefinesLifecycle
<1>1. Init => Machine!Init
  BY IdleShape DEF Init, Machine!Init, Absent
<1>2. Shape /\ Shape' /\ WorkShape /\ [Next]_vars => [Machine!Next]_(Machine!vars)
  <2> SUFFICES ASSUME Shape, Shape', WorkShape, [Next]_vars
               PROVE  [Machine!Next]_(Machine!vars)
    OBVIOUS
  <2>1. CASE Tick
    BY <2>1, NodeStepMoves, BookkeepingHandsOver
  <2>2. CASE Operator \/ Failure
    BY <2>2, OperatorMoves, FailureMoves
  <2>3. CASE UNCHANGED vars
    BY <2>3 DEF vars, Machine!vars
  <2> QED
    BY <2>1, <2>2, <2>3 DEF Next
<1> QED
  BY <1>1, <1>2, ShapeAlways, WorkAlways, PTL DEF Spec, RefinesLifecycle, Machine!Spec

-----------------------------------------------------------------------------
(* A converged store is left alone: WorkIsDue is inductive, and where everything *)
(* is as desired there is no work that is due.                                    *)

\* Of a cluster the bookkeeping of the loop writes the state, and nothing else.
LEMMA BookkeepingWrites ==
  ASSUME Shape, Tick, ~\E n \in NodeId : PerNode(n)
  PROVE  \/ UNCHANGED cluster
         \/ \E d \in Cluster, st \in {"PROVISIONING", "ACTIVE", "DRAINING", "DECOMMISSIONED"} :
              cluster' = [cluster EXCEPT ![d].state = st]
<1>1. CASE FinishCluster \/ FinishTeardown
  <2>1. tick.cluster \in Cluster
    BY <1>1 DEF FinishCluster, FinishTeardown, Shape, TickShape
  <2> QED
    BY <1>1, <2>1 DEF FinishCluster, FinishTeardown
<1>2. CASE ~(FinishCluster \/ FinishTeardown)
  BY <1>2
  DEF Tick, BeginTick, EndDetect, LeavePlanned, SkipCluster, StartPools, StartTeardown,
      StartPool, BeginHeal, BeginRoll, BeginScale, FinishPool, BeginGc, EndTick
<1> QED
  BY <1>1, <1>2

LEMMA DueNodeSteps ==
  ASSUME Shape, WorkShape, WorkIsDue, NEW n \in NodeId, PerNode(n)
  PROVE  WorkIsDue'
<1>a. /\ tick \in TickRecord /\ tick'.pc = tick.pc /\ tick'.pool = tick.pool
      /\ tick'.cluster = tick.cluster /\ UNCHANGED spec
      /\ \A c \in Cluster : Declared(c)' <=> Declared(c)
      /\ \A m \in NodeId \ {n} : node'[m] = node[m]
  BY NodeStepFrame, NodeStep DEF Shape, TypeOK
<1>b. tick.pc \in PoolPhases \union {"pools", "teardown"} => tick.cluster \in Cluster
  BY DEF Shape, TickShape
<1>1. tick'.pc # "idle" => \A c \in tick'.clusters : Declared(c)'
  <2>1. tick'.clusters = tick.clusters /\ tick.clusters \subseteq Cluster
    BY <1>a DEF PerNode, DetectFailure, AdvanceNode, HealNode, RollNode, CreateNode,
                ScaleDownNode, TeardownNode, GcNode, TickRecord
  <2> QED
    BY <2>1, <1>a DEF WorkIsDue
<1>2. (tick.pc \in PoolPhases \union {"pools"} => Declared(tick.cluster))'
  <2> SUFFICES ASSUME tick.pc \in PoolPhases \union {"pools"}, NEW c, c = tick.cluster
               PROVE  Declared(c)'
    BY <1>a DEF Declared
  <2> QED
    BY <1>a, <1>b DEF WorkIsDue
<1>3. tick'.pc \in {"heal", "roll"} => tick'.nodes = tick.nodes \ {n} /\ tick.nodes \subseteq NodeId
  BY <1>a DEF PerNode, DetectFailure, AdvanceNode, HealNode, RollNode, CreateNode,
              ScaleDownNode, TeardownNode, GcNode, TickRecord
<1>4. tick'.pc = "heal" => \A m \in tick'.nodes : node'[m].state = "FAILED"
  BY <1>a, <1>3 DEF WorkIsDue
<1>5. tick'.pc = "roll" => \A m \in tick'.nodes : node'[m].image # spec'[tick'.pool].image
  BY <1>a, <1>3 DEF WorkIsDue
<1>6. (tick.pc = "down" /\ tick.budget > 0 =>
        spec[tick.pool].desired + tick.budget <= Cardinality(InState(tick.pool, CONTRIBUTING)))'
  <2> SUFFICES ASSUME tick.pc = "down", tick'.budget > 0, NEW p, p = tick.pool
               PROVE  spec[p].desired + tick'.budget <= Cardinality(InState(p, CONTRIBUTING))'
    BY <1>a DEF InState
  <2>1. tick'.budget = tick.budget - 1 /\ tick.budget \in Nat
    BY <1>a DEF PerNode, DetectFailure, AdvanceNode, HealNode, RollNode, CreateNode,
                ScaleDownNode, TeardownNode, GcNode, TickRecord
  <2>2. spec[p].desired + tick.budget <= Cardinality(InState(p, CONTRIBUTING))
    BY <2>1 DEF WorkIsDue
  <2>3. /\ Cardinality(InState(p, CONTRIBUTING)) \in Nat
        /\ Cardinality(InState(p, CONTRIBUTING))' \in Nat
        /\ Cardinality(InState(p, CONTRIBUTING)) <= Cardinality(InState(p, CONTRIBUTING))' + 1
    BY <1>a, CountNear
  <2>4. spec[p].desired \in Nat
    <3>1. spec[p] \in NodePool
      BY DEF Shape, TypeOK, TickShape, PoolPhases
    <3> QED
      BY <3>1 DEF NodePool
  <2> QED
    BY <2>1, <2>2, <2>3, <2>4
<1>7. tick'.pc = "teardown" => cluster'[tick'.cluster].state = "DRAINING"
  <2>1. tick.pc = "teardown" => UNCHANGED cluster
    BY DEF PerNode, DetectFailure, AdvanceNode, HealNode, RollNode, CreateNode,
           ScaleDownNode, TeardownNode, GcNode, DrainOne
  <2> QED
    BY <1>a, <2>1 DEF WorkIsDue
<1> QED
  BY <1>1, <1>2, <1>4, <1>5, <1>6, <1>7 DEF WorkIsDue

LEMMA DueBookkeeping ==
  ASSUME Shape, WorkShape, WorkIsDue, Tick, ~\E n \in NodeId : PerNode(n)
  PROVE  WorkIsDue'
<1>a. /\ tick \in TickRecord /\ cluster \in [Cluster -> ClusterRecord]
      /\ UNCHANGED <<node, spec, fleet>>
  BY Bookkeeping DEF Shape, TypeOK
<1>b. \A c \in Cluster : Declared(c) => Declared(c)'
  <2>1. \/ UNCHANGED cluster
        \/ \E c \in Cluster, st \in {"PROVISIONING", "ACTIVE", "DRAINING", "DECOMMISSIONED"} :
             cluster' = [cluster EXCEPT ![c].state = st]
    BY BookkeepingWrites
  <2> QED
    BY <2>1, <1>a DEF Declared, ClusterRecord
<1>c. tick.clusters \subseteq Cluster /\ (tick.pc # "idle" => \A c \in tick.clusters : Declared(c))
  BY <1>a DEF WorkIsDue, TickRecord
<1>d. ASSUME tick'.pc \in {"idle", "detect", "clusters", "gc"},
             \/ tick'.pc = "idle" \/ tick'.clusters = {}
             \/ tick.pc # "idle" /\ tick'.clusters \subseteq tick.clusters
      PROVE  WorkIsDue'
  BY <1>b, <1>c, <1>d DEF WorkIsDue, PoolPhases
<1>e. ASSUME tick.pc \in PoolPhases \union {"pools"}, UNCHANGED cluster,
             tick'.pc \in {"pools", "advance", "create"},
             tick'.clusters = tick.clusters, tick'.cluster = tick.cluster
      PROVE  WorkIsDue'
  BY <1>e, <1>c DEF WorkIsDue, PoolPhases, Declared
<1>1. CASE BeginTick \/ EndTick
  BY <1>1, <1>d DEF BeginTick, EndTick, Idle
<1>2. CASE EndDetect
  <2>1. /\ tick'.pc = "clusters" /\ UNCHANGED cluster
        /\ tick'.clusters = {c \in Cluster : Declared(c)}
    BY <1>2, <1>a DEF EndDetect, TickRecord, Declared
  <2> QED
    BY <2>1 DEF WorkIsDue, PoolPhases, Declared
<1>3. CASE FinishCluster \/ FinishTeardown \/ BeginGc
           \/ \E c \in Cluster : LeavePlanned(c) \/ SkipCluster(c)
  <2>1. tick.pc # "idle" /\ tick'.pc \in {"clusters", "gc"}
    BY <1>3, <1>a
    DEF FinishCluster, FinishTeardown, BeginGc, LeavePlanned, SkipCluster, TickRecord
  <2>2. tick'.clusters \subseteq tick.clusters
    <3>1. CASE FinishCluster \/ FinishTeardown \/ BeginGc
      BY <3>1, <1>a DEF FinishCluster, FinishTeardown, BeginGc, TickRecord
    <3>2. ASSUME NEW c \in Cluster, LeavePlanned(c) \/ SkipCluster(c)
          PROVE  tick'.clusters \subseteq tick.clusters
      BY <3>2, <1>a DEF LeavePlanned, SkipCluster, TickRecord
    <3> QED
      BY <1>3, <3>1, <3>2
  <2> QED
    BY <2>1, <2>2, <1>d
<1>4. ASSUME NEW c \in Cluster, StartPools(c) PROVE WorkIsDue'
  <2>1. /\ tick.pc = "clusters" /\ c \in tick.clusters /\ tick'.pc = "pools" /\ tick'.cluster = c
        /\ tick'.clusters = tick.clusters \ {c} /\ UNCHANGED cluster
    BY <1>4, <1>a DEF StartPools, TickRecord
  <2> QED
    BY <2>1, <1>c DEF WorkIsDue, PoolPhases, Declared
<1>5. ASSUME NEW c \in Cluster, StartTeardown(c) PROVE WorkIsDue'
  <2>1. /\ tick.pc = "clusters" /\ c \in tick.clusters /\ tick'.pc = "teardown"
        /\ tick'.cluster = c /\ tick'.clusters = tick.clusters \ {c}
        /\ cluster' = [cluster EXCEPT ![c].state = "DRAINING"]
    BY <1>5, <1>a DEF StartTeardown, TickRecord
  <2>2. cluster'[c].state = "DRAINING"
    BY <2>1, <1>a DEF ClusterRecord
  <2> QED
    BY <2>1, <2>2, <1>b, <1>c DEF WorkIsDue, PoolPhases
<1>6. CASE FinishPool \/ \E p \in Pool : StartPool(p)
  <2>1. /\ tick.pc \in PoolPhases \union {"pools"} /\ UNCHANGED cluster
        /\ tick'.pc \in {"pools", "advance"}
        /\ tick'.clusters = tick.clusters /\ tick'.cluster = tick.cluster
    BY <1>6, <1>a DEF FinishPool, StartPool, TickRecord, PoolPhases
  <2> QED
    BY <2>1, <1>e
<1>7. CASE BeginHeal
  <2>1. /\ tick.pc = "advance" /\ tick'.pc = "heal" /\ UNCHANGED cluster
        /\ tick'.nodes = InState(tick.pool, {"FAILED"})
        /\ tick'.clusters = tick.clusters /\ tick'.cluster = tick.cluster
    BY <1>7, <1>a DEF BeginHeal, TickRecord
  <2> QED
    BY <2>1, <1>a, <1>c DEF WorkIsDue, PoolPhases, Declared, InState
<1>8. CASE BeginRoll
  <2>1. /\ tick.pc = "heal" /\ tick'.pc = "roll" /\ UNCHANGED cluster
        /\ tick'.nodes = Stale(tick.pool) /\ tick'.pool = tick.pool
        /\ tick'.clusters = tick.clusters /\ tick'.cluster = tick.cluster
    BY <1>8, <1>a DEF BeginRoll, TickRecord
  <2> QED
    BY <2>1, <1>a, <1>c DEF WorkIsDue, PoolPhases, Declared, Stale
<1>9. CASE BeginScale
  <2>a. /\ tick.pc = "roll" /\ UNCHANGED cluster
        /\ tick'.clusters = tick.clusters /\ tick'.cluster = tick.cluster
    BY <1>9, <1>a DEF BeginScale, TickRecord
  <2>1. CASE Deficit(tick.pool) >= 0
    <3>1. tick'.pc = "create"
      BY <2>1, <1>9, <1>a DEF BeginScale, TickRecord
    <3> QED
      BY <3>1, <2>a, <1>e DEF PoolPhases
  <2>2. CASE ~(Deficit(tick.pool) >= 0)
    <3>1. /\ tick'.pc = "down" /\ tick'.pool = tick.pool
          /\ tick'.budget = DownBudget(tick.pool)
      BY <2>2, <1>9, <1>a DEF BeginScale, TickRecord
    <3>2. tick.pool \in Pool /\ spec[tick.pool] \in NodePool
      BY <2>a DEF Shape, TypeOK, TickShape, PoolPhases
    <3>3. spec[tick.pool].desired + DownBudget(tick.pool)
            <= Cardinality(InState(tick.pool, CONTRIBUTING))
      <4>1. /\ spec[tick.pool].desired \in Nat /\ Slack(tick.pool) \in Nat
            /\ Cardinality(InState(tick.pool, CONTRIBUTING)) \in Nat
        BY <3>2, InStateFinite, BudgetTypes DEF NodePool
      <4> QED
        BY <2>2, <4>1 DEF DownBudget, Deficit, Lesser, Positive
    <3>4. Declared(tick.cluster)
      BY <2>a DEF WorkIsDue, PoolPhases
    <3>5. (spec[tick.pool].desired + tick.budget <= Cardinality(InState(tick.pool, CONTRIBUTING)))'
      BY <3>1, <3>3, <1>a DEF InState
    <3> QED
      BY <3>1, <3>4, <3>5, <2>a, <1>c DEF WorkIsDue, PoolPhases, Declared
  <2> QED
    BY <2>1, <2>2
<1> QED
  BY <1>1, <1>2, <1>3, <1>4, <1>5, <1>6, <1>7, <1>8, <1>9 DEF Tick

LEMMA DueAlways == Spec => []WorkIsDue
<1>1. Init => WorkIsDue
  BY IdleShape DEF Init, WorkIsDue, Idle, PoolPhases
<1>2. Shape /\ WorkShape /\ WorkIsDue /\ [Next]_vars => WorkIsDue'
  <2> SUFFICES ASSUME Shape, WorkShape, WorkIsDue, [Next]_vars PROVE WorkIsDue'
    OBVIOUS
  <2>1. CASE Tick
    BY <2>1, DueNodeSteps, DueBookkeeping
  <2>2. CASE Operator \/ Failure
    BY <2>2, IdleNext DEF WorkIsDue, PoolPhases
  <2>3. CASE UNCHANGED vars
    BY <2>3 DEF vars, WorkIsDue, Declared, InState
  <2> QED
    BY <2>1, <2>2, <2>3 DEF Next
<1> QED
  BY <1>1, <1>2, ShapeAlways, WorkAlways, PTL DEF Spec

\* In a converged store every node serves, as its pool wants it.
LEMMA ConvergedNode ==
  ASSUME Shape, DeclaredFirst, Converged, NEW n \in NodeId,
         node[n].state # "ABSENT" \/ node[n].pool \in Pool
  PROVE  LET p == node[n].pool
         IN /\ p \in Pool /\ spec[p] # None /\ Serving(ClusterOf[p])
            /\ node[n].state = "HEALTHY" /\ node[n].image = spec[p].image
            /\ node[n].signal \notin {"failed", "stale"}
<1> DEFINE p == node[n].pool
           c == ClusterOf[p]
<1>1. p \in Pool /\ spec[p] # None
  BY NoneIsFresh DEF Shape, NodeShape, Absent
<1>2. c \in Cluster /\ Declared(c)
  BY <1>1, ClusterOfType DEF DeclaredFirst
<1>3. Serving(c)
  BY <1>1, <1>2, NoneIsFresh DEF Converged
<1>4. PoolConverged(p)
  BY <1>1, <1>2, <1>3 DEF Converged, PoolsOf
<1> QED
  BY <1>1, <1>3, <1>4 DEF PoolConverged

\* A converged pool has exactly the nodes it wants, and all of them serve.
LEMMA ConvergedCount ==
  ASSUME Shape, Converged, NEW p \in Pool, spec[p] # None, Declared(ClusterOf[p]),
         cluster[ClusterOf[p]].desired = "ACTIVE", NEW states
  PROVE  /\ spec[p].desired \in Nat /\ Cardinality(InState(p, states)) \in Nat
         /\ "HEALTHY" \in states => spec[p].desired <= Cardinality(InState(p, states))
         /\ Cardinality(InState(p, states)) <= spec[p].desired
<1>1. PoolConverged(p)
  BY ClusterOfType DEF Converged, Serving, PoolsOf
<1>2. spec[p].desired \in Nat
  <2>1. spec[p] \in NodePool
    BY DEF Shape, TypeOK
  <2> QED
    BY <2>1 DEF NodePool
<1>3. /\ InState(p, states) \subseteq InState(p, {"HEALTHY"})
      /\ "HEALTHY" \in states => InState(p, {"HEALTHY"}) \subseteq InState(p, states)
  BY <1>1 DEF PoolConverged, InState
<1>4. /\ Cardinality(InState(p, states)) <= Cardinality(InState(p, {"HEALTHY"}))
      /\ "HEALTHY" \in states =>
           Cardinality(InState(p, {"HEALTHY"})) <= Cardinality(InState(p, states))
  BY <1>3, InStateFinite, FS_Subset
<1> QED
  BY <1>1, <1>2, <1>4, InStateFinite DEF PoolConverged

LEMMA QuietNodes ==
  ASSUME Shape, WorkShape, CreateShape, WorkIsDue, DeclaredFirst, Converged,
         NEW n \in NodeId, PerNode(n)
  PROVE  FALSE
<1>a. /\ tick \in TickRecord /\ node[n] \in NodeRecord /\ TypeOK
      /\ tick.pc \in PoolPhases => tick.pool \in Pool /\ spec[tick.pool] # None
                                   /\ spec[tick.pool] \in NodePool
  BY DEF Shape, TypeOK, TickShape
<1>b. tick.pc \in PoolPhases =>
        Declared(ClusterOf[tick.pool]) /\ cluster[ClusterOf[tick.pool]].desired = "ACTIVE"
  BY DEF WorkShape, WorkIsDue
<1>1. CASE DetectFailure(n)
  BY <1>1, ConvergedNode DEF DetectFailure, Suspect
<1>2. CASE AdvanceNode(n)
  <2>1. node[n].state \in InFlightStates
    BY <1>2, <1>a, StageMoves DEF AdvanceNode, PoolPhases
  <2> QED
    BY <2>1, ConvergedNode DEF InFlightStates
<1>3. CASE HealNode(n)
  <2>1. node[n].state = "FAILED"
    BY <1>3 DEF HealNode, DrainOne, WorkIsDue
  <2> QED
    BY <2>1, ConvergedNode
<1>4. CASE RollNode(n)
  <2>1. /\ node[n].pool = tick.pool /\ tick.pool \in Pool
        /\ node[n].image # spec[tick.pool].image
    BY <1>4, <1>a DEF RollNode, DrainOne, WorkIsDue, WorkShape, PoolPhases
  <2> QED
    BY <2>1, ConvergedNode
<1>5. CASE CreateNode(n)
  <2> DEFINE p == tick.pool
             states == CONTRIBUTING \union {"REQUESTED"}
  <2>1. Cardinality(InState(p, states)) + tick.budget <= spec[p].desired
        /\ tick.budget > 0 /\ tick.budget \in Nat /\ tick.pc \in PoolPhases
    BY <1>5, <1>a DEF CreateNode, CreateShape, PoolPhases, TickRecord
  <2>2. "HEALTHY" \in states
    BY DEF CONTRIBUTING, LIVE_STATES, NodeState
  <2>3. /\ spec[p].desired \in Nat /\ Cardinality(InState(p, states)) \in Nat
        /\ spec[p].desired <= Cardinality(InState(p, states))
    <3> HIDE DEF states
    <3> SUFFICES ASSUME NEW q, q = p
                 PROVE  /\ spec[q].desired \in Nat /\ Cardinality(InState(q, states)) \in Nat
                        /\ spec[q].desired <= Cardinality(InState(q, states))
      OBVIOUS
    <3> QED
      BY <2>1, <2>2, <1>a, <1>b, ConvergedCount
  <2> QED
    BY <2>1, <2>3
<1>6. CASE ScaleDownNode(n)
  <2> DEFINE p == tick.pool
  <2>1. spec[p].desired + tick.budget <= Cardinality(InState(p, CONTRIBUTING))
        /\ tick.budget > 0 /\ tick.budget \in Nat /\ tick.pc \in PoolPhases
    BY <1>6, <1>a DEF ScaleDownNode, DrainOne, WorkIsDue, PoolPhases, TickRecord
  <2>2. /\ spec[p].desired \in Nat /\ Cardinality(InState(p, CONTRIBUTING)) \in Nat
        /\ Cardinality(InState(p, CONTRIBUTING)) <= spec[p].desired
    <3> SUFFICES ASSUME NEW q, q = p
                 PROVE  /\ spec[q].desired \in Nat
                        /\ Cardinality(InState(q, CONTRIBUTING)) \in Nat
                        /\ Cardinality(InState(q, CONTRIBUTING)) <= spec[q].desired
      OBVIOUS
    <3> QED
      BY <2>1, <1>a, <1>b, ConvergedCount
  <2> QED
    BY <2>1, <2>2
<1>7. CASE TeardownNode(n)
  <2>1. /\ node[n].pool \in Pool
        /\ cluster[ClusterOf[node[n].pool]].desired = "DECOMMISSIONED"
    BY <1>7 DEF TeardownNode, WorkShape
  <2> QED
    BY <2>1, ConvergedNode DEF Serving
<1>8. CASE GcNode(n)
  BY <1>8, ConvergedNode DEF GcNode
<1> QED
  BY <1>1, <1>2, <1>3, <1>4, <1>5, <1>6, <1>7, <1>8 DEF PerNode

LEMMA QuietClusters ==
  ASSUME Shape, WorkShape, WorkIsDue, Converged, Tick, ~\E n \in NodeId : PerNode(n)
  PROVE  UNCHANGED cluster
<1>a. cluster \in [Cluster -> ClusterRecord]
  BY DEF Shape, TypeOK
<1>1. ASSUME NEW c \in Cluster, LeavePlanned(c) PROVE FALSE
  BY <1>1 DEF LeavePlanned, Converged, Declared
<1>2. ASSUME NEW c \in Cluster, StartTeardown(c) PROVE FALSE
  BY <1>2 DEF StartTeardown, Converged, Serving, WorkIsDue
<1>3. CASE FinishTeardown
  BY <1>3 DEF FinishTeardown, Converged, Serving, Declared, WorkIsDue, WorkShape, Shape,
              TickShape
<1>4. CASE FinishCluster
  <2>1. tick.cluster \in Cluster /\ cluster[tick.cluster].state = "ACTIVE"
    BY <1>4 DEF FinishCluster, Converged, Serving, WorkIsDue, WorkShape, Shape, TickShape
  <2>2. [cluster EXCEPT ![tick.cluster].state = "ACTIVE"] = cluster
    BY <2>1, <1>a DEF ClusterRecord
  <2> QED
    BY <1>4, <2>2 DEF FinishCluster
<1> QED
  BY <1>1, <1>2, <1>3, <1>4
  DEF Tick, BeginTick, EndDetect, SkipCluster, StartPools, StartPool, BeginHeal, BeginRoll,
      BeginScale, FinishPool, BeginGc, EndTick

\* Once the store is as desired a tick writes nothing and calls no provider, from
\* whatever point of a tick on and whatever happened before (reconciler.py, "IDEMPOTENT").
THEOREM ConvergedIsQuiet == Spec => QuietWhenConverged
<1> DEFINE A == Converged /\ Tick => UNCHANGED <<node, cluster, fleet>>
<1>1. Shape /\ WorkShape /\ CreateShape /\ WorkIsDue /\ DeclaredFirst /\ [Next]_vars => [A]_vars
  <2> SUFFICES ASSUME Shape, WorkShape, CreateShape, WorkIsDue, DeclaredFirst, Converged, Tick
               PROVE  UNCHANGED <<node, cluster, fleet>>
    BY DEF A
  <2>1. ~\E n \in NodeId : PerNode(n)
    BY QuietNodes
  <2> QED
    BY <2>1, Bookkeeping, QuietClusters
<1>2. Spec => [][A]_vars
  BY <1>1, ShapeAlways, WorkAlways, CreateAlways, DueAlways, DeclaredAlways, PTL DEF Spec
<1> QED
  BY <1>2 DEF QuietWhenConverged
=============================================================================
