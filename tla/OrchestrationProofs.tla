------------------------- MODULE OrchestrationProofs -------------------------
(***************************************************************************)
(* Workflows add nothing to what the control loop does: every behaviour of *)
(* Orchestration is one of Reconciler, so its theorems hold with workflows *)
(* running, and the record of a run keeps its type.  The last sections are *)
(* about what a tick without actions means: it has found nothing to do in  *)
(* any cluster (QuietShape), so the cluster of the run is done.            *)
(***************************************************************************)
EXTENDS Orchestration, OwnershipProofs

\* A step of Orchestration is a step of the control loop, of operators or of the
\* environment, or leaves store, fleets and loop alone (orchestration.py: "one
\* implementation of each step regardless of who drives it").
LEMMA StepIsReconcilerStep ==
  ASSUME [ONext]_allVars
  PROVE  [Next]_vars
<1>1. CASE NoWorkflow
  BY <1>1 DEF NoWorkflow
<1>2. CASE \E c \in Cluster : BringUp(c)
  BY <1>2 DEF BringUp
<1>3. CASE \E c \in Cluster : Decommission(c)
  BY <1>3 DEF Decommission, Next, Operator
<1>4. CASE RunStep
  <2>1. CASE RunBeginTick
    BY <2>1 DEF RunBeginTick, Next, Tick
  <2>2. CASE RunInTick
    BY <2>2 DEF RunInTick, Next
  <2>3. CASE RunEndTick
    BY <2>3 DEF RunEndTick, Next, Tick
  <2>4. CASE Verify \/ Return
    BY <2>4 DEF Verify, Return
  <2> QED
    BY <1>4, <2>1, <2>2, <2>3, <2>4 DEF RunStep
<1>5. CASE Elapse
  BY <1>5 DEF Elapse, Next, Operator
<1>6. CASE RunLost
  BY <1>6 DEF RunLost, Next
<1>7. CASE UNCHANGED allVars
  BY <1>7 DEF allVars
<1> QED
  BY <1>1, <1>2, <1>3, <1>4, <1>5, <1>6, <1>7 DEF ONext

\* Driving the loop from a workflow shows nothing in the store and at the providers
\* that the loop and its operators do not show by themselves: Orchestration
\* implements Reconciler (cluster_bringup_workflow, cluster_decommission_workflow).
THEOREM ImplementsReconciler == OSpec => Spec
<1>1. OInit => Init
  BY DEF OInit
<1>2. [ONext]_allVars => [Next]_vars
  BY StepIsReconcilerStep
<1> QED
  BY <1>1, <1>2, PTL DEF OSpec, Spec

\* A node that a workflow brought into service passed the gate and has a running
\* instance, also when earlier runs were lost in crashes (HealthyIsAdmitted).
THEOREM AdmissionInRuns == OSpec => []HealthyIsAdmitted
  BY ImplementsReconciler, Admission

\* max_ticks bounds the ticks of every run, and a run is one of the two workflows
\* on an existing cluster (run_until_converged).
THEOREM RunTypeCorrect == OSpec => []RunTypeOK
<1>1. OInit => RunTypeOK
  BY MaxTicksType DEF OInit, RunTypeOK, RunRecord, NoRun
<1>2. ASSUME RunTypeOK, [ONext]_allVars
      PROVE  RunTypeOK'
  <2>1. ASSUME NEW c \in Cluster, BringUp(c) \/ Decommission(c)
        PROVE  RunTypeOK'
    <3>1. \E name \in {"bringup", "decommission"} : run' = Reconciling(name, c)
      BY <2>1, Zenon DEF BringUp, Decommission
    <3>2. MaxTicks \in 0 .. MaxTicks
      BY MaxTicksType
    <3> QED
      BY <3>1, <3>2 DEF Reconciling, RunTypeOK, RunRecord, NoRun
  <2>2. CASE RunBeginTick
    <3>1. run.left > 0 /\ run' = [run EXCEPT !.left = run.left - 1, !.acted = FALSE]
      BY <2>2, Zenon DEF RunBeginTick
    <3>2. run.left - 1 \in 0 .. MaxTicks
      BY <1>2, <3>1, MaxTicksType DEF RunTypeOK, RunRecord
    <3> QED
      BY <1>2, <3>1, <3>2 DEF RunTypeOK, RunRecord
  <2>3. CASE RunInTick
    <3>1. PICK b \in BOOLEAN : run' = [run EXCEPT !.acted = b]
      BY <2>3, Zenon DEF RunInTick
    <3> QED
      BY <1>2, <3>1 DEF RunTypeOK, RunRecord
  <2>4. CASE RunEndTick
    <3>1. PICK b \in BOOLEAN, p \in {"reconcile", "verify", "ended"} :
            run' = [run EXCEPT !.converged = b, !.phase = p]
      <4>1. run.phase = "reconcile" /\ AfterLoop \in {"verify", "ended"}
        BY <2>4 DEF RunEndTick, AfterLoop
      <4>2. (IF run.acted /\ run.left > 0 THEN run.phase ELSE AfterLoop)
              \in {"reconcile", "verify", "ended"}
        BY <4>1
      <4> QED
        BY <2>4, <4>2, Zenon DEF RunEndTick
    <3> QED
      BY <1>2, <3>1 DEF RunTypeOK, RunRecord
  <2>5. CASE Verify
    <3>1. PICK b \in BOOLEAN : run' = [run EXCEPT !.phase = "ended", !.ok = b]
      BY <2>5, Zenon DEF Verify
    <3> QED
      BY <1>2, <3>1 DEF RunTypeOK, RunRecord
  <2>6. CASE Return \/ RunLost
    <3>1. run' = NoRun
      BY <2>6, Zenon DEF Return, RunLost
    <3> QED
      BY <3>1, MaxTicksType DEF RunTypeOK, RunRecord, NoRun
  <2>7. CASE NoWorkflow \/ Elapse \/ UNCHANGED allVars
    BY <1>2, <2>7 DEF NoWorkflow, Elapse, allVars, RunTypeOK
  <2> QED
    BY <1>2, <2>1, <2>2, <2>3, <2>4, <2>5, <2>6, <2>7 DEF ONext, RunStep
<1> QED
  BY <1>1, <1>2, PTL DEF OSpec

-----------------------------------------------------------------------------
(* Clusters that are gone: without a second declaration and without force, *)
(* a cluster that is DECOMMISSIONED stays so and has nothing left.         *)

\* A stage never leaves the node in the state it was in, nor takes it to UPDATING.
LEMMA TableMoves ==
  ASSUME NEW src \in InFlightStates, NEW dst \in NODE_TRANSITIONS[src]
  PROVE  dst # src /\ dst # "UPDATING"
BY DEF InFlightStates, NODE_TRANSITIONS

\* The states a node can be found in by a step of the loop, and left in.
LEMMA StepStates ==
  ASSUME Shape, WorkShape, WorkIsDue, NEW n \in NodeId, PerNode(n)
  PROVE  /\ node'[n].state # node[n].state \/ tick.pc \in {"heal", "roll", "down"}
         /\ node'[n].state # "UPDATING" \/ node[n].state = "UPDATING"
         /\ tick.pc = "detect" => node[n].state = "HEALTHY"
         /\ tick.pc = "create" => node'[n].state = "REQUESTED"
         /\ tick.pc = "gc" => node'[n].state = "ABSENT"
         /\ tick.pc \in PoolPhases \ {"create"} => n \in tick.nodes
         /\ tick.pc = "teardown" => n \in tick.nodes
         /\ tick.pc \in PoolPhases \union {"detect", "teardown", "gc"}
<1>a. TypeOK /\ node[n] \in NodeRecord /\ tick \in TickRecord
  BY DEF Shape, TypeOK
<1>1. CASE DetectFailure(n)
  <2>1. /\ tick.pc = "detect" /\ node[n].state = "HEALTHY"
        /\ Put(n, transition(node[n], "FAILED"))
    BY <1>1 DEF DetectFailure, Suspect
  <2>2. node'[n].state = "FAILED"
    BY <2>1, <1>a, TransitionKeeps, WrittenFields DEF NodeState
  <2> QED
    BY <2>1, <2>2 DEF PoolPhases
<1>2. CASE AdvanceNode(n)
  <2>1. tick.pc = "advance" /\ n \in tick.nodes /\ Stage(n, node[n], spec[tick.pool])
    BY <1>2 DEF AdvanceNode
  <2>2. spec[tick.pool] \in NodePool
    BY <2>1 DEF Shape, TypeOK, TickShape, PoolPhases
  <2>3. node[n].state \in InFlightStates /\ node'[n].state \in NODE_TRANSITIONS[node[n].state]
    BY <2>1, <2>2, <1>a, StageMoves
  <2> QED
    BY <2>1, <2>3, TableMoves DEF PoolPhases
<1>3. CASE HealNode(n) \/ RollNode(n) \/ ScaleDownNode(n)
  <2>1. /\ Put(n, drainStart(node[n])) /\ tick.pc \in {"heal", "roll", "down"}
        /\ n \in tick.nodes
    BY <1>3 DEF HealNode, RollNode, ScaleDownNode, DrainOne
  <2>2. node'[n].state = drainStart(node[n]).state
    BY <2>1, <1>a, DrainStartKeeps, WrittenFields
  <2>3. node'[n].state = node[n].state \/ node'[n].state = "DRAINING"
    BY <2>2, <1>a, DrainStartKeeps
  <2> QED
    BY <2>1, <2>3 DEF PoolPhases
<1>4. CASE CreateNode(n)
  <2>1. /\ tick.pc = "create" /\ node[n] = Absent /\ tick.pool \in Pool
        /\ Put(n, Requested(tick.pool))
    BY <1>4 DEF CreateNode, FreshId, Shape, TickShape, PoolPhases
  <2>2. node'[n].state = "REQUESTED" /\ node[n].state = "ABSENT"
    BY <2>1, <1>a, ConstantRecords, WrittenFields DEF Absent
  <2> QED
    BY <2>1, <2>2 DEF PoolPhases
<1>5. CASE TeardownNode(n)
  <2> DEFINE r == drainStart(node[n])
  <2>1. tick.pc = "teardown" /\ n \in tick.nodes /\ Stage(n, r, spec[node[n].pool])
    BY <1>5 DEF TeardownNode
  <2>2. r \in NodeRecord /\ spec[node[n].pool] \in NodePool
    <3>1. node[n].pool \in Pool /\ node[n] # Absent
      BY <2>1, NoneIsFresh DEF WorkShape, Absent
    <3> QED
      BY <3>1, <1>a, DrainStartKeeps DEF Shape, NodeShape, TypeOK
  <2>3. r.state \in InFlightStates /\ node'[n].state \in NODE_TRANSITIONS[r.state]
    <3> HIDE DEF r
    <3> QED
      BY <2>1, <2>2, <1>a, StageMoves
  <2>4. CASE r = node[n]
    BY <2>1, <2>3, <2>4, TableMoves DEF PoolPhases
  <2>5. CASE r # node[n]
    <3>1. r.state = "DRAINING" /\ node[n].state \in {"HEALTHY", "FAILED", "UPDATING"}
      BY <2>5, <1>a, DrainStartKeeps
    <3>2. DrainStep(n, r)
      BY <2>1, <3>1 DEF Stage, CreateInstance, ApplyBaseline, Bootstrap, Register, DrainStep,
                        DecommissionStep
    <3>3. node'[n].state = "DECOMMISSIONING"
      <4> HIDE DEF r
      <4> QED
        BY <3>2, <2>2, <1>a, TransitionKeeps, WrittenFields DEF DrainStep, NodeState
    <3> QED
      BY <2>1, <3>1, <3>3 DEF PoolPhases
  <2> QED
    BY <2>4, <2>5
<1>6. CASE GcNode(n)
  <2>1. tick.pc = "gc" /\ node[n].state = "TERMINATED" /\ Put(n, Absent)
    BY <1>6 DEF GcNode
  <2>2. node'[n].state = "ABSENT"
    BY <2>1, <1>a, ConstantRecords, WrittenFields DEF Absent
  <2> QED
    BY <2>1, <2>2 DEF PoolPhases
<1> QED
  BY <1>1, <1>2, <1>3, <1>4, <1>5, <1>6 DEF PerNode

\* Between ticks nodes keep their state and pool, unless they are forced, and a crash
\* can leave a node that has just been requested.
LEMMA BetweenTicks ==
  ASSUME "force" \notin Ops, Shape, Operator \/ Failure, NEW n \in NodeId
  PROVE  \/ node'[n].state = node[n].state /\ node'[n].pool = node[n].pool
         \/ node'[n].state = "REQUESTED"
<1>a. TypeOK /\ node \in [NodeId -> NodeRecord]
  BY DEF Shape, TypeOK
<1>b. \A m \in NodeId : Reloaded[m].state = node[m].state /\ Reloaded[m].pool = node[m].pool
  BY <1>a DEF Reloaded, NodeRecord
<1>1. ASSUME NEW m \in NodeId, ReportHealth(m) \/ HeartbeatExpires(m)
      PROVE  node'[n].state = node[n].state /\ node'[n].pool = node[n].pool
  <2>1. PICK s \in Signal : Put(m, [node[m] EXCEPT !.signal = s])
    BY <1>1, ReportsType DEF ReportHealth, HeartbeatExpires, Signal
  <2>2. LET r == [node[m] EXCEPT !.signal = s]
        IN r \in NodeRecord /\ r.state = node[m].state /\ r.pool = node[m].pool
    BY <1>a DEF NodeRecord
  <2> QED
    BY <2>1, <2>2, <1>a, WrittenFields
<1>2. CASE Operator /\ UNCHANGED node
  BY <1>2
<1>3. CASE Crash \/ \E m \in NodeId : CrashInStage(m)
  BY <1>3, <1>b DEF Crash, CrashInStage, Restart
<1>4. ASSUME NEW m \in NodeId, CrashInCreate(m)
      PROVE  \/ node'[n].state = node[n].state /\ node'[n].pool = node[n].pool
             \/ node'[n].state = "REQUESTED"
  <2>1. tick.pool \in Pool /\ node' = [Reloaded EXCEPT ![m] = Requested(tick.pool)]
    BY <1>4 DEF CrashInCreate, Shape, TickShape, PoolPhases
  <2>2. n \in DOMAIN Reloaded
    BY DEF Reloaded
  <2> QED
    BY <2>1, <2>2, <1>b, ConstantRecords
<1> QED
  BY <1>1, <1>2, <1>3, <1>4
  DEF Operator, ApplyCluster, DecommissionCluster, ScalePool, RollingUpdate,
      ForceDecommissionNode, Failure

\* A cluster that is gone gets no instance: the loop works for clusters that serve or
\* are being torn down.
LEMMA GoneStays ==
  ASSUME "reapply" \notin Ops, "force" \notin Ops, Shape, WorkShape, WorkIsDue, [Next]_vars,
         NEW c \in Cluster, cluster[c].state = "DECOMMISSIONED",
         cluster[c].desired = "DECOMMISSIONED", NothingLeft(c)
  PROVE  cluster'[c].desired = "DECOMMISSIONED" /\ NothingLeft(c)'
<1>a. /\ cluster \in [Cluster -> ClusterRecord] /\ Declared(c)
      /\ tick.pc \in PoolPhases \union {"pools", "teardown"} => tick.cluster # c
  BY DEF Shape, TypeOK, Declared, WorkShape, WorkIsDue, PoolPhases
<1>b. /\ "REQUESTED" \notin LIVE_STATES /\ "ABSENT" \notin LIVE_STATES
      /\ "HEALTHY" \in LIVE_STATES
  BY DEF LIVE_STATES, NodeState
<1>1. cluster'[c].desired = "DECOMMISSIONED"
  <2>1. ASSUME NEW d \in Cluster, ApplyCluster(d) PROVE cluster'[c].desired = "DECOMMISSIONED"
    BY <2>1, <1>a DEF ApplyCluster
  <2>2. ASSUME NEW d \in Cluster, DecommissionCluster(d)
        PROVE  cluster'[c].desired = "DECOMMISSIONED"
    BY <2>2, <1>a DEF DecommissionCluster, ClusterRecord
  <2>3. ASSUME NEW n \in NodeId, PerNode(n) PROVE cluster'[c].desired = "DECOMMISSIONED"
    BY <2>3, NodeStepFrame
  <2>4. CASE Tick /\ ~\E n \in NodeId : PerNode(n)
    <3>1. \/ UNCHANGED cluster
          \/ \E d \in Cluster, st \in {"PROVISIONING", "ACTIVE", "DRAINING", "DECOMMISSIONED"} :
               cluster' = [cluster EXCEPT ![d].state = st]
      BY <2>4, BookkeepingWrites
    <3> QED
      BY <3>1, <1>a DEF ClusterRecord
  <2>5. CASE UNCHANGED cluster
    BY <2>5
  <2> QED
    BY <2>1, <2>2, <2>3, <2>4, <2>5
    DEF Next, vars, Operator, ScalePool, RollingUpdate, ReportHealth, HeartbeatExpires,
        ForceDecommissionNode, Failure, Crash, CrashInStage, CrashInCreate, Restart
\* No pool is declared for it, as it has been declared already.
<1>2. \A p \in PoolsOf(c)' : p \in PoolsOf(c)
  <2>1. ASSUME NEW d \in Cluster, ApplyCluster(d), NEW p \in Pool, ClusterOf[p] = c,
               spec'[p] # None
        PROVE  spec[p] # None
    <3>1. d # c
      BY <2>1, <1>a DEF ApplyCluster
    <3>2. PICK ps \in SUBSET {q \in Pool : ClusterOf[q] = d} : \E f \in [ps -> PoolSpecs] :
            spec' = [q \in Pool |-> IF q \in ps THEN f[q] ELSE spec[q]]
      BY <2>1, Zenon DEF ApplyCluster
    <3> QED
      BY <2>1, <3>1, <3>2
  <2>2. ASSUME NEW q \in Pool, ScalePool(q) \/ RollingUpdate(q), NEW p \in Pool,
               spec'[p] # None
        PROVE  spec[p] # None
    <3>1. spec \in [Pool -> NodePool \union {None}] /\ spec[q] # None
      BY <2>2 DEF Shape, TypeOK, ScalePool, RollingUpdate
    <3>2. \A r \in Pool \ {q} : spec'[r] = spec[r]
      BY <2>2, <3>1 DEF ScalePool, RollingUpdate
    <3> QED
      BY <2>2, <3>1, <3>2
  <2>3. \/ UNCHANGED spec
        \/ \E d \in Cluster : ApplyCluster(d)
        \/ \E q \in Pool : ScalePool(q) \/ RollingUpdate(q)
    BY NodeStepFrame, Bookkeeping
    DEF Next, vars, Operator, DecommissionCluster, ReportHealth, HeartbeatExpires,
        ForceDecommissionNode, Failure, Crash, CrashInStage, CrashInCreate, Restart
  <2> QED
    BY <2>1, <2>2, <2>3 DEF PoolsOf
<1>3. ASSUME NEW p \in PoolsOf(c), NEW n \in NodeId, node'[n].pool = p,
             node'[n].state \in LIVE_STATES
      PROVE  node[n].pool = p /\ node[n].state \in LIVE_STATES
  <2>1. CASE UNCHANGED node
    BY <2>1, <1>3
  <2>2. CASE Operator \/ Failure
    BY <2>2, <1>3, <1>b, BetweenTicks
  <2>3. ASSUME NEW m \in NodeId, PerNode(m)
        PROVE  node[n].pool = p /\ node[n].state \in LIVE_STATES
    <3>1. CASE m # n
      BY <3>1, <2>3, <1>3, NodeStep
    <3>2. CASE m = n
      <4>1. node'[n].state \notin {"REQUESTED", "ABSENT"} /\ p \in Pool
        BY <1>3, <1>b DEF PoolsOf
      <4>2. node[n].pool = p
        BY <4>1, <3>2, <2>3, <1>3, NodeStep DEF Created, Collected, Moved, DrainedOut, Absent
      <4>3. tick.pc \in PoolPhases \union {"teardown"} => ClusterOf[p] = tick.cluster
        BY <4>1, <4>2, <3>2, <2>3, StepStates DEF WorkShape, PoolPhases
      <4>4. tick.pc = "detect"
        BY <4>1, <4>3, <3>2, <2>3, <1>a, StepStates DEF PoolsOf
      <4> QED
        BY <4>2, <4>4, <3>2, <2>3, <1>b, StepStates
    <3> QED
      BY <3>1, <3>2
  <2> QED
    BY <2>1, <2>2, <2>3, Bookkeeping DEF Next, vars
<1>4. NothingLeft(c)'
  BY <1>2, <1>3 DEF NothingLeft, InState
<1> QED
  BY <1>1, <1>4

\* The cluster of a run stays declared.
LEMMA DeclaredStays ==
  ASSUME Shape, [Next]_vars, NEW c \in Cluster, Declared(c)
  PROVE  Declared(c)'
<1>a. cluster \in [Cluster -> ClusterRecord]
  BY DEF Shape, TypeOK
<1>1. ASSUME NEW d \in Cluster, ApplyCluster(d) PROVE Declared(c)'
  BY <1>1, <1>a DEF ApplyCluster, Declared
<1>2. ASSUME NEW d \in Cluster, DecommissionCluster(d) PROVE Declared(c)'
  BY <1>2, <1>a DEF DecommissionCluster, ClusterRecord, Declared
<1>3. ASSUME NEW n \in NodeId, PerNode(n) PROVE Declared(c)'
  BY <1>3, NodeStepFrame
<1>4. CASE Tick /\ ~\E n \in NodeId : PerNode(n)
  BY <1>4, <1>a, BookkeepingWrites DEF ClusterRecord, Declared
<1>5. CASE UNCHANGED cluster
  BY <1>5 DEF Declared
<1> QED
  BY <1>1, <1>2, <1>3, <1>4, <1>5
  DEF Next, vars, Operator, ScalePool, RollingUpdate, ReportHealth, HeartbeatExpires,
      ForceDecommissionNode, Failure, Crash, CrashInStage, CrashInCreate, Restart

\* A step of a workflow leaves its cluster as it is, starts on a declared one, or ends.
LEMMA RunCluster ==
  ASSUME [ONext]_allVars, RunTypeOK, run'.phase # "none"
  PROVE  \/ run'.cluster = run.cluster /\ run.phase # "none"
         \/ run'.cluster \in Cluster /\ Declared(run'.cluster)
<1>a. run \in RunRecord
  BY DEF RunTypeOK
<1>1. ASSUME NEW c \in Cluster, BringUp(c) \/ Decommission(c)
      PROVE  run'.cluster \in Cluster /\ Declared(run'.cluster)
  <2>1. cluster[c].state # "ABSENT" /\ \E name \in {"bringup", "decommission"} : run' = Reconciling(name, c)
    BY <1>1, Zenon DEF BringUp, Decommission, DecommissionCluster, Declared
  <2>2. run'.cluster = c
    BY <2>1 DEF Reconciling, NoRun
  <2> QED
    BY <2>1, <2>2 DEF Declared
<1>2. CASE RunStep
  <2>1. CASE Return
    BY <2>1 DEF Return, NoRun
  <2>2. CASE RunBeginTick
    BY <2>2, <1>a DEF RunBeginTick, RunRecord
  <2>3. CASE RunInTick
    <3>1. run.phase = "reconcile" /\ \E b : run' = [run EXCEPT !.acted = b]
      BY <2>3, Zenon DEF RunInTick
    <3> QED
      BY <3>1, <1>a DEF RunRecord
  <2>4. CASE RunEndTick
    <3>1. run.phase = "reconcile" /\ \E b, p : run' = [run EXCEPT !.converged = b, !.phase = p]
      BY <2>4, Zenon DEF RunEndTick
    <3> QED
      BY <3>1, <1>a DEF RunRecord
  <2>5. CASE Verify
    <3>1. run.phase = "verify" /\ \E b : run' = [run EXCEPT !.phase = "ended", !.ok = b]
      BY <2>5, Zenon DEF Verify
    <3> QED
      BY <3>1, <1>a DEF RunRecord
  <2> QED
    BY <1>2, <2>1, <2>2, <2>3, <2>4, <2>5 DEF RunStep
<1>3. CASE NoWorkflow \/ Elapse \/ RunLost \/ UNCHANGED allVars
  BY <1>3 DEF NoWorkflow, Elapse, RunLost, NoRun, allVars
<1> QED
  BY <1>1, <1>2, <1>3 DEF ONext

\* A cluster that is DECOMMISSIONED has no work left and gets none: it would have to
\* be declared again, or be declared DECOMMISSIONED with live nodes.
LEMMA SettledStep ==
  ASSUME "reapply" \notin Ops, "force" \notin Ops, Shape, WorkShape, WorkIsDue, EmptyShape,
         RunTypeOK, SettledShape, [ONext]_allVars
  PROVE  SettledShape'
<1>a. [Next]_vars
  BY StepIsReconcilerStep
<1>1. (run.phase # "none" => run.cluster \in Cluster /\ Declared(run.cluster))'
  <2>1. \A c \in Cluster : Declared(c) => Declared(c)'
    BY <1>a, DeclaredStays
  <2>2. SUFFICES ASSUME run'.phase # "none", NEW c, c = run'.cluster
                 PROVE  c \in Cluster /\ Declared(c)'
    BY DEF Declared
  <2>3. c \in Cluster /\ Declared(c)
    BY <2>2, RunCluster DEF SettledShape, Declared
  <2> QED
    BY <2>1, <2>3
<1>2. ASSUME NEW c \in Cluster, cluster'[c].state = "DECOMMISSIONED"
      PROVE  cluster'[c].desired = "DECOMMISSIONED" /\ NothingLeft(c)'
  <2>1. CASE cluster[c].state = "DECOMMISSIONED"
    BY <2>1, <1>a, GoneStays DEF SettledShape
  <2>2. CASE cluster[c].state # "DECOMMISSIONED"
    <3>1. FinishTeardown /\ c = tick.cluster /\ ~tick.anyLive
      BY <2>2, <1>2, <1>a, OnlyTeardownMarks
    <3>2. cluster[c].desired = "DECOMMISSIONED" /\ NothingLeft(c)
      BY <3>1 DEF FinishTeardown, WorkShape, EmptyShape, NothingLeft, PoolsOf
    <3>3. /\ cluster' = [cluster EXCEPT ![c].state = "DECOMMISSIONED"]
          /\ UNCHANGED <<node, spec>>
      BY <3>1 DEF FinishTeardown
    <3>4. cluster'[c].desired = "DECOMMISSIONED"
      BY <3>2, <3>3 DEF Shape, TypeOK, ClusterRecord
    <3> QED
      BY <3>2, <3>3, <3>4 DEF NothingLeft, PoolsOf, InState
  <2> QED
    BY <2>1, <2>2
<1>3. ASSUME NEW n \in NodeId PROVE node'[n].state # "UPDATING"
  <2>1. CASE UNCHANGED node
    BY <2>1 DEF SettledShape
  <2>2. CASE Operator \/ Failure
    BY <2>2, BetweenTicks DEF SettledShape
  <2>3. ASSUME NEW m \in NodeId, PerNode(m) PROVE node'[n].state # "UPDATING"
    <3>1. \A k \in NodeId \ {m} : node'[k] = node[k]
      BY <2>3, NodeStep
    <3> QED
      BY <2>3, <3>1, StepStates DEF SettledShape
  <2> QED
    BY <1>a, <2>1, <2>2, <2>3, Bookkeeping DEF Next, vars
<1> QED
  BY <1>1, <1>2, <1>3 DEF SettledShape

-----------------------------------------------------------------------------
(* A tick that does nothing has seen that there is nothing to do *)

\* Until a tick has acted, whatever it does to a node is an action: its work lists
\* name only nodes it will change.
LEMMA FirstWorkShows ==
  ASSUME Shape, WorkShape, WorkIsDue, QuietShape, Quiet, NEW n \in NodeId, PerNode(n)
  PROVE  node'[n].state # node[n].state
<1>a. TypeOK /\ node[n] \in NodeRecord
  BY DEF Shape, TypeOK
<1>1. SUFFICES ASSUME tick.pc \in {"heal", "roll", "down"}
               PROVE  node'[n].state # node[n].state
  BY StepStates
<1>2. Put(n, drainStart(node[n])) /\ n \in tick.nodes
  BY <1>1 DEF PerNode, DetectFailure, AdvanceNode, HealNode, RollNode, CreateNode,
              ScaleDownNode, TeardownNode, GcNode, DrainOne
<1>3. node[n].state \in {"FAILED", "HEALTHY"}
  BY <1>1, <1>2 DEF QuietShape, UntouchedPhases, WorkIsDue, Stale, InState
<1>4. drainStart(node[n]).state = "DRAINING" /\ drainStart(node[n]) \in NodeRecord
  BY <1>a, <1>3, DrainStartKeeps
<1> QED
  BY <1>a, <1>2, <1>3, <1>4, WrittenFields

\* Where no node is in flight the whole budget of the pool is there.
LEMMA WholeSlack ==
  ASSUME NEW p \in Pool, spec[p] \in NodePool, InState(p, InFlightStates) = {}
  PROVE  Slack(p) = spec[p].maxUnavailable
<1>1. InState(p, DestructiveStates) = {}
  BY DEF InState, InFlightStates, DestructiveStates
<1>2. Destructive(p) = 0
  BY <1>1, FS_EmptySet DEF Destructive
<1> QED
  BY <1>2 DEF Slack, Positive, NodePool

\* A pool with no node in flight, failed or stale has only HEALTHY ones.
LEMMA OnlyHealthy ==
  ASSUME Shape, \A n \in NodeId : node[n].state # "UPDATING", NEW p \in Pool,
         InState(p, InFlightStates) = {}, InState(p, {"FAILED"}) = {}
  PROVE  /\ InState(p, LIVE_STATES) = InState(p, {"HEALTHY"})
         /\ InState(p, CONTRIBUTING) = InState(p, {"HEALTHY"})
BY DEF InState, LIVE_STATES, CONTRIBUTING, InFlightStates, NodeState

\* What self-heal, the roll, creation and scale-down leave in a tick that does nothing.
LEMMA HealLeaves ==
  ASSUME Shape, WorkShape, QuietShape, Quiet, BeginRoll, NEW p, p = tick.pool, MayTend(p)
  PROVE  InState(p, {"FAILED"}) = {}
<1>1. /\ tick.pc = "heal" /\ LoopDone /\ p \in Pool /\ spec[p] \in NodePool
      /\ tick \in TickRecord
  BY DEF BeginRoll, Shape, TypeOK, TickShape, PoolPhases
<1>2. /\ InState(p, InFlightStates) = {} /\ tick.used = 0
      /\ tick.nodes = InState(p, {"FAILED"}) /\ tick.budget = HealBudget(p)
  BY <1>1 DEF QuietShape, DonePools, UntouchedPhases, PoolPhases
<1>3. HealBudget(p) > 0
  BY <1>1, <1>2, WholeSlack, GlobalMaxType DEF HealBudget, Lesser, MayTend, NodePool
<1> QED
  BY <1>1, <1>2, <1>3 DEF LoopDone

\* A roll that ends without having drained anything had no stale nodes: with nothing
\* in flight and nothing draining its budget was not zero.
LEMMA RollLeaves ==
  ASSUME Shape, WorkShape, QuietShape, Quiet, BeginScale, NEW p, p = tick.pool, MayTend(p)
  PROVE  Stale(p) = {}
<1>1. tick.pc = "roll" /\ LoopDone /\ p \in Pool /\ spec[p] \in NodePool
  BY DEF BeginScale, Shape, TypeOK, TickShape, PoolPhases
<1>2. /\ InState(p, InFlightStates) = {}
      /\ tick.nodes = Stale(p) /\ tick.budget = RollBudget(p)
  BY <1>1 DEF QuietShape, UntouchedPhases, PoolPhases
<1>3. RollBudget(p) > 0
  BY <1>1, <1>2, WholeSlack DEF RollBudget, MayTend, NodePool
<1> QED
  BY <1>1, <1>2, <1>3 DEF LoopDone

\* Nothing to create means that the pool has what it wants: there is always an id.
LEMMA PoolIsDone ==
  ASSUME Shape, WorkShape, QuietShape, Quiet, \A n \in NodeId : node[n].state # "UPDATING",
         IdsSuffice, FinishPool, NEW p, p = tick.pool, MayTend(p)
  PROVE  PoolDone(p)
<1>1. tick.pc \in {"create", "down"} /\ p \in Pool /\ spec[p] \in NodePool
  BY DEF FinishPool, Shape, TypeOK, TickShape, PoolPhases
<1>2. /\ InState(p, InFlightStates) = {}
      /\ InState(p, {"FAILED"}) = {} /\ Stale(p) = {}
  BY <1>1 DEF QuietShape, UntouchedPhases, PoolPhases
<1>3. /\ InState(p, LIVE_STATES) = InState(p, {"HEALTHY"})
      /\ InState(p, CONTRIBUTING) = InState(p, {"HEALTHY"})
  BY <1>1, <1>2, OnlyHealthy
<1> DEFINE healthy == Cardinality(InState(p, {"HEALTHY"}))
<1>4. /\ healthy \in Nat /\ spec[p].desired \in Nat /\ spec[p].maxProvision \in Nat
      /\ spec[p].maxUnavailable \in Nat
      /\ Deficit(p) = spec[p].desired - healthy
  BY <1>1, <1>3, InStateFinite DEF Deficit, NodePool
<1>5. CASE tick.pc = "create"
  <2>1. Deficit(p) >= 0 /\ tick.budget = CreateBudget(p)
    BY <1>5 DEF QuietShape, UntouchedPhases
  <2>2. tick.budget = 0 \/ \A n \in NodeId : ~FreshId(n)
    BY <1>5 DEF FinishPool
  <2>3. ~(CreateBudget(p) > 0)
    BY <1>5, <2>1, <2>2 DEF IdsSuffice
  <2>4. Deficit(p) = 0
    BY <1>4, <2>1, <2>3 DEF CreateBudget, Positive, Lesser, MayTend
  <2>5. healthy = spec[p].desired
    BY <1>4, <2>4
  <2> QED
    BY <1>2, <1>3, <2>5 DEF PoolDone
<1>6. CASE tick.pc = "down"
  <2>1. /\ Deficit(p) < 0 /\ LoopDone
        /\ tick.nodes = InState(p, {"HEALTHY"}) /\ tick.budget = DownBudget(p)
    BY <1>6 DEF QuietShape, UntouchedPhases, FinishPool
  <2>2. DownBudget(p) > 0
    BY <1>1, <1>2, <1>4, <2>1, WholeSlack DEF DownBudget, Positive, Lesser, MayTend
  <2>3. InState(p, {"HEALTHY"}) = {}
    BY <2>1, <2>2 DEF LoopDone
  <2>4. healthy = 0
    BY <2>3, FS_EmptySet
  <2> QED
    BY <1>4, <2>1, <2>4
<1> QED
  BY <1>1, <1>5, <1>6

\* What is left alone together with the nodes and the declarations
LEMMA NothingMoved ==
  ASSUME UNCHANGED <<node, spec>>
  PROVE  /\ \A p, states : InState(p, states)' = InState(p, states)
         /\ \A p : /\ Stale(p)' = Stale(p) /\ (PoolDone(p)' <=> PoolDone(p))
                   /\ (MayTend(p)' <=> MayTend(p))
                   /\ Slack(p)' = Slack(p) /\ Deficit(p)' = Deficit(p)
                   /\ RollBudget(p)' = RollBudget(p) /\ CreateBudget(p)' = CreateBudget(p)
                   /\ DownBudget(p)' = DownBudget(p)
         /\ \A c : PoolsOf(c)' = PoolsOf(c)
         /\ \A c : cluster'[c] = cluster[c] => (ClusterDone(c)' <=> ClusterDone(c))
<1>1. /\ \A p, states : InState(p, states)' = InState(p, states)
      /\ \A c : PoolsOf(c)' = PoolsOf(c)
  BY DEF InState, PoolsOf
<1>2. \A p : /\ Stale(p)' = Stale(p)
             /\ Slack(p)' = Slack(p) /\ Deficit(p)' = Deficit(p)
             /\ (MayTend(p)' <=> MayTend(p))
  BY <1>1 DEF Stale, Slack, Destructive, Deficit, MayTend
<1>3. \A p : /\ (PoolDone(p)' <=> PoolDone(p))
             /\ RollBudget(p)' = RollBudget(p) /\ CreateBudget(p)' = CreateBudget(p)
             /\ DownBudget(p)' = DownBudget(p)
  BY <1>1, <1>2 DEF PoolDone, RollBudget, CreateBudget, DownBudget
<1>4. ASSUME NEW c, cluster'[c] = cluster[c] PROVE ClusterDone(c)' <=> ClusterDone(c)
  BY <1>1, <1>2, <1>3, <1>4
  DEF ClusterDone, Serving, Declared, Tended, NothingLeft
<1> QED
  BY <1>1, <1>2, <1>3, <1>4

\* In a step of the bookkeeping of a tick that has not acted, what has been visited
\* stays done, and what it leaves behind is done.
LEMMA QuietBookkeeping ==
  ASSUME Shape, WorkShape, WorkIsDue, SettledShape, QuietShape, IdsSuffice, Quiet, Quiet',
         Tick, ~\E n \in NodeId : PerNode(n), ~Logged
  PROVE  QuietShape'
<1>a. /\ tick \in TickRecord /\ cluster \in [Cluster -> ClusterRecord]
      /\ UNCHANGED <<node, spec>> /\ tick.pc # "idle"
  BY Bookkeeping DEF Shape, TypeOK, Quiet
<1>b. /\ \A p, states : InState(p, states)' = InState(p, states)
      /\ \A p : /\ Stale(p)' = Stale(p) /\ (PoolDone(p)' <=> PoolDone(p))
                /\ (MayTend(p)' <=> MayTend(p))
                /\ Slack(p)' = Slack(p) /\ Deficit(p)' = Deficit(p)
                /\ RollBudget(p)' = RollBudget(p) /\ CreateBudget(p)' = CreateBudget(p)
                /\ DownBudget(p)' = DownBudget(p)
      /\ \A c : PoolsOf(c)' = PoolsOf(c)
      /\ \A c : cluster'[c] = cluster[c] => (ClusterDone(c)' <=> ClusterDone(c))
  BY <1>a, NothingMoved
<1>c. DoneClusters /\ DonePools /\ UntouchedPhases
  BY DEF QuietShape
<1>d. \A c \in Cluster : tick.pc # "detect" /\ Declared(c) /\ c \notin tick.clusters
                           /\ c # tick.cluster => ClusterDone(c)
  BY <1>c DEF DoneClusters
<1>e. tick.pc \in {"clusters", "gc"} => tick.cluster = None /\ tick.cluster \notin Cluster
  BY <1>c, NoneIsFresh DEF DoneClusters
\* Between clusters there are no pools to speak of.
<1>f. ASSUME tick'.pc \in {"clusters", "gc"}, tick'.cluster = None,
             tick'.pc = "gc" => tick'.clusters = {},
             \A c \in Cluster \ tick'.clusters : Declared(c)' => ClusterDone(c)'
      PROVE  QuietShape'
  BY <1>f, NoneIsFresh DEF QuietShape, DoneClusters, DonePools, UntouchedPhases, PoolPhases
<1>g. ASSUME tick'.pc \in PoolPhases \union {"pools"}, UNCHANGED cluster,
             tick.pc \in PoolPhases \union {"pools"},
             tick'.clusters = tick.clusters, tick'.cluster = tick.cluster
      PROVE  DoneClusters'
  <2>1. \A c \in Cluster : Declared(c)' <=> Declared(c)
    BY <1>g DEF Declared
  <2> QED
    BY <1>b, <1>d, <1>g, <2>1 DEF DoneClusters, PoolPhases
<1>1. CASE BeginTick \/ EndTick
  BY <1>1, <1>a DEF BeginTick, EndTick, Idle, Quiet
<1>2. CASE EndDetect
  <2>1. /\ tick'.pc = "clusters" /\ tick'.cluster = tick.cluster /\ UNCHANGED cluster
        /\ tick'.clusters = {c \in Cluster : Declared(c)} /\ tick.pc = "detect"
    BY <1>2, <1>a DEF EndDetect, TickRecord, Declared
  <2>2. tick.cluster = None
    BY <2>1, <1>c DEF DoneClusters
  <2> QED
    BY <2>1, <2>2, <1>f DEF Declared
<1>3. ASSUME NEW c \in Cluster, LeavePlanned(c) PROVE QuietShape'
  <2>1. /\ tick' = tick /\ tick.pc = "clusters" /\ c \in tick.clusters
        /\ \A d \in Cluster \ {c} : cluster'[d] = cluster[d]
    BY <1>3, <1>a DEF LeavePlanned
  <2>2. \A d \in Cluster \ {c} : (Declared(d)' <=> Declared(d))
    BY <2>1 DEF Declared
  <2> QED
    BY <2>1, <2>2, <1>b, <1>d, <1>e, <1>f
<1>4. ASSUME NEW c \in Cluster, SkipCluster(c) PROVE QuietShape'
  <2>1. /\ tick'.pc = "clusters" /\ tick.pc = "clusters" /\ tick'.cluster = tick.cluster
        /\ tick'.clusters = tick.clusters \ {c} /\ UNCHANGED cluster
        /\ cluster[c].state = "DECOMMISSIONED" /\ cluster[c].desired = "DECOMMISSIONED"
    BY <1>4, <1>a DEF SkipCluster, TickRecord
  <2>2. ClusterDone(c)
    BY <2>1 DEF SettledShape, ClusterDone, Serving
  <2> QED
    BY <2>1, <2>2, <1>b, <1>d, <1>e, <1>f DEF Declared
<1>5. ASSUME NEW c \in Cluster, StartPools(c) PROVE QuietShape'
  <2>1. /\ tick'.pc = "pools" /\ tick.pc = "clusters" /\ tick'.cluster = c
        /\ tick'.clusters = tick.clusters \ {c} /\ UNCHANGED cluster
        /\ tick'.pools = PoolsOf(c) /\ tick'.used = 0
    BY <1>5, <1>a DEF StartPools, TickRecord
  <2>2. DoneClusters'
    BY <2>1, <1>b, <1>d, <1>e DEF DoneClusters, Declared
  <2>3. DonePools'
    BY <2>1, <1>b DEF DonePools, PoolPhases
  <2>4. UntouchedPhases'
    BY <2>1 DEF UntouchedPhases, PoolPhases
  <2> QED
    BY <2>2, <2>3, <2>4 DEF QuietShape
<1>6. ASSUME NEW c \in Cluster, StartTeardown(c) PROVE QuietShape'
  <2>1. /\ tick'.pc = "teardown" /\ tick.pc = "clusters" /\ tick'.cluster = c
        /\ tick'.clusters = tick.clusters \ {c}
        /\ \A d \in Cluster \ {c} : cluster'[d] = cluster[d]
        /\ tick'.anyLive => tick'.nodes # {}
    BY <1>6, <1>a DEF StartTeardown, TickRecord
  <2>2. \A d \in Cluster \ {c} : (Declared(d)' <=> Declared(d))
    BY <2>1 DEF Declared
  <2>3. DoneClusters'
    BY <2>1, <2>2, <1>b, <1>d, <1>e DEF DoneClusters
  <2> QED
    BY <2>1, <2>3 DEF QuietShape, DonePools, UntouchedPhases, PoolPhases
<1>7. ASSUME NEW p \in Pool, StartPool(p) PROVE QuietShape'
  <2>1. /\ tick'.pc = "advance" /\ tick.pc = "pools" /\ UNCHANGED cluster
        /\ tick'.clusters = tick.clusters /\ tick'.cluster = tick.cluster
        /\ tick'.pools = tick.pools \ {p} /\ tick'.pool = p /\ tick'.used = tick.used
        /\ tick'.nodes = InState(p, InFlightStates)
    BY <1>7, <1>a DEF StartPool, TickRecord
  <2>2. DonePools'
    BY <2>1, <1>b, <1>c DEF DonePools, PoolPhases
  <2>3. UntouchedPhases'
    BY <2>1, <1>b DEF UntouchedPhases, PoolPhases
  <2> QED
    BY <2>1, <2>2, <2>3, <1>g DEF QuietShape, PoolPhases
\* Within a pool the list of what is done stays as it is.
<1>h. ASSUME tick.pc \in PoolPhases, tick'.pc \in PoolPhases, UNCHANGED cluster,
             tick'.clusters = tick.clusters, tick'.cluster = tick.cluster,
             tick'.pools = tick.pools, tick'.pool = tick.pool, tick'.used = tick.used
      PROVE  DoneClusters' /\ DonePools'
  <2>1. DonePools'
    BY <1>h, <1>b, <1>c DEF DonePools
  <2> QED
    BY <2>1, <1>h, <1>g
<1>8. CASE BeginHeal
  <2>1. /\ tick.pc = "advance" /\ tick'.pc = "heal" /\ tick.nodes = {} /\ UNCHANGED cluster
        /\ tick'.clusters = tick.clusters /\ tick'.cluster = tick.cluster
        /\ tick'.pools = tick.pools /\ tick'.pool = tick.pool /\ tick'.used = tick.used
        /\ tick'.nodes = InState(tick.pool, {"FAILED"})
        /\ tick'.budget = HealBudget(tick.pool)
    BY <1>8, <1>a DEF BeginHeal, TickRecord
  <2>2. HealBudget(tick.pool)' = HealBudget(tick.pool)
    BY <2>1, <1>b DEF HealBudget
  <2>3. InState(tick.pool, InFlightStates) = {}
    BY <2>1, <1>c DEF UntouchedPhases, Quiet
  <2>4. UntouchedPhases'
    BY <2>1, <2>2, <2>3, <1>b DEF UntouchedPhases, PoolPhases
  <2> QED
    BY <2>1, <2>4, <1>h DEF QuietShape, PoolPhases
<1>9. CASE BeginRoll
  <2>1. /\ tick.pc = "heal" /\ tick'.pc = "roll" /\ UNCHANGED cluster
        /\ tick'.clusters = tick.clusters /\ tick'.cluster = tick.cluster
        /\ tick'.pools = tick.pools /\ tick'.pool = tick.pool /\ tick'.used = tick.used
        /\ tick'.nodes = Stale(tick.pool) /\ tick'.budget = RollBudget(tick.pool)
    BY <1>9, <1>a DEF BeginRoll, TickRecord
  <2>2. InState(tick.pool, InFlightStates) = {}
    BY <2>1, <1>c DEF UntouchedPhases, Quiet, PoolPhases
  <2>3. MayTend(tick.pool) => InState(tick.pool, {"FAILED"}) = {}
    BY <1>9, HealLeaves
  <2>4. UntouchedPhases'
    BY <2>1, <2>2, <2>3, <1>b DEF UntouchedPhases, PoolPhases
  <2> QED
    BY <2>1, <2>4, <1>h DEF QuietShape, PoolPhases
<1>10. CASE BeginScale
  <2>1. /\ tick.pc = "roll" /\ tick'.pc \in {"create", "down"} /\ UNCHANGED cluster
        /\ tick'.clusters = tick.clusters /\ tick'.cluster = tick.cluster
        /\ tick'.pools = tick.pools /\ tick'.pool = tick.pool /\ tick'.used = tick.used
        /\ tick'.pc = "create" => /\ Deficit(tick.pool) >= 0
                                  /\ tick'.budget = CreateBudget(tick.pool)
        /\ tick'.pc = "down" => /\ ~(Deficit(tick.pool) >= 0)
                                /\ tick'.nodes = InState(tick.pool, {"HEALTHY"})
                                /\ tick'.budget = DownBudget(tick.pool)
    BY <1>10, <1>a DEF BeginScale, TickRecord
  <2>2. /\ InState(tick.pool, InFlightStates) = {}
        /\ MayTend(tick.pool) => InState(tick.pool, {"FAILED"}) = {}
    BY <2>1, <1>c DEF UntouchedPhases, Quiet, PoolPhases
  <2>3. MayTend(tick.pool) => Stale(tick.pool) = {}
    BY <1>10, RollLeaves
  <2>4. ~(Deficit(tick.pool) >= 0) => Deficit(tick.pool) < 0
    <3>1. tick.pool \in Pool /\ spec[tick.pool] \in NodePool
      BY <2>1 DEF Shape, TypeOK, TickShape, PoolPhases
    <3>2. Deficit(tick.pool) \in Int
      BY <3>1, BudgetTypes
    <3> QED
      BY <3>2
  <2>5. UntouchedPhases'
    BY <2>1, <2>2, <2>3, <2>4, <1>b DEF UntouchedPhases, PoolPhases
  <2> QED
    BY <2>1, <2>5, <1>h DEF QuietShape, PoolPhases
<1>11. CASE FinishPool
  <2>1. /\ tick.pc \in {"create", "down"} /\ tick'.pc = "pools" /\ UNCHANGED cluster
        /\ tick'.clusters = tick.clusters /\ tick'.cluster = tick.cluster
        /\ tick'.pools = tick.pools /\ tick'.used = tick.used
    BY <1>11, <1>a DEF FinishPool, TickRecord
  <2>2. MayTend(tick.pool) => PoolDone(tick.pool)
    BY <1>11, PoolIsDone DEF SettledShape
  <2>3. DonePools'
    BY <2>1, <2>2, <1>b, <1>c DEF DonePools, PoolPhases
  <2> QED
    BY <2>1, <2>3, <1>g DEF QuietShape, UntouchedPhases, PoolPhases
<1>12. CASE FinishCluster
  <2> DEFINE c == tick.cluster
  <2>1. /\ tick.pc = "pools" /\ tick.pools = {} /\ c \in Cluster
        /\ tick'.pc = "clusters" /\ tick'.cluster = None /\ tick'.clusters = tick.clusters
        /\ cluster' = IF \A p \in PoolsOf(c) : PoolSatisfied(p)
                      THEN [cluster EXCEPT ![c].state = "ACTIVE"] ELSE cluster
    BY <1>12, <1>a DEF FinishCluster, TickRecord, Shape, TickShape
  <2>2. cluster[c].desired = "ACTIVE" /\ Declared(c)
    BY <2>1 DEF WorkShape, WorkIsDue
  <2>3. \A d \in Cluster \ {c} : cluster'[d] = cluster[d]
    BY <2>1, <1>a
  <2>4. ASSUME Tended(c)
        PROVE  /\ cluster'[c].state = "ACTIVE"
               /\ \A p \in PoolsOf(c) : PoolDone(p)
    <3>1. \A p \in PoolsOf(c) : PoolDone(p)
      BY <2>1, <2>4, <1>c DEF DonePools, Tended, PoolPhases
    <3>2. ASSUME NEW p \in PoolsOf(c) PROVE PoolSatisfied(p)
      <4>1. spec[p].desired \in Nat
        <5>1. spec[p] \in NodePool
          BY DEF PoolsOf, Shape, TypeOK
        <5> QED
          BY <5>1 DEF NodePool
      <4> QED
        BY <3>1, <4>1 DEF PoolDone, PoolSatisfied
    <3>3. cluster' = [cluster EXCEPT ![c].state = "ACTIVE"]
      BY <2>1, <3>2
    <3> QED
      BY <3>1, <3>3, <2>1, <1>a DEF ClusterRecord
  <2>5. cluster'[c].desired = "ACTIVE" /\ cluster'[c].state # "ABSENT"
    BY <2>1, <2>2, <1>a DEF ClusterRecord, Declared
  <2>6. ASSUME NEW d \in Cluster, d \notin tick.clusters, Declared(d)'
        PROVE  ClusterDone(d)'
    <3>1. CASE d # c
      <4>1. Declared(d)
        BY <3>1, <2>3, <2>6 DEF Declared
      <4> QED
        BY <3>1, <4>1, <2>1, <2>3, <2>6, <1>b, <1>d
    <3>2. CASE d = c
      <4>1. Serving(d)'
        BY <3>2, <2>5 DEF Serving, Declared
      <4>2. Tended(d)' => Tended(c)
        BY <3>2, <1>b DEF Tended
      <4>3. Tended(d)' => cluster'[d].state = "ACTIVE" /\ \A p \in PoolsOf(d)' : PoolDone(p)'
        BY <3>2, <4>2, <2>4, <1>b
      <4> QED
        BY <4>1, <4>3 DEF ClusterDone
    <3> QED
      BY <3>1, <3>2
  <2> QED
    BY <2>1, <2>6, <1>f
<1>13. CASE FinishTeardown
  <2>1. /\ tick.pc = "teardown" /\ tick.nodes = {} /\ tick.cluster \in Cluster
        /\ cluster[tick.cluster].state = "DRAINING"
    BY <1>13 DEF FinishTeardown, WorkIsDue, Shape, TickShape
  <2>2. ~tick.anyLive
    BY <2>1, <1>c DEF DoneClusters
  <2>3. cluster'[tick.cluster].state = "DECOMMISSIONED"
    BY <1>13, <2>1, <2>2, <1>a DEF FinishTeardown, ClusterRecord
  <2> QED
    BY <2>1, <2>3 DEF Logged
<1>14. CASE BeginGc
  <2>1. /\ tick.pc = "clusters" /\ tick'.pc = "gc" /\ UNCHANGED cluster
        /\ tick'.clusters = tick.clusters /\ tick.clusters = {} /\ tick'.cluster = tick.cluster
    BY <1>14, <1>a DEF BeginGc, TickRecord
  <2> QED
    BY <2>1, <1>b, <1>d, <1>e, <1>f DEF Declared
<1> QED
  BY <1>1, <1>2, <1>3, <1>4, <1>5, <1>6, <1>7, <1>8, <1>9, <1>10, <1>11, <1>12, <1>13, <1>14
  DEF Tick

\* Each step of a tick that has not acted yet either acts, or leaves behind it a phase, a
\* pool or a cluster that needs nothing (Reconciler.tick).
LEMMA QuietStep ==
  ASSUME Shape, WorkShape, WorkIsDue, RunTypeOK, SettledShape, QuietShape, IdsSuffice,
         [ONext]_allVars
  PROVE  QuietShape'
<1>a. run \in RunRecord /\ tick \in TickRecord
  BY DEF RunTypeOK, Shape, TypeOK
<1>b. SUFFICES ASSUME Quiet' PROVE QuietShape'
  BY DEF QuietShape, DoneClusters, DonePools, UntouchedPhases
<1>1. CASE RunBeginTick
  <2>1. tick'.pc = "detect" /\ tick'.cluster = None
    BY <1>1 DEF RunBeginTick, BeginTick, Idle
  <2> QED
    BY <2>1 DEF QuietShape, DoneClusters, DonePools, UntouchedPhases, PoolPhases
<1>2. CASE RunInTick
  <2>1. /\ run.phase = "reconcile" /\ tick.pc # "idle" /\ Tick
        /\ \E b \in BOOLEAN : b = (run.acted \/ Logged) /\ run' = [run EXCEPT !.acted = b]
    BY <1>2, Zenon DEF RunInTick
  <2>2. Quiet /\ ~Logged
    BY <2>1, <1>a, <1>b DEF Quiet, RunRecord
  <2>3. ~\E n \in NodeId : PerNode(n)
    BY <2>2, FirstWorkShows DEF Logged
  <2> QED
    BY <2>1, <2>2, <2>3, <1>b, QuietBookkeeping
<1>3. CASE UNCHANGED allVars
  BY <1>3
  DEF allVars, vars, QuietShape, DoneClusters, DonePools, UntouchedPhases, Quiet, ClusterDone,
      Serving, Declared, Tended, MayTend, PoolDone, NothingLeft, PoolsOf, InState, Stale, Slack,
      Destructive, Deficit, HealBudget, RollBudget, CreateBudget, DownBudget
\* Any other step is between two ticks, or ends the run.
<1>4. ASSUME ~RunBeginTick, ~RunInTick, ~UNCHANGED allVars PROVE FALSE
  <2>1. ASSUME NEW c \in Cluster, BringUp(c) \/ Decommission(c) PROVE FALSE
    BY <2>1, <1>b DEF BringUp, Decommission, DecommissionCluster, Quiet, vars
  <2>2. CASE NoWorkflow \/ RunLost \/ Return
    BY <2>2, <1>b DEF NoWorkflow, RunLost, Return, NoRun, Quiet
  <2>3. CASE RunEndTick
    BY <2>3, <1>b DEF RunEndTick, EndTick, Idle, Quiet
  <2>4. CASE Verify
    <3>1. \E b : run' = [run EXCEPT !.phase = "ended", !.ok = b]
      BY <2>4, Zenon DEF Verify
    <3> QED
      BY <3>1, <1>a, <1>b DEF RunRecord, Quiet
  <2>5. CASE Elapse
    BY <2>5, <1>b DEF Elapse, HeartbeatExpires, Quiet
  <2> QED
    BY <1>4, <2>1, <2>2, <2>3, <2>4, <2>5 DEF ONext, RunStep
<1> QED
  BY <1>1, <1>2, <1>3, <1>4

\* Time that passes shows in the signals only.
LEMMA TimeKeepsDone ==
  ASSUME Shape, Elapse, NEW c, ClusterDone(c)
  PROVE  ClusterDone(c)' /\ (Tended(c)' <=> Tended(c))
<1>a. TypeOK /\ node \in [NodeId -> NodeRecord] /\ UNCHANGED <<cluster, spec>>
  BY DEF Shape, TypeOK, Elapse, HeartbeatExpires
<1>1. \A n \in NodeId : /\ node'[n].state = node[n].state /\ node'[n].pool = node[n].pool
                        /\ node[n].state = "HEALTHY" => node'[n].image = node[n].image
  <2>1. PICK m \in NodeId : Put(m, [node[m] EXCEPT !.signal = "stale"])
    BY DEF Elapse, HeartbeatExpires
  <2> DEFINE r == [node[m] EXCEPT !.signal = "stale"]
  <2>2. /\ r \in NodeRecord /\ r.state = node[m].state /\ r.pool = node[m].pool
        /\ r.image = node[m].image
    BY <1>a DEF NodeRecord, Signal
  <2>3. node' = [node EXCEPT ![m] = Forget(r)]
    BY <2>1 DEF Put
  <2>4. /\ Forget(r).state = r.state /\ Forget(r).pool = r.pool
        /\ r.state = "HEALTHY" => Forget(r).image = r.image
    <3> HIDE DEF r
    <3> QED
      BY <2>2, ForgetKeeps DEF LeavingStates
  <2> HIDE DEF r
  <2> QED
    BY <2>2, <2>3, <2>4, <1>a
<1>2. \A p, states : InState(p, states)' = InState(p, states)
  BY <1>1 DEF InState
<1>3. \A p : Stale(p)' = Stale(p)
  BY <1>1, <1>2, <1>a DEF Stale, InState
<1>4. \A p : (PoolDone(p)' <=> PoolDone(p)) /\ (MayTend(p)' <=> MayTend(p))
  BY <1>2, <1>3, <1>a DEF PoolDone, MayTend
<1>5. PoolsOf(c)' = PoolsOf(c)
  BY <1>a DEF PoolsOf
<1> QED
  BY <1>a, <1>2, <1>4, <1>5 DEF ClusterDone, Serving, Declared, Tended, NothingLeft

\* The tick after which a run has converged has been through all clusters.
LEMMA LastTick ==
  ASSUME Shape, SettledShape, QuietShape, RunEndTick, ~run.acted
  PROVE  ClusterDone(run.cluster)
<1>1. /\ tick.pc = "gc" /\ Quiet /\ run.cluster \in Cluster /\ Declared(run.cluster)
  BY DEF RunEndTick, EndTick, Quiet, SettledShape
<1>2. tick.clusters = {} /\ tick.cluster = None
  BY <1>1 DEF QuietShape, DoneClusters
<1> QED
  BY <1>1, <1>2, NoneIsFresh DEF QuietShape, DoneClusters

\* The run stops after a tick without actions, which has visited every cluster; and
\* while it verifies no other step touches the cluster.
LEMMA ConvergedStep ==
  ASSUME Shape, RunTypeOK, SettledShape, QuietShape, QuietMeansDone, [ONext]_allVars
  PROVE  QuietMeansDone'
<1>a. run \in RunRecord
  BY DEF RunTypeOK
<1>b. SUFFICES ASSUME run'.phase \in {"verify", "ended"}, run'.converged,
                      NEW c, c = run'.cluster
               PROVE  ClusterDone(c)'
  BY DEF QuietMeansDone, ClusterDone, Serving, Declared, Tended, NothingLeft, PoolsOf
<1>c. ASSUME UNCHANGED vars, ClusterDone(c) PROVE ClusterDone(c)'
  BY <1>c, NothingMoved DEF vars
<1>1. CASE RunEndTick
  <2>1. run' = [run EXCEPT !.converged = ~run.acted,
                           !.phase = IF run.acted /\ run.left > 0 THEN @ ELSE AfterLoop]
        /\ UNCHANGED <<node, cluster, spec>>
    BY <1>1 DEF RunEndTick, EndTick
  <2>2. run'.converged = ~run.acted /\ run'.cluster = run.cluster
    BY <2>1, <1>a DEF RunRecord
  <2>3. ClusterDone(c)
    BY <1>1, <1>b, <2>2, LastTick
  <2> QED
    BY <2>1, <2>3, NothingMoved
<1>2. CASE Verify
  <2>1. run.phase = "verify" /\ UNCHANGED vars
        /\ \E b : run' = [run EXCEPT !.phase = "ended", !.ok = b]
    BY <1>2, Zenon DEF Verify
  <2>2. run'.converged = run.converged /\ run'.cluster = run.cluster
    BY <2>1, <1>a DEF RunRecord
  <2> QED
    BY <2>1, <2>2, <1>b, <1>c DEF QuietMeansDone
<1>3. CASE Elapse
  BY <1>3, <1>b, TimeKeepsDone DEF QuietMeansDone, Elapse
<1>4. CASE UNCHANGED allVars
  BY <1>4, <1>b, <1>c DEF QuietMeansDone, allVars
<1>5. ASSUME NoWorkflow \/ RunLost \/ Return \/ RunBeginTick PROVE FALSE
  <2>1. CASE NoWorkflow \/ RunLost \/ Return
    BY <2>1, <1>b DEF NoWorkflow, RunLost, Return, NoRun
  <2>2. CASE RunBeginTick
    BY <2>2, <1>a, <1>b DEF RunBeginTick, RunRecord
  <2> QED
    BY <1>5, <2>1, <2>2
<1>6. CASE RunInTick
  <2>1. run.phase = "reconcile" /\ \E b : run' = [run EXCEPT !.acted = b]
    BY <1>6, Zenon DEF RunInTick
  <2> QED
    BY <2>1, <1>a, <1>b DEF RunRecord
<1>7. ASSUME NEW d \in Cluster, BringUp(d) \/ Decommission(d) PROVE FALSE
  <2>1. \E name : run' = Reconciling(name, d)
    BY <1>7, Zenon DEF BringUp, Decommission
  <2> QED
    BY <2>1, <1>b DEF Reconciling, NoRun
<1> QED
  BY <1>1, <1>2, <1>3, <1>4, <1>5, <1>6, <1>7 DEF ONext, RunStep

\* What a run's first steps say of it holds until it is verified.
LEMMA OkStep ==
  ASSUME RunTypeOK, OkShape, [ONext]_allVars
  PROVE  OkShape'
<1>a. run \in RunRecord
  BY DEF RunTypeOK
<1>1. ASSUME NEW c \in Cluster, BringUp(c) \/ Decommission(c) PROVE OkShape'
  <2>1. \E name : run' = Reconciling(name, c)
    BY <1>1, Zenon DEF BringUp, Decommission
  <2> QED
    BY <2>1 DEF Reconciling, NoRun, OkShape
<1>2. CASE RunBeginTick
  BY <1>2, <1>a DEF RunBeginTick, RunRecord, OkShape
<1>3. CASE RunInTick
  <2>1. \E b : run' = [run EXCEPT !.acted = b]
    BY <1>3, Zenon DEF RunInTick
  <2> QED
    BY <2>1, <1>a DEF RunRecord, OkShape
<1>4. CASE RunEndTick
  <2>1. run.phase = "reconcile" /\ \E b, p : run' = [run EXCEPT !.converged = b, !.phase = p]
    BY <1>4, Zenon DEF RunEndTick
  <2> QED
    BY <2>1, <1>a DEF RunRecord, OkShape
<1>5. CASE Verify
  <2>1. \E b : run' = [run EXCEPT !.phase = "ended", !.ok = b]
    BY <1>5, Zenon DEF Verify
  <2> QED
    BY <2>1, <1>a DEF RunRecord, OkShape
<1>6. CASE NoWorkflow \/ Elapse \/ RunLost \/ Return \/ UNCHANGED allVars
  BY <1>6 DEF NoWorkflow, Elapse, RunLost, Return, NoRun, OkShape, allVars
<1> QED
  BY <1>1, <1>2, <1>3, <1>4, <1>5, <1>6 DEF ONext, RunStep

\* The verification finds what the last tick has seen.
LEMMA DoneIsHomogeneous ==
  ASSUME Shape, NEW c, ClusterDone(c), Tended(c)
  PROVE  Homogeneous(c)
<1>1. SUFFICES ASSUME NEW p \in PoolsOf(c)
               PROVE  Cardinality({node[n].image : n \in InState(p, {"HEALTHY"})}) <= 1
  BY DEF Homogeneous
<1>2. \A n \in InState(p, {"HEALTHY"}) : node[n].image = spec[p].image
  <2>1. InState(p, {"HEALTHY"}) \subseteq InState(p, LIVE_STATES)
    BY DEF InState, LIVE_STATES, NodeState
  <2>2. CASE Serving(c)
    BY <2>1, <2>2 DEF ClusterDone, PoolDone, Stale
  <2>3. CASE ~Serving(c)
    BY <2>1, <2>3 DEF ClusterDone, NothingLeft
  <2> QED
    BY <2>2, <2>3
<1> DEFINE images == {node[n].image : n \in InState(p, {"HEALTHY"})}
<1>3. images \subseteq {spec[p].image}
  BY <1>2
<1>4. /\ IsFiniteSet({spec[p].image}) /\ Cardinality({spec[p].image}) = 1
  BY FS_Singleton
<1>5. Cardinality(images) <= 1
  <2> HIDE DEF images
  <2> QED
    BY <1>3, <1>4, FS_Subset
<1> QED
  BY <1>5

\* In a cluster that is done all HEALTHY nodes of a pool have one configuration, which
\* is what activity_verify_homogeneity looks for.
LEMMA VerifiedStep ==
  ASSUME Shape, RunTypeOK, OkShape, SettledShape, QuietMeansDone, ConvergedRunIsOk,
         [ONext]_allVars
  PROVE  ConvergedRunIsOk'
<1>a. run \in RunRecord
  BY DEF RunTypeOK
<1>b. SUFFICES ASSUME run'.phase = "ended", run'.converged, NEW c, c = run'.cluster, Tended(c)'
               PROVE  run'.ok
  BY DEF ConvergedRunIsOk, Tended, PoolsOf
<1>c. ASSUME UNCHANGED spec PROVE Tended(c)
  <2>1. PoolsOf(c)' = PoolsOf(c)
    BY <1>c DEF PoolsOf
  <2> QED
    BY <2>1, <1>b, <1>c DEF Tended, MayTend
<1>1. CASE RunEndTick
  <2>1. run.ok
    BY <1>1 DEF RunEndTick, OkShape
  <2>2. \E b, p : run' = [run EXCEPT !.converged = b, !.phase = p]
    BY <1>1, Zenon DEF RunEndTick
  <2> QED
    BY <2>1, <2>2, <1>a DEF RunRecord
<1>2. CASE Verify
  <2>1. run.phase = "verify" /\ UNCHANGED spec /\ run.ok
    BY <1>2 DEF Verify, OkShape, vars
  <2>2. \E b : b = (run.ok /\ Homogeneous(run.cluster))
               /\ run' = [run EXCEPT !.phase = "ended", !.ok = b]
    BY <1>2, Zenon DEF Verify
  <2>3. run'.converged = run.converged /\ run'.cluster = run.cluster
        /\ run'.ok = (run.ok /\ Homogeneous(run.cluster))
    BY <2>2, <1>a DEF RunRecord
  <2>4. ClusterDone(c) /\ Tended(c) /\ c = run.cluster
    BY <2>1, <2>3, <1>b, <1>c DEF QuietMeansDone
  <2>5. Homogeneous(run.cluster)
    BY <2>4, DoneIsHomogeneous
  <2> QED
    BY <2>1, <2>3, <2>5
<1>3. CASE Elapse \/ UNCHANGED allVars
  <2>1. run' = run /\ UNCHANGED spec
    BY <1>3 DEF Elapse, HeartbeatExpires, allVars, vars
  <2>2. Tended(c) /\ c = run.cluster
    BY <2>1, <1>b, <1>c
  <2> QED
    BY <2>1, <2>2, <1>b DEF ConvergedRunIsOk
<1>4. CASE NoWorkflow \/ RunLost \/ Return
  BY <1>4, <1>b DEF NoWorkflow, RunLost, Return, NoRun
<1>5. CASE RunBeginTick
  BY <1>5, <1>a, <1>b DEF RunBeginTick, RunRecord
<1>6. CASE RunInTick
  <2>1. run.phase = "reconcile" /\ \E b : run' = [run EXCEPT !.acted = b]
    BY <1>6, Zenon DEF RunInTick
  <2> QED
    BY <2>1, <1>a, <1>b DEF RunRecord
<1>7. ASSUME NEW d \in Cluster, BringUp(d) \/ Decommission(d) PROVE run'.ok
  <2>1. \E name : run' = Reconciling(name, d)
    BY <1>7, Zenon DEF BringUp, Decommission
  <2> QED
    BY <2>1 DEF Reconciling, NoRun
<1> QED
  BY <1>1, <1>2, <1>3, <1>4, <1>5, <1>6, <1>7 DEF ONext, RunStep

\* What a teardown has found empty stays empty (EmptyStep), in every behaviour.
LEMMA EmptyAlways == Spec => []EmptyShape
<1>1. Init => EmptyShape
  BY IdleShape DEF Init, EmptyShape
<1> QED
  BY <1>1, EmptyStep, ShapeAlways, PTL DEF Spec

\* So are the shapes above invariants of every behaviour with workflows,
LEMMA SettledAlways ==
  ASSUME "reapply" \notin Ops, "force" \notin Ops
  PROVE  OSpec => []SettledShape
<1>1. OInit => SettledShape
  BY DEF OInit, Init, NoRun, Absent, SettledShape
<1>2. Shape /\ WorkShape /\ WorkIsDue /\ EmptyShape /\ RunTypeOK /\ SettledShape
      /\ [ONext]_allVars => SettledShape'
  BY SettledStep
<1> QED
  BY <1>1, <1>2, ImplementsReconciler, RunTypeCorrect, ShapeAlways, WorkAlways, DueAlways,
     EmptyAlways, PTL DEF OSpec

\* the last of them as long as there are ids.
LEMMA QuietAlways ==
  ASSUME "reapply" \notin Ops, "force" \notin Ops
  PROVE  OSpec /\ []IdsSuffice => []QuietShape
<1>1. OInit => QuietShape
  BY DEF OInit, NoRun, Quiet, QuietShape, DoneClusters, DonePools, UntouchedPhases
<1>2. Shape /\ WorkShape /\ WorkIsDue /\ RunTypeOK /\ SettledShape /\ QuietShape /\ IdsSuffice
      /\ [ONext]_allVars => QuietShape'
  BY QuietStep
<1> QED
  BY <1>1, <1>2, ImplementsReconciler, RunTypeCorrect, SettledAlways, ShapeAlways, WorkAlways,
     DueAlways, PTL DEF OSpec

\* A workflow that stops because a tick did nothing leaves its cluster as it was asked
\* to be: run_until_converged may take an empty list of actions for convergence.  Given
\* that there is always another id, and that no node is forced and no cluster declared
\* again, whose teardown the loop would skip (DecommissionedRunsNothing).
THEOREM ConvergedIsDone ==
  ASSUME "reapply" \notin Ops, "force" \notin Ops
  PROVE  OSpec /\ []IdsSuffice => []QuietMeansDone
<1>1. OInit => QuietMeansDone
  BY DEF OInit, NoRun, QuietMeansDone
<1>2. Shape /\ RunTypeOK /\ SettledShape /\ QuietShape /\ QuietMeansDone
      /\ [ONext]_allVars => QuietMeansDone'
  BY ConvergedStep
<1> QED
  BY <1>1, <1>2, ImplementsReconciler, RunTypeCorrect, SettledAlways, QuietAlways, ShapeAlways,
     PTL DEF OSpec

\* A bring-up that converged passes its verification: the hashes of the HEALTHY nodes
\* of a pool that may be tended are all the pool's (activity_verify_homogeneity).
THEOREM VerificationPasses ==
  ASSUME "reapply" \notin Ops, "force" \notin Ops
  PROVE  OSpec /\ []IdsSuffice => []ConvergedRunIsOk
<1>1. OInit => OkShape /\ ConvergedRunIsOk
  BY DEF OInit, NoRun, OkShape, ConvergedRunIsOk
<1>2. RunTypeOK /\ OkShape /\ [ONext]_allVars => OkShape'
  BY OkStep
<1>3. Shape /\ RunTypeOK /\ OkShape /\ SettledShape /\ QuietMeansDone /\ ConvergedRunIsOk
      /\ [ONext]_allVars => ConvergedRunIsOk'
  BY VerifiedStep
<1> QED
  BY <1>1, <1>2, <1>3, ImplementsReconciler, RunTypeCorrect, SettledAlways, ConvergedIsDone,
     ShapeAlways, PTL DEF OSpec
=============================================================================
