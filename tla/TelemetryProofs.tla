--------------------------- MODULE TelemetryProofs ---------------------------
(***************************************************************************)
(* The metrics tell the truth about the control loop: they change nothing  *)
(* of what it does (TSpec implements Spec), no node comes or goes without  *)
(* being counted, the two ways of counting actions agree, and failures and *)
(* self-heals do where the code counts.  The scripts of sim/ and cli.py    *)
(* are such behaviours (DSpec implements TSpec), and the dashboard that    *)
(* observe.py feeds from the metrics tells one story.                      *)
(***************************************************************************)
EXTENDS Demos, OwnershipProofs, Sums

-----------------------------------------------------------------------------
(* Metrics do not interfere *)

LEMMA StepIsLoopStep ==
  ASSUME [TNext]_tvars
  PROVE  [Next]_vars
<1>1. CASE TTick
  BY <1>1 DEF TTick, NodeActs, PhaseStep, LastStep, Next, Tick
<1>2. CASE TOperator \/ TFailure
  BY <1>2 DEF TOperator, TFailure, Next
<1>3. CASE UNCHANGED tvars
  BY <1>3 DEF tvars
<1> QED
  BY <1>1, <1>2, <1>3 DEF TNext

\* Counting and collecting show nothing in the store and at the providers that the
\* control loop does not show without them (telemetry.py).
THEOREM MetricsDoNotInterfere == TSpec => Spec
<1>1. TInit => Init
  BY DEF TInit
<1> QED
  BY <1>1, StepIsLoopStep, PTL DEF TSpec, Spec

\* What the proofs below use of the control loop
LoopHolds == Shape /\ WorkShape /\ WorkIsDue

LEMMA LoopAlways == TSpec => []LoopHolds
<1>1. Spec => []LoopHolds
  BY ShapeAlways, WorkAlways, DueAlways, PTL DEF LoopHolds
<1> QED
  BY <1>1, MetricsDoNotInterfere, PTL

-----------------------------------------------------------------------------
(* What a step on a node counts *)

NodePhases == {"detect", "advance", "heal", "roll", "create", "down", "teardown", "gc"}

LEMMA NodePhase ==
  ASSUME NEW n \in NodeId, PerNode(n)
  PROVE  tick.pc \in NodePhases /\ TypeIn[tick.pc] \in ActionType
<1>1. tick.pc \in NodePhases
  BY DEF NodePhases, PerNode, DetectFailure, AdvanceNode, HealNode, RollNode, CreateNode,
         ScaleDownNode, TeardownNode, GcNode
<1> QED
  BY <1>1 DEF NodePhases, TypeIn, ActionType

LEMMA CountedFields ==
  ASSUME count \in CounterRecord, NEW n
  PROVE  /\ Counted(n) \in CounterRecord
         /\ Counted(n).ticks = count.ticks /\ Counted(n).actions = count.actions
         /\ Counted(n).created = count.created + One(Creates(n))
         /\ Counted(n).terminated = count.terminated + One(Terminates(n))
         /\ Counted(n).heals = count.heals + One(Heals(n))
         /\ Counted(n).rejected = count.rejected + One(Rejects(n))
         /\ \A r \in Reason : Counted(n).failed[r] = count.failed[r] + One(r \in Fails(n))
<1> DEFINE f == [r \in Reason |-> count.failed[r] + One(r \in Fails(n))]
<1>1. \A b : One(b) \in {0, 1}
  BY DEF One
<1>2. f \in [Reason -> Nat]
  BY <1>1 DEF CounterRecord
<1>3. Counted(n) =
        [ count EXCEPT
            !.created = count.created + One(Creates(n)),
            !.terminated = count.terminated + One(Terminates(n)),
            !.heals = count.heals + One(Heals(n)),
            !.rejected = count.rejected + One(Rejects(n)), !.failed = f ]
  BY DEF Counted
<1>4. \A r \in Reason : f[r] = count.failed[r] + One(r \in Fails(n))
  OBVIOUS
<1> HIDE DEF f
<1>5. /\ Counted(n).ticks = count.ticks /\ Counted(n).actions = count.actions
      /\ Counted(n).created = count.created + One(Creates(n))
      /\ Counted(n).terminated = count.terminated + One(Terminates(n))
      /\ Counted(n).heals = count.heals + One(Heals(n))
      /\ Counted(n).rejected = count.rejected + One(Rejects(n))
      /\ Counted(n).failed = f
  BY <1>3 DEF CounterRecord
<1>6. /\ count.created + One(Creates(n)) \in Nat /\ count.terminated + One(Terminates(n)) \in Nat
      /\ count.heals + One(Heals(n)) \in Nat /\ count.rejected + One(Rejects(n)) \in Nat
  BY <1>1 DEF CounterRecord
<1>7. Counted(n) \in CounterRecord
  BY <1>2, <1>3, <1>6 DEF CounterRecord
<1> QED
  BY <1>4, <1>5, <1>7

LEMMA LoggedFields ==
  ASSUME actions \in [ActionType -> Nat], NEW t \in ActionType
  PROVE  /\ Logged(t) \in [ActionType -> Nat]
         /\ Logged(t)[t] = actions[t] + 1
         /\ \A u \in ActionType \ {t} : Logged(t)[u] = actions[u]
BY DEF Logged

LEMMA TickCountedFields ==
  ASSUME count \in CounterRecord, actions \in [ActionType -> Nat]
  PROVE  /\ TickCounted \in CounterRecord
         /\ \A t \in ActionType : TickCounted.actions[t] = count.actions[t] + actions[t]
         /\ TickCounted.created = count.created /\ TickCounted.terminated = count.terminated
         /\ TickCounted.heals = count.heals /\ TickCounted.rejected = count.rejected
         /\ TickCounted.failed = count.failed
<1> DEFINE f == [t \in ActionType |-> count.actions[t] + actions[t]]
<1>1. f \in [ActionType -> Nat] /\ \A t \in ActionType : f[t] = count.actions[t] + actions[t]
  BY DEF CounterRecord
<1>2. TickCounted = [count EXCEPT !.ticks = count.ticks + 1, !.actions = f]
  BY DEF TickCounted
<1> HIDE DEF f
<1>3. /\ TickCounted.actions = f
      /\ TickCounted.created = count.created /\ TickCounted.terminated = count.terminated
      /\ TickCounted.heals = count.heals /\ TickCounted.rejected = count.rejected
      /\ TickCounted.failed = count.failed
  BY <1>2 DEF CounterRecord
<1>4. count.ticks + 1 \in Nat
  BY DEF CounterRecord
<1>5. TickCounted \in CounterRecord
  BY <1>1, <1>2, <1>4 DEF CounterRecord
<1> QED
  BY <1>1, <1>3, <1>5

LEMMA ZeroFields ==
  /\ ZeroCounters \in CounterRecord /\ NoActions \in [ActionType -> Nat]
  /\ ZeroCounters.created = 0 /\ ZeroCounters.terminated = 0
  /\ ZeroCounters.heals = 0 /\ ZeroCounters.rejected = 0
  /\ \A r \in Reason : ZeroCounters.failed[r] = 0
  /\ \A t \in ActionType : ZeroCounters.actions[t] = 0 /\ NoActions[t] = 0
BY DEF ZeroCounters, CounterRecord, NoActions

LEMMA StoreCounts ==
  /\ IsFiniteSet(Records) /\ Cardinality(Records) \in Nat
  /\ IsFiniteSet(Failed) /\ Cardinality(Failed) \in Nat
BY NodeIdFinite, FS_Subset, FS_CardinalityType DEF Records, Failed

LEMMA StoreNowType ==
  /\ StoreNow \in [records : Nat, failed : Nat]
  /\ StoreNow.records = Cardinality(Records) /\ StoreNow.failed = Cardinality(Failed)
BY StoreCounts DEF StoreNow

\* Only TFailure sets `began', and to what the store then holds.
LEMMA NewProcessFields ==
  ASSUME NewProcess
  PROVE  /\ began' \in [records : Nat, failed : Nat]
         /\ began'.records = Cardinality(Records') /\ began'.failed = Cardinality(Failed')
         /\ count' = ZeroCounters /\ actions' = NoActions
<1>1. /\ IsFiniteSet(Records') /\ Cardinality(Records') \in Nat
      /\ IsFiniteSet(Failed') /\ Cardinality(Failed') \in Nat
  BY NodeIdFinite, FS_Subset, FS_CardinalityType DEF Records, Failed
<1>2. began' = [records |-> Cardinality(Records'), failed |-> Cardinality(Failed')]
  BY DEF NewProcess, StoreNow
<1> QED
  BY <1>1, <1>2 DEF NewProcess

-----------------------------------------------------------------------------
(* Types *)

LEMMA TelemetryTypeStep ==
  ASSUME TelemetryTypeOK, [TNext]_tvars
  PROVE  TelemetryTypeOK'
<1>1. ASSUME NEW n \in NodeId, NodeActs(n) PROVE TelemetryTypeOK'
  BY <1>1, NodePhase, CountedFields, LoggedFields DEF NodeActs, TelemetryTypeOK
<1>2. CASE PhaseStep
  <2>1. "cluster" \in ActionType
    BY DEF ActionType
  <2> QED
    BY <1>2, <2>1, LoggedFields DEF PhaseStep, TelemetryTypeOK
<1>3. CASE LastStep
  BY <1>3, TickCountedFields, ZeroFields DEF LastStep, TelemetryTypeOK
<1>4. CASE TOperator \/ UNCHANGED tvars
  BY <1>4 DEF TOperator, tvars, TelemetryTypeOK
<1>5. CASE TFailure
  BY <1>5, NewProcessFields, ZeroFields DEF TFailure, TelemetryTypeOK
<1> QED
  BY <1>1, <1>2, <1>3, <1>4, <1>5 DEF TNext, TTick

\* Every counter is a natural number, whatever operators, providers and crashes do.
THEOREM TelemetryTypeCorrect == TSpec => []TelemetryTypeOK
<1>1. TInit => TelemetryTypeOK
  BY ZeroFields, StoreNowType DEF TInit, TelemetryTypeOK
<1> QED
  BY <1>1, TelemetryTypeStep, PTL DEF TSpec

-----------------------------------------------------------------------------
(* Records *)

\* A record comes in CreateNode and goes in GcNode, and nowhere else.
LEMMA RecordsStep ==
  ASSUME LoopHolds, LoopHolds', NEW n \in NodeId, PerNode(n)
  PROVE  Cardinality(Records') + One(Terminates(n)) = Cardinality(Records) + One(Creates(n))
<1>1. /\ \A m \in NodeId \ {n} : node'[m] = node[m]
      /\ \/ Created(n) \/ Collected(n)
         \/ tick.pc \notin {"create", "gc"}
            /\ (node[n].state = "ABSENT" <=> node'[n].state = "ABSENT")
  <2>1. /\ \A m \in NodeId \ {n} : node'[m] = node[m]
        /\ \/ Created(n) \/ Collected(n)
           \/ Moved(n) /\ tick.pc \notin {"create", "gc"}
           \/ DrainedOut(n)
           \/ /\ tick.pc \in {"heal", "roll", "down"}
              /\ node'[n].state = node[n].state /\ node'[n].pool = node[n].pool
    BY NodeStep DEF LoopHolds
  <2>2. CASE Moved(n) /\ tick.pc \notin {"create", "gc"}
    <3>1. node[n].state \in NodeState
      BY <2>2 DEF Moved, LoopHolds, Shape, TypeOK, NodeRecord
    <3>2. "ABSENT" \notin NODE_TRANSITIONS[node[n].state]
      BY <3>1 DEF NODE_TRANSITIONS, NodeState
    <3> QED
      BY <2>1, <2>2, <3>2 DEF Moved
  <2> QED
    BY <2>1, <2>2 DEF DrainedOut
<1>2. CASE Created(n)
  <2>1. Records' = Records \union {n} /\ n \notin Records
    BY <1>1, <1>2 DEF Created, Records, Absent
  <2>2. Cardinality(Records') = Cardinality(Records) + 1
    BY <2>1, StoreCounts, FS_AddElement
  <2> QED
    BY <1>2, <2>2, StoreCounts DEF Created, Terminates, Creates, One
<1>3. CASE Collected(n)
  <2>1. Records' = Records \ {n} /\ n \in Records
    BY <1>1, <1>3 DEF Collected, Records, Absent
  <2>2. Cardinality(Records') = Cardinality(Records) - 1
    BY <2>1, StoreCounts, FS_RemoveElement
  <2> QED
    BY <1>3, <2>2, StoreCounts DEF Collected, Terminates, Creates, One
<1>4. CASE /\ tick.pc \notin {"create", "gc"}
           /\ (node[n].state = "ABSENT" <=> node'[n].state = "ABSENT")
  <2>1. Records' = Records
    BY <1>1, <1>4 DEF Records
  <2> QED
    BY <1>4, <2>1, StoreCounts DEF Terminates, Creates, One
<1> QED
  BY <1>1, <1>2, <1>3, <1>4

\* Operators give orders and force nodes, but remove no record and move no other node.
LEMMA OperatorKeeps ==
  ASSUME LoopHolds, Operator
  PROVE  /\ Records' = Records
         /\ "force" \notin Ops => \A n \in NodeId : /\ node'[n].state = node[n].state
                                                 /\ node'[n].pool = node[n].pool
<1>a. node \in [NodeId -> NodeRecord]
  BY DEF LoopHolds, Shape, TypeOK
<1>b. ASSUME NEW n \in NodeId, NEW r \in NodeRecord, Put(n, r)
      PROVE  /\ node'[n].state = r.state /\ node'[n].pool = r.pool
             /\ \A m \in NodeId \ {n} : node'[m] = node[m]
  BY <1>a, <1>b, ForgetKeeps DEF Put
<1>1. ASSUME NEW n \in NodeId, ReportHealth(n) \/ HeartbeatExpires(n)
      PROVE  /\ Records' = Records
             /\ \A m \in NodeId : node'[m].state = node[m].state /\ node'[m].pool = node[m].pool
  <2>1. PICK s \in Signal : Put(n, [node[n] EXCEPT !.signal = s])
    BY <1>1, ReportsType DEF ReportHealth, HeartbeatExpires, Signal
  <2>2. /\ [node[n] EXCEPT !.signal = s] \in NodeRecord
        /\ [node[n] EXCEPT !.signal = s].state = node[n].state
        /\ [node[n] EXCEPT !.signal = s].pool = node[n].pool
    BY <1>a DEF NodeRecord
  <2> QED
    BY <2>1, <2>2, <1>b DEF Records
<1>2. ASSUME NEW n \in NodeId, ForceDecommissionNode(n)
      PROVE  Records' = Records /\ "force" \in Ops
  <2>1. /\ "force" \in Ops /\ node[n].state # "ABSENT"
        /\ \/ UNCHANGED node
           \/ \E r \in NodeRecord : Put(n, r) /\ r.state = "DECOMMISSIONING"
    BY <1>2, ForceEffect DEF LoopHolds, Shape
  <2> QED
    BY <1>b, <2>1 DEF Records
<1>3. CASE UNCHANGED node
  BY <1>3 DEF Records
<1> QED
  BY <1>1, <1>2, <1>3 DEF Operator, ApplyCluster, DecommissionCluster, ScalePool, RollingUpdate

LEMMA RecordsAccountedStep ==
  ASSUME TelemetryTypeOK, LoopHolds, LoopHolds', RecordsAccounted, [TNext]_tvars
  PROVE  RecordsAccounted'
<1>a. count \in CounterRecord /\ began.records \in Nat
  BY DEF TelemetryTypeOK
<1>b. count.created \in Nat /\ count.terminated \in Nat
  BY <1>a DEF CounterRecord
<1>c. ASSUME Records' = Records, UNCHANGED began, count'.created = count.created,
             count'.terminated = count.terminated
      PROVE  RecordsAccounted'
  BY <1>c DEF RecordsAccounted
<1>1. ASSUME NEW n \in NodeId, NodeActs(n) PROVE RecordsAccounted'
  <2>1. Cardinality(Records') + One(Terminates(n)) = Cardinality(Records) + One(Creates(n))
    BY <1>1, RecordsStep DEF NodeActs
  <2>2. /\ count'.created = count.created + One(Creates(n))
        /\ count'.terminated = count.terminated + One(Terminates(n))
        /\ UNCHANGED began
    BY <1>1, <1>a, CountedFields DEF NodeActs
  <2>3. /\ Cardinality(Records) \in Nat /\ Cardinality(Records') \in Nat
        /\ One(Terminates(n)) \in {0, 1} /\ One(Creates(n)) \in {0, 1}
    <3>1. Records' \subseteq NodeId
      BY DEF Records
    <3> QED
      BY <3>1, StoreCounts, NodeIdFinite, FS_Subset, FS_CardinalityType DEF One
  <2> QED
    BY <1>a, <1>b, <2>1, <2>2, <2>3 DEF RecordsAccounted
<1>2. CASE PhaseStep
  BY <1>2, <1>c DEF PhaseStep, Records
<1>3. CASE LastStep
  <2>1. Records' = Records
    BY <1>3 DEF LastStep, EndTick, Records
  <2> QED
    BY <1>3, <1>a, <1>c, <2>1, TickCountedFields DEF LastStep, TelemetryTypeOK
<1>4. CASE TOperator
  BY <1>4, <1>c, OperatorKeeps DEF TOperator
<1>5. CASE TFailure
  <2>1. /\ began'.records = Cardinality(Records') /\ count' = ZeroCounters
        /\ ZeroCounters.created = 0 /\ ZeroCounters.terminated = 0
    BY <1>5, NewProcessFields, ZeroFields DEF TFailure
  <2> QED
    BY <2>1 DEF RecordsAccounted
<1>6. CASE UNCHANGED tvars
  BY <1>6, <1>c DEF tvars, vars, Records
<1> QED
  BY <1>1, <1>2, <1>3, <1>4, <1>5, <1>6 DEF TNext, TTick

\* At every moment, within a tick too, whatever crashed before, the nodes of the
\* store are those it began with, plus the created, minus the terminated.
THEOREM NothingUncounted == TSpec => []RecordsAccounted
<1>1. TInit => RecordsAccounted
  <2>1. ASSUME TInit
        PROVE  /\ began.records = Cardinality(Records)
               /\ count.created = 0 /\ count.terminated = 0
    BY <2>1, ZeroFields, StoreNowType DEF TInit
  <2> QED
    BY <2>1, StoreCounts DEF RecordsAccounted
<1> QED
  BY <1>1, RecordsAccountedStep, LoopAlways, TelemetryTypeCorrect, PTL DEF TSpec

-----------------------------------------------------------------------------
(* Two ways of counting *)

LEMMA PhaseKept ==
  ASSUME LoopHolds, NEW n \in NodeId, PerNode(n)
  PROVE  tick'.pc = tick.pc
BY NodeStepFrame DEF LoopHolds

\* Within the loop only the last step of a tick leads to idle.
LEMMA OnlyEndTickIdles ==
  ASSUME LoopHolds, Tick, node' = node, tick.pc # "gc", tick'.pc = "idle"
  PROVE  FALSE
<1>1. tick \in TickRecord
  BY DEF LoopHolds, Shape, TypeOK
<1>2. ASSUME NEW n \in NodeId, PerNode(n) PROVE FALSE
  BY <1>2, PhaseKept, NodePhase DEF NodePhases
<1>3. CASE BeginTick \/ EndDetect \/ BeginHeal \/ BeginRoll \/ BeginScale \/ FinishPool
           \/ FinishCluster \/ FinishTeardown \/ BeginGc \/ EndTick
  BY <1>1, <1>3 DEF BeginTick, EndDetect, BeginHeal, BeginRoll, BeginScale, FinishPool,
                    FinishCluster, FinishTeardown, BeginGc, EndTick, Idle, TickRecord
<1>4. ASSUME NEW c \in Cluster,
             LeavePlanned(c) \/ SkipCluster(c) \/ StartPools(c) \/ StartTeardown(c)
      PROVE  FALSE
  BY <1>1, <1>4 DEF LeavePlanned, SkipCluster, StartPools, StartTeardown, TickRecord
<1>5. ASSUME NEW p \in Pool, StartPool(p) PROVE FALSE
  BY <1>1, <1>5 DEF StartPool, TickRecord
<1> QED
  BY <1>2, <1>3, <1>4, <1>5 DEF Tick

LEMMA ActionsShapeStep ==
  ASSUME LoopHolds, TelemetryTypeOK, ActionsShape, [TNext]_tvars
  PROVE  ActionsShape'
<1>a. /\ count \in CounterRecord /\ actions \in [ActionType -> Nat]
      /\ {"create", "gc", "self-heal", "detect-failed", "advance", "cluster"}
           \subseteq ActionType
      /\ Reason = {"heartbeat_timeout", "agent_reported", "security_gate"}
  BY DEF TelemetryTypeOK, ActionType, Reason
<1>b. /\ count.created \in Nat /\ count.terminated \in Nat /\ count.heals \in Nat
      /\ count.rejected \in Nat /\ count.failed \in [Reason -> Nat]
      /\ count.actions \in [ActionType -> Nat]
  BY <1>a DEF CounterRecord
<1>1. ASSUME NEW n \in NodeId, NodeActs(n) PROVE ActionsShape'
  <2> DEFINE t == TypeIn[tick.pc]
  <2>1. tick.pc \in NodePhases /\ t \in ActionType
    BY <1>1, NodePhase DEF NodeActs
  <2>2. /\ count'.actions = count.actions
        /\ count'.created = count.created + One(Creates(n))
        /\ count'.terminated = count.terminated + One(Terminates(n))
        /\ count'.heals = count.heals + One(Heals(n))
        /\ count'.rejected = count.rejected + One(Rejects(n))
        /\ \A r \in Reason : count'.failed[r] = count.failed[r] + One(r \in Fails(n))
    BY <1>1, <1>a, CountedFields DEF NodeActs
  <2>3. /\ actions'[t] = actions[t] + 1
        /\ \A u \in ActionType \ {t} : actions'[u] = actions[u]
    BY <1>1, <2>1, <1>a, LoggedFields DEF NodeActs
  <2>4. /\ t = "create" <=> tick.pc = "create"
        /\ t = "gc" <=> tick.pc = "gc"
        /\ t = "self-heal" <=> tick.pc = "heal"
        /\ t = "detect-failed" <=> tick.pc = "detect"
    BY <2>1 DEF TypeIn, NodePhases
  <2>5. tick'.pc # "idle"
    BY <1>1, <2>1, PhaseKept DEF NodeActs, NodePhases
  <2>6. /\ count'.actions["create"] + actions'["create"] = count'.created
        /\ count'.actions["gc"] + actions'["gc"] = count'.terminated
        /\ count'.actions["self-heal"] + actions'["self-heal"] = count'.heals
    BY <1>a, <1>b, <2>2, <2>3, <2>4 DEF ActionsShape, One, Creates, Terminates, Heals
  <2>7. count'.actions["detect-failed"] + actions'["detect-failed"] + count'.rejected
          = FailuresCounted'
    <3>1. CASE tick.pc = "detect"
      <4>1. ~Rejects(n) /\ \E r \in Reason : Fails(n) = {r}
        BY <3>1, <1>a DEF Rejects, Fails
      <4> QED
        BY <3>1, <4>1, <1>a, <1>b, <2>2, <2>3, <2>4 DEF ActionsShape, One, FailuresCounted
    <3>2. CASE tick.pc # "detect" /\ Rejects(n)
      <4>1. Fails(n) = {"security_gate"}
        BY <3>2 DEF Fails
      <4> QED
        BY <3>2, <4>1, <1>a, <1>b, <2>2, <2>3, <2>4 DEF ActionsShape, One, FailuresCounted
    <3>3. CASE tick.pc # "detect" /\ ~Rejects(n)
      <4>1. Fails(n) = {}
        BY <3>3 DEF Fails
      <4> QED
        BY <3>3, <4>1, <1>a, <1>b, <2>2, <2>3, <2>4 DEF ActionsShape, One, FailuresCounted
    <3> QED
      BY <3>1, <3>2, <3>3
  <2> QED
    BY <2>5, <2>6, <2>7 DEF ActionsShape
<1>2. CASE PhaseStep
  <2>1. /\ UNCHANGED count
        /\ actions' = actions \/ actions' = Logged("cluster")
    BY <1>2 DEF PhaseStep
  <2>2. tick'.pc # "idle"
    BY <1>2, OnlyEndTickIdles DEF PhaseStep
  <2>3. \A u \in {"create", "gc", "self-heal", "detect-failed"} : actions'[u] = actions[u]
    BY <2>1, <1>a, LoggedFields
  <2> QED
    BY <2>1, <2>2, <2>3 DEF ActionsShape, FailuresCounted
<1>3. CASE LastStep
  <2>1. /\ \A t \in ActionType : count'.actions[t] = count.actions[t] + actions[t]
        /\ count'.created = count.created /\ count'.terminated = count.terminated
        /\ count'.heals = count.heals /\ count'.rejected = count.rejected
        /\ count'.failed = count.failed /\ actions' = NoActions
    BY <1>3, <1>a, TickCountedFields DEF LastStep
  <2> QED
    BY <2>1, <1>a, <1>b, ZeroFields DEF ActionsShape, FailuresCounted
<1>4. CASE TOperator
  <2>1. UNCHANGED tick
    BY <1>4 DEF TOperator, Operator, ApplyCluster, DecommissionCluster, ScalePool,
                RollingUpdate, ReportHealth, HeartbeatExpires, ForceDecommissionNode
  <2> QED
    BY <1>4, <2>1 DEF TOperator, ActionsShape, FailuresCounted
<1>5. CASE TFailure
  <2>1. count' = ZeroCounters /\ actions' = NoActions
    BY <1>5, NewProcessFields DEF TFailure
  <2> QED
    BY <2>1, <1>a, ZeroFields DEF ActionsShape, FailuresCounted
<1>6. CASE UNCHANGED tvars
  BY <1>6 DEF tvars, vars, ActionsShape, FailuresCounted
<1> QED
  BY <1>1, <1>2, <1>3, <1>4, <1>5, <1>6 DEF TNext, TTick

\* What the metrics say by action and by event agrees whenever they can be read:
\* between ticks, also in a process that was restarted within one.
THEOREM CountersAgree == TSpec => []ActionsAgree
<1>1. TInit => ActionsShape
  BY ZeroFields DEF TInit, ActionsShape, FailuresCounted, ActionType, Reason
<1>2. TelemetryTypeOK /\ ActionsShape => ActionsAgree
  <2> SUFFICES ASSUME TelemetryTypeOK, ActionsShape, tick.pc = "idle"
               PROVE  ActionsAgree
    BY DEF ActionsAgree
  <2>1. /\ \A t \in ActionType : actions[t] = 0 /\ count.actions[t] \in Nat
        /\ {"create", "gc", "self-heal", "detect-failed"} \subseteq ActionType
    BY ZeroFields DEF ActionsShape, TelemetryTypeOK, CounterRecord, ActionType
  <2> QED
    BY <2>1 DEF ActionsShape, ActionsAgree
<1> QED
  BY <1>1, <1>2, ActionsShapeStep, LoopAlways, TelemetryTypeCorrect, PTL DEF TSpec

-----------------------------------------------------------------------------
(* Gauges *)

LEMMA SamplesKept ==
  ASSUME \A n \in NodeId : node'[n].state = node[n].state /\ node'[n].pool = node[n].pool,
         UNCHANGED gauge, GaugesTrue, tick.pc = "idle", count.ticks > 0
  PROVE  GaugesTrue'
<1>1. /\ \A p : StatesIn(p)' = StatesIn(p)
      /\ \A p, states : InState(p, states)' = InState(p, states)
  BY DEF StatesIn, InState
<1> QED
  BY <1>1 DEF GaugesTrue

LEMMA GaugesStep ==
  ASSUME "force" \notin Ops, LoopHolds, TelemetryTypeOK, GaugesTrue, [TNext]_tvars
  PROVE  GaugesTrue'
<1>1. ASSUME NEW n \in NodeId, NodeActs(n) PROVE GaugesTrue'
  BY <1>1, PhaseKept, NodePhase DEF NodeActs, NodePhases, GaugesTrue
<1>2. CASE PhaseStep
  BY <1>2, OnlyEndTickIdles DEF PhaseStep, GaugesTrue
<1>3. CASE LastStep
  BY <1>3 DEF LastStep, EndTick, collect, StatesIn, InState, GaugesTrue
<1>4. CASE TOperator
  <2>1. UNCHANGED <<gauge, count>> /\ tick.pc = "idle"
    BY <1>4 DEF TOperator, Operator, ApplyCluster, DecommissionCluster, ScalePool,
                RollingUpdate, ReportHealth, HeartbeatExpires, ForceDecommissionNode
  <2>2. \A n \in NodeId : node'[n].state = node[n].state /\ node'[n].pool = node[n].pool
    BY <1>4, OperatorKeeps DEF TOperator
  <2>3. CASE count.ticks > 0
    BY <2>1, <2>2, <2>3, SamplesKept
  <2>4. CASE ~(count.ticks > 0)
    BY <2>1, <2>4 DEF GaugesTrue
  <2> QED
    BY <2>3, <2>4
<1>5. CASE TFailure
  <2>1. count'.ticks = 0
    BY <1>5, NewProcessFields DEF TFailure, ZeroCounters
  <2> QED
    BY <2>1 DEF GaugesTrue
<1>6. CASE UNCHANGED tvars
  <2>1. UNCHANGED <<node, tick, gauge, count>>
    BY <1>6 DEF tvars, vars
  <2>2. CASE tick.pc = "idle" /\ count.ticks > 0
    BY <2>1, <2>2, SamplesKept
  <2>3. CASE ~(tick.pc = "idle" /\ count.ticks > 0)
    BY <2>1, <2>3 DEF GaugesTrue
  <2> QED
    BY <2>2, <2>3
<1> QED
  BY <1>1, <1>2, <1>3, <1>4, <1>5, <1>6 DEF TNext, TTick

\* What a reader of the gauges sees between ticks is what the store holds, state by
\* state, in every process that forces no node (collect, _by_state).
THEOREM GaugesAreTrue ==
  ASSUME "force" \notin Ops
  PROVE  TSpec => []GaugesTrue
<1>1. TInit => GaugesTrue
  BY DEF TInit, GaugesTrue, ZeroCounters
<1>2. LoopHolds /\ TelemetryTypeOK /\ GaugesTrue /\ [TNext]_tvars => GaugesTrue'
  BY GaugesStep
<1> QED
  BY <1>1, <1>2, LoopAlways, TelemetryTypeCorrect, PTL DEF TSpec

-----------------------------------------------------------------------------
(* Failures and self-heals *)

\* Where the loop fails a node
LEMMA FailsWhere ==
  ASSUME LoopHolds, NEW n \in NodeId, PerNode(n),
         node[n].state # "FAILED", node'[n].state = "FAILED"
  PROVE  \/ tick.pc \in {"detect", "teardown"}
         \/ tick.pc = "advance" /\ node[n].state \in {"REQUESTED", "REGISTERING"}
<1>a. /\ Shape /\ WorkShape /\ TypeOK /\ node[n] \in NodeRecord
      /\ node \in [NodeId -> NodeRecord]
  BY DEF LoopHolds, Shape, TypeOK
<1>1. CASE AdvanceNode(n)
  <2>1. tick.pc = "advance" /\ Stage(n, node[n], spec[tick.pool]) /\ spec[tick.pool] \in NodePool
    BY <1>1, <1>a DEF AdvanceNode, Shape, TypeOK, TickShape, PoolPhases
  <2> QED
    BY <2>1, <1>a, StageMoves
<1>2. CASE HealNode(n) \/ RollNode(n) \/ ScaleDownNode(n)
  <2>1. Put(n, drainStart(node[n]))
    BY <1>2 DEF HealNode, RollNode, ScaleDownNode, DrainOne
  <2>2. /\ drainStart(node[n]) \in NodeRecord
        /\ drainStart(node[n]) = node[n] \/ drainStart(node[n]).state = "DRAINING"
    BY <1>a, DrainStartKeeps
  <2>3. node'[n].state = drainStart(node[n]).state
    BY <2>1, <2>2, <1>a, ForgetKeeps DEF Put
  <2> QED
    BY <2>2, <2>3
<1>3. CASE CreateNode(n)
  BY <1>3, <1>a, NodeStep DEF CreateNode, Created, Collected, Moved, DrainedOut
<1>4. CASE GcNode(n)
  BY <1>4, <1>a, NodeStep DEF GcNode, Created, Collected, Moved, DrainedOut, Absent
<1> QED
  BY <1>1, <1>2, <1>3, <1>4 DEF PerNode, DetectFailure, TeardownNode

\* A node that self-heal takes up is FAILED and is drained.
LEMMA HealsFailed ==
  ASSUME LoopHolds, NEW n \in NodeId, PerNode(n), tick.pc = "heal"
  PROVE  node[n].state = "FAILED" /\ node'[n].state = "DRAINING"
<1>1. HealNode(n)
  BY DEF PerNode, DetectFailure, AdvanceNode, RollNode, CreateNode, ScaleDownNode,
         TeardownNode, GcNode
<1>2. node[n].state = "FAILED" /\ Put(n, drainStart(node[n]))
  BY <1>1 DEF HealNode, DrainOne, LoopHolds, WorkIsDue
<1>3. node[n] \in NodeRecord /\ node \in [NodeId -> NodeRecord]
  BY DEF LoopHolds, Shape, TypeOK
<1>4. drainStart(node[n]) \in NodeRecord /\ drainStart(node[n]).state = "DRAINING"
  BY <1>2, <1>3, DrainStartKeeps
<1> QED
  BY <1>2, <1>3, <1>4, ForgetKeeps DEF Put

\* How many failures a step on n counts
FailsCounted(n) ==
  One("heartbeat_timeout" \in Fails(n)) + One("agent_reported" \in Fails(n))
    + One("security_gate" \in Fails(n))

\* What fails or is healed is made up for by what is counted.
LEMMA FailedStep ==
  ASSUME LoopHolds, NEW n \in NodeId, PerNode(n), ~FailsUncounted
  PROVE  /\ Cardinality(Failed') \in Nat
         /\ Cardinality(Failed') + One(Heals(n)) <= Cardinality(Failed) + FailsCounted(n)
<1>1. \A m \in NodeId \ {n} : node'[m] = node[m]
  BY NodeStep DEF LoopHolds
<1>2. IsFiniteSet(Failed') /\ Cardinality(Failed') \in Nat
  <2>1. Failed' \subseteq NodeId
    BY DEF Failed
  <2> QED
    BY <2>1, NodeIdFinite, FS_Subset, FS_CardinalityType
<1>3. FailsCounted(n) \in Nat
  BY DEF FailsCounted, One
<1>4. CASE node[n].state # "FAILED" /\ node'[n].state = "FAILED"
  <2>1. \/ tick.pc = "detect"
        \/ tick.pc = "advance" /\ node[n].state = "REGISTERING"
    BY <1>4, FailsWhere DEF FailsUncounted
  <2>2. FailsCounted(n) = 1
    BY <1>4, <2>1 DEF FailsCounted, Fails, Rejects, One
  <2>3. Failed' = Failed \union {n} /\ n \notin Failed
    BY <1>1, <1>4 DEF Failed
  <2>4. Cardinality(Failed') = Cardinality(Failed) + 1
    BY <2>3, StoreCounts, FS_AddElement
  <2>5. One(Heals(n)) = 0
    BY <2>1 DEF Heals, One
  <2> QED
    BY <1>2, <2>2, <2>4, <2>5, StoreCounts
<1>5. CASE tick.pc = "heal"
  <2>1. Failed' = Failed \ {n} /\ n \in Failed
    BY <1>1, <1>5, HealsFailed DEF Failed
  <2>2. Cardinality(Failed') = Cardinality(Failed) - 1
    BY <2>1, StoreCounts, FS_RemoveElement
  <2>3. One(Heals(n)) = 1
    BY <1>5 DEF Heals, One
  <2> QED
    BY <1>2, <1>3, <2>2, <2>3, StoreCounts
<1>6. CASE ~(node[n].state # "FAILED" /\ node'[n].state = "FAILED") /\ tick.pc # "heal"
  <2>1. Failed' \subseteq Failed
    BY <1>1, <1>6 DEF Failed
  <2>2. Cardinality(Failed') <= Cardinality(Failed)
    BY <2>1, StoreCounts, FS_Subset
  <2>3. One(Heals(n)) = 0
    BY <1>6 DEF Heals, One
  <2> QED
    BY <1>2, <1>3, <2>2, <2>3, StoreCounts
<1> QED
  BY <1>4, <1>5, <1>6

\* An operator fails no node.
LEMMA OperatorFailsNone ==
  ASSUME LoopHolds, Operator
  PROVE  Cardinality(Failed') \in Nat /\ Cardinality(Failed') <= Cardinality(Failed)
<1>a. node \in [NodeId -> NodeRecord]
  BY DEF LoopHolds, Shape, TypeOK
<1>1. ASSUME NEW n \in NodeId, ReportHealth(n) \/ HeartbeatExpires(n)
      PROVE  Failed' \subseteq Failed
  <2>1. PICK s \in Signal : Put(n, [node[n] EXCEPT !.signal = s])
    BY <1>1, ReportsType DEF ReportHealth, HeartbeatExpires, Signal
  <2>2. /\ [node[n] EXCEPT !.signal = s] \in NodeRecord
        /\ [node[n] EXCEPT !.signal = s].state = node[n].state
    BY <1>a DEF NodeRecord
  <2> QED
    BY <2>1, <2>2, <1>a, ForgetKeeps DEF Put, Failed
<1>2. ASSUME NEW n \in NodeId, ForceDecommissionNode(n)
      PROVE  Failed' \subseteq Failed
  <2>1. \/ UNCHANGED node
        \/ \E r \in NodeRecord : Put(n, r) /\ r.state = "DECOMMISSIONING"
    BY <1>2, ForceEffect DEF LoopHolds, Shape
  <2> QED
    BY <1>a, <2>1, ForgetKeeps DEF Put, Failed
<1>3. ASSUME UNCHANGED node PROVE Failed' \subseteq Failed
  BY <1>3 DEF Failed
<1>4. Failed' \subseteq Failed
  BY <1>1, <1>2, <1>3 DEF Operator, ApplyCluster, DecommissionCluster, ScalePool, RollingUpdate
<1>5. IsFiniteSet(Failed')
  BY <1>4, StoreCounts, FS_Subset
<1> QED
  BY <1>4, <1>5, StoreCounts, FS_Subset, FS_CardinalityType

LEMMA FailuresAccountedStep ==
  ASSUME LoopHolds, TelemetryTypeOK, FailuresAccounted, [TNext]_tvars, ~FailsUncounted
  PROVE  FailuresAccounted'
<1>a. /\ count \in CounterRecord /\ began.failed \in Nat
      /\ Reason = {"heartbeat_timeout", "agent_reported", "security_gate"}
  BY DEF TelemetryTypeOK, Reason
<1>b. /\ count.heals \in Nat /\ \A r \in Reason : count.failed[r] \in Nat
      /\ FailuresCounted \in Nat
  BY <1>a DEF CounterRecord, FailuresCounted
\* Steps that count nothing and fail nothing
<1>c. ASSUME Cardinality(Failed') \in Nat, Cardinality(Failed') <= Cardinality(Failed),
             UNCHANGED began, count'.heals = count.heals, count'.failed = count.failed
      PROVE  FailuresAccounted'
  BY <1>a, <1>b, <1>c, StoreCounts DEF FailuresAccounted, FailuresCounted
<1>d. ASSUME UNCHANGED node
      PROVE  Cardinality(Failed') \in Nat /\ Cardinality(Failed') <= Cardinality(Failed)
  <2>1. Failed' = Failed
    BY <1>d DEF Failed
  <2> QED
    BY <2>1, StoreCounts
<1>1. ASSUME NEW n \in NodeId, NodeActs(n) PROVE FailuresAccounted'
  <2>1. /\ Cardinality(Failed') \in Nat
        /\ Cardinality(Failed') + One(Heals(n)) <= Cardinality(Failed) + FailsCounted(n)
    BY <1>1, FailedStep DEF NodeActs
  <2>2. /\ count'.heals = count.heals + One(Heals(n)) /\ UNCHANGED began
        /\ \A r \in Reason : count'.failed[r] = count.failed[r] + One(r \in Fails(n))
    BY <1>1, <1>a, CountedFields DEF NodeActs
  <2>3. /\ One(Heals(n)) \in Nat /\ FailsCounted(n) \in Nat
        /\ \A r : One(r \in Fails(n)) \in Nat
    BY DEF One, FailsCounted
  <2>4. FailuresCounted' = FailuresCounted + FailsCounted(n)
    BY <1>a, <1>b, <2>2, <2>3 DEF FailuresCounted, FailsCounted
  <2> QED
    BY <1>a, <1>b, <2>1, <2>2, <2>3, <2>4, StoreCounts DEF FailuresAccounted
<1>2. CASE PhaseStep
  BY <1>2, <1>c, <1>d DEF PhaseStep
<1>3. CASE LastStep
  <2>1. UNCHANGED node /\ count'.heals = count.heals /\ count'.failed = count.failed
    BY <1>3, <1>a, TickCountedFields DEF LastStep, EndTick, TelemetryTypeOK
  <2> QED
    BY <1>3, <2>1, <1>c, <1>d DEF LastStep
<1>4. CASE TOperator
  BY <1>4, <1>c, OperatorFailsNone DEF TOperator
<1>5. CASE TFailure
  <2>1. /\ began'.failed = Cardinality(Failed') /\ began' \in [records : Nat, failed : Nat]
        /\ count' = ZeroCounters
    BY <1>5, NewProcessFields DEF TFailure
  <2>2. count'.heals = 0 /\ FailuresCounted' = 0
    BY <2>1, <1>a, ZeroFields DEF FailuresCounted
  <2> QED
    BY <2>1, <2>2 DEF FailuresAccounted
<1>6. CASE UNCHANGED tvars
  BY <1>6, <1>c, <1>d DEF tvars, vars
<1> QED
  BY <1>1, <1>2, <1>3, <1>4, <1>5, <1>6 DEF TNext, TTick

\* Self-heal never outruns the failures that were counted, in any process and at any
\* moment, as long as no creation fails and no gate turns a node down in a teardown:
\* those two are all that the code forgets to count (nodes_failed, _advance).
THEOREM FailuresAreAccounted ==
  TSpec /\ [][~FailsUncounted]_tvars => []FailuresAccounted
<1>1. TInit => FailuresAccounted
  <2>1. ASSUME TInit
        PROVE  /\ began.failed = Cardinality(Failed)
               /\ count.heals = 0 /\ FailuresCounted = 0
    BY <2>1, ZeroFields, StoreNowType DEF TInit, FailuresCounted, Reason
  <2> QED
    BY <2>1, StoreCounts DEF FailuresAccounted
<1>2. LoopHolds /\ TelemetryTypeOK /\ FailuresAccounted /\ [TNext]_tvars /\ [~FailsUncounted]_tvars
        => FailuresAccounted'
  <2>1. UNCHANGED tvars => ~FailsUncounted
    BY DEF tvars, vars, FailsUncounted
  <2> QED
    BY <2>1, FailuresAccountedStep
<1> QED
  BY <1>1, <1>2, LoopAlways, TelemetryTypeCorrect, PTL DEF TSpec

-----------------------------------------------------------------------------
(* Scripts: what the API calls and loops of sim/ and cli.py do *)

\* A step of a script is a step of the loop with metrics, of an operator, or a failure.
LEMMA ScriptStep ==
  ASSUME [DNext]_dvars
  PROVE  [TNext]_tvars
<1>1. CASE Apply \/ Decommission \/ ForceDrain
  BY <1>1 DEF Apply, Decommission, ForceDrain, NoTick, TNext, TOperator, Operator
<1>8. CASE Update
  BY <1>8, FleetType DEF Update, NoTick, TNext, TOperator, Operator
<1>2. ASSUME NEW n \in NodeId, Inject(n) PROVE TNext
  BY <1>2 DEF Inject, NoTick, TNext, TOperator, Operator
<1>3. CASE Process
  BY <1>3 DEF Process, TNext, TFailure, Failure
<1>4. CASE InTick
  BY <1>4 DEF InTick, TNext, TTick
<1>5. CASE TickEnds
  BY <1>5 DEF TickEnds, TNext, TTick
<1>6. CASE Killed
  BY <1>6 DEF Killed, TNext
<1>7. CASE UNCHANGED dvars
  BY <1>7 DEF dvars
<1> QED
  BY <1>1, <1>2, <1>3, <1>4, <1>5, <1>6, <1>7, <1>8 DEF DNext, DStep

\* A script or a session of the CLI does nothing but what operators, the loop and its
\* failures do: every theorem above holds in it (sim/, cli.py).
THEOREM ScriptsAreBehaviours == DSpec => TSpec
<1>1. DInit => TInit
  BY DEF DInit
<1> QED
  BY <1>1, ScriptStep, PTL DEF DSpec, TSpec

-----------------------------------------------------------------------------
(* observe.py: nothing fails uncounted *)

\* The program of observe.py, instruction by instruction.
LEMMA ObserveProgram ==
  /\ Len(Program.observe) = 10
  /\ \A i \in 1 .. 10 :
       /\ Program.observe[i].op \in {"apply", "loop", "inject", "decommission"}
       /\ Program.observe[i].op = "apply" <=> i = 1
<1>1. Program.observe =
        <<Call("apply"), Loop(20, "satisfied"), Loop(1, "never"), Loop(3, "never"),
          Failures(5), Loop(25, "enough"), Loop(1, "never"),
          Call("decommission"), Loop(60, "empty"), Loop(1, "never")>>
  BY DEF Program
<1>2. /\ \A x : Call(x).op = x
      /\ \A k, u : Loop(k, u).op = "loop"
      /\ \A k : Failures(k).op = "inject"
  BY DEF Call, Loop, Failures
<1> HIDE DEF Call, Loop, Failures
<1> QED
  BY <1>1, <1>2

\* observe.py declares first, and forces no drain, rolls no pool and starts no process.
LEMMA InObserve ==
  ASSUME ScriptShape, script.name = "observe"
  PROVE  /\ ~Ended => Here.op \in {"apply", "loop", "inject", "decommission"}
         /\ ~Ended => (Here.op = "apply" <=> script.at = 1)
         /\ ~Ended => script.at \in 1 .. 10
         /\ Len(Program[script.name]) = 10
<1>1. Program[script.name] = Program.observe
  BY DEF Program
<1>2. ~Ended => script.at \in 1 .. 10
  BY <1>1, ObserveProgram DEF ScriptShape, Ended
<1> QED
  BY <1>1, <1>2, ObserveProgram DEF Here

\* A script goes on by one instruction or stays where it is.
LEMMA ScriptGoesOn ==
  ASSUME ScriptShape, [DNext]_dvars
  PROVE  /\ DOMAIN script' = DOMAIN script /\ script'.name = script.name
         /\ \/ script'.at = script.at
            \/ ~Ended /\ script'.at = script.at + 1
<1> DEFINE Same(s) == /\ DOMAIN s = DOMAIN script /\ s.name = script.name
                      /\ s.at = script.at
<1>a. DOMAIN script = {"name", "at", "left", "kills"}
  BY DEF ScriptShape
<1>b. /\ DOMAIN Advanced = DOMAIN script /\ Advanced.name = script.name
      /\ Advanced.at = script.at + 1
  BY <1>a DEF Advanced
<1>c. Same([script EXCEPT !.left = @ - 1])
  BY <1>a
<1>d. Same([script EXCEPT !.left = Here.times, !.kills = @ + 1])
  BY <1>a
<1>1. CASE Apply \/ Update \/ Decommission \/ ForceDrain \/ Process
  BY <1>1, <1>b DEF Apply, Update, Decommission, ForceDrain, Process, Do
<1>2. ASSUME NEW n \in NodeId, Inject(n)
      PROVE  Same(script') \/ (~Ended /\ script' = Advanced)
  BY <1>2, <1>c DEF Inject, Do
<1>3. CASE TickEnds
  BY <1>3, <1>b, <1>c DEF TickEnds, Looping
<1>4. CASE Killed
  BY <1>4, <1>d DEF Killed
<1>5. CASE InTick \/ UNCHANGED dvars
  BY <1>5 DEF InTick, dvars
<1> QED
  BY <1>1, <1>2, <1>3, <1>4, <1>5, <1>b DEF DNext, DStep

\* Nor does a script leave its program (the scripts' main functions).
LEMMA ScriptShapeStep ==
  ASSUME ScriptShape, [DNext]_dvars
  PROVE  ScriptShape'
<1>1. script'.name = "observe" => script.at \in 1 .. 11
  BY ScriptGoesOn, ObserveProgram DEF ScriptShape
<1>2. script'.name = "observe" => script'.at \in 1 .. 11
  BY <1>1, ScriptGoesOn, InObserve
<1> QED
  BY <1>2, ScriptGoesOn, ObserveProgram DEF ScriptShape

\* A record is written as the gate wants it if it was so before save() took it over.
LEMMA WrittenReady ==
  ASSUME TypeOK, NEW n \in NodeId, NEW r \in NodeRecord, Put(n, r), NEW s, GateReady(r, s)
  PROVE  GateReady(node'[n], s) /\ node'[n].state = r.state
<1>1. node'[n] = Forget(r)
  BY DEF Put, TypeOK
<1>2. /\ Forget(r).state = r.state
      /\ r.state \in {"BOOTSTRAPPING", "REGISTERING"} =>
           /\ Forget(r).baseline = r.baseline /\ Forget(r).attested = r.attested
           /\ Forget(r).image = r.image
  <2>1. CASE r.state \in {"BOOTSTRAPPING", "REGISTERING"}
    <3>1. Forget(r) = [r EXCEPT !.baseline = r.baseline /\ r.state # "HEALTHY"]
      BY <2>1 DEF Forget, LeavingStates
    <3>2. (r.baseline /\ r.state # "HEALTHY") = r.baseline
      BY <2>1 DEF NodeRecord
    <3> QED
      BY <3>1, <3>2 DEF NodeRecord
  <2> QED
    BY <2>1, ForgetKeeps
<1> QED
  BY <1>1, <1>2 DEF GateReady

\* Where creations succeed, no stage fails a node that is as the gate wants it.
LEMMA StageReady ==
  ASSUME "createFails" \notin Ops, TypeOK, NoFailedCreation, NEW n \in NodeId,
         NEW r \in NodeRecord, NEW s \in NodePool, Stage(n, r, s), GateReady(r, s)
  PROVE  /\ NoFailedCreation'
         /\ GateReady(node'[n], s) /\ node'[n].state # "FAILED"
<1>a. /\ s.provider \in Provider /\ s.image \in Image
      /\ fleet \in [Provider -> [NodeId -> FleetStatus]]
  BY DEF NodePool, TypeOK
<1>b. {"FAILED", "PROVISIONING", "BOOTSTRAPPING", "REGISTERING", "HEALTHY",
       "DECOMMISSIONING", "TERMINATED"} \subseteq NodeState
  BY DEF NodeState
<1>c. ASSUME UNCHANGED fleet PROVE NoFailedCreation'
  BY <1>c DEF NoFailedCreation
<1>d. ASSUME NEW q \in Provider, NEW x, x # "failed", fleet' = [fleet EXCEPT ![q][n] = x]
      PROVE  NoFailedCreation'
  BY <1>d, <1>a DEF NoFailedCreation
\* A write of a record in a state before or after those the gate looks at
<1>e. ASSUME NEW r1 \in NodeRecord, NEW dst \in NodeState, Put(n, transition(r1, dst)),
             dst \notin {"BOOTSTRAPPING", "REGISTERING", "FAILED"}
      PROVE  GateReady(node'[n], s) /\ node'[n].state # "FAILED"
  <2>1. transition(r1, dst) \in NodeRecord /\ transition(r1, dst).state = dst
    BY TransitionKeeps
  <2> QED
    BY <1>e, <2>1, WrittenReady DEF GateReady
<1>1. CASE CreateInstance(n, r, s)
  <2>1. PICK out \in CreateOutcomes(n, s) :
          /\ fleet' = [fleet EXCEPT ![s.provider][n] = out]
          /\ Put(n, IF out = "failed" THEN transition(r, "FAILED")
                    ELSE transition([r EXCEPT !.inst = s.provider], "PROVISIONING"))
    BY <1>1 DEF CreateInstance
  <2>2. out # "failed"
    BY <1>a, NoImageIsAStatus DEF CreateOutcomes, NoFailedCreation
  <2>3. [r EXCEPT !.inst = s.provider] \in NodeRecord
    BY <1>a DEF NodeRecord
  <2> QED
    BY <2>1, <2>2, <2>3, <1>a, <1>b, <1>d, <1>e
<1>2. CASE ApplyBaseline(n, r)
  <2> DEFINE r1 == transition([r EXCEPT !.baseline = TRUE], "BOOTSTRAPPING")
  <2>1. Put(n, r1) /\ UNCHANGED fleet
    BY <1>2 DEF ApplyBaseline, BaselineApplied
  <2>2. r1 \in NodeRecord /\ r1.state = "BOOTSTRAPPING" /\ r1.baseline
    BY <1>b DEF transition, NodeRecord
  <2> HIDE DEF r1
  <2>3. GateReady(r1, s)
    BY <2>2 DEF GateReady
  <2> QED
    BY <2>1, <2>2, <2>3, <1>c, WrittenReady
<1>3. CASE Bootstrap(n, r, s)
  <2> DEFINE r1 == transition([r EXCEPT !.image = s.image, !.attested = TRUE], "REGISTERING")
  <2>1. Put(n, r1) /\ UNCHANGED fleet /\ r.baseline
    BY <1>3 DEF Bootstrap, Bootstrapped, GateReady
  <2>2. /\ r1 \in NodeRecord /\ r1.state = "REGISTERING"
        /\ r1.baseline = r.baseline /\ r1.attested /\ r1.image = s.image
    BY <1>a, <1>b DEF transition, NodeRecord
  <2> HIDE DEF r1
  <2>3. GateReady(r1, s)
    BY <2>1, <2>2 DEF GateReady
  <2> QED
    BY <2>1, <2>2, <2>3, <1>c, WrittenReady
<1>4. CASE Register(n, r, s)
  <2>1. GatePasses(r, s)
    BY <1>4 DEF Register, GateReady, GatePasses
  <2>2. [r EXCEPT !.secure = TRUE] \in NodeRecord
    BY DEF NodeRecord
  <2>3. Put(n, transition([r EXCEPT !.secure = TRUE], "HEALTHY")) /\ UNCHANGED fleet
    BY <1>4, <2>1 DEF Register
  <2> QED
    BY <2>2, <2>3, <1>b, <1>c, <1>e
<1>5. CASE DrainStep(n, r)
  BY <1>5, <1>b, <1>c, <1>e DEF DrainStep
<1>6. CASE DecommissionStep(n, r, s)
  <2>1. NoFailedCreation'
    BY <1>6, <1>a, <1>c, <1>d DEF DecommissionStep, InstanceDeleted
  <2> QED
    BY <1>6, <2>1, <1>b, <1>e DEF DecommissionStep
<1> QED
  BY <1>1, <1>2, <1>3, <1>4, <1>5, <1>6 DEF Stage

\* So no step of the loop on a node fails it uncounted.
LEMMA NodeReady ==
  ASSUME "createFails" \notin Ops, LoopHolds, NoFailedCreation,
         \A m \in NodeId : GateReady(node[m], spec[node[m].pool]),
         NEW n \in NodeId, PerNode(n)
  PROVE  /\ NoFailedCreation' /\ ~FailsUncounted
         /\ \A m \in NodeId : GateReady(node'[m], spec'[node'[m].pool])
<1>a. /\ Shape /\ WorkShape /\ TypeOK /\ node[n] \in NodeRecord /\ UNCHANGED spec
      /\ node \in [NodeId -> NodeRecord]
      /\ \A m \in NodeId \ {n} : node'[m] = node[m]
  BY NodeStep, NodeStepFrame DEF LoopHolds, Shape, TypeOK
<1>b. ASSUME GateReady(node'[n], spec[node'[n].pool])
      PROVE  \A m \in NodeId : GateReady(node'[m], spec'[node'[m].pool])
  <2>1. ASSUME NEW m \in NodeId PROVE GateReady(node'[m], spec[node'[m].pool])
    <3>1. CASE m = n
      BY <1>b, <3>1
    <3>2. CASE m # n
      BY <1>a, <3>2
    <3> QED
      BY <3>1, <3>2
  <2> QED
    BY <1>a, <2>1
<1>c. ASSUME \/ node'[n].state # "FAILED" \/ node[n].state = "FAILED"
             \/ tick.pc = "detect" /\ node[n].state = "HEALTHY"
      PROVE  ~FailsUncounted
  BY <1>a, <1>c DEF FailsUncounted
\* A record that is written in a state the gate does not look at
<1>d. ASSUME node'[n].state \notin {"BOOTSTRAPPING", "REGISTERING"}
      PROVE  GateReady(node'[n], spec[node'[n].pool])
  BY <1>d DEF GateReady
<1>e. UNCHANGED fleet => NoFailedCreation'
  BY DEF NoFailedCreation
<1>1. CASE DetectFailure(n)
  <2>1. Put(n, transition(node[n], "FAILED")) /\ UNCHANGED fleet
        /\ tick.pc = "detect" /\ node[n].state = "HEALTHY"
    BY <1>1 DEF DetectFailure, Suspect
  <2>2. node'[n].state = "FAILED"
    BY <2>1, <1>a, TransitionKeeps, ForgetKeeps DEF Put, NodeState
  <2> QED
    BY <2>1, <2>2, <1>b, <1>c, <1>d, <1>e
<1>2. CASE AdvanceNode(n)
  <2>1. /\ Stage(n, node[n], spec[tick.pool]) /\ spec[tick.pool] \in NodePool
        /\ node[n].pool = tick.pool
    BY <1>2, <1>a DEF AdvanceNode, Shape, TypeOK, TickShape, PoolPhases, WorkShape
  <2>2. /\ NoFailedCreation' /\ GateReady(node'[n], spec[tick.pool])
        /\ node'[n].state # "FAILED" /\ node'[n].pool = tick.pool
    BY <2>1, <1>a, StageReady, StageMoves
  <2> QED
    BY <2>2, <1>b, <1>c
<1>3. CASE TeardownNode(n)
  <2> DEFINE r == drainStart(node[n])
             s == spec[node[n].pool]
  <2>1. Stage(n, r, s) /\ r \in NodeRecord /\ r.pool = node[n].pool
    BY <1>3, <1>a, DrainStartKeeps DEF TeardownNode
  <2>2. node[n].state # "ABSENT"
    BY <1>3, <1>a, NoneIsFresh DEF TeardownNode, WorkShape, Shape, NodeShape, Absent
  <2>3. s \in NodePool
    BY <2>2, <1>a DEF Shape, NodeShape, TypeOK
  <2>4. GateReady(r, s)
    BY <1>a, DrainStartKeeps DEF GateReady
  <2> HIDE DEF r, s
  <2>5. /\ NoFailedCreation' /\ GateReady(node'[n], s)
        /\ node'[n].state # "FAILED" /\ node'[n].pool = r.pool
    BY <2>1, <2>3, <2>4, <1>a, StageReady, StageMoves
  <2> QED
    BY <2>1, <2>5, <1>b, <1>c DEF s
<1>4. CASE HealNode(n) \/ RollNode(n) \/ ScaleDownNode(n)
  <2>1. Put(n, drainStart(node[n])) /\ UNCHANGED fleet
    BY <1>4 DEF HealNode, RollNode, ScaleDownNode, DrainOne
  <2>2. /\ drainStart(node[n]) \in NodeRecord /\ drainStart(node[n]).pool = node[n].pool
        /\ \/ drainStart(node[n]) = node[n]
           \/ drainStart(node[n]).state = "DRAINING"
    BY <1>a, DrainStartKeeps
  <2>3. GateReady(drainStart(node[n]), spec[node[n].pool])
    BY <2>2 DEF GateReady
  <2>4. /\ GateReady(node'[n], spec[node[n].pool])
        /\ node'[n].state = drainStart(node[n]).state /\ node'[n].pool = node[n].pool
    BY <2>1, <2>2, <2>3, <1>a, WrittenReady, WrittenFields
  <2> QED
    BY <2>1, <2>2, <2>4, <1>b, <1>c, <1>e
<1>5. CASE CreateNode(n)
  <2>1. Put(n, Requested(tick.pool)) /\ fleet' = Recycled(n) /\ tick.pool \in Pool
    BY <1>5, <1>a DEF CreateNode, Shape, TickShape, PoolPhases
  <2>2. node'[n].state = "REQUESTED"
    BY <2>1, <1>a, ConstantRecords, WrittenFields
  <2>3. NoFailedCreation'
    BY <2>1, <1>a DEF Recycled, NoFailedCreation, TypeOK
  <2> QED
    BY <2>2, <2>3, <1>b, <1>c, <1>d
<1>6. CASE GcNode(n)
  <2>1. Put(n, Absent) /\ UNCHANGED fleet
    BY <1>6 DEF GcNode
  <2>2. node'[n].state = "ABSENT"
    BY <2>1, <1>a, ConstantRecords, WrittenFields DEF Absent
  <2> QED
    BY <2>1, <2>2, <1>b, <1>c, <1>d, <1>e
<1> QED
  BY <1>1, <1>2, <1>3, <1>4, <1>5, <1>6 DEF PerNode

\* Nor does any other step of a tick.
LEMMA TickReady ==
  ASSUME "createFails" \notin Ops, LoopHolds, NoFailedCreation,
         \A m \in NodeId : GateReady(node[m], spec[node[m].pool]), Tick
  PROVE  /\ NoFailedCreation' /\ ~FailsUncounted
         /\ \A m \in NodeId : GateReady(node'[m], spec'[node'[m].pool])
<1>1. ASSUME UNCHANGED <<node, spec, fleet>>
      PROVE  /\ NoFailedCreation' /\ ~FailsUncounted
             /\ \A m \in NodeId : GateReady(node'[m], spec'[node'[m].pool])
  BY <1>1 DEF NoFailedCreation, FailsUncounted
<1>2. \/ \E n \in NodeId : PerNode(n)
      \/ UNCHANGED <<node, spec, fleet>>
  BY DEF Tick, BeginTick, EndDetect, LeavePlanned, SkipCluster, StartPools, StartTeardown,
         StartPool, BeginHeal, BeginRoll, BeginScale, FinishPool, FinishCluster,
         FinishTeardown, BeginGc, EndTick
<1> QED
  BY <1>1, <1>2, NodeReady

\* What a step of observe.py does to the nodes, and what kind of step it is.
LEMMA ObserveStep ==
  ASSUME "createFails" \notin Ops, LoopHolds, ScriptShape, WatchedShape,
         script.name = "observe", DNext
  PROVE  /\ NoFailedCreation' /\ ~FailsUncounted
         /\ \A m \in NodeId : GateReady(node'[m], spec'[node'[m].pool])
         /\ UNCHANGED began
         /\ script.at = 1 => UNCHANGED node
<1>a. /\ NoFailedCreation
      /\ \A m \in NodeId : GateReady(node[m], spec[node[m].pool])
      /\ script.at = 1 => Records = {}
  BY DEF WatchedShape
<1>b. node \in [NodeId -> NodeRecord] /\ TypeOK
  BY DEF LoopHolds, Shape, TypeOK
<1>c. UNCHANGED fleet => NoFailedCreation'
  BY <1>a DEF NoFailedCreation
<1>d. UNCHANGED node => ~FailsUncounted
  BY DEF FailsUncounted
<1>e. ~Ended => /\ Here.op \in {"apply", "loop", "inject", "decommission"}
                /\ Here.op = "apply" <=> script.at = 1
  BY InObserve
<1>1. CASE Apply
  <2>1. UNCHANGED <<node, fleet, began>> /\ script.at = 1
    BY <1>1, <1>e DEF Apply, Do, NoTick, ApplyCluster
  <2>2. \A m \in NodeId : node'[m].state = "ABSENT"
    BY <2>1, <1>a DEF Records
  <2> QED
    BY <2>1, <2>2, <1>c, <1>d DEF GateReady
<1>2. CASE Decommission
  <2>1. UNCHANGED <<node, spec, fleet, began>>
    BY <1>2 DEF Decommission, NoTick, DecommissionCluster
  <2> QED
    BY <2>1, <1>a, <1>c, <1>d
<1>3. ASSUME NEW n \in NodeId, Inject(n)
      PROVE  /\ NoFailedCreation' /\ ~FailsUncounted
             /\ \A m \in NodeId : GateReady(node'[m], spec'[node'[m].pool])
             /\ UNCHANGED began /\ script.at # 1
  <2>1. /\ UNCHANGED <<spec, fleet, began>> /\ script.at # 1
        /\ node[n].state = "HEALTHY"
    BY <1>3, <1>e DEF Inject, Do, NoTick, ReportHealth, Victims, InState
  <2>2. PICK s \in Signal : Put(n, [node[n] EXCEPT !.signal = s])
    BY <1>3, ReportsType DEF Inject, ReportHealth, Signal
  <2>3. /\ [node[n] EXCEPT !.signal = s] \in NodeRecord
        /\ [node[n] EXCEPT !.signal = s].state = "HEALTHY"
    BY <1>b, <2>1 DEF NodeRecord
  <2>4. node'[n].state = "HEALTHY" /\ \A m \in NodeId \ {n} : node'[m] = node[m]
    BY <2>2, <2>3, <1>b, WrittenFields
  <2>5. ~FailsUncounted
    BY <2>4 DEF FailsUncounted
  <2>6. ASSUME NEW m \in NodeId PROVE GateReady(node'[m], spec'[node'[m].pool])
    <3>1. CASE m = n
      BY <2>4, <3>1 DEF GateReady
    <3>2. CASE m # n
      BY <2>1, <2>4, <3>2, <1>a
    <3> QED
      BY <3>1, <3>2
  <2> QED
    BY <2>1, <2>5, <2>6, <1>c
<1>4. CASE InTick \/ TickEnds
  <2>1. Tick /\ UNCHANGED began
    BY <1>4 DEF InTick, TickEnds, PhaseStep, LastStep, NodeActs, Tick
  <2>2. script.at # 1
    BY <1>4, <1>e DEF InTick, TickEnds, Looping
  <2> QED
    BY <2>1, <2>2, <1>a, TickReady
<1>5. ~(Update \/ ForceDrain \/ Process \/ Killed)
  BY <1>e DEF Update, ForceDrain, Process, Killed, Do, Looping
<1> QED
  BY <1>1, <1>2, <1>3, <1>4, <1>5 DEF DNext, DStep

\* So observe.py keeps what WatchedShape says (provision.py, policy.py).
LEMMA WatchedStep ==
  ASSUME "createFails" \notin Ops, LoopHolds, TelemetryTypeOK, ScriptShape, WatchedShape,
         [DNext]_dvars
  PROVE  WatchedShape'
<1>1. CASE UNCHANGED dvars
  BY <1>1 DEF dvars, tvars, vars, WatchedShape, Records, NoFailedCreation, GateReady,
              FailuresAccounted, Failed, FailuresCounted
<1>2. CASE DNext
  <2> SUFFICES ASSUME script'.name = "observe"
               PROVE  /\ began' = [records |-> 0, failed |-> 0]
                      /\ script'.at = 1 => Records' = {}
                      /\ NoFailedCreation'
                      /\ \A n \in NodeId : GateReady(node'[n], spec'[node'[n].pool])
                      /\ FailuresAccounted'
    BY DEF WatchedShape, GateReady
  <2>1. /\ script.name = "observe"
        /\ \/ script'.at = script.at
           \/ ~Ended /\ script'.at = script.at + 1
    BY ScriptGoesOn
  <2>2. /\ began = [records |-> 0, failed |-> 0] /\ FailuresAccounted
        /\ script.at = 1 => Records = {}
    BY <2>1 DEF WatchedShape
  <2>3. /\ NoFailedCreation' /\ ~FailsUncounted
        /\ \A m \in NodeId : GateReady(node'[m], spec'[node'[m].pool])
        /\ UNCHANGED began
        /\ script.at = 1 => UNCHANGED node
    BY <1>2, <2>1, ObserveStep
  <2>4. FailuresAccounted'
    BY <2>2, <2>3, ScriptStep, FailuresAccountedStep
  <2>5. script'.at = 1 => Records' = {}
    <3>1. script'.at = 1 => script.at = 1
      BY <2>1, InObserve
    <3> QED
      BY <2>2, <2>3, <3>1 DEF Records
  <2> QED
    BY <2>2, <2>3, <2>4, <2>5
<1> QED
  BY <1>1, <1>2

-----------------------------------------------------------------------------
(* What capture() adds up from the gauges *)

DeclaredPools == {p \in Pool : spec[p] # None}

\* The nodes of the pools in ps that are in state s
NodesIn(ps, s) == {n \in NodeId : node[n].pool \in ps /\ node[n].state = s}

\* The gauges collect() sets, pool by pool (telemetry.py).
LEMMA WhatIsCollected ==
  /\ DOMAIN collect.pools = DeclaredPools
  /\ \A p \in DeclaredPools :
       /\ collect.pools[p].provider = spec[p].provider
       /\ collect.pools[p].desired = spec[p].desired
       /\ collect.pools[p].healthy = Cardinality(InState(p, {"HEALTHY"}))
       /\ DOMAIN collect.pools[p].by_state = StatesIn(p)
       /\ \A s \in StatesIn(p) :
            collect.pools[p].by_state[s] = Cardinality(InState(p, {s}))
<1> DEFINE Gauges(p) ==
             [ provider |-> spec[p].provider,
               desired |-> spec[p].desired,
               healthy |-> Cardinality(InState(p, {"HEALTHY"})),
               by_state |-> [s \in StatesIn(p) |-> Cardinality(InState(p, {s}))] ]
<1>1. collect.pools = [p \in DeclaredPools |-> Gauges(p)]
  BY DEF collect, DeclaredPools
<1>2. \A p : /\ Gauges(p).provider = spec[p].provider
             /\ Gauges(p).desired = spec[p].desired
             /\ Gauges(p).healthy = Cardinality(InState(p, {"HEALTHY"}))
             /\ Gauges(p).by_state
                  = [s \in StatesIn(p) |-> Cardinality(InState(p, {s}))]
  OBVIOUS
<1> HIDE DEF Gauges
<1>3. DOMAIN collect.pools = DeclaredPools /\ \A p \in DeclaredPools : collect.pools[p] = Gauges(p)
  BY <1>1
<1>4. \A p : /\ DOMAIN Gauges(p).by_state = StatesIn(p)
             /\ \A s \in StatesIn(p) : Gauges(p).by_state[s] = Cardinality(InState(p, {s}))
  BY <1>2
<1> QED
  BY <1>2, <1>3, <1>4

\* Every node of the store belongs to a declared pool.
LEMMA RecordsAreDeclared ==
  ASSUME Shape
  PROVE  /\ IsFiniteSet(DeclaredPools) /\ DeclaredPools \in SUBSET Pool
         /\ \A n \in NodeId : n \in Records <=> node[n].pool \in DeclaredPools
<1>1. DeclaredPools \in SUBSET Pool /\ IsFiniteSet(DeclaredPools)
  BY PoolFinite, FS_Subset DEF DeclaredPools
<1>2. ASSUME NEW n \in NodeId PROVE n \in Records <=> node[n].pool \in DeclaredPools
  BY NoneIsFresh DEF Shape, NodeShape, Records, DeclaredPools, Absent
<1> QED
  BY <1>1, <1>2

\* Counting the nodes of a state pool by pool counts them all.
LEMMA PoolByPool ==
  ASSUME Shape, NEW ps \in SUBSET DeclaredPools, NEW s, NEW g,
         \A p \in ps : g[p] = Cardinality(InState(p, {s}))
  PROVE  SumFunctionOnSet(g, ps) = Cardinality(NodesIn(ps, s))
<1> DEFINE S == {n \in NodeId : node[n].state = s}
           key == [n \in NodeId |-> node[n].pool]
<1>1. IsFiniteSet(ps) /\ IsFiniteSet(S)
  BY RecordsAreDeclared, NodeIdFinite, FS_Subset
<1>2. Having(S, key, ps) = NodesIn(ps, s)
  BY DEF Having, NodesIn
<1>3. \A p \in ps : g[p] = Cardinality(Having(S, key, {p}))
  <2>1. \A p : Having(S, key, {p}) = InState(p, {s})
    BY DEF Having, InState
  <2> QED
    BY <2>1
<1> HIDE DEF S, key
<1>4. SumFunctionOnSet(g, ps) = Cardinality(Having(S, key, ps))
  BY <1>1, <1>3, CountParts
<1> QED
  BY <1>2, <1>4

\* Nodes are counted by natural numbers.
LEMMA NodesInCounts ==
  ASSUME NEW ps, NEW s
  PROVE  Cardinality(NodesIn(ps, s)) \in Nat /\ IsFiniteSet(NodesIn(ps, s))
BY NodeIdFinite, FS_Subset, FS_CardinalityType DEF NodesIn

\* healthy, added up over pools (total_healthy), counts their HEALTHY nodes.
LEMMA HealthyCounts ==
  ASSUME Shape, NEW ps \in SUBSET DeclaredPools
  PROVE  /\ HealthyIn(collect, ps) = Cardinality(NodesIn(ps, "HEALTHY"))
         /\ HealthyIn(collect, ps) \in Nat
<1> DEFINE g == [p \in ps |-> collect.pools[p].healthy]
<1>1. DOMAIN g = ps /\ \A p \in ps : g[p] = Cardinality(InState(p, {"HEALTHY"}))
  BY WhatIsCollected
<1>2. HealthyIn(collect, ps) = SumFunctionOnSet(g, ps)
  BY <1>1 DEF HealthyIn, SumFunction
<1> HIDE DEF g
<1>3. SumFunctionOnSet(g, ps) = Cardinality(NodesIn(ps, "HEALTHY"))
  BY <1>1, PoolByPool
<1> QED
  BY <1>2, <1>3, NodesInCounts

\* desired, added up (total_desired), is a number.
LEMMA DesiredCounts ==
  ASSUME Shape
  PROVE  SumFunction([p \in DOMAIN collect.pools |-> collect.pools[p].desired]) \in Nat
<1> DEFINE f == [p \in DOMAIN collect.pools |-> collect.pools[p].desired]
<1>1. DOMAIN f = DeclaredPools /\ \A p \in DeclaredPools : f[p] \in Nat
  BY WhatIsCollected DEF DeclaredPools, Shape, TypeOK, NodePool
<1> HIDE DEF f
<1>2. SumFunctionOnSet(f, DeclaredPools) \in Nat
  BY <1>1, RecordsAreDeclared, SumType
<1> QED
  BY <1>1, <1>2 DEF SumFunction, f

\* The HEALTHY nodes provider by provider are the HEALTHY nodes.
LEMMA ProvidersCount ==
  ASSUME Shape
  PROVE  /\ IsFiniteSet(DOMAIN ByProvider(collect))
         /\ \A q \in DOMAIN ByProvider(collect) : ByProvider(collect)[q] \in Nat
         /\ SumFunction(ByProvider(collect)) = HealthyIn(collect, DeclaredPools)
<1> DEFINE K == {spec[p].provider : p \in DeclaredPools}
           key == [p \in DeclaredPools |-> spec[p].provider]
           Of(q) == {p \in DeclaredPools : spec[p].provider = q}
           f == [p \in DeclaredPools |-> Cardinality(InState(p, {"HEALTHY"}))]
<1>a. IsFiniteSet(DeclaredPools)
  BY RecordsAreDeclared
<1>1. IsFiniteSet(K)
  <2>1. key \in Surjection(DeclaredPools, K)
    BY DEF Surjection
  <2> QED
    BY <1>a, <2>1, FS_Surjection
<1>2. /\ DOMAIN ByProvider(collect) = K
      /\ \A q \in K : ByProvider(collect)[q] = HealthyIn(collect, Of(q))
  <2>1. {collect.pools[p].provider : p \in DOMAIN collect.pools} = K
    BY WhatIsCollected
  <2>2. \A q : {p \in DOMAIN collect.pools : collect.pools[p].provider = q} = Of(q)
    BY WhatIsCollected
  <2> HIDE DEF K, Of
  <2> QED
    BY <2>1, <2>2 DEF ByProvider
<1>3. \A q : Of(q) \in SUBSET DeclaredPools
  OBVIOUS
<1>4. \A q : Of(q) = Having(DeclaredPools, key, {q})
  BY DEF Having
<1>5. Having(DeclaredPools, key, K) = DeclaredPools
  BY DEF Having
<1>6. /\ \A p \in DeclaredPools : f[p] \in Nat
      /\ \A ps \in SUBSET DeclaredPools : HealthyIn(collect, ps) = SumFunctionOnSet(f, ps)
  <2>1. \A p \in DeclaredPools : f[p] = Cardinality(InState(p, {"HEALTHY"}))
    OBVIOUS
  <2> HIDE DEF f
  <2>2. \A p : Cardinality(InState(p, {"HEALTHY"})) \in Nat
    BY NodeIdFinite, FS_Subset, FS_CardinalityType DEF InState
  <2>3. \A ps \in SUBSET DeclaredPools :
          SumFunctionOnSet(f, ps) = Cardinality(NodesIn(ps, "HEALTHY"))
    BY <2>1, PoolByPool
  <2> QED
    BY <2>1, <2>2, <2>3, HealthyCounts
<1> DEFINE b == ByProvider(collect)
<1>7. DOMAIN b = K /\ \A q \in K : b[q] \in Nat /\ b[q] = SumFunctionOnSet(f, Of(q))
  BY <1>2, <1>3, <1>6, HealthyCounts
<1> HIDE DEF K, key, Of, f, b
<1>8. SumsParts(b, f, DeclaredPools, key, K)
  BY <1>4, <1>7 DEF SumsParts
<1>9. SumFunctionOnSet(b, K) = SumFunctionOnSet(f, DeclaredPools)
  <2>1. \A Q \in SUBSET K :
          SumFunctionOnSet(b, Q) = SumFunctionOnSet(f, Having(DeclaredPools, key, Q))
    BY <1>a, <1>1, <1>6, <1>8, SumParts
  <2> QED
    BY <1>5, <2>1
<1> QED
  BY <1>1, <1>6, <1>7, <1>9 DEF b, SumFunction

\* The samples by state are the nodes of the store, none counted twice.
LEMMA StatesCount ==
  ASSUME Shape
  PROVE  /\ IsFiniteSet(DOMAIN ByState(collect))
         /\ \A s \in DOMAIN ByState(collect) : ByState(collect)[s] \in Nat
         /\ SumFunction(ByState(collect)) <= Cardinality(Records)
         /\ SumFunction(ByState(collect)) \in Nat
         /\ HealthyIn(collect, DeclaredPools)
              = (IF "HEALTHY" \in DOMAIN ByState(collect) THEN ByState(collect)["HEALTHY"] ELSE 0)
<1> DEFINE K == UNION {StatesIn(p) : p \in DeclaredPools}
           With(s) == {p \in DeclaredPools : s \in StatesIn(p)}
           key == [n \in NodeId |-> node[n].state]
           b == ByState(collect)
<1>1. DOMAIN b = K
      /\ \A s \in K : b[s] = SumFunction([p \in With(s) |-> collect.pools[p].by_state[s]])
  <2>1. UNION {DOMAIN collect.pools[p].by_state : p \in DOMAIN collect.pools} = K
    BY WhatIsCollected
  <2>2. \A s : {p \in DOMAIN collect.pools : s \in DOMAIN collect.pools[p].by_state} = With(s)
    BY WhatIsCollected
  <2> HIDE DEF K, With
  <2> QED
    BY <2>1, <2>2 DEF ByState
<1>2. \A s, n : n \in NodesIn(DeclaredPools, s) <=> n \in NodesIn(With(s), s)
  BY DEF NodesIn, StatesIn
<1>3. ASSUME NEW s \in K
      PROVE  b[s] = Cardinality(NodesIn(DeclaredPools, s))
  <2> DEFINE g == [p \in With(s) |-> collect.pools[p].by_state[s]]
  <2>1. DOMAIN g = With(s) /\ \A p \in With(s) : g[p] = Cardinality(InState(p, {s}))
    BY WhatIsCollected
  <2>2. With(s) \in SUBSET DeclaredPools /\ NodesIn(With(s), s) = NodesIn(DeclaredPools, s)
    BY <1>2 DEF NodesIn
  <2>3. b[s] = SumFunctionOnSet(g, With(s))
    BY <1>1, <2>1 DEF SumFunction
  <2> DEFINE ps == With(s)
  <2> HIDE DEF g, With, b
  <2>4. SumFunctionOnSet(g, ps) = Cardinality(NodesIn(ps, s))
    <3> HIDE DEF ps
    <3> QED
      BY <2>1, <2>2, PoolByPool DEF ps
  <2> QED
    BY <2>2, <2>3, <2>4
<1>4. IsFiniteSet(K)
  <2>1. K \in SUBSET {node[n].state : n \in NodeId}
    BY DEF StatesIn
  <2>2. key \in Surjection(NodeId, {node[n].state : n \in NodeId})
    BY DEF Surjection
  <2> QED
    BY <2>1, <2>2, NodeIdFinite, FS_Surjection, FS_Subset
<1>5. IsFiniteSet(Records) /\ Cardinality(Records) \in Nat
  BY StoreCounts
<1>6. \A s : NodesIn(DeclaredPools, s) = Having(Records, key, {s})
  BY RecordsAreDeclared DEF NodesIn, Having, Records
<1>7. NodesIn(DeclaredPools, "HEALTHY") # {} => "HEALTHY" \in K
  BY DEF NodesIn, StatesIn
<1> HIDE DEF K, With, key, b
<1>8. SumFunctionOnSet(b, K) = Cardinality(Having(Records, key, K))
  BY <1>3, <1>4, <1>5, <1>6, CountParts
<1>9. /\ Cardinality(Having(Records, key, K)) <= Cardinality(Records)
      /\ Cardinality(Having(Records, key, K)) \in Nat
  <2>1. Having(Records, key, K) \in SUBSET Records
    BY DEF Having
  <2> QED
    BY <1>5, <2>1, FS_Subset, FS_CardinalityType
<1>10. HealthyIn(collect, DeclaredPools) = Cardinality(NodesIn(DeclaredPools, "HEALTHY"))
  BY HealthyCounts
<1>11. HealthyIn(collect, DeclaredPools) = IF "HEALTHY" \in DOMAIN b THEN b["HEALTHY"] ELSE 0
  BY <1>1, <1>3, <1>7, <1>10, FS_EmptySet
<1> QED
  BY <1>1, <1>3, <1>4, <1>8, <1>9, <1>11, NodesInCounts DEF b, SumFunction

-----------------------------------------------------------------------------
(* The series of the dashboard *)

\* Appending a number to a series leaves what it held and puts the number last.
LEMMA Appended ==
  ASSUME NEW k \in Nat, NEW s \in Seq(Nat), Len(s) = k, NEW x \in Nat
  PROVE  /\ Append(s, x) \in Seq(Nat) /\ Len(Append(s, x)) = k + 1
         /\ \A i \in 1 .. k : Append(s, x)[i] = s[i]
         /\ Append(s, x)[k + 1] = x
OBVIOUS

\* The padding of a series that begins late ([0.0] * (len(ticks) - 1)).
LEMMA ZerosSeries ==
  ASSUME NEW k \in Nat
  PROVE  Zeros(k) \in Seq(Nat) /\ Len(Zeros(k)) = k /\ \A i \in 1 .. k : Zeros(k)[i] = 0
BY DEF Zeros

\* What Extended makes of one key
LEMMA ExtendedSeries ==
  ASSUME NEW series, AreSeries(series), dash.ticks \in Nat,
         NEW f, IsFiniteSet(DOMAIN f), \A k \in DOMAIN f : f[k] \in Nat
  PROVE  /\ IsFiniteSet(DOMAIN Extended(series, f))
         /\ DOMAIN Extended(series, f) = DOMAIN series \union DOMAIN f
         /\ \A k \in DOMAIN Extended(series, f) :
              /\ Extended(series, f)[k] \in Seq(Nat)
              /\ Len(Extended(series, f)[k]) = dash.ticks + 1
              /\ \A i \in 1 .. dash.ticks :
                   Extended(series, f)[k][i] = IF k \in DOMAIN series THEN series[k][i] ELSE 0
              /\ Extended(series, f)[k][dash.ticks + 1] = IF k \in DOMAIN f THEN f[k] ELSE 0
<1> DEFINE K == DOMAIN series \union DOMAIN f
           s(k) == IF k \in DOMAIN series THEN series[k] ELSE Zeros(dash.ticks)
           x(k) == IF k \in DOMAIN f THEN f[k] ELSE 0
<1>1. IsFiniteSet(K)
  BY FS_Union DEF AreSeries
<1>2. Extended(series, f) = [k \in K |-> Append(s(k), x(k))]
  BY DEF Extended
<1>3. ASSUME NEW k \in K
      PROVE  /\ s(k) \in Seq(Nat) /\ Len(s(k)) = dash.ticks /\ x(k) \in Nat
             /\ \A i \in 1 .. dash.ticks :
                  s(k)[i] = IF k \in DOMAIN series THEN series[k][i] ELSE 0
  BY ZerosSeries DEF AreSeries, IsSeries
<1> HIDE DEF K, s
<1>4. ASSUME NEW k \in K
      PROVE  /\ Append(s(k), x(k)) \in Seq(Nat) /\ Len(Append(s(k), x(k))) = dash.ticks + 1
             /\ \A i \in 1 .. dash.ticks : Append(s(k), x(k))[i] = s(k)[i]
             /\ Append(s(k), x(k))[dash.ticks + 1] = x(k)
  BY <1>3, Appended
<1> QED
  BY <1>1, <1>2, <1>3, <1>4 DEF K

\* Adding up a table of series at a tick
LEMMA SumAtSums ==
  ASSUME NEW f, NEW i, NEW S, IsFiniteSet(S), DOMAIN f = S, NEW g, \A k \in S : f[k][i] = g[k]
  PROVE  SumAt(f, i) = SumFunctionOnSet(g, S)
<1> DEFINE h == [k \in DOMAIN f |-> f[k][i]]
<1>1. DOMAIN h = S /\ \A k \in S : h[k] = g[k]
  OBVIOUS
<1>2. SumAt(f, i) = SumFunctionOnSet(h, S)
  BY <1>1 DEF SumAt, SumFunction
<1> HIDE DEF h
<1> QED
  BY <1>1, <1>2, SumSame, S \in SUBSET S

\* A tick more: the sums of the ticks before stay, and the last sum is that of f.
LEMMA ExtendedSums ==
  ASSUME NEW series, AreSeries(series), dash.ticks \in Nat,
         NEW f, IsFiniteSet(DOMAIN f), \A k \in DOMAIN f : f[k] \in Nat
  PROVE  /\ \A i \in 1 .. dash.ticks : SumAt(Extended(series, f), i) = SumAt(series, i)
         /\ SumAt(Extended(series, f), dash.ticks + 1) = SumFunction(f)
<1> DEFINE e == Extended(series, f)
           K == DOMAIN series \union DOMAIN f
<1>1. /\ IsFiniteSet(K) /\ DOMAIN e = K
      /\ \A k \in K :
           /\ \A i \in 1 .. dash.ticks : e[k][i] = IF k \in DOMAIN series THEN series[k][i] ELSE 0
           /\ e[k][dash.ticks + 1] = IF k \in DOMAIN f THEN f[k] ELSE 0
  <2>1. IsFiniteSet(DOMAIN e) /\ DOMAIN e = K
    BY ExtendedSeries
  <2>2. ASSUME NEW k \in K
        PROVE  /\ \A i \in 1 .. dash.ticks :
                    e[k][i] = IF k \in DOMAIN series THEN series[k][i] ELSE 0
               /\ e[k][dash.ticks + 1] = IF k \in DOMAIN f THEN f[k] ELSE 0
    BY <2>1, ExtendedSeries
  <2> HIDE DEF e, K
  <2> QED
    BY <2>1, <2>2
<1> HIDE DEF e
<1>2. ASSUME NEW i \in 1 .. dash.ticks
      PROVE  SumAt(e, i) = SumAt(series, i)
  <2> DEFINE S == DOMAIN series
             g == [k \in K |-> IF k \in S THEN series[k][i] ELSE 0]
  <2>1. S \in SUBSET K /\ IsFiniteSet(S)
    BY DEF AreSeries
  <2>2. /\ \A k \in K : e[k][i] = g[k] /\ g[k] \in Nat
        /\ \A k \in S : series[k][i] = g[k]
        /\ \A k \in K \ S : g[k] = 0
    BY <1>1 DEF AreSeries, IsSeries
  <2>3. DOMAIN series = S
    OBVIOUS
  <2> HIDE DEF S, g, K
  <2>4. SumAt(e, i) = SumFunctionOnSet(g, K)
    BY <1>1, <2>2, SumAtSums
  <2>5. SumAt(series, i) = SumFunctionOnSet(g, S)
    BY <2>1, <2>2, <2>3, SumAtSums
  <2>6. SumFunctionOnSet(g, K) = SumFunctionOnSet(g, S)
    BY <1>1, <2>1, <2>2, SumPadded
  <2> QED
    BY <2>4, <2>5, <2>6
<1>3. SumAt(e, dash.ticks + 1) = SumFunction(f)
  <2> DEFINE S == DOMAIN f
             g == [k \in K |-> IF k \in S THEN f[k] ELSE 0]
  <2>1. S \in SUBSET K
    OBVIOUS
  <2>2. /\ \A k \in K : e[k][dash.ticks + 1] = g[k] /\ g[k] \in Nat
        /\ \A k \in S : f[k] = g[k]
        /\ \A k \in K \ S : g[k] = 0
    BY <1>1
  <2>3. SumFunction(f) = SumFunctionOnSet(f, S)
    BY DEF SumFunction
  <2> HIDE DEF S, g, K
  <2>4. SumAt(e, dash.ticks + 1) = SumFunctionOnSet(g, K)
    BY <1>1, <2>2, SumAtSums
  <2>5. SumFunctionOnSet(f, S) = SumFunctionOnSet(g, S)
    <3>1. IsFiniteSet(S)
      BY DEF S
    <3> QED
      BY <2>2, <3>1, SumSame, S \in SUBSET S
  <2>6. SumFunctionOnSet(g, K) = SumFunctionOnSet(g, S)
    BY <1>1, <2>1, <2>2, SumPadded
  <2> QED
    BY <2>3, <2>4, <2>5, <2>6
<1> QED
  BY <1>2, <1>3 DEF e

\* failures_total adds up the reasons.
LEMMA FailuresSum ==
  ASSUME NEW f \in [Reason -> Nat]
  PROVE  /\ SumFunction(f)
              = f["heartbeat_timeout"] + f["agent_reported"] + f["security_gate"]
         /\ SumFunction(f) \in Nat
<1> DEFINE A == {"agent_reported", "security_gate"}
           B == {"security_gate"}
<1>1. /\ Reason = A \union {"heartbeat_timeout"} /\ "heartbeat_timeout" \notin A
      /\ A = B \union {"agent_reported"} /\ "agent_reported" \notin B
  BY DEF Reason
<1>2. IsFiniteSet(Reason)
  <2>1. IsFiniteSet(B)
    BY FS_Singleton
  <2>2. IsFiniteSet(A)
    BY <1>1, <2>1, FS_AddElement
  <2> QED
    BY <1>1, <2>2, FS_AddElement
<1>3. /\ Reason \ {"heartbeat_timeout"} = A /\ A \ {"agent_reported"} = B
      /\ B \ {"security_gate"} = {}
      /\ A \in SUBSET Reason /\ B \in SUBSET Reason
      /\ "heartbeat_timeout" \in Reason /\ "agent_reported" \in A /\ "security_gate" \in B
  BY DEF Reason
<1>4. \A x \in Reason : f[x] \in Nat
  OBVIOUS
<1> HIDE DEF A, B
<1>5. SumFunctionOnSet(f, Reason) = f["heartbeat_timeout"] + SumFunctionOnSet(f, A)
  BY <1>2, <1>3, <1>4, SumRemove, Reason \in SUBSET Reason
<1>6. SumFunctionOnSet(f, A) = f["agent_reported"] + SumFunctionOnSet(f, B)
  BY <1>2, <1>3, <1>4, SumRemove
<1>7. SumFunctionOnSet(f, B) = f["security_gate"] + SumFunctionOnSet(f, {})
  BY <1>2, <1>3, <1>4, SumRemove
<1>8. SumFunction(f) = SumFunctionOnSet(f, Reason)
  BY DEF SumFunction
<1>9. /\ f["heartbeat_timeout"] \in Nat /\ f["agent_reported"] \in Nat
      /\ f["security_gate"] \in Nat
  BY <1>3, <1>4
<1> QED
  BY <1>5, <1>6, <1>7, <1>8, <1>9, SumEmpty

-----------------------------------------------------------------------------
(* The dashboard of observe.py *)

\* What a tick of observe.py shows: the sums of its snapshot agree.
LEMMA SnapshotAgrees ==
  ASSUME LoopHolds, TelemetryTypeOK, RecordsAccounted, WatchedShape, SeriesShape, SeriesAgree,
         script.name = "observe", dash' = capture(collect, TickCounted)
  PROVE  SeriesShape' /\ SeriesAgree'
<1> DEFINE k == dash.ticks + 1
           h == HealthyIn(collect, DeclaredPools)
           d == SumFunction([p \in DOMAIN collect.pools |-> collect.pools[p].desired])
           fs == SumFunction(TickCounted.failed)
           P == ByProvider(collect)
           S == ByState(collect)
           EP == Extended(dash.by_provider, P)
           ES == Extended(dash.by_state, S)
<1>a. Shape
  BY DEF LoopHolds
<1>b. /\ dash.ticks \in Nat /\ k \in Nat /\ k # 0 /\ 1 .. k = (1 .. dash.ticks) \union {k}
      /\ k = dash.ticks + 1
  BY DEF SeriesShape
\* the numbers of the snapshot
<1>1. /\ h \in Nat /\ d \in Nat
      /\ h = SumFunction(P)
      /\ h = IF "HEALTHY" \in DOMAIN S THEN S["HEALTHY"] ELSE 0
      /\ SumFunction(S) \in Nat /\ SumFunction(S) <= Cardinality(Records)
  BY <1>a, HealthyCounts, DesiredCounts, ProvidersCount, StatesCount
<1>2. /\ IsFiniteSet(DOMAIN P) /\ \A q \in DOMAIN P : P[q] \in Nat
      /\ IsFiniteSet(DOMAIN S) /\ \A s \in DOMAIN S : S[s] \in Nat
  BY <1>a, ProvidersCount, StatesCount
<1>3. /\ TickCounted.heals = count.heals /\ TickCounted.created = count.created
      /\ TickCounted.failed = count.failed
      /\ count.heals \in Nat /\ count.created \in Nat /\ count.terminated \in Nat
      /\ count.failed \in [Reason -> Nat]
  BY TickCountedFields DEF TelemetryTypeOK, CounterRecord
<1>4. fs \in Nat /\ fs = FailuresCounted
  BY <1>3, FailuresSum DEF FailuresCounted
<1>5. SumFunction(S) <= count.created
  <2>1. Cardinality(Records) + count.terminated = count.created
    BY <1>3 DEF RecordsAccounted, WatchedShape
  <2> QED
    BY <1>1, <1>3, <2>1, StoreCounts
<1>6. count.heals <= fs
  <2>1. count.heals + Cardinality(Failed) <= 0 + FailuresCounted
    BY DEF FailuresAccounted, WatchedShape
  <2> QED
    BY <1>3, <1>4, <2>1, StoreCounts
\* the series of the next dashboard
<1>7. /\ dash'.ticks = k /\ dash'.healthy = Append(dash.healthy, h)
      /\ dash'.desired = Append(dash.desired, d)
      /\ dash'.by_provider = EP /\ dash'.by_state = ES
      /\ dash'.failures = Append(dash.failures, fs)
      /\ dash'.heals = Append(dash.heals, count.heals)
      /\ dash'.created = Append(dash.created, count.created)
  <2>1. DOMAIN collect.pools = DeclaredPools
    BY WhatIsCollected
  <2> HIDE DEF d, fs, EP, ES
  <2> QED
    BY <1>3, <2>1 DEF capture, d, fs, EP, ES
<1> HIDE DEF k, h, d, fs, P, S
<1>8. /\ IsFiniteSet(DOMAIN EP) /\ DOMAIN EP = DOMAIN dash.by_provider \union DOMAIN P
      /\ \A q \in DOMAIN EP : EP[q] \in Seq(Nat) /\ Len(EP[q]) = k
      /\ \A i \in 1 .. dash.ticks : SumAt(EP, i) = SumAt(dash.by_provider, i)
      /\ SumAt(EP, k) = SumFunction(P)
  <2>1. AreSeries(dash.by_provider)
    BY DEF SeriesShape
  <2>2. IsFiniteSet(DOMAIN EP) /\ DOMAIN EP = DOMAIN dash.by_provider \union DOMAIN P
    BY <1>2, <1>b, <2>1, ExtendedSeries
  <2>4. ASSUME NEW q \in DOMAIN dash.by_provider \union DOMAIN P
        PROVE  EP[q] \in Seq(Nat) /\ Len(EP[q]) = dash.ticks + 1
    BY <1>2, <1>b, <2>1, <2>2, ExtendedSeries
  <2>3. /\ \A i \in 1 .. dash.ticks : SumAt(EP, i) = SumAt(dash.by_provider, i)
        /\ SumAt(EP, dash.ticks + 1) = SumFunction(P)
    BY <1>2, <1>b, <2>1, ExtendedSums
  <2> HIDE DEF EP
  <2> QED
    BY <1>b, <2>2, <2>3, <2>4
<1>9. /\ IsFiniteSet(DOMAIN ES) /\ DOMAIN ES = DOMAIN dash.by_state \union DOMAIN S
      /\ \A s \in DOMAIN ES :
           /\ ES[s] \in Seq(Nat) /\ Len(ES[s]) = k
           /\ \A i \in 1 .. dash.ticks :
                ES[s][i] = IF s \in DOMAIN dash.by_state THEN dash.by_state[s][i] ELSE 0
           /\ ES[s][k] = IF s \in DOMAIN S THEN S[s] ELSE 0
      /\ \A i \in 1 .. dash.ticks : SumAt(ES, i) = SumAt(dash.by_state, i)
      /\ SumAt(ES, k) = SumFunction(S)
  <2>1. AreSeries(dash.by_state)
    BY DEF SeriesShape
  <2>2. IsFiniteSet(DOMAIN ES) /\ DOMAIN ES = DOMAIN dash.by_state \union DOMAIN S
    BY <1>2, <1>b, <2>1, ExtendedSeries
  <2>4. ASSUME NEW s \in DOMAIN dash.by_state \union DOMAIN S
        PROVE  /\ ES[s] \in Seq(Nat) /\ Len(ES[s]) = dash.ticks + 1
               /\ \A i \in 1 .. dash.ticks :
                    ES[s][i] = IF s \in DOMAIN dash.by_state THEN dash.by_state[s][i] ELSE 0
               /\ ES[s][dash.ticks + 1] = IF s \in DOMAIN S THEN S[s] ELSE 0
    BY <1>2, <1>b, <2>1, <2>2, ExtendedSeries
  <2>3. /\ \A i \in 1 .. dash.ticks : SumAt(ES, i) = SumAt(dash.by_state, i)
        /\ SumAt(ES, dash.ticks + 1) = SumFunction(S)
    BY <1>2, <1>b, <2>1, ExtendedSums
  <2> HIDE DEF ES
  <2> QED
    BY <1>b, <2>2, <2>3, <2>4
<1> HIDE DEF EP, ES
<1> DEFINE Longer(new, old, x) ==
             /\ new \in Seq(Nat) /\ Len(new) = k
             /\ \A i \in 1 .. dash.ticks : new[i] = old[i]
             /\ new[k] = x
<1>10. /\ Longer(dash'.healthy, dash.healthy, h) /\ Longer(dash'.desired, dash.desired, d)
       /\ Longer(dash'.failures, dash.failures, fs)
       /\ Longer(dash'.heals, dash.heals, count.heals)
       /\ Longer(dash'.created, dash.created, count.created)
  <2>1. ASSUME NEW s, IsSeries(s), NEW x \in Nat
        PROVE  Longer(Append(s, x), s, x)
    BY <2>1, <1>b, Appended DEF IsSeries
  <2> HIDE DEF Longer
  <2> QED
    BY <2>1, <1>1, <1>3, <1>4, <1>7 DEF SeriesShape
<1>11. SeriesShape'
  BY <1>7, <1>8, <1>9, <1>10, <1>b DEF SeriesShape, IsSeries, AreSeries
<1>12. ASSUME NEW i \in 1 .. k
       PROVE  /\ \A s \in {dash'.desired, dash'.failures, dash'.heals, dash'.created} : Len(s) = k
              /\ \A s \in DOMAIN ES : Len(ES[s]) = k
              /\ dash'.healthy[i] = SumAt(EP, i)
              /\ dash'.healthy[i] = (IF "HEALTHY" \in DOMAIN ES THEN ES["HEALTHY"][i] ELSE 0)
              /\ SumAt(ES, i) <= dash'.created[i]
              /\ dash'.heals[i] <= dash'.failures[i]
  <2>1. CASE i \in 1 .. dash.ticks
    <3>1. /\ dash.healthy[i] = SumAt(dash.by_provider, i)
          /\ dash.healthy[i] = (IF "HEALTHY" \in DOMAIN dash.by_state
                                THEN dash.by_state["HEALTHY"][i] ELSE 0)
          /\ SumAt(dash.by_state, i) <= dash.created[i]
          /\ dash.heals[i] <= dash.failures[i]
      BY <2>1 DEF SeriesAgree
    <3>2. dash.healthy[i] = (IF "HEALTHY" \in DOMAIN ES THEN ES["HEALTHY"][i] ELSE 0)
      BY <2>1, <3>1, <1>9
    <3> QED
      BY <2>1, <3>1, <3>2, <1>8, <1>9, <1>10
  <2>2. CASE i = k
    <3>1. h = (IF "HEALTHY" \in DOMAIN ES THEN ES["HEALTHY"][k] ELSE 0)
      BY <1>1, <1>9
    <3> QED
      BY <2>2, <3>1, <1>1, <1>5, <1>6, <1>8, <1>9, <1>10
  <2> QED
    BY <2>1, <2>2, <1>b
<1>13. SeriesAgree'
  <2> HIDE DEF Longer
  <2>1. dash'.ticks = k /\ dash'.by_provider = EP /\ dash'.by_state = ES
    BY <1>7
  <2>2. ASSUME NEW i \in 1 .. dash'.ticks
        PROVE  /\ \A s \in {dash'.desired, dash'.failures, dash'.heals, dash'.created} :
                    Len(s) = dash'.ticks
               /\ \A s \in DOMAIN dash'.by_state : Len(dash'.by_state[s]) = dash'.ticks
               /\ dash'.healthy[i] = SumAt(dash'.by_provider, i)
               /\ dash'.healthy[i] = (IF "HEALTHY" \in DOMAIN dash'.by_state
                                      THEN dash'.by_state["HEALTHY"][i] ELSE 0)
               /\ SumAt(dash'.by_state, i) <= dash'.created[i]
               /\ dash'.heals[i] <= dash'.failures[i]
    BY <2>1, <1>12
  <2> QED
    BY <2>2 DEF SeriesAgree, SumAt
<1> QED
  BY <1>11, <1>13

\* Nothing but the end of a tick of observe.py touches the dashboard.
LEMMA SeriesStep ==
  ASSUME LoopHolds, TelemetryTypeOK, RecordsAccounted, WatchedShape, SeriesShape, SeriesAgree,
         [DNext]_dvars
  PROVE  SeriesShape' /\ SeriesAgree'
<1>1. CASE UNCHANGED dash
  BY <1>1 DEF SeriesShape, SeriesAgree, IsSeries, AreSeries, SumAt
<1>2. CASE dash' # dash
  <2>1. TickEnds /\ script.name = "observe" /\ dash' = capture(gauge', count')
    BY <1>2 DEF DNext, DStep, Apply, Update, Decommission, ForceDrain, Process, Inject, InTick,
                TickEnds, Killed, NoTick, dvars
  <2>2. gauge' = collect /\ count' = TickCounted
    BY <2>1 DEF TickEnds, LastStep
  <2> QED
    BY <2>1, <2>2, SnapshotAgrees
<1> QED
  BY <1>1, <1>2

\* observe.py's dashboard tells one story: at every tick, as long as no creation fails,
\* the HEALTHY nodes in all are those by provider and those by state, no series shows
\* more nodes than were created, nor more self-heals than failures (dashboard.py).
THEOREM SeriesTellOneStory ==
  ASSUME "createFails" \notin Ops
  PROVE  DSpec => []SeriesAgree
<1> DEFINE DInv == ScriptShape /\ WatchedShape /\ SeriesShape /\ SeriesAgree
           Metrics == LoopHolds /\ TelemetryTypeOK /\ RecordsAccounted
<1>1. DSpec => []Metrics
  BY ScriptsAreBehaviours, LoopAlways, TelemetryTypeCorrect, NothingUncounted, PTL
<1>2. ASSUME DInit PROVE DInv
  <2>1. ScriptShape
    BY <1>2, ObserveProgram DEF DInit, ScriptShape
  <2>2. SeriesShape /\ SeriesAgree
    <3>1. dash = NoSeries
      BY <1>2 DEF DInit
    <3>2. /\ dash.ticks = 0 /\ dash.healthy = <<>> /\ dash.desired = <<>>
          /\ dash.failures = <<>> /\ dash.heals = <<>> /\ dash.created = <<>>
          /\ dash.by_provider = <<>> /\ dash.by_state = <<>>
      BY <3>1 DEF NoSeries
    <3>3. DOMAIN <<>> = {} /\ <<>> \in Seq(Nat) /\ Len(<<>>) = 0
      OBVIOUS
    <3> QED
      BY <3>2, <3>3, FS_EmptySet DEF SeriesShape, SeriesAgree, IsSeries, AreSeries
  <2>3. WatchedShape
    <3>1. TInit /\ script.at = 1
      BY <1>2 DEF DInit
    <3>2. /\ \A n \in NodeId : node[n] = Absent
          /\ \A q \in Provider, n \in NodeId : fleet[q][n] = "none"
          /\ began = StoreNow /\ count = ZeroCounters
      BY <3>1 DEF TInit, Init, EmptyFleets
    <3>3. Records = {} /\ Failed = {}
      BY <3>2 DEF Records, Failed, Absent
    <3>4. began = [records |-> 0, failed |-> 0]
      BY <3>2, <3>3, FS_EmptySet DEF StoreNow
    <3>5. FailuresAccounted
      BY <3>2, <3>3, <3>4, FS_EmptySet, ZeroFields DEF FailuresAccounted, FailuresCounted, Reason
    <3> QED
      BY <3>2, <3>3, <3>4, <3>5 DEF WatchedShape, NoFailedCreation, GateReady, Absent
  <2> QED
    BY <2>1, <2>2, <2>3
<1>3. Metrics /\ DInv /\ [DNext]_dvars => DInv'
  BY ScriptShapeStep, WatchedStep, SeriesStep
<1>4. DInv => SeriesAgree
  OBVIOUS
<1> HIDE DEF DInv, Metrics
<1> QED
  BY <1>1, <1>2, <1>3, <1>4, PTL DEF DSpec
=============================================================================
