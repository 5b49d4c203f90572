# Verification of the cluster control plane

TLA+ modules, TLC runs and TLAPS proofs for the control plane of
bullion-infrastructure: the reconciler that provisions, heals, rolls, scales and
tears down nodes on several clouds, the store it works on, the operator API, the
failure detector and its reports, the metrics and the dashboard, the workflows and
scripts that drive the loop, and the director that splits traffic among the clouds. Line numbers refer to the
files of the repository; `PROJECT.json` maps every definition to its lines.

## 1. Inventory

| Component | State | Operations | Correct when |
|---|---|---|---|
| Reconciler (`control_plane/reconciler.py`) | locals of one tick: work lists, budgets, `replacements_used` | `tick`: `_detect_failures`, `_reconcile_cluster`, `_reconcile_pool` (advance, self-heal, roll, create, scale down), `_drain_cluster`, `_gc_terminated`; `run_until_converged` | destructive steps stay in the pool's budget and the rate limit, nothing is created twice, a converged store is left alone, everything left behind is worked off |
| Domain model and lifecycle (`models.py`, `state_machine.py`) | records of nodes, pools, clusters | `transition`, the transition table | every unforced move is in the table; one outside it needs an approver |
| State store (`store.py`) | clusters, nodes, revision; one JSON file | `put_*`, `remove_node`, `save`, `load` | a put that returned survives; the file is whole; a reload loses nothing that matters |
| Operator API (`api.py`, `workflows/update.py`) | none | `apply_cluster`, `scale_pool`, `rolling_update`, `decommission_cluster`, `report_health`, `force_decommission_node` | safe in any order and at any moment between ticks |
| Node workflows (`workflows/provision.py`, `drain.py`, `decommission.py`) | `node._baseline` between two stages | one stage per call | every stage can be repeated after a crash |
| Providers (`providers/`) | the fleet: instance per node id | `create_instance`, `delete_instance`, `apply_security_baseline`, `network_attach` | idempotent, keyed by node id |
| Security gate (`security/policy.py`) | none | `evaluate` | no node is HEALTHY without it |
| Node agent (`agent/node_agent.py`) | cordon flag, never read again | `bootstrap`, `attest`, `health_report`, `drain` | a node that is well is never given up, a broken one soon, whatever happens to its reports |
| Traffic director (`networking/global_lb.py`) | none | `capacity_by_cloud`, `distribute`, `weights` | routes exactly the requests, in proportion to healthy capacity |
| Operator CLI (`cli.py`) | one process per command on the shared file | load, API call, save | commands compose across invocations |
| Durable workflows (`workflows/orchestration.py`) | results of the activities | bring-up, decommission | `ok` only when done |
| Telemetry (`observability/metrics.py`, `telemetry.py`) | counters, gauges | `inc`, `collect`, `snapshot` | no node comes or goes uncounted; gauges show the store |
| Dashboard (`observability/dashboard.py`) | series, one value per tick | `capture`, rendering | the series agree with one another |
| Simulations (`sim/`) | none | API calls and bounded loops of ticks | what a script announces is true when it says so; it ends |
| Admission, RBAC, hardening (`security/`), network fabric (`networking/fabric.py`) | none | pure predicates and static descriptors | — |
| Terraform, mesh, CI | — | configuration | — |

**How they interact.** The API and the reconciler share the store; the API only
changes desired state, apart from health reports and emergency teardown, which
write node records. The reconciler calls the workflows, the workflows call the
provider and the agent, and the reconciler writes the record after the call. The
store writes its file at every put. The CLI runs each command, a long `reconcile`
among them, as a process of its own on that file. The traffic director and the
telemetry read the store. Agents report to the API with time stamps of their own
clocks; the reconciler compares them with its clock.

**What is hard.** There are no threads inside a process, so the API acts between
ticks; the difficulty is in what operators ask for while earlier work is in
flight, in failures and reports that come at any moment, in a crash between a
provider's action and the write of the record, in budgets that several phases of
one tick share, in reports that are late or overtake one another, in counters kept
far from what they count, and, with the CLI, in processes that overlap on one file.
`PROJECT.json` lists these hazards, each at its line with the properties that
cover it.

## 2. Modules

| Module | Role |
|---|---|
| `Lifecycle` | node and cluster states and the transition table, constants only |
| `NodeMachine` | abstract specification: what the state machine promises about a fleet |
| `Reconciler` | the control loop with workflows, API, store, fleet and crashes |
| `Orchestration` | bring-up and decommission workflows that drive `Reconciler` |
| `FailureDetector` | agents, reports under way, clocks, and `_detect_failures` in time |
| `Telemetry` | counters, actions and gauges over `Reconciler` |
| `Demos` | the scripts of `sim/`, a session of the CLI and the dashboard over `Telemetry` |
| `StoreFile` | the store file as several processes use it |
| `TrafficDirector` | the largest-remainder split of requests |
| `MCReconciler`, `MCOrchestration`, `MCDemos` | instances for TLC |
| `ReconcilerProofs`, `OwnershipProofs` | theorems about `Reconciler`: types, limits and budgets; admission, ownership, teardown, refinement |
| `FailureDetectorProofs` | theorems about `FailureDetector` |
| `TelemetryProofs` | theorems about `Telemetry` and `Demos`, extending `OwnershipProofs` |
| `OrchestrationProofs` | theorems about `Orchestration`, extending `OwnershipProofs` |
| `StoreFileProofs` | theorems about `StoreFile` |
| `TrafficDirectorProofs` | theorems about `TrafficDirector` |
| `Sums` | what the sum of a function over a finite set is, for `TelemetryProofs` and `TrafficDirectorProofs` |

### 2.1 Reconciler

State and code:

| Variable | Code |
|---|---|
| `node` | `store.nodes`: state, pool, instance, image and config hash, attestation, gate result, `_baseline`, health with heartbeat age |
| `cluster` | `store.clusters`: `state`, `desired_state` |
| `spec` | the `NodePool` of each pool, as last declared |
| `fleet` | `_fleet` of each provider: for a node id nothing, a failed record, or an instance with the image it was created with |
| `tick` | where `tick()` stands and its locals |

One action stands for one write of the store with the computation that leads to
it, or for the start or end of a phase. `BeginHeal`, `BeginRoll` and `BeginScale`
read the store at the moment the code builds its lists; a budget is computed once
and then only counted down, as in the code. `AdvanceNode` and `TeardownNode` are
one call of `_advance` and the `put_node` after it, so the six stages of the
workflows are operators (`CreateInstance`, `ApplyBaseline`, `Bootstrap`,
`Register`, `DrainStep`, `DecommissionStep`) shared by both. Teardown of a HEALTHY
or FAILED node is two transitions and one write, as in `_drain_cluster`.

API actions (`ApplyCluster`, `ScalePool`, `RollingUpdate`, `DecommissionCluster`,
`ReportHealth`, `ForceDecommissionNode`) are enabled when `tick.pc = "idle"`: the
process has one thread. `HeartbeatExpires` is the passage of time. A forced transition
comes with an approver or without (`forceAllowed`): without one, a move outside the table
raises and nothing is written.

A crash (`Crash`) may come between any two steps. The store is loaded again from
the file: all fields come back except `_baseline`, which is not a field of the
dataclass, and the locals of the tick are gone. `CrashInStage` is a crash after the provider
acted on a node and before the record is written; `CrashInCreate` one between the
record of a new node and the `SCALING` of its cluster. The fleet survives a
crash: it stands for the cloud behind the provider contract, although the
simulated provider keeps it in memory.

Simplifications, also in the module's header: dict order is left open, so any
member of a work list may come next; `config_hash` is a function of the image and
shares its field; names, `reason`, regions and instance types are left out; time stamps are
in `FailureDetector` and metrics in `Telemetry`; a node on its way out forgets the fields nothing reads any more. A
collected node id may be given again; `CreateNode` then forgets a failed creation
recorded under it, since the code draws a new id each time.

`Ops` and `Reports` choose what operators and the environment do in an instance;
they remove actions, never guards of the code.

**Abstract specification.** `NodeMachine` says: a node appears as REQUESTED, moves
along the table, is torn down without a drain only by force, is drained and torn
down in one visible step only when its cluster is to be decommissioned, and is
removed only from TERMINATED; control alternates between operators and the loop.
`Reconciler` implements it (`RefinesLifecycle`) with `state` the states of the
nodes, `retired` the nodes of clusters to be decommissioned, and `attended` the
moments between ticks. Since `transition()` raises an exception outside the table,
the table is not a guard of the model: the refinement shows that the exception
never happens.

### 2.2 StoreFile

A process loads the file at its start, and each put changes its memory and runs
`save()` step by step: the temporary file is emptied and filled, `os.replace` is
tried up to `MaxAttempts` times, then the target is opened for writing, which
empties it or raises, and filled. The contents of a snapshot are the set of puts
it includes. Locks by other programs, kills at any step and overlapping processes
are constants or free choices. Two processes that hold the target open at once
may leave anything; such a file is `Torn`, and a process that loads a torn file
ends. The process-local lock of `Store` orders nothing here. `overlapped` is a
history variable: whether two processes ever ran at once.

### 2.3 TrafficDirector

`distribute` step by step: capacities without the clouds that are down, whole
parts, and one more request for the clouds with the largest remainders. Division
is exact in the model; in the code it is floating point, so equal remainders may
be ordered either way, and the model allows both.

### 2.4 Orchestration

`workflows/orchestration.py` over `Reconciler`: `run` is the workflow in progress.
A run is one call in the process's only thread, so while it lasts no operator and
no other tick gets in; time passes (`Elapse`), creations fail, and a crash loses it
(`RunLost`), since nothing of a run is stored. Outside runs everything of
`Reconciler` happens, so a run starts from any state the loop can be in.
`run_until_converged` stops after a tick whose list of actions is empty, or after
`MaxTicks`; `Logged` is which writes put something in that list.

### 2.5 FailureDetector

`Reconciler` takes the signals that reach a node as given; here they come about.
`agent[n]` is the agent on a node (well, failed or silent, with a clock that is off
by a constant), `net` the reports under way, delivered in any order, `node` what the
store holds, `loop` the control loop with the time its tick was called with. A
report that is lost is one that was never sent. `report_health` stores whatever
comes last; `FinishTick` is `_detect_failures` on the stored time stamps, then the
admission of nodes at the end of their provisioning, some time after `BeginTick`
read the clock.

Time is an integer. The environment is bounded by what it is assumed to do in time:
`MaxGap` between two reports that get through, `MaxDelay` on the way, `MaxSkew` of a
clock, `MaxPeriod` from one tick to the next; `Advance` waits for what is due.
`TimeoutSuffices` says when `HEARTBEAT_TIMEOUT` is long enough for that. The code
has none of these bounds: they are what an operator has to see to, and the
theorems say that this is enough. A report that overtakes an older one is overwritten
by it, so the delay counts twice. FAILED is the end of a node here; what the
control loop does with it is in `Reconciler`. `Start > MaxSkew` because a time
stamp of 0.0 means "never reported" to the code.

### 2.6 Telemetry and Demos

`Telemetry` adds to every step of `Reconciler` what the code counts in it: `count`
the counters, `actions` the list of actions of the tick, by type, `gauge` what
`collect` set at the end of the last tick. A new process (`NewProcess`) begins at
zero; `began` is a history variable, what the store held then. Failures are counted
where the code does it: not in `create_instance`, and not in `_drain_cluster`.

`Demos` runs the scripts: `script` is which one and where it is, `Program` the
instructions of each, an API call or a loop of at most so many ticks until something
holds. `observe` calls `capture` after every tick, which appends to the series of
`dash`. A command of the CLI is a process of its own: `Process` loads the store
again, and its `reconcile` may be killed at any write and started again. The fleet
survives a process, as in `Reconciler`. New ids differ only in their names, so the
lowest is taken.

## 3. Runs

| Run | Result | Instance | Shows |
|---|---|---|---|
| `MCReconciler` | passes | 3 ids, 1 pool of 1–2 nodes, 2 images; scale, update, failed creations, failure reports, crashes | admission, no orphan, budget, no over-provisioning, refinement, idempotence |
| `MCTeardown` | passes | 3 ids, 2 pools of one cluster, 1 image, desired 1; declare again, decommission, force, reports, crashes | rate limit, self-heal within the budget, teardown, instances lost by force only, refinement with force |
| `MCConvergence` | passes | 2 ids, 1 pool; scale, update, decommission, failed creations, all reports, crashes | convergence under fair ticking |
| `MCStoreFile` | passes | 3 processes, 3 puts, 2 attempts | durability, atomic saves, saves end |
| `MCTraffic` | passes | 3 clouds, up to 3 nodes each, up to 7 requests | nothing dropped, proportional |
| `MCOrchestration` | passes | 2 ids, 1 pool of 2, `max_unavailable` 0 or 1, 8 ticks; update, decommission, failed creations, reports, crashes | a quiet tick means done, verification, runs return |
| `MCDetector` | passes | 1 node; gap 1, delay 2, skew 1, period 2, time-out 6, times 2–16 | no false alarm, detection in time |
| `MCDemos` | passes | 3 clouds of 2 nodes, 8 ids; 5 scripts, 2 kills | metrics, gauges and series agree, loops deliver, scripts end |
| `MCRestart` | violated | 2 ids, crashes only | a restart makes a node fail the gate |
| `MCRedeclare` | violated | 2 ids, declare again, decommission | a second decommission leaves instances running |
| `MCRoll` | violated | 3 ids, update | a roll takes the pool to zero HEALTHY nodes |
| `MCImage` | violated | 3 ids, update | nodes with one hash and different images |

**Properties.** `HealthyIsAdmitted`: a node that serves passed the gate and has an
instance that runs. `NoOrphan`: no running instance that is lost (`Lost`), that is, its record neither names
it nor is about to. `LostByForceOnly`: an instance gets lost only when a node that is
still REQUESTED, its creation cut short by a crash, is forced; every crash, teardown and
collection of a record on the way, of forced nodes too, loses none.
`BudgetHeld` and `DrainWithinBudget`: the destructive budget, as a state and as a
bound on what the loop itself does. `RateLimited`: the limit over all pools of a
cluster. `NoOverProvision`: no creation beyond the desired count, with nodes that
are only REQUESTED counted. `QuietWhenConverged`: a tick on a converged store
changes nothing. `TeardownDeletesRecorded`: a cluster is marked DECOMMISSIONED only when
every instance that one of its records names is deleted, and the records left are
TERMINATED or REQUESTED. It does not say that none runs: an instance that was created
before a crash and not recorded does, see section 4. `Convergence`: once operators and
failures pause and creations succeed, ticks alone bring every pool to its desired nodes on
the desired image, or tear the cluster down but for nodes that were only REQUESTED
(`Settled`). The run has all operations of the API but two, and the property fails with
either of them: a cluster that was torn down and is declared again may be decommissioned
once more and stay (`MCRedeclare`), and a node that teardown left REQUESTED is live once
it is forced, and visited by no tick.
`AckedIsStored`, `TornByFallbackOnly`, `SaveReturns`: durability, atomicity and
termination of saves.
`AllRouted`, `AsProportionalAsCanBe`: the split. `QuietMeansDone`: the loop's test for
convergence, "no actions", is right, since every write of a node is logged and
no work waits silently for a budget above zero. Where a budget is zero, work may wait
(`MayTend`, `Tended`): with no replacement allowed a FAILED node stays, with
`max_unavailable` 0 a stale one, with nothing provisioned per tick the pool stays too
small, and the run converges all the same. `ConvergedRunIsOk`: the verification of a
bring-up fails only in such a cluster. `RunReturns`: runs end, also when creations fail for ever.
`NoFalseAlarm`, `DetectedInTime`: what reports and clocks may do to failure detection.
`RecordsAccounted`, `FailuresAccounted`, `ActionsAgree`: conservation laws between the
counters, the actions and the store, at every write. `GaugesTrue`: the gauges show the
store between ticks. `SeriesAgree`: the series of the dashboard are equally long and
tell one story. `LoopsDeliver`, `ScriptEnds`: no loop of a script stops too early or
at its bound, and the script ends with its fleet up or gone.

**Bounds and why they are enough.** Three node ids let a pool of two have a node
draining, one failing and one being created at once, which is where phases
compete for a budget; desired counts 1 and 2 give growth and shrinking;
`max_unavailable` 1 makes one node too many visible; `GlobalMaxReplacements` 1
with two pools makes sharing of the rate limit visible. `MCTeardown` has one image and one
desired node per pool, so of the three phases that drain only self-heal does: that they
share a budget is checked by `BudgetHeld` in `MCReconciler`, and proved for every instance
by `DrainsFit`. No run lowers `max_unavailable`, or sets it to zero in the control loop
alone (`MCOrchestration` has a pool with zero): for that too there are `TypeCorrect` and
`DrainsFit`. Creation stops when the ids
are used up, which only delays it. Two images are enough for every
comparison of images the code makes. In `StoreFile` two processes are what races
need and the third shows a save between two others; two attempts have a first and
a last. Seven requests over three clouds with up to nine nodes give every pattern
of remainders, ties included. Eight ticks are enough
for a bring-up from nothing (six) and too few for a roll of both nodes, so runs end
both ways. Nodes do not interact in `FailureDetector`, so one is enough; its
durations make both bounds sharp: with a time-out of 5 `NoFalseAlarm` is violated, and
with `2 * MaxPeriod - 1` in its place `DetectedInTime` is. The fleet of `MCDemos` is
the one of `sim/simulate.py` and `multicloud.py`; `observe.py` runs on it instead of
its pools of ten, with every node of one cloud struck. Eight ids are six nodes and
two replacements on their way. Two kills hit a reconcile and the one that makes good
for it. Symmetry over node ids is used in `MCReconciler` and `MCTeardown`,
which check no liveness. `MCStoreFile`, `MCTraffic` and `MCDemos` switch
the deadlock check off: commands may all be done, a torn file stops everyone, and
splits and scripts end.

**Fairness.** `Reconciler!FairSpec` has weak fairness of `Tick` and nothing else:
the process keeps calling `tick()` (`run_until_converged` and the demos do, in
production a loop does), and within a tick Python goes on. Operators, reports,
failures and crashes are never fair. `Convergence` assumes that they stop and that
creations succeed from some point on, which is what "left alone" means.
`Orchestration!OFairSpec` has weak fairness of the steps of a run that has been
started: it is a running call. `StoreFile!FairSpec` has weak fairness of the steps
of a process that is inside `save()`; the operating system runs it.
`Demos!DFairSpec` has weak fairness of the steps of the script that was started, a
single thread; kills are not fair and bounded. `FailureDetector` needs no fairness:
`DetectedInTime` is a safety property over a clock.

## 4. Findings

Each is a violated run; the quotations are in `PROJECT.json`.

1. `MCRestart`: `_baseline` is an attribute outside the dataclass and is not
   saved. A restart between BOOTSTRAPPING and HEALTHY makes the gate evaluate an
   empty baseline, and the node is failed and replaced, against "restarting the
   control plane is always safe and never loses progress".
2. `MCRedeclare`: a cluster declared again keeps the state DECOMMISSIONED until its
   pools are satisfied. Decommissioned once more before that, it is taken for torn
   down already: its nodes stay, their instances run on, and the decommission
   workflow reports success.
3. `MCRoll`: the budget counts nodes going, not replacements that do not serve yet;
   "Pool stays at desired healthy count throughout" does not hold even leniently.
4. `MCImage`: an instance is requested with the pool's image of that moment, but the
   configuration hash is made from the pool's image at bootstrap and the gate compares
   it with the pool's image again. An update in between leaves a node that serves
   with the hash of another image, against "two nodes with the same hash are
   identical".

Known disagreements without a run of their own, met while modelling:

- REQUESTED is not in `LIVE_STATES`, so teardown neither visits nor waits for
  REQUESTED nodes, and their records outlive their cluster. If the process had crashed
  between `create_instance` and the write of PROVISIONING, the instance outlives it too:
  the cluster is DECOMMISSIONED and nothing will ever delete it, against "instances are
  deleted" (RUNBOOK.md:60-61).
- An emergency teardown "is recorded with the approver in the node's `reason`"
  (RUNBOOK.md:52-53). `transition` writes the approver only when the table forbids the
  move (state_machine.py:52-61), so that of a FAILED or DRAINING node leaves none, and
  the next tick's TERMINATED overwrites the reason of any other.
- Declaring a cluster again during its teardown, or an emergency teardown, leaves a
  serving pool over its budget, which `tests/helpers.py:100-111` excludes after any
  sequence of operations.
- Nothing compares the stored revision: commands that overlap lose updates and set it
  back, against "optimistic concurrency" (store.py:6-7).
- An emergency teardown of a REQUESTED node whose creation was interrupted by a crash,
  and a pool that is declared again with another provider, leak the instance. In a cluster
  that is DECOMMISSIONED already, a REQUESTED node that is forced becomes
  DECOMMISSIONING, and no tick visits it: this is why `ConvergedIsDone` excludes force.
- `global_max_replacements` starts anew for every cluster and limits self-heal only.
- `activity_reconcile_to_ready` reports ok also when `max_ticks` ended the loop.
- `nodes_failed_total` leaves out failed creations, and rejections by the gate during
  a teardown.

## 5. Proofs

All theorems hold for every value of the constants under the named assumptions:
node ids are a finite set, every pool belongs to a cluster, declarations have
natural numbers, `None` is fresh, and no image has the name of a fleet status; at least
one attempt at a replace and one tick per run, and `Missing` and `Torn` are no snapshots;
durations are natural numbers that fit in the time-out (`TimeoutSuffices`), and the
clock starts after zero; clouds, and the pools of the scripts, are finite sets.

| Theorem | Says | Extra assumption |
|---|---|---|
| `TypeCorrect` | `Spec => []TypeOK` | – |
| `RateLimitHolds` | `Spec => []RateLimited` | – |
| `Admission` | `Spec => []HealthyIsAdmitted` | – |
| `DrainsFit` | `Spec => DrainWithinBudget` | – |
| `NothingOverProvisioned` | `Spec => NoOverProvision` | – |
| `BudgetsHold` | `Spec => []BudgetHeld` | no cluster is declared again, nothing is forced |
| `OnlyForceLoses` | `Spec => LostByForceOnly` | no pool changes its provider |
| `NothingOrphaned` | `Spec => []NoOrphan` | no pool changes its provider, nothing is forced |
| `TeardownCompletes` | `Spec => TeardownDeletesRecorded` | no pool changes its provider |
| `ImplementsLifecycle` | `Spec => RefinesLifecycle` | – |
| `ConvergedIsQuiet` | `Spec => QuietWhenConverged` | – |
| `DetectorTypeCorrect` | `Spec => []TypeOK` of `FailureDetector` | – |
| `NeverFalseAlarm` | `Spec => []NoFalseAlarm` | – |
| `AlwaysDetected` | `Spec => []DetectedInTime` | – |
| `MetricsDoNotInterfere` | `TSpec => Spec` of `Reconciler` | – |
| `TelemetryTypeCorrect` | `TSpec => []TelemetryTypeOK` | – |
| `NothingUncounted` | `TSpec => []RecordsAccounted` | – |
| `CountersAgree` | `TSpec => []ActionsAgree` | – |
| `FailuresAreAccounted` | `TSpec /\ [][~FailsUncounted]_tvars => []FailuresAccounted` | – |
| `GaugesAreTrue` | `TSpec => []GaugesTrue` | nothing is forced inside the process |
| `ScriptsAreBehaviours` | `DSpec => TSpec` | – |
| `SeriesTellOneStory` | `DSpec => []SeriesAgree` of `Demos` | no creation fails |
| `FileTypeCorrect` | `Spec => []TypeOK` of `StoreFile` | – |
| `NoPutLost` | `Spec => []AckedIsStored` | – |
| `SavesAreAtomic` | `Spec => TornByFallbackOnly` | – |
| `ImplementsReconciler` | `OSpec => Spec` of `Reconciler` | – |
| `AdmissionInRuns` | `OSpec => []HealthyIsAdmitted` | – |
| `RunTypeCorrect` | `OSpec => []RunTypeOK` | – |
| `ConvergedIsDone` | `OSpec /\ []IdsSuffice => []QuietMeansDone` | no cluster is declared again, nothing is forced |
| `VerificationPasses` | `OSpec /\ []IdsSuffice => []ConvergedRunIsOk` | the same |
| `EverythingRouted` | `Spec => []AllRouted` of `TrafficDirector` | – |
| `SharesAreProportional` | `Spec => []AsProportionalAsCanBe` of `TrafficDirector` | – |

The assumptions of `BudgetsHold`, `OnlyForceLoses`, `NothingOrphaned`, `TeardownCompletes`
and `ConvergedIsDone` are needed: section 4 says how the code breaks the properties without them. `IdsSuffice` says of the
bounded set of ids what `uuid4` gives: where a node is to be created, some id is free. A
record that a crash left TERMINATED holds its id until it is collected, so with too few ids
a tick may create nothing although it should. `MCOrchestration` checks the two invariants
without this constraint, and they hold there. `GaugesAreTrue` excludes the forced
teardown because the CLI does it in a process of its own, whose gauges nobody reads.

**The argument for the reconciler.** None of the properties is inductive alone. `IInv`
is built in layers, each proved from the ones before it:

- `Shape`: types; the locals of a tick name declared pools of an existing cluster;
  a record belongs to a declared pool, and an id without a record has no trace;
  what self-heal has used plus what it may still use is within the rate limit.
  Gives `TypeCorrect` (a stage reads `spec[pool]`, which must be a declaration)
  and `RateLimitHolds`.
- `Equipped`: from PROVISIONING to HEALTHY a node has an instance that runs; a
  HEALTHY one has passed the gate. A crash keeps it because the creation is keyed
  by the node id and the record of a running node is never REQUESTED. Gives
  `Admission`.
- `WorkShape`: within a tick the loop works on nodes of one pool of one serving
  cluster, or tears one cluster down. Needed to know that a drain in one pool
  cannot count against another, and that teardown meets no serving cluster.
- `BudgetShape`: while a drain loop may still drain, what is left of its budget
  fits in what is left of the pool's. Each phase computes it anew from the store,
  each drain takes one from it and adds at most one node to those going. Gives
  `DrainsFit`.
- `DeclaredFirst`: pools are declared with their cluster or later. With the
  layers above gives `BudgetsHold`: the operator's steps do not lower a budget or
  bring a torn-down cluster back.
- `CreateShape`: when a pool's in-flight nodes have been advanced none is left that is
  only requested, so the deficit, which does not count those, is right when it is
  computed, and what may still be created fits under the desired count. Gives
  `NothingOverProvisioned`.
- `WorkIsDue`: what is on a work list is a reason to change something: self-heal's nodes
  are FAILED, those to be rolled have another image, scale-down's budget is surplus, a
  teardown's cluster is DRAINING. In a converged store there are no such reasons, at
  whatever point of a tick it became so. With `CreateShape` gives `ConvergedIsQuiet`.

- `Named`: an instance that a record names is at the provider of its pool, a REQUESTED
  node names none, and that of a TERMINATED one does not run. So a deletion goes to where
  the instance is, a record is removed only after it, and a retried creation finds its own
  instance. The step lemma (`NamedStep`) is proved for an arbitrary set of instances that
  are lost already (`OwnedOn`), so it says which steps lose one more: gives `OnlyForceLoses`,
  and, as without force no node leaves REQUESTED between ticks (`OnlyForceAbandons`),
  `NothingOrphaned`.
- `EmptyShape`: a teardown that has found no live node has none on its list, and none
  becomes live while it lasts. With `Named` gives `TeardownCompletes`.

**The argument for the refinement.** For every action the proof names the abstract step:
a stage of `_advance` is a move along the table, a teardown of a HEALTHY or FAILED node
is the visible pair of moves, which only a node to be retired may take, and bookkeeping
of the tick is a stutter. `WorkShape` is needed to know that the node that is torn down
belongs to a cluster that is to be decommissioned: the node was put on the work list
earlier, and operators cannot take the decommission back within a tick.

The counting lemmas (`CountStep`, `CountKept`) say how a cardinality changes when
one node changes, from the library's facts on finite sets. Theorem modules extend
one another, so each fact is proved once.

**The argument for the store file.** `FileInv`: attempts are counted; what a
process saves has been issued and is in its memory; at the replace the temporary
file is the memory; and as long as processes have not overlapped, the one that
runs knows every put that has returned. The last part is what makes
`AckedIsStored` inductive.

**The argument for failure detection.** `TimeShape`: nothing is overdue, which is what
`Advance` waits for. `ReportShape`: a report is true of the time it was sent at, so a node
whose agent is well holds no "failed", and a broken one holds nothing "healthy" that was
sent after it broke. `FreshShape` is what both theorems turn on: the report that was
stored last is at most `MaxDelay` older than the next one under way or the last one
sent, because one that is stored out of order was sent while the other was still under
way. `DueShape`: a tick that begins after a node is due gives it up, and takes a period
at most.

**The argument for the metrics.** Every step of `Telemetry` is a step of `Reconciler`
(`MetricsDoNotInterfere`), so the types and the shape of the loop come from there. Then
`RecordsAccounted` is inductive: a record appears or goes in exactly the steps that count
it. `ActionsAgree` needs `ActionsShape`, the same law within a tick, where the actions not
counted yet make up the difference. `FailuresAreAccounted` names in its premise the two
kinds of failure that the code does not count (`FailsUncounted`: a creation that fails, a
gate that turns a node down in a teardown) and needs nothing else: that self-heal takes
only FAILED nodes is part of `WorkIsDue`.

**The argument for the dashboard.** Every step of a script is a step of the loop with
metrics, of an operator or a failure (`ScriptsAreBehaviours`), so what holds of those holds
here. A tick of `observe.py` appends the sums of one snapshot. `Extended` leaves the ticks
before as they were, since a series that begins late adds zeros (`ExtendedSums`), so only
the new tick matters. There every record of the store belongs to one declared pool, has one
state and its pool one provider: counting HEALTHY nodes by pool, by provider or by state
partitions the same set (`PoolByPool`, `ProvidersCount`, `StatesCount`, from the lemmas on
partitions in `Sums`). That there are no more nodes than were created is
`RecordsAccounted` for a process that began on an empty store. That there are no more heals
than failures is `FailuresAccounted`, whose premise needs an invariant of its own,
`WatchedShape`: where no creation fails, a node has its baseline from BOOTSTRAPPING on, is
attested with the image its pool asks for when it is REGISTERING, and so the gate turns no
node down, in a teardown or elsewhere (`StageReady`); the image does not change because this
script rolls no pool. The theorem is about any fleet, any pools and providers, and any
failures `observe.py` may inject; `createFails` is excluded because the script's providers
have `failure_rate` 0.

**The argument for workflows.** Every step of `Orchestration` is a step of
`Reconciler` or changes only `run`, so every theorem about the loop carries over;
`AdmissionInRuns` is one instance.

**The argument for convergence.** What the tick that ends a run has seen is spread over its
steps: nothing is in flight in a pool when its advance phase is over, nothing is FAILED
after self-heal, nothing stale after the roll, nothing missing or superfluous in the end,
and time, failed creations and reports may strike in between. `QuietShape` says for every
point of a tick that has not acted yet what it has established of the pools and clusters
behind it. Each step either appends to the list of actions, which ends `Quiet`, or adds its
part: a loop over a work list that is left without having acted had an empty list or no
budget, and `WholeSlack` says that in a pool with nothing in flight and nothing draining no
budget is zero unless a limit is (`MayTend`). The report of a failure between two
phases sets only the health of a node, and the node is done until it is detected
(`TimeKeepsDone`). At the end `LastTick` collects the parts for the cluster of the run, and
nothing moves until it returns. `SettledShape` is needed for clusters that a tick does not
visit because they are DECOMMISSIONED. `VerificationPasses` follows: a done pool has its
HEALTHY nodes on one image, so on one configuration hash (`DoneIsHomogeneous`).

**The argument for the split.** A sum over a set is a CHOOSE of a recursive table in the
community modules. `Sums` shows by induction over the subsets of a finite set that the
table exists (as a minimal counterexample under the well-founded order of strict subsets,
so no induction theorem with an operator as parameter is needed), and reads off how a sum
changes when one element does. `SplitShape` is the invariant of the loop: a cloud has the
whole part of its exact share, and one more if the loop has passed it; what is left never
exceeds the clouds still waiting (`FewLeft`: the fractions add up to less than one request
per serving cloud); and the clouds passed had no smaller fractions. When the loop stops
nothing is left, which is `AllRouted`; a move of one request away from a cloud that was
rounded up, or to one that was not, does not come closer, which is
`AsProportionalAsCanBe`.

**Only model-checked.** Liveness (`Convergence`, `SaveReturns`, `RunReturns`,
`ScriptEnds`), which needs fairness and ENABLED; `LoopsDeliver`, which depends on the
numbers of a script: whether a bound of 20 or 60 ticks is enough.

## 6. Not modelled, and why

- Admission of workloads, RBAC, hardening, network fabric: pure functions or
  tables that the control loop does not call or whose result it ignores.
- CI, Terraform, mesh: configuration interpreted by other programs.
- The HTML page and the Prometheus text: rendering, without state. `RetryPolicy` of the
  workflows is used by no code.
- Of the node agent, the checks behind `health_report` (constants in the code) and the
  status "degraded", which nothing reads.
- UPDATING is in the table, but no code enters it; it is in `Lifecycle` only.
- A pool that moves between two providers: the code leaks the instances of its old nodes.
  The runs exclude this; the hazard is listed. `NoOrphan` excludes emergency teardown, with
  which `LostByForceOnly` takes its place. Listed but not caught by a property are also:
  the budget that a declaration or a force exceeds, overlapping commands that lose each
  other's updates, and the failures that are not counted; section 4 says what happens, and
  the properties exclude it by name. So is the growth of FAILED records
  where a budget is zero: the ids of an instance are bounded.

## 7. Plan

The order is by importance: the control loop, its store, then what reads it.

1. *Done.* `Reconciler` with `NodeMachine`, its runs and theorems, the refinement among
   them; `StoreFile` and `TrafficDirector`; `Orchestration`.
2. *Done.* `FailureDetector`, `Telemetry` and `Demos` with their theorems.
3. *Done.* A theorem for every invariant that a run checks, and for every action property
   but `LoopsDeliver`.
4. The rate limit over several clusters, the leaked instance after a change of provider.
5. Failure detection composed with the whole loop: a node replaced and its late reports.

## 8. Running

    tlc -config MCReconciler.cfg MCReconciler.tla
    tlc -config MCStoreFile.cfg StoreFile.tla
    tlc -config MCDetector.cfg FailureDetector.tla
    tlc -config MCDemos.cfg MCDemos.tla
    tlapm OrchestrationProofs.tla
    tlapm TelemetryProofs.tla
