---------------------------- MODULE Orchestration ----------------------------
(***************************************************************************)
(* The workflows of workflows/orchestration.py over the control loop: a    *)
(* bring-up ticks until a tick does nothing and then compares the nodes of *)
(* each pool, a decommission asks for the teardown and ticks.              *)
(*                                                                         *)
(* A run is a function call in the one thread of the process: until it     *)
(* returns neither operators nor another tick get in, but time passes,     *)
(* creations fail, and a crash loses the run, of which nothing is stored.  *)
(* Outside a run everything that Reconciler allows may happen.             *)
(*                                                                         *)
(* Simplifications: apply_terraform always succeeds and touches no state   *)
(* here; of the list of actions of a tick only "is it empty" is kept, and  *)
(* of the results of a run only "are they all ok".                         *)
(***************************************************************************)
EXTENDS Reconciler

CONSTANT MaxTicks     \* max_ticks, 500 in the code

ASSUME MaxTicksType == MaxTicks \in Nat \ {0}

VARIABLE run          \* the workflow that is being run

allVars == <<vars, run>>

NoRun ==
  [ phase |-> "none", name |-> None, cluster |-> None, left |-> 0,
    acted |-> FALSE, converged |-> FALSE, ok |-> FALSE ]

RunRecord ==
  [ phase : {"none", "reconcile", "verify", "ended"},
    name : {"bringup", "decommission", None},
    cluster : Cluster \union {None},
    left : 0 .. MaxTicks,               \* ticks run_until_converged has left
    acted : BOOLEAN,                    \* the tick has an entry in actions
    converged : BOOLEAN,                \* it returned after a tick without one
    ok : BOOLEAN ]                      \* WorkflowRun.ok

OInit == Init /\ run = NoRun

\* (Variant: the loop runs once too often.)
ReconcilingOnceMore(name, c) ==
  [NoRun EXCEPT !.phase = "reconcile", !.name = name, !.cluster = c,
                !.left = MaxTicks + 1, !.ok = TRUE]

\* A call of run_until_converged, after the activities that precede it.
Reconciling(name, c) ==
  [NoRun EXCEPT !.phase = "reconcile", !.name = name, !.cluster = c,
                !.left = MaxTicks, !.ok = TRUE]

\* cluster_bringup_workflow, of a cluster that has been declared
BringUp(c) ==
  /\ run.phase = "none" /\ tick.pc = "idle" /\ Declared(c)
  /\ run' = Reconciling("bringup", c)
  /\ UNCHANGED vars

\* cluster_decommission_workflow
Decommission(c) ==
  /\ run.phase = "none"
  /\ DecommissionCluster(c)
  /\ run' = Reconciling("decommission", c)

\* (Variant: only creations and removals count.)
LoggedLifetimes ==
  \E n \in NodeId : node[n] # node'[n] /\ "ABSENT" \in {node[n].state, node'[n].state}

\* A step of a tick that appends to actions: every write of a node, and the end
\* of a teardown; the other states of a cluster are written silently.
Logged ==
  \/ node' # node
  \/ \E c \in Cluster :
       cluster[c].state # "DECOMMISSIONED" /\ cluster'[c].state = "DECOMMISSIONED"

\* (Variant: the bound is not counted down.)
RunBeginTickUncounted ==
  /\ run.phase = "reconcile" /\ run.left > 0
  /\ BeginTick
  /\ run' = [run EXCEPT !.acted = FALSE]

\* The loop body of run_until_converged
RunBeginTick ==
  /\ run.phase = "reconcile" /\ run.left > 0
  /\ BeginTick
  /\ run' = [run EXCEPT !.left = @ - 1, !.acted = FALSE]

RunInTick ==
  /\ run.phase = "reconcile" /\ tick.pc # "idle"
  /\ Tick /\ ~EndTick
  /\ run' = [run EXCEPT !.acted = @ \/ Logged]

\* What follows the loop: a bring-up verifies, a decommission returns.
AfterLoop == IF run.name = "bringup" THEN "verify" ELSE "ended"

RunEndTick ==
  /\ run.phase = "reconcile"
  /\ EndTick
  /\ run' = [run EXCEPT !.converged = ~run.acted,
                        !.phase = IF run.acted /\ run.left > 0 THEN @ ELSE AfterLoop]

\* activity_verify_homogeneity: one hash among the HEALTHY nodes of each pool
Homogeneous(c) ==
  \A p \in PoolsOf(c) : Cardinality({node[n].image : n \in InState(p, {"HEALTHY"})}) <= 1

Verify ==
  /\ run.phase = "verify"
  /\ run' = [run EXCEPT !.phase = "ended", !.ok = @ /\ Homogeneous(run.cluster)]
  /\ UNCHANGED vars

Return ==
  /\ run.phase = "ended"
  /\ run' = NoRun
  /\ UNCHANGED vars

RunStep == RunBeginTick \/ RunInTick \/ RunEndTick \/ Verify \/ Return

\* Time passes while a run is between two ticks.
Elapse ==
  /\ run.phase # "none"
  /\ \E n \in NodeId : HeartbeatExpires(n)
  /\ UNCHANGED run

\* A run that is lost is not resumed: a later one starts over on what is stored.
RunLost ==
  /\ run.phase # "none"
  /\ Failure
  /\ run' = NoRun

\* The loop, operators and crashes while no workflow runs
NoWorkflow ==
  /\ run.phase = "none"
  /\ Next
  /\ UNCHANGED run

ONext ==
  \/ NoWorkflow
  \/ \E c \in Cluster : BringUp(c) \/ Decommission(c)
  \/ RunStep \/ Elapse \/ RunLost

OSpec == OInit /\ [][ONext]_allVars

\* A call that has been made goes on; that one is made is up to operators.
OFairSpec == OSpec /\ WF_allVars(RunStep)

-----------------------------------------------------------------------------
(* Properties *)

\* The record of a run keeps its type; no tick is taken beyond max_ticks.
RunTypeOK == run \in RunRecord

NothingLeft(c) == \A p \in PoolsOf(c) : InState(p, LIVE_STATES) = {}

\* Where a limit is zero, failed and stale nodes stay as they are, or none is created.
MayTend(p) ==
  GlobalMaxReplacements > 0 /\ spec[p].maxUnavailable > 0 /\ spec[p].maxProvision > 0

Tended(c) == \A p \in PoolsOf(c) : MayTend(p)

\* Exactly the desired nodes are live, all HEALTHY on the desired image.
PoolDone(p) ==
  /\ Cardinality(InState(p, {"HEALTHY"})) = spec[p].desired
  /\ InState(p, LIVE_STATES) = InState(p, {"HEALTHY"}) \ Stale(p)

\* What a cluster is when nothing is left to do: a serving cluster is ACTIVE and its
\* pools are done, where their limits let the loop work on them; another one is
\* DECOMMISSIONED and has no instance.  Nodes that were only REQUESTED when the teardown
\* began are excepted: _drain_cluster does not visit them.
ClusterDone(c) ==
  IF Serving(c)
  THEN Tended(c) => cluster[c].state = "ACTIVE" /\ \A p \in PoolsOf(c) : PoolDone(p)
  ELSE cluster[c].state = "DECOMMISSIONED" /\ NothingLeft(c)

\* When run_until_converged has seen a tick without actions, the cluster of the run
\* really is done, whatever crashes, failed creations and updates came before
\* (run_until_converged, "converged").
QuietMeansDone ==
  run.phase \in {"verify", "ended"} /\ run.converged => ClusterDone(run.cluster)

\* A bring-up that converged fails its own verification only where nodes must not
\* be replaced, whatever updates came in the middle of a provisioning or a roll
\* (activity_verify_homogeneity).
ConvergedRunIsOk ==
  run.phase = "ended" /\ run.converged /\ Tended(run.cluster) => run.ok

\* Every run returns or is lost in a crash, also when creations fail for ever
\* and the system never converges (run_until_converged, max_ticks).
RunReturns == run.phase # "none" ~> run.phase = "none"

-----------------------------------------------------------------------------
(* The inductive invariant behind the proofs of OrchestrationProofs.  Until *)
(* a tick has acted, what it has been through needs nothing.                *)

Quiet == run.phase = "reconcile" /\ tick.pc # "idle" /\ ~run.acted

\* A cluster that has been visited is done.
DoneClusters ==
  Quiet =>
    /\ tick.pc \in {"detect", "clusters", "gc"} => tick.cluster = None
    /\ tick.pc # "detect" =>
         \A c \in Cluster \ tick.clusters : Declared(c) /\ c # tick.cluster => ClusterDone(c)
    /\ tick.pc = "gc" => tick.clusters = {}
    /\ tick.pc = "teardown" /\ tick.anyLive => tick.nodes # {}

\* So is a pool, where its limits let the loop work on it.
DonePools ==
  Quiet /\ tick.pc \in PoolPhases \union {"pools"} =>
    /\ tick.used = 0
    /\ \A p \in PoolsOf(tick.cluster) \ tick.pools :
         (tick.pc \in PoolPhases => p # tick.pool) /\ MayTend(p) => PoolDone(p)

\* The phases of a pool have their work lists and budgets as they were made, and
\* have left nothing to the phases after them.
UntouchedPhases ==
  LET p == tick.pool
  IN Quiet =>
       /\ tick.pc = "advance" => InState(p, InFlightStates) \subseteq tick.nodes
       /\ tick.pc \in PoolPhases \ {"advance"} => InState(p, InFlightStates) = {}
       /\ tick.pc = "heal" => tick.nodes = InState(p, {"FAILED"}) /\ tick.budget = HealBudget(p)
       /\ tick.pc \in {"roll", "create", "down"} /\ MayTend(p) => InState(p, {"FAILED"}) = {}
       /\ tick.pc = "roll" => tick.nodes = Stale(p) /\ tick.budget = RollBudget(p)
       /\ tick.pc \in {"create", "down"} /\ MayTend(p) => Stale(p) = {}
       /\ tick.pc = "create" => Deficit(p) >= 0 /\ tick.budget = CreateBudget(p)
       /\ tick.pc = "down" =>
            /\ Deficit(p) < 0
            /\ tick.nodes = InState(p, {"HEALTHY"}) /\ tick.budget = DownBudget(p)

QuietShape == DoneClusters /\ DonePools /\ UntouchedPhases

\* A run is about a declared cluster; a cluster that is DECOMMISSIONED stays so and
\* has nothing left; no code takes a node to UPDATING.
SettledShape ==
  /\ run.phase # "none" => run.cluster \in Cluster /\ Declared(run.cluster)
  /\ \A c \in Cluster : cluster[c].state = "DECOMMISSIONED" =>
       cluster[c].desired = "DECOMMISSIONED" /\ NothingLeft(c)
  /\ \A n \in NodeId : node[n].state # "UPDATING"

\* Only a verification says that a run is not ok.
OkShape == run.phase \in {"reconcile", "verify"} => run.ok

\* There is always another id: what uuid4 gives, and a bounded set may not.
IdsSuffice == tick.pc = "create" /\ tick.budget > 0 => \E n \in NodeId : FreshId(n)
=============================================================================
