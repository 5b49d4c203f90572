-------------------------------- MODULE Demos --------------------------------
(***************************************************************************)
(* The scripts of sim/ and a session of cli.py: fixed sequences of API     *)
(* calls and of loops that tick until something holds or a bound is        *)
(* reached, over Telemetry.  sim/observe.py feeds the dashboard, which     *)
(* appends to its series after every tick.                                 *)
(*                                                                         *)
(* Simplifications: printing is left out, and so are the pool sizes: one   *)
(* declaration (Fleet) stands for the spec of every script.  How           *)
(* active_active.py splits its requests is module TrafficDirector.  A      *)
(* script is over before a heartbeat expires, and no creation fails        *)
(* (failure_rate is 0).                                                    *)
(***************************************************************************)
EXTENDS Telemetry, Sequences, Functions

CONSTANTS
  Fleet,              \* the declaration of every pool
  Rolled, Struck,     \* the pools that are rolled, and that are struck by failures
  NewImage,           \* what Rolled is rolled to
  MaxKills            \* how often a process of the session may be killed

ASSUME PoolFinite == IsFiniteSet(Pool)
ASSUME FleetType == Fleet \in [Pool -> PoolSpecs] /\ {Rolled, Struck} \subseteq Pool
ASSUME NewImageType == NewImage \in Image
ASSUME MaxKillsType == MaxKills \in Nat

VARIABLES
  script,             \* which script runs, and where it is
  dash                \* DashboardData

dvars == <<tvars, script, dash>>

Script == {"simulate", "multicloud", "active_active", "observe", "clusterctl"}

\* An API call; failures of up to k nodes of Struck; a loop of at most k ticks.
Call(op) == [op |-> op, times |-> 1, until |-> "never"]
Failures(k) == [op |-> "inject", times |-> k, until |-> "never"]
Loop(k, until) == [op |-> "loop", times |-> k, until |-> until]

\* run_until_converged, by default with a bound of 100 ticks
Converge == Loop(100, "quiet")

\* Every command is a process of its own on the store file.
Command(i) == <<Call("process"), i>>

Program ==
  [ simulate |->
      <<Call("apply"), Converge, Call("update"), Converge, Failures(1), Converge,
        Call("decommission"), Converge>>,
    multicloud |-> <<Call("apply"), Loop(200, "quiet")>>,
    active_active |-> <<Call("apply"), Converge, Loop(1, "never")>>,
    observe |->
      <<Call("apply"), Loop(20, "satisfied"), Loop(1, "never"), Loop(3, "never"),
        Failures(5), Loop(25, "enough"), Loop(1, "never"),
        Call("decommission"), Loop(60, "empty"), Loop(1, "never")>>,
    clusterctl |->
      Command(Call("declare")) \o Command(Converge) \o Command(Call("update"))
        \o Command(Converge) \o Command(Call("force")) \o Command(Converge)
        \o Command(Call("decommission")) \o Command(Converge) ]

Ended == script.at > Len(Program[script.name])
Here == Program[script.name][script.at]

\* The script after the present instruction
Advanced ==
  [ script EXCEPT
      !.at = @ + 1,
      !.left = IF script.at < Len(Program[script.name])
               THEN Program[script.name][script.at + 1].times ELSE 0 ]

NoSeries ==
  [ ticks |-> 0, healthy |-> <<>>, desired |-> <<>>, by_provider |-> <<>>,
    by_state |-> <<>>, failures |-> <<>>, heals |-> <<>>, created |-> <<>> ]

DInit ==
  /\ TInit
  /\ script \in {[name |-> s, at |-> 1, left |-> 1, kills |-> 0] : s \in Script}
  /\ dash = NoSeries

-----------------------------------------------------------------------------
(* The dashboard *)

Zeros(k) == [i \in 1 .. k |-> 0]

\* (Variant: a series that begins late is padded by one zero too many.)
ExtendedTooFar(series, f) ==
  [ k \in DOMAIN series \union DOMAIN f |->
      Append(IF k \in DOMAIN series THEN series[k] ELSE Zeros(dash.ticks + 1),
             IF k \in DOMAIN f THEN f[k] ELSE 0) ]

\* A series that begins late is padded with zeros; one whose key is gone goes on.
Extended(series, f) ==
  [ k \in DOMAIN series \union DOMAIN f |->
      Append(IF k \in DOMAIN series THEN series[k] ELSE Zeros(dash.ticks),
             IF k \in DOMAIN f THEN f[k] ELSE 0) ]

\* What capture() adds up from the gauges g: HEALTHY nodes of the pools in ps,
\* then provider by provider, and nodes state by state.
HealthyIn(g, ps) == SumFunction([p \in ps |-> g.pools[p].healthy])

ByProvider(g) ==
  LET Of(q) == {p \in DOMAIN g.pools : g.pools[p].provider = q}
  IN [q \in {g.pools[p].provider : p \in DOMAIN g.pools} |-> HealthyIn(g, Of(q))]

ByState(g) ==
  LET With(s) == {p \in DOMAIN g.pools : s \in DOMAIN g.pools[p].by_state}
  IN [ s \in UNION {DOMAIN g.pools[p].by_state : p \in DOMAIN g.pools} |->
         SumFunction([p \in With(s) |-> g.pools[p].by_state[s]]) ]

\* capture(), from a snapshot of gauges g and counters c
capture(g, c) ==
  [ ticks |-> dash.ticks + 1,
    healthy |-> Append(dash.healthy, HealthyIn(g, DOMAIN g.pools)),
    desired |-> Append(dash.desired, SumFunction([p \in DOMAIN g.pools |-> g.pools[p].desired])),
    by_provider |-> Extended(dash.by_provider, ByProvider(g)),
    by_state |-> Extended(dash.by_state, ByState(g)),
    failures |-> Append(dash.failures, SumFunction(c.failed)),
    heals |-> Append(dash.heals, c.heals),
    created |-> Append(dash.created, c.created) ]

-----------------------------------------------------------------------------
(* API calls *)

Do(op) == ~Ended /\ Here.op = op /\ tick.pc = "idle"

NoTick == UNCHANGED <<count, actions, gauge, began, dash>>

\* The scripts declare all pools at once, cli.py one pool a command.
Apply ==
  /\ \/ Do("apply") /\ spec' = Fleet
     \/ Do("declare") /\ spec' = [spec EXCEPT ![Rolled] = Fleet[Rolled]]
  /\ \E c \in Cluster : ApplyCluster(c)
  /\ script' = Advanced /\ NoTick

Update ==
  /\ Do("update")
  /\ RollingUpdate(Rolled) /\ spec'[Rolled].image = NewImage
  /\ script' = Advanced /\ NoTick

Decommission ==
  /\ Do("decommission")
  /\ \E c \in Cluster : DecommissionCluster(c)
  /\ script' = Advanced /\ NoTick

ForceDrain ==
  /\ Do("force")
  /\ \E n \in NodeId : ForceDecommissionNode(n)
  /\ script' = Advanced /\ NoTick

Victims == {n \in InState(Struck, {"HEALTHY"}) : node[n].signal # "failed"}

\* simulate.py takes the first victim of a list that must not be empty.
Inject(n) ==
  /\ Do("inject") /\ n \in Victims
  /\ ReportHealth(n) /\ node'[n].signal = "failed"
  /\ script' = IF script.left = 1 \/ Victims = {n} THEN Advanced
               ELSE [script EXCEPT !.left = @ - 1]
  /\ NoTick

\* _ctx of the next command
Process ==
  /\ Do("process")
  /\ Crash /\ NewProcess
  /\ script' = Advanced
  /\ UNCHANGED dash

-----------------------------------------------------------------------------
(* Loops *)

Looping == ~Ended /\ Here.op = "loop"

\* (Variant: a tick that creates nothing counts as quiet.)
HoldsAfterTickSoon(until) ==
  \/ until = "quiet" /\ actions["create"] = 0
  \/ until = "satisfied" /\ \A p \in Pool : PoolSatisfied(p)
  \/ until = "enough"
     /\ Cardinality({n \in NodeId : node[n].state = "HEALTHY"})
          >= SumFunction([p \in Pool |-> Fleet[p].desired])
  \/ until = "empty" /\ Records = {}

\* What a loop waits for; the last step of a tick moves no node.
HoldsAfterTick(until) ==
  \/ until = "quiet" /\ actions = NoActions
  \/ until = "satisfied" /\ \A p \in Pool : PoolSatisfied(p)
  \/ until = "enough"
     /\ Cardinality({n \in NodeId : node[n].state = "HEALTHY"})
          >= SumFunction([p \in Pool |-> Fleet[p].desired])
  \/ until = "empty" /\ Records = {}

\* New ids are equal but for their names: the lowest is taken.
InTick ==
  /\ Looping
  /\ \/ PhaseStep
     \/ \E n \in NodeId : /\ NodeActs(n)
                          /\ tick.pc = "create" => \A m \in NodeId : FreshId(m) => n <= m
  /\ UNCHANGED <<script, dash>>

TickEnds ==
  /\ Looping
  /\ LastStep
  /\ script' = IF script.left = 1 \/ HoldsAfterTick(Here.until) THEN Advanced
               ELSE [script EXCEPT !.left = @ - 1]
  /\ dash' = IF script.name = "observe" THEN capture(gauge', count') ELSE dash

\* A `reconcile' is killed at any moment and started again.
Killed ==
  /\ Looping /\ script.name = "clusterctl" /\ script.kills < MaxKills
  /\ TFailure
  /\ script' = [script EXCEPT !.left = Here.times, !.kills = @ + 1]
  /\ UNCHANGED dash

DStep ==
  \/ Apply \/ Update \/ Decommission \/ ForceDrain \/ Process
  \/ \E n \in NodeId : Inject(n)
  \/ InTick \/ TickEnds

DNext == DStep \/ Killed

DSpec == DInit /\ [][DNext]_dvars

\* A script that has been started runs; nobody must kill it.
DFairSpec == DSpec /\ WF_dvars(DStep)

-----------------------------------------------------------------------------
(* Properties *)

Delivered(until) ==
  /\ until = "quiet" => Converged
  /\ until \in {"satisfied", "enough"} =>
       /\ \A p \in Pool : PoolSatisfied(p)
       /\ \A n \in NodeId : node[n].signal = "failed" => node[n].state # "HEALTHY"
  /\ until = "empty" => Records = {}

\* No loop of a script runs into its bound or stops too early: when it is left, what
\* the script then announces is true ("converged", "steady state", "recovered",
\* "decommissioned").  The test in the code is weaker: no actions, or a count.
LoopsDeliver ==
  [][ script'.at # script.at /\ ~Ended /\ Here.op = "loop" =>
        \A until \in {"quiet", "satisfied", "enough", "empty"} :
          Here.until = until => Delivered(until)' ]_dvars

Gone ==
  /\ Records = {} /\ \A q \in Provider, n \in NodeId : fleet[q][n] \notin Image
  /\ \A c \in Cluster : cluster[c].state = "DECOMMISSIONED"

\* Every script comes to its end, with its fleet up, or torn down and marked so:
\* observe.py needs its last tick for that.  A killed reconcile is made good by the
\* next (cli.py, sim/).
ScriptEnds ==
  <>[]( /\ Ended
        /\ IF script.name \in {"multicloud", "active_active"} THEN Converged ELSE Gone )

\* The sum of the series of f at tick i
SumAt(f, i) == SumFunction([k \in DOMAIN f |-> f[k][i]])

\* The series of the dashboard tell one story: they are equally long, at every tick
\* the HEALTHY nodes by state, by provider and in all are the same, there are never
\* more nodes than were created, and never more self-heals than failures (capture).
SeriesAgree ==
  \A i \in 1 .. dash.ticks :
    /\ \A s \in {dash.desired, dash.failures, dash.heals, dash.created} : Len(s) = dash.ticks
    /\ \A k \in DOMAIN dash.by_state : Len(dash.by_state[k]) = dash.ticks
    /\ dash.healthy[i] = SumAt(dash.by_provider, i)
    /\ dash.healthy[i] = (IF "HEALTHY" \in DOMAIN dash.by_state
                          THEN dash.by_state["HEALTHY"][i] ELSE 0)
    /\ SumAt(dash.by_state, i) <= dash.created[i]
    /\ dash.heals[i] <= dash.failures[i]

-----------------------------------------------------------------------------
(* The inductive invariant behind the proofs of TelemetryProofs *)

ScriptShape ==
  /\ DOMAIN script = {"name", "at", "left", "kills"} /\ script.name \in Script
  /\ script.name = "observe" => script.at \in 1 .. Len(Program.observe) + 1

\* Every series is a sequence of as many numbers as there were ticks.
IsSeries(s) == s \in Seq(Nat) /\ Len(s) = dash.ticks

AreSeries(f) == IsFiniteSet(DOMAIN f) /\ \A k \in DOMAIN f : IsSeries(f[k])

SeriesShape ==
  /\ dash.ticks \in Nat
  /\ IsSeries(dash.healthy) /\ IsSeries(dash.desired) /\ IsSeries(dash.failures)
  /\ IsSeries(dash.heals) /\ IsSeries(dash.created)
  /\ AreSeries(dash.by_provider) /\ AreSeries(dash.by_state)

\* What the gate asks for is there as soon as the stage that brings it about is over.
GateReady(r, s) ==
  /\ r.state \in {"BOOTSTRAPPING", "REGISTERING"} => r.baseline
  /\ r.state = "REGISTERING" => r.attested /\ r.image = s.image

NoFailedCreation == \A q \in Provider, n \in NodeId : fleet[q][n] # "failed"

\* observe.py is one process on an empty store, on clouds where no creation fails: its
\* nodes pass the gate, and every failure is counted.
WatchedShape ==
  script.name = "observe" =>
    /\ began = [records |-> 0, failed |-> 0]
    /\ script.at = 1 => Records = {}
    /\ NoFailedCreation
    /\ \A n \in NodeId : GateReady(node[n], spec[node[n].pool])
    /\ FailuresAccounted
=============================================================================
