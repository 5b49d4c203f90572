--------------------------- MODULE FailureDetector ---------------------------
(***************************************************************************)
(* Failure detection with time: agents report their health, the reports    *)
(* take time, overtake one another and get lost, the API stores them as    *)
(* they come (control_plane/api.py), and the control loop compares the     *)
(* last time stamp with its own clock (_detect_failures).                  *)
(*                                                                         *)
(* Module Reconciler takes the signals that reach a node as given; here    *)
(* they come about.  What the control loop does with a FAILED node is left *)
(* to that module: here FAILED is the end of a node.                       *)
(*                                                                         *)
(* Time is an integer.  The environment is bounded by what it is assumed   *)
(* to do in time: Advance waits until everything that is due has happened. *)
(* A report that is lost is one that was never sent: MaxGap bounds the     *)
(* time between two that get through.  "degraded" and "draining" are       *)
(* stored and read by nobody, so they are left out; "failed" is what the   *)
(* scripts and tests report in the name of an agent.                       *)
(***************************************************************************)
EXTENDS Integers

CONSTANTS
  NodeId,
  HEARTBEAT_TIMEOUT,
  MaxGap,             \* the longest time between two reports of an agent
  MaxDelay,           \* the longest time a report is under way
  MaxSkew,            \* how far an agent's clock is off at most
  MaxPeriod,          \* the longest time from one tick of the loop to the next
  Start, MaxTime      \* the time at the beginning and a bound for TLC

ASSUME DurationsType ==
  /\ {HEARTBEAT_TIMEOUT, MaxGap, MaxDelay, MaxSkew, MaxPeriod} \subseteq Nat
  /\ {Start, MaxTime} \subseteq Nat

\* No time stamp is 0.0, which stands for "never reported".
ASSUME StartLater == Start > MaxSkew

\* The time-out is long enough for the environment.  A report that overtakes
\* an older one is overwritten by it, which costs another MaxDelay.
ASSUME TimeoutSuffices == MaxGap + 2 * MaxDelay + MaxSkew <= HEARTBEAT_TIMEOUT

VARIABLES
  now,                \* the clock of the control plane
  node,               \* node[n]: what the store holds of n
  agent,              \* agent[n]: the agent on n
  net,                \* the reports under way
  loop                \* the control loop

vars == <<now, node, agent, net, loop>>

Status == {"healthy", "failed"}

Report == [node : NodeId, status : Status, ts : Nat]

NodeRecord ==
  [ state : {"REGISTERING", "HEALTHY", "FAILED"},
    health : Status \union {"unknown"},
    last_heartbeat : Nat,
    updated_at : Nat ]

AgentRecord ==
  [ mode : Status \union {"silent"},
    since : Nat,                        \* when it ceased to be well
    sent : Nat,                         \* when it last reported
    skew : -MaxSkew .. MaxSkew ]        \* its clock minus ours

LoopRecord == [pc : {"idle", "tick"}, now : Nat]

Init ==
  /\ now = Start
  /\ node = [n \in NodeId |-> [state |-> "REGISTERING", health |-> "unknown",
                               last_heartbeat |-> 0, updated_at |-> Start]]
  /\ agent \in [NodeId -> [mode : {"healthy"}, since : {Start}, sent : {Start},
                           skew : -MaxSkew .. MaxSkew]]
  /\ net = {}
  /\ loop = [pc |-> "idle", now |-> Start]

-----------------------------------------------------------------------------
(* The agents and the network *)

\* health_report, and its way to the API
HealthReport(n) ==
  /\ agent[n].mode # "silent"
  /\ net' = net \union {[node |-> n, status |-> agent[n].mode, ts |-> now + agent[n].skew]}
  /\ agent' = [agent EXCEPT ![n].sent = now]
  /\ UNCHANGED <<now, node, loop>>

\* A node breaks down: its agent says so, or says nothing any more.
BreakDown(n) ==
  /\ agent[n].mode # "silent"
  /\ \E m \in {"failed", "silent"} \ {agent[n].mode} :
       agent' = [agent EXCEPT ![n].mode = m,
                              ![n].since = IF agent[n].mode = "healthy" THEN now ELSE @]
  /\ UNCHANGED <<now, node, net, loop>>

\* (Variant: only the time of a report is stored.)
report_health_kept(r) ==
  /\ loop.pc = "idle" /\ r \in net
  /\ node' = [node EXCEPT ![r.node].last_heartbeat = r.ts]
  /\ net' = net \ {r}
  /\ UNCHANGED <<now, agent, loop>>

\* (Variant: the age of a report is stored.)
report_health_age(r) ==
  /\ loop.pc = "idle" /\ r \in net
  /\ node' = [node EXCEPT ![r.node].health = r.status, ![r.node].last_heartbeat = now - r.ts]
  /\ net' = net \ {r}
  /\ UNCHANGED <<now, agent, loop>>

\* report_health, in whatever order the reports arrive
report_health(r) ==
  /\ loop.pc = "idle" /\ r \in net
  /\ node' = [node EXCEPT ![r.node].health = r.status, ![r.node].last_heartbeat = r.ts]
  /\ net' = net \ {r}
  /\ UNCHANGED <<now, agent, loop>>

-----------------------------------------------------------------------------
(* The control loop *)

\* run_until_converged reads the clock before it calls tick(now).
BeginTick ==
  /\ loop.pc = "idle"
  /\ loop' = [pc |-> "tick", now |-> now]
  /\ UNCHANGED <<now, node, agent, net>>

\* (Variant: the time-out is reached rather than exceeded.)
SuspectEarly(n) ==
  /\ node[n].state = "HEALTHY"
  /\ \/ node[n].last_heartbeat # 0 /\ loop.now - node[n].last_heartbeat >= HEARTBEAT_TIMEOUT
     \/ node[n].health = "failed"

\* The condition of _detect_failures
Suspect(n) ==
  /\ node[n].state = "HEALTHY"
  /\ \/ node[n].last_heartbeat # 0 /\ loop.now - node[n].last_heartbeat > HEARTBEAT_TIMEOUT
     \/ node[n].health = "failed"

\* transition()
Moved(n, state) == [node[n] EXCEPT !.state = state, !.updated_at = now]

\* The rest of the tick, some time later: detection first, then nodes at the end of
\* their provisioning are admitted, whatever they have reported so far.
FinishTick ==
  /\ loop.pc = "tick"
  /\ \E admitted \in SUBSET {n \in NodeId : node[n].state = "REGISTERING"} :
       node' = [n \in NodeId |-> IF Suspect(n) THEN Moved(n, "FAILED")
                                 ELSE IF n \in admitted THEN Moved(n, "HEALTHY") ELSE node[n]]
  /\ loop' = [loop EXCEPT !.pc = "idle"]
  /\ UNCHANGED <<now, agent, net>>

-----------------------------------------------------------------------------
(* Time *)

Sent(r) == r.ts - agent[r.node].skew

Advance ==
  /\ now < MaxTime
  /\ \A n \in NodeId : agent[n].mode # "silent" => now < agent[n].sent + MaxGap
  /\ \A r \in net : now < Sent(r) + MaxDelay
  /\ now < loop.now + MaxPeriod
  /\ now' = now + 1
  /\ UNCHANGED <<node, agent, net, loop>>

Next ==
  \/ \E n \in NodeId : HealthReport(n) \/ BreakDown(n)
  \/ \E r \in net : report_health(r)
  \/ BeginTick \/ FinishTick \/ Advance

Spec == Init /\ [][Next]_vars

-----------------------------------------------------------------------------
(* Properties *)

\* Every variable keeps its type.
TypeOK ==
  /\ now \in Nat
  /\ node \in [NodeId -> NodeRecord]
  /\ agent \in [NodeId -> AgentRecord]
  /\ net \subseteq Report
  /\ loop \in LoopRecord

\* A node whose agent is well and reports is never given up, however its reports
\* are delayed, overtake one another or come from a clock that is off, and however
\* long the tick takes that reads them (_detect_failures; report_health stores
\* whatever comes last).
NoFalseAlarm == \A n \in NodeId : node[n].state = "FAILED" => agent[n].mode # "healthy"

Later(a, b) == IF a > b THEN a ELSE b

\* When a broken node is due to be given up
Due(n) == Later(agent[n].since + MaxSkew + HEARTBEAT_TIMEOUT, node[n].updated_at)

\* A node that has broken down does not stay HEALTHY: once the time-out is over, and
\* the node admitted, two ticks are enough (ARCHITECTURE.md 5, "missing heartbeats
\* past HEARTBEAT_TIMEOUT -> node marked FAILED").  A node that never reported is
\* excepted: last_heartbeat 0.0 switches the time-out off.
DetectedInTime ==
  \A n \in NodeId :
    /\ node[n].state = "HEALTHY" /\ node[n].last_heartbeat # 0
    /\ agent[n].mode # "healthy"
    => now <= Due(n) + 2 * MaxPeriod

-----------------------------------------------------------------------------
(* The inductive invariant behind the proofs of FailureDetectorProofs *)

Own(n) == {r \in net : r.node = n}

\* When the report the store holds of n was sent, by our clock
LastSent(n) == node[n].last_heartbeat - agent[n].skew

\* Nothing is overdue: that is what the environment is assumed to do in time.
TimeShape ==
  /\ Start <= now /\ loop.now <= now /\ now <= loop.now + MaxPeriod
  /\ \A r \in net : Start <= Sent(r) /\ Sent(r) <= now /\ now <= Sent(r) + MaxDelay
  /\ \A n \in NodeId :
       /\ Start <= agent[n].since /\ agent[n].since <= now /\ agent[n].sent <= now
       /\ agent[n].mode # "silent" => now <= agent[n].sent + MaxGap

\* Reports are true of the time they were sent at.
ReportShape ==
  \A n \in NodeId :
    /\ agent[n].mode = "healthy" =>
         node[n].health # "failed" /\ \A r \in Own(n) : r.status = "healthy"
    /\ agent[n].mode # "healthy" =>
         /\ \A r \in Own(n) : r.status = "healthy" => Sent(r) <= agent[n].since
         /\ node[n].health = "healthy" => LastSent(n) <= agent[n].since
    /\ node[n].health = "unknown" <=> node[n].last_heartbeat = 0
    /\ node[n].last_heartbeat # 0 => Start <= LastSent(n) /\ LastSent(n) <= now

\* The report that was stored last is not much older than the next one under way
\* or, if there is none, than the last one sent; the first one comes in time.
FreshShape ==
  \A n \in NodeId :
    /\ node[n].last_heartbeat # 0 /\ agent[n].mode # "silent" =>
         \/ \E r \in Own(n) : Sent(r) <= LastSent(n) + MaxDelay + MaxGap
         \/ Own(n) = {} /\ agent[n].sent <= LastSent(n) + MaxDelay
    /\ node[n].last_heartbeat = 0 /\ Own(n) = {} => agent[n].sent = Start
    /\ node[n].last_heartbeat = 0 /\ agent[n].mode # "healthy" =>
         Own(n) = {} \/ \E r \in Own(n) : Sent(r) <= agent[n].since + MaxGap

\* A tick that began after that gives the node up; a tick takes a period at most.
DueShape ==
  \A n \in NodeId :
    /\ node[n].state = "HEALTHY" /\ node[n].last_heartbeat # 0
    /\ agent[n].mode # "healthy"
    => loop.now <= Due(n) + (IF loop.pc = "tick" THEN MaxPeriod ELSE 0)

IInv ==
  TypeOK /\ TimeShape /\ ReportShape /\ FreshShape /\ NoFalseAlarm /\ DueShape
=============================================================================
