------------------------ MODULE FailureDetectorProofs ------------------------
(***************************************************************************)
(* Failure detection raises no false alarm and is done in time, for every  *)
(* number of nodes and all durations the time-out suffices for.  The nodes *)
(* do not meet, so that each step is looked at for one node at a time;     *)
(* what makes the argument is FreshShape: the last report stored and the   *)
(* next one to come are never far apart.                                   *)
(***************************************************************************)
EXTENDS FailureDetector, TLAPS

USE DEF Status

\* What the assumptions say, for the provers.
LEMMA Durations ==
  /\ HEARTBEAT_TIMEOUT \in Nat /\ MaxGap \in Nat /\ MaxDelay \in Nat /\ MaxSkew \in Nat
  /\ MaxPeriod \in Nat /\ Start \in Nat /\ MaxSkew < Start
  /\ MaxGap + 2 * MaxDelay + MaxSkew <= HEARTBEAT_TIMEOUT
BY DurationsType, StartLater, TimeoutSuffices

\* The fields of the records, with their types.
LEMMA Fields ==
  ASSUME TypeOK
  PROVE  /\ now \in Int /\ loop.now \in Int /\ loop.pc \in {"idle", "tick"}
         /\ \A n \in NodeId :
              /\ node[n].state \in {"REGISTERING", "HEALTHY", "FAILED"}
              /\ node[n].health \in {"healthy", "failed", "unknown"}
              /\ node[n].last_heartbeat \in Nat /\ node[n].updated_at \in Nat
              /\ agent[n].mode \in {"healthy", "failed", "silent"}
              /\ agent[n].since \in Nat /\ agent[n].sent \in Nat
              /\ agent[n].skew \in Int
              /\ -MaxSkew <= agent[n].skew /\ agent[n].skew <= MaxSkew
         /\ \A r \in net : /\ r.node \in NodeId /\ r.status \in {"healthy", "failed"}
                           /\ r.ts \in Nat
BY Durations DEF TypeOK, NodeRecord, AgentRecord, LoopRecord, Report

LEMMA Initial ==
  Init => IInv
<1> SUFFICES ASSUME Init PROVE IInv
  OBVIOUS
<1> USE Durations
<1>1. TypeOK
  BY DEF Init, TypeOK, NodeRecord, AgentRecord, LoopRecord, Report
<1>2. \A n \in NodeId : /\ agent[n].mode = "healthy" /\ agent[n].since = Start
                        /\ agent[n].sent = Start
                        /\ node[n].state = "REGISTERING" /\ node[n].health = "unknown"
                        /\ node[n].last_heartbeat = 0
  BY DEF Init
<1>3. now = Start /\ net = {} /\ loop.now = Start /\ loop.pc = "idle"
  BY DEF Init
<1>4. TimeShape
  BY <1>2, <1>3 DEF TimeShape
<1>5. ReportShape /\ FreshShape
  BY <1>2, <1>3 DEF ReportShape, FreshShape, Own
<1>6. NoFalseAlarm /\ DueShape
  BY <1>2 DEF NoFalseAlarm, DueShape
<1> QED
  BY <1>1, <1>4, <1>5, <1>6 DEF IInv

-----------------------------------------------------------------------------
(* Every step keeps the invariant *)

LEMMA ReportSent ==
  ASSUME IInv, NEW n \in NodeId, HealthReport(n)
  PROVE  IInv'
<1> USE Durations
<1>1. TypeOK /\ TimeShape /\ ReportShape /\ FreshShape /\ NoFalseAlarm /\ DueShape
  BY DEF IInv
<1>2. /\ now' = now /\ node' = node /\ loop' = loop
      /\ agent[n].mode # "silent" /\ agent' = [agent EXCEPT ![n].sent = now]
  BY DEF HealthReport
<1>0. PICK new : /\ new = [node |-> n, status |-> agent[n].mode, ts |-> now + agent[n].skew]
                 /\ net' = net \union {new}
  BY DEF HealthReport
<1>3. /\ \A m \in NodeId : /\ agent'[m].mode = agent[m].mode /\ agent'[m].skew = agent[m].skew
                           /\ agent'[m].since = agent[m].since
                           /\ agent'[m].sent = IF m = n THEN now ELSE agent[m].sent
      /\ agent' \in [NodeId -> AgentRecord]
  BY <1>1, <1>2, Fields DEF TypeOK, AgentRecord, TimeShape
<1>4. new \in Report
  BY <1>0, <1>1, <1>2, Fields DEF Report, TimeShape
<1>5. TypeOK'
  BY <1>0, <1>1, <1>2, <1>3, <1>4 DEF TypeOK
<1>6. (\A r \in net : Sent(r)' = Sent(r)) /\ Sent(new)' = now
  BY <1>0, <1>1, <1>2, <1>3, <1>4, Fields DEF Sent
<1>7. /\ \A m \in NodeId : Own(m)' = Own(m) \union (IF m = n THEN {new} ELSE {})
      /\ \A m \in NodeId : LastSent(m)' = LastSent(m)
  BY <1>0, <1>2, <1>3 DEF Own, LastSent
<1>8. TimeShape'
  BY <1>0, <1>1, <1>2, <1>3, <1>6, Fields DEF TimeShape
<1>9. new.status = agent[n].mode
  BY <1>0
<1>10. \A m \in NodeId : Own(m) \subseteq net
  BY DEF Own
<1>11. ReportShape'
  <2> SUFFICES ASSUME NEW m \in NodeId
               PROVE  (/\ agent[m].mode = "healthy" =>
                            node[m].health # "failed" /\ \A r \in Own(m) : r.status = "healthy"
                       /\ agent[m].mode # "healthy" =>
                            /\ \A r \in Own(m) : r.status = "healthy" => Sent(r) <= agent[m].since
                            /\ node[m].health = "healthy" => LastSent(m) <= agent[m].since
                       /\ node[m].health = "unknown" <=> node[m].last_heartbeat = 0
                       /\ node[m].last_heartbeat # 0 =>
                            Start <= LastSent(m) /\ LastSent(m) <= now)'
    BY DEF ReportShape
  <2> QED
    BY <1>1, <1>2, <1>3, <1>6, <1>7, <1>9, <1>10, Fields DEF ReportShape
<1>12. FreshShape'
  <2> SUFFICES ASSUME NEW m \in NodeId
               PROVE  (/\ node[m].last_heartbeat # 0 /\ agent[m].mode # "silent" =>
                            \/ \E r \in Own(m) : Sent(r) <= LastSent(m) + MaxDelay + MaxGap
                            \/ Own(m) = {} /\ agent[m].sent <= LastSent(m) + MaxDelay
                       /\ node[m].last_heartbeat = 0 /\ Own(m) = {} => agent[m].sent = Start
                       /\ node[m].last_heartbeat = 0 /\ agent[m].mode # "healthy" =>
                            Own(m) = {} \/ \E r \in Own(m) : Sent(r) <= agent[m].since + MaxGap)'
    BY DEF FreshShape
  <2>1. CASE m # n
    BY <2>1, <1>1, <1>2, <1>3, <1>6, <1>7, <1>10 DEF FreshShape
  <2>2. CASE m = n
    <3>1. Own(m)' = Own(m) \union {new} /\ LastSent(m)' = LastSent(m)
      BY <2>2, <1>7
    <3>2. now <= agent[n].sent + MaxGap /\ Start <= agent[n].since
      BY <1>1, <1>2 DEF TimeShape
    <3>3. ASSUME node[m].last_heartbeat # 0
          PROVE  \E r \in Own(m)' : Sent(r)' <= LastSent(m)' + MaxDelay + MaxGap
      <4>1. CASE \E r \in Own(m) : Sent(r) <= LastSent(m) + MaxDelay + MaxGap
        BY <4>1, <3>1, <1>6, <1>10
      <4>2. CASE Own(m) = {} /\ agent[m].sent <= LastSent(m) + MaxDelay
        <5>1. Sent(new)' <= LastSent(m)' + MaxDelay + MaxGap
          BY <4>2, <3>1, <3>2, <2>2, <1>1, <1>6, Fields DEF LastSent
        <5> QED
          BY <5>1, <3>1 DEF Sent
      <4> QED
        BY <3>3, <4>1, <4>2, <2>2, <1>1, <1>2 DEF FreshShape
    <3>4. ASSUME node[m].last_heartbeat = 0, agent[m].mode # "healthy"
          PROVE  \E r \in Own(m)' : Sent(r)' <= agent'[m].since + MaxGap
      <4>1. CASE \E r \in Own(m) : Sent(r) <= agent[m].since + MaxGap
        BY <4>1, <3>1, <1>3, <1>6, <1>10
      <4>2. CASE Own(m) = {}
        <5>1. agent[m].sent = Start
          BY <4>2, <3>4, <1>1 DEF FreshShape
        <5>2. Sent(new)' <= agent'[m].since + MaxGap
          BY <5>1, <3>2, <2>2, <1>1, <1>3, <1>6, Fields
        <5> QED
          BY <5>2, <3>1 DEF Sent
      <4> QED
        BY <3>4, <4>1, <4>2, <1>1 DEF FreshShape
    <3> QED
      BY <3>1, <3>3, <3>4, <1>2, <1>3
  <2> QED
    BY <2>1, <2>2
<1>13. NoFalseAlarm' /\ DueShape'
  BY <1>1, <1>2, <1>3 DEF NoFalseAlarm, DueShape, Due
<1> QED
  BY <1>5, <1>8, <1>11, <1>12, <1>13 DEF IInv

LEMMA NodeBreaks ==
  ASSUME IInv, NEW n \in NodeId, BreakDown(n)
  PROVE  IInv'
<1> USE Durations
<1>1. TypeOK /\ TimeShape /\ ReportShape /\ FreshShape /\ NoFalseAlarm /\ DueShape
  BY DEF IInv
<1>2. /\ net' = net /\ now' = now /\ node' = node /\ loop' = loop
      /\ agent[n].mode # "silent"
  BY DEF BreakDown
<1>3. PICK m \in {"failed", "silent"} \ {agent[n].mode} :
        agent' = [agent EXCEPT ![n].mode = m,
                               ![n].since = IF agent[n].mode = "healthy" THEN now ELSE @]
  BY DEF BreakDown
<1>4. /\ \A k \in NodeId :
           /\ agent'[k].skew = agent[k].skew /\ agent'[k].sent = agent[k].sent
           /\ k # n => agent'[k] = agent[k]
      /\ agent'[n].mode \in {"failed", "silent"}
      /\ agent'[n].since = IF agent[n].mode = "healthy" THEN now ELSE agent[n].since
  BY <1>1, <1>3, Fields DEF TypeOK, AgentRecord
<1>5. TypeOK'
  <2>1. now \in Nat /\ agent[n] \in AgentRecord
    BY <1>1 DEF TypeOK
  <2>2. agent'[n] = [agent[n] EXCEPT !.mode = m, !.since = agent'[n].since]
    BY <1>1, <1>3, <1>4 DEF TypeOK, AgentRecord
  <2>3. agent'[n] \in AgentRecord
    <3>1. PICK d \in Nat : d = agent'[n].since
      BY <2>1, <1>3, <1>4 DEF AgentRecord
    <3>2. PICK a \in AgentRecord : a = agent[n]
      BY <2>1
    <3>3. [a EXCEPT !.mode = m, !.since = d] \in AgentRecord
      BY <3>1, <1>3 DEF AgentRecord
    <3> QED
      BY <3>1, <3>2, <3>3, <2>2
  <2>4. agent' \in [NodeId -> AgentRecord]
    BY <2>3, <1>1, <1>3 DEF TypeOK
  <2> QED
    BY <2>4, <1>1, <1>2 DEF TypeOK
<1>6. /\ \A r \in net : Sent(r)' = Sent(r)
      /\ \A k \in NodeId : Own(k)' = Own(k) /\ LastSent(k)' = LastSent(k) /\ Own(k) \subseteq net
  BY <1>1, <1>2, <1>4, Fields DEF Sent, Own, LastSent
<1>7. TimeShape'
  BY <1>1, <1>2, <1>4, <1>6, Fields DEF TimeShape
<1>8. ReportShape'
  <2> SUFFICES ASSUME NEW k \in NodeId
               PROVE  (/\ agent[k].mode = "healthy" =>
                            node[k].health # "failed" /\ \A r \in Own(k) : r.status = "healthy"
                       /\ agent[k].mode # "healthy" =>
                            /\ \A r \in Own(k) : r.status = "healthy" => Sent(r) <= agent[k].since
                            /\ node[k].health = "healthy" => LastSent(k) <= agent[k].since
                       /\ node[k].health = "unknown" <=> node[k].last_heartbeat = 0
                       /\ node[k].last_heartbeat # 0 =>
                            Start <= LastSent(k) /\ LastSent(k) <= now)'
    BY DEF ReportShape
  <2>1. \A r \in Own(k) : Sent(r) <= now
    BY <1>1, <1>6 DEF TimeShape
  <2>2. CASE k # n
    BY <2>2, <1>1, <1>2, <1>4, <1>6 DEF ReportShape
  <2>3. CASE k = n
    BY <2>1, <2>3, <1>1, <1>2, <1>4, <1>6, Fields DEF ReportShape
  <2> QED
    BY <2>2, <2>3
<1>9. FreshShape'
  <2> SUFFICES ASSUME NEW k \in NodeId
               PROVE  (/\ node[k].last_heartbeat # 0 /\ agent[k].mode # "silent" =>
                            \/ \E r \in Own(k) : Sent(r) <= LastSent(k) + MaxDelay + MaxGap
                            \/ Own(k) = {} /\ agent[k].sent <= LastSent(k) + MaxDelay
                       /\ node[k].last_heartbeat = 0 /\ Own(k) = {} => agent[k].sent = Start
                       /\ node[k].last_heartbeat = 0 /\ agent[k].mode # "healthy" =>
                            Own(k) = {} \/ \E r \in Own(k) : Sent(r) <= agent[k].since + MaxGap)'
    BY DEF FreshShape
  <2>1. CASE k # n
    BY <2>1, <1>1, <1>2, <1>4, <1>6 DEF FreshShape
  <2>2. CASE k = n
    <3>1. ASSUME NEW r \in Own(k), agent[n].mode = "healthy"
          PROVE  Sent(r)' <= agent'[k].since + MaxGap
      <4>1. r \in net
        BY <1>6
      <4>2. Sent(r) <= now /\ Sent(r) \in Int
        BY <4>1, <1>1, Fields DEF TimeShape, Sent
      <4> QED
        BY <4>1, <4>2, <3>1, <2>2, <1>1, <1>4, <1>6, Fields
    <3> QED
      BY <3>1, <2>2, <1>1, <1>2, <1>4, <1>6 DEF FreshShape
  <2> QED
    BY <2>1, <2>2
<1>10. NoFalseAlarm'
  BY <1>1, <1>2, <1>4 DEF NoFalseAlarm
<1>11. DueShape'
  BY <1>1, <1>2, <1>4, Fields DEF DueShape, Due, Later, TimeShape
<1> QED
  BY <1>5, <1>7, <1>8, <1>9, <1>10, <1>11 DEF IInv

LEMMA ReportStored ==
  ASSUME IInv, NEW r \in net, report_health(r)
  PROVE  IInv'
<1> USE Durations
<1>1. TypeOK /\ TimeShape /\ ReportShape /\ FreshShape /\ NoFalseAlarm /\ DueShape
  BY DEF IInv
<1>2. /\ net' = net \ {r} /\ now' = now /\ agent' = agent /\ loop' = loop /\ loop.pc = "idle"
      /\ node' = [node EXCEPT ![r.node].health = r.status, ![r.node].last_heartbeat = r.ts]
  BY DEF report_health
<1>3. PICK n \in NodeId : n = r.node
  BY <1>1, Fields
<1>4. /\ \A k \in NodeId : /\ k # n => node'[k] = node[k]
                           /\ node'[k].state = node[k].state
                           /\ node'[k].updated_at = node[k].updated_at
      /\ node'[n].health = r.status /\ node'[n].last_heartbeat = r.ts
      /\ node' \in [NodeId -> NodeRecord]
  BY <1>1, <1>2, <1>3, Fields DEF TypeOK, NodeRecord
<1>5. TypeOK'
  BY <1>1, <1>2, <1>4 DEF TypeOK
<1>6. /\ \A q \in net : Sent(q)' = Sent(q) /\ Sent(q) \in Int
      /\ \A k \in NodeId : /\ Own(k)' = IF k = n THEN Own(k) \ {r} ELSE Own(k)
                           /\ Own(k) \subseteq net
                           /\ k # n => LastSent(k)' = LastSent(k)
      /\ LastSent(n)' = Sent(r) /\ r \in Own(n)
  BY <1>1, <1>2, <1>3, <1>4, Fields DEF Sent, Own, LastSent
<1>7. Start <= Sent(r) /\ Sent(r) <= now /\ now <= Sent(r) + MaxDelay /\ r.ts # 0
  BY <1>1, <1>3, Fields DEF TimeShape, Sent
<1>8. TimeShape'
  BY <1>1, <1>2, <1>6 DEF TimeShape
<1>9. ReportShape'
  <2> SUFFICES ASSUME NEW k \in NodeId
               PROVE  (/\ agent[k].mode = "healthy" =>
                            node[k].health # "failed" /\ \A q \in Own(k) : q.status = "healthy"
                       /\ agent[k].mode # "healthy" =>
                            /\ \A q \in Own(k) : q.status = "healthy" => Sent(q) <= agent[k].since
                            /\ node[k].health = "healthy" => LastSent(k) <= agent[k].since
                       /\ node[k].health = "unknown" <=> node[k].last_heartbeat = 0
                       /\ node[k].last_heartbeat # 0 =>
                            Start <= LastSent(k) /\ LastSent(k) <= now)'
    BY DEF ReportShape
  <2>1. CASE k # n
    <3>1. /\ Own(k)' = Own(k) /\ LastSent(k)' = LastSent(k) /\ node'[k] = node[k]
          /\ \A q \in Own(k) : Sent(q)' = Sent(q)
      BY <2>1, <1>4, <1>6
    <3> QED
      BY <3>1, <1>1, <1>2 DEF ReportShape
  <2>2. CASE k = n
    BY <2>2, <1>1, <1>2, <1>4, <1>6, <1>7, Fields DEF ReportShape
  <2> QED
    BY <2>1, <2>2
<1>10. FreshShape'
  <2> SUFFICES ASSUME NEW k \in NodeId
               PROVE  (/\ node[k].last_heartbeat # 0 /\ agent[k].mode # "silent" =>
                            \/ \E q \in Own(k) : Sent(q) <= LastSent(k) + MaxDelay + MaxGap
                            \/ Own(k) = {} /\ agent[k].sent <= LastSent(k) + MaxDelay
                       /\ node[k].last_heartbeat = 0 /\ Own(k) = {} => agent[k].sent = Start
                       /\ node[k].last_heartbeat = 0 /\ agent[k].mode # "healthy" =>
                            Own(k) = {} \/ \E q \in Own(k) : Sent(q) <= agent[k].since + MaxGap)'
    BY DEF FreshShape
  <2>1. CASE k # n
    <3>1. /\ Own(k)' = Own(k) /\ LastSent(k)' = LastSent(k) /\ node'[k] = node[k]
          /\ \A q \in Own(k) : Sent(q)' = Sent(q)
      BY <2>1, <1>4, <1>6
    <3> QED
      BY <3>1, <1>1, <1>2 DEF FreshShape
  <2>2. CASE k = n
    <3>1. agent[k].sent <= LastSent(k)' + MaxDelay
      BY <2>2, <1>1, <1>6, <1>7, Fields DEF TimeShape
    <3>2. ASSUME NEW q \in Own(k)'
          PROVE  Sent(q)' <= LastSent(k)' + MaxDelay + MaxGap
      <4>1. q \in net
        BY <2>2, <1>6
      <4>2. Sent(q) <= now
        BY <4>1, <1>1 DEF TimeShape
      <4> QED
        BY <4>1, <4>2, <2>2, <1>1, <1>6, <1>7, Fields
    <3> QED
      BY <3>1, <3>2, <2>2, <1>2, <1>4, <1>7
  <2> QED
    BY <2>1, <2>2
<1>11. NoFalseAlarm'
  BY <1>1, <1>2, <1>4 DEF NoFalseAlarm
<1>12. DueShape'
  <2> SUFFICES ASSUME NEW k \in NodeId,
                      node'[k].state = "HEALTHY", node'[k].last_heartbeat # 0,
                      agent'[k].mode # "healthy"
               PROVE  loop'.now <= Due(k)'
    BY <1>1, <1>2, <1>4, Fields DEF DueShape, Due, Later
  <2>1. Due(k)' = Due(k)
    BY <1>2, <1>4 DEF Due
  <2>2. CASE node[k].last_heartbeat # 0
    BY <2>1, <2>2, <1>1, <1>2, <1>4, Fields DEF DueShape, Due, Later
  <2>3. CASE node[k].last_heartbeat = 0
    \* The first report, of those under way not the oldest: now is not late.
    <3>1. k = n
      BY <2>3, <1>4
    <3>2. PICK q \in Own(k) : Sent(q) <= agent[k].since + MaxGap
      BY <3>1, <2>3, <1>1, <1>2, <1>6 DEF FreshShape
    <3>3. q \in net /\ now <= Sent(q) + MaxDelay
      BY <1>1, <1>6 DEF TimeShape
    <3>4. loop.now <= agent[k].since + MaxSkew + HEARTBEAT_TIMEOUT
      BY <3>2, <3>3, <1>1, <1>6, Fields DEF TimeShape
    <3> QED
      BY <3>4, <2>1, <1>1, <1>2, Fields DEF Due, Later
  <2> QED
    BY <2>2, <2>3
<1> QED
  BY <1>5, <1>8, <1>9, <1>10, <1>11, <1>12 DEF IInv

LEMMA TickBegins ==
  ASSUME IInv, BeginTick
  PROVE  IInv'
<1> USE Durations
<1>1. TypeOK /\ TimeShape /\ ReportShape /\ FreshShape /\ NoFalseAlarm /\ DueShape
  BY DEF IInv
<1>2. /\ loop.pc = "idle" /\ loop' = [pc |-> "tick", now |-> now]
      /\ now' = now /\ node' = node /\ agent' = agent /\ net' = net
  BY DEF BeginTick
<1>3. TypeOK'
  BY <1>1, <1>2 DEF TypeOK, LoopRecord
<1>4. TimeShape'
  BY <1>1, <1>2, Fields DEF TimeShape, Sent
<1>5. ReportShape' /\ FreshShape' /\ NoFalseAlarm'
  BY <1>1, <1>2 DEF ReportShape, FreshShape, NoFalseAlarm, Own, Sent, LastSent
<1>6. DueShape'
  BY <1>1, <1>2, Fields DEF DueShape, Due, Later, TimeShape
<1> QED
  BY <1>3, <1>4, <1>5, <1>6 DEF IInv

\* A node that is suspected is not well: its report says so, or is too old for one
\* whose reports come in time.
LEMMA SuspectIsBroken ==
  ASSUME IInv, NEW n \in NodeId, Suspect(n)
  PROVE  agent[n].mode # "healthy"
<1> USE Durations
<1>1. TypeOK /\ TimeShape /\ ReportShape /\ FreshShape
  BY DEF IInv
<1> SUFFICES ASSUME agent[n].mode = "healthy" PROVE FALSE
  OBVIOUS
<1>2. node[n].last_heartbeat # 0 /\ loop.now - node[n].last_heartbeat > HEARTBEAT_TIMEOUT
  BY <1>1 DEF Suspect, ReportShape
<1>3. now <= LastSent(n) + MaxGap + 2 * MaxDelay
  <2>1. CASE \E r \in Own(n) : Sent(r) <= LastSent(n) + MaxDelay + MaxGap
    <3>1. PICK r \in Own(n) : Sent(r) <= LastSent(n) + MaxDelay + MaxGap
      BY <2>1
    <3>2. r \in net /\ r.node = n
      BY DEF Own
    <3> QED
      BY <3>1, <3>2, <1>1, Fields DEF TimeShape, Sent, LastSent
  <2>2. CASE agent[n].sent <= LastSent(n) + MaxDelay
    BY <2>2, <1>1, Fields DEF TimeShape, LastSent
  <2> QED
    BY <2>1, <2>2, <1>1, <1>2 DEF FreshShape
<1> QED
  BY <1>1, <1>2, <1>3, Fields DEF TimeShape, LastSent

LEMMA TickFinishes ==
  ASSUME IInv, FinishTick
  PROVE  IInv'
<1> USE Durations
<1>1. TypeOK /\ TimeShape /\ ReportShape /\ FreshShape /\ NoFalseAlarm /\ DueShape
  BY DEF IInv
<1>2. /\ loop.pc = "tick" /\ loop' = [loop EXCEPT !.pc = "idle"]
      /\ now' = now /\ agent' = agent /\ net' = net
  BY DEF FinishTick
<1>3. PICK admitted \in SUBSET {n \in NodeId : node[n].state = "REGISTERING"} :
        node' = [n \in NodeId |-> IF Suspect(n) THEN Moved(n, "FAILED")
                                  ELSE IF n \in admitted THEN Moved(n, "HEALTHY") ELSE node[n]]
  BY DEF FinishTick
<1>4. now \in Nat
  BY <1>1 DEF TypeOK
<1>5. \A n \in NodeId :
        /\ node'[n].health = node[n].health
        /\ node'[n].last_heartbeat = node[n].last_heartbeat
        /\ Suspect(n) => node'[n].state = "FAILED"
        /\ ~Suspect(n) => \/ node'[n] = node[n]
                          \/ /\ node[n].state = "REGISTERING" /\ node'[n].state = "HEALTHY"
                             /\ node'[n].updated_at = now
        /\ node'[n] \in NodeRecord
  BY <1>1, <1>3, <1>4 DEF TypeOK, NodeRecord, Moved
<1>6. TypeOK'
  <2>1. node' \in [NodeId -> NodeRecord]
    BY <1>3, <1>5
  <2> QED
    BY <2>1, <1>1, <1>2 DEF TypeOK, LoopRecord
<1>7. loop'.now = loop.now /\ loop'.pc = "idle"
  BY <1>1, <1>2 DEF TypeOK, LoopRecord
<1>8. TimeShape'
  BY <1>1, <1>2, <1>7 DEF TimeShape, Sent
<1>9. ReportShape' /\ FreshShape'
  BY <1>1, <1>2, <1>5 DEF ReportShape, FreshShape, Own, Sent, LastSent
<1>10. NoFalseAlarm'
  BY <1>1, <1>2, <1>5, SuspectIsBroken DEF NoFalseAlarm
<1>11. DueShape'
  <2> SUFFICES ASSUME NEW n \in NodeId,
                      node'[n].state = "HEALTHY", node'[n].last_heartbeat # 0,
                      agent'[n].mode # "healthy"
               PROVE  loop.now <= Due(n)'
    BY <1>1, <1>2, <1>4, <1>5, <1>6, <1>7, Fields DEF DueShape, Due, Later, TypeOK, NodeRecord
  <2>1. ~Suspect(n)
    BY <1>5
  <2>2. CASE node[n].state = "REGISTERING"
    <3>1. node'[n].updated_at = now
      BY <2>1, <2>2, <1>5
    <3> QED
      BY <3>1, <1>1, <1>2, Fields DEF Due, Later, TimeShape
  <2>3. CASE node'[n] = node[n]
    <3>1. node[n].health = "healthy" /\ loop.now - node[n].last_heartbeat <= HEARTBEAT_TIMEOUT
      BY <2>1, <2>3, <1>1, Fields DEF Suspect, ReportShape
    <3>2. LastSent(n) <= agent[n].since
      BY <3>1, <1>1, <1>2 DEF ReportShape
    <3> QED
      BY <3>1, <3>2, <2>3, <1>1, <1>2, Fields DEF Due, Later, LastSent
  <2> QED
    BY <2>1, <2>2, <2>3, <1>5
<1> QED
  BY <1>6, <1>8, <1>9, <1>10, <1>11 DEF IInv

LEMMA TimePasses ==
  ASSUME IInv, Advance
  PROVE  IInv'
<1> USE Durations
<1>1. TypeOK /\ TimeShape /\ ReportShape /\ FreshShape /\ NoFalseAlarm /\ DueShape
  BY DEF IInv
<1>2. /\ now' = now + 1 /\ node' = node /\ agent' = agent /\ net' = net /\ loop' = loop
      /\ \A n \in NodeId : agent[n].mode # "silent" => now < agent[n].sent + MaxGap
      /\ \A r \in net : now < Sent(r) + MaxDelay
      /\ now < loop.now + MaxPeriod
  BY DEF Advance
<1>3. TypeOK'
  BY <1>1, <1>2 DEF TypeOK
<1>4. \A r \in net : Sent(r) \in Int /\ Sent(r)' = Sent(r)
  BY <1>1, <1>2, Fields DEF Sent
<1>5. TimeShape'
  BY <1>1, <1>2, <1>4, Fields DEF TimeShape
<1>6. ReportShape'
  BY <1>1, <1>2, Fields DEF ReportShape, Own, Sent, LastSent
<1>7. FreshShape' /\ NoFalseAlarm' /\ DueShape'
  BY <1>1, <1>2 DEF FreshShape, NoFalseAlarm, DueShape, Due, Own, Sent, LastSent
<1> QED
  BY <1>3, <1>5, <1>6, <1>7 DEF IInv

-----------------------------------------------------------------------------
(* The theorems *)

LEMMA Inductive ==
  IInv /\ [Next]_vars => IInv'
<1> SUFFICES ASSUME IInv, [Next]_vars PROVE IInv'
  OBVIOUS
<1>1. CASE UNCHANGED vars
  BY <1>1 DEF vars, IInv, TypeOK, TimeShape, ReportShape, FreshShape, NoFalseAlarm, DueShape,
              Due, Own, Sent, LastSent
<1>2. CASE Next
  BY <1>2, ReportSent, NodeBreaks, ReportStored, TickBegins, TickFinishes, TimePasses DEF Next
<1> QED
  BY <1>1, <1>2

\* The invariant gives detection in time: a tick that has begun ends within a period.
LEMMA InTime ==
  IInv => DetectedInTime
<1> SUFFICES ASSUME IInv, NEW n \in NodeId,
                    node[n].state = "HEALTHY", node[n].last_heartbeat # 0,
                    agent[n].mode # "healthy"
             PROVE  now <= Due(n) + 2 * MaxPeriod
  BY DEF DetectedInTime
<1>1. TypeOK /\ TimeShape /\ DueShape
  BY DEF IInv
<1>2. Due(n) \in Int
  BY <1>1, Fields, Durations DEF Due, Later
<1>3. loop.now <= Due(n) + MaxPeriod
  BY <1>1, <1>2, Fields, Durations DEF DueShape
<1> QED
  BY <1>1, <1>2, <1>3, Fields, Durations DEF TimeShape

LEMMA Invariant ==
  Spec => []IInv
BY Initial, Inductive, PTL DEF Spec

\* Every variable keeps its type: reports, clocks and records of nodes.
THEOREM DetectorTypeCorrect ==
  Spec => []TypeOK
BY Invariant, PTL DEF IInv

\* A node whose agent is well is never marked FAILED, for any number of nodes and any
\* delays and clock skews the time-out suffices for (_detect_failures).
THEOREM NeverFalseAlarm ==
  Spec => []NoFalseAlarm
BY Invariant, PTL DEF IInv

\* A broken node that has reported once is marked FAILED when the time-out and two
\* periods of the loop are over, at the latest (_detect_failures).
THEOREM AlwaysDetected ==
  Spec => []DetectedInTime
BY Invariant, InTime, PTL
=============================================================================
