--------------------------- MODULE TrafficDirector ---------------------------
(***************************************************************************)
(* networking/global_lb.py: how the requests to a cluster are split among  *)
(* the clouds by their healthy capacity (largest remainder).               *)
(*                                                                         *)
(* The store is read once, by the same thread that writes it, so what it   *)
(* holds is an input: the HEALTHY nodes of the cluster in each cloud and   *)
(* whether there are others.  The rounded `weights', which nothing uses    *)
(* but the display, are left out.  Quotients are exact here and floating   *)
(* point in the code: two clouds with the same remainder may come in any   *)
(* order.                                                                  *)
(***************************************************************************)
EXTENDS Integers, FiniteSets, Functions

CONSTANTS
  Cloud,
  MaxNodes,           \* bound: HEALTHY nodes in one cloud
  MaxRequests         \* bound: requests to distribute

ASSUME CloudFinite == IsFiniteSet(Cloud)
ASSUME BoundsType == MaxNodes \in Nat /\ MaxRequests \in Nat

VARIABLES
  healthy,            \* healthy[p]: HEALTHY nodes of the cluster in cloud p
  others,             \* clouds with a node of the cluster that is not HEALTHY
  down,               \* clouds whose health checks fail
  requests,
  alloc,              \* alloc[p]: requests routed to cloud p so far
  remainder,
  waiting,            \* clouds the loop over the remainders has not reached
  pc

inputs == <<healthy, others, down, requests>>
vars == <<inputs, alloc, remainder, waiting, pc>>

Init ==
  /\ healthy \in [Cloud -> 0..MaxNodes]
  /\ others \in SUBSET Cloud
  /\ down \in SUBSET Cloud
  /\ requests \in 0..MaxRequests
  /\ alloc = [p \in Cloud |-> 0] /\ remainder = 0 /\ waiting = {}
  /\ pc = "start"

\* capacity_by_cloud
capacity == [p \in Cloud |-> IF p \in down THEN 0 ELSE healthy[p]]

total_cap == SumFunction(capacity)
serving == {p \in Cloud : capacity[p] > 0}
all_clouds == {p \in Cloud : healthy[p] > 0} \union others
drained == all_clouds \ serving

\* exact[p] = Whole(p) + Fraction(p) / total_cap
Whole(p) == (requests * capacity[p]) \div total_cap
Fraction(p) == (requests * capacity[p]) % total_cap

\* distribute: no capacity at all
NothingServes ==
  /\ pc = "start" /\ total_cap = 0
  /\ pc' = "done"
  /\ UNCHANGED <<inputs, alloc, remainder, waiting>>

\* distribute: every cloud gets the whole part of its exact share
Split ==
  /\ pc = "start" /\ total_cap > 0
  /\ alloc' = [p \in Cloud |-> IF p \in serving THEN Whole(p) ELSE 0]
  /\ remainder' = requests - SumFunction(alloc')
  /\ waiting' = serving
  /\ pc' = "loop"
  /\ UNCHANGED inputs

\* (Variant: the order of the sort is reversed.)
SmallestFraction(p) == \A q \in waiting : Fraction(p) <= Fraction(q)

NextInOrder(p) == \A q \in waiting : Fraction(p) >= Fraction(q)

\* distribute: one more request for the next cloud by remainder
RoundUp(p) ==
  /\ pc = "loop" /\ remainder > 0 /\ p \in waiting
  /\ NextInOrder(p)
  /\ alloc' = [alloc EXCEPT ![p] = @ + 1]
  /\ remainder' = remainder - 1
  /\ waiting' = waiting \ {p}
  /\ UNCHANGED <<inputs, pc>>

\* (Variant: the loop stops one request early.)
FinishEarly ==
  /\ pc = "loop" /\ (waiting = {} \/ remainder <= 1)
  /\ pc' = "done"
  /\ UNCHANGED <<inputs, alloc, remainder, waiting>>

Finish ==
  /\ pc = "loop" /\ (waiting = {} \/ remainder <= 0)
  /\ pc' = "done"
  /\ UNCHANGED <<inputs, alloc, remainder, waiting>>

Next == NothingServes \/ Split \/ (\E p \in Cloud : RoundUp(p)) \/ Finish

Spec == Init /\ [][Next]_vars

-----------------------------------------------------------------------------
(* Properties *)

\* "nothing dropped" (tests/unit/test_global_lb.py): as soon as any cloud serves,
\* exactly the requests are routed, to clouds that serve; the loop, which visits
\* every cloud at most once, always gets through the remainder.
AllRouted ==
  pc = "done" /\ serving # {} =>
    /\ SumFunction(alloc) = requests
    /\ \A p \in Cloud : alloc[p] > 0 => healthy[p] > 0 /\ p \notin down

\* total_cap times the distance between a cloud's share and its exact share.
Distance(a, p) ==
  LET d == a * total_cap - requests * capacity[p] IN IF d < 0 THEN -d ELSE d

\* The split is as proportional as whole requests allow: no request can move from
\* one cloud to another and bring the shares closer to capacity.
AsProportionalAsCanBe ==
  pc = "done" /\ serving # {} =>
    \A p, q \in serving : p # q /\ alloc[p] > 0 =>
      Distance(alloc[p], p) + Distance(alloc[q], q)
        <= Distance(alloc[p] - 1, p) + Distance(alloc[q] + 1, q)

-----------------------------------------------------------------------------
(* The inductive invariant behind the proofs of TrafficDirectorProofs *)

TypeOK ==
  /\ healthy \in [Cloud -> 0..MaxNodes] /\ others \subseteq Cloud /\ down \subseteq Cloud
  /\ requests \in 0..MaxRequests
  /\ alloc \in [Cloud -> Nat] /\ remainder \in Int /\ waiting \subseteq Cloud
  /\ pc \in {"start", "loop", "done"}

\* A cloud has its whole part, and one more if the loop has passed it.
SharesShape ==
  \A p \in Cloud :
    alloc[p] = IF p \notin serving THEN 0
               ELSE IF p \in waiting THEN Whole(p) ELSE Whole(p) + 1

\* What is left never exceeds the clouds the loop has still to visit, and those it
\* has visited had no smaller remainders.
SplitShape ==
  pc # "start" /\ total_cap > 0 =>
    /\ waiting \subseteq serving
    /\ SharesShape
    /\ SumFunction(alloc) + remainder = requests
    /\ remainder \in 0..Cardinality(waiting)
    /\ \A p \in serving \ waiting, q \in waiting : Fraction(p) >= Fraction(q)
    /\ pc = "done" => remainder = 0

IInv == TypeOK /\ (pc = "loop" => total_cap > 0) /\ SplitShape
=============================================================================
