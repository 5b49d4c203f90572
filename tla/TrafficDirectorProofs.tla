------------------------ MODULE TrafficDirectorProofs ------------------------
(***************************************************************************)
(* The largest-remainder apportionment of TrafficDirector, for every       *)
(* finite set of clouds, every capacity and every number of requests: no   *)
(* request is lost or invented, and no move of one request between two     *)
(* serving clouds brings the split closer to the capacities.               *)
(***************************************************************************)
EXTENDS TrafficDirector, Sums

\* The capacity of a cloud is a number of healthy nodes.
LEMMA CapacityType ==
  ASSUME TypeOK
  PROVE  capacity \in [Cloud -> Nat]
BY BoundsType DEF TypeOK, capacity

\* The total capacity is the sum of the clouds', and not 0 while one serves.
LEMMA TotalType ==
  ASSUME TypeOK
  PROVE  /\ total_cap \in Nat
         /\ total_cap = SumFunctionOnSet(capacity, Cloud)
         /\ serving # {} => total_cap > 0
<1>1. capacity \in [Cloud -> Nat]
  BY CapacityType
<1>2. total_cap = SumFunctionOnSet(capacity, Cloud)
  BY <1>1 DEF total_cap, SumFunction
<1>3. \A T \in SUBSET Cloud : SumFunctionOnSet(capacity, T) \in Nat
  BY <1>1, CloudFinite, SumType
<1>4. ASSUME NEW p \in serving
      PROVE  total_cap > 0
  <2>1. SumFunctionOnSet(capacity, Cloud) = capacity[p] + SumFunctionOnSet(capacity, Cloud \ {p})
    BY <1>1, CloudFinite, SumRemove DEF serving
  <2>2. capacity[p] \in Nat /\ capacity[p] > 0
    BY <1>1 DEF serving
  <2>3. SumFunctionOnSet(capacity, Cloud \ {p}) \in Nat
    BY <1>3
  <2> QED
    BY <1>2, <2>1, <2>2, <2>3
<1> QED
  BY <1>2, <1>3, <1>4

\* Products of natural numbers are natural numbers.
LEMMA Product == \A a, b \in Nat : a * b \in Nat
  OBVIOUS

\* What integer division and its remainder are.
LEMMA Division ==
  ASSUME NEW a \in Nat, NEW t \in Nat, t > 0
  PROVE  /\ a \div t \in Nat
         /\ a % t \in 0 .. (t - 1)
         /\ a = t * (a \div t) + (a % t)
  OBVIOUS

\* A common positive factor may be dropped from a comparison.
LEMMA Cancel ==
  ASSUME NEW a \in Int, NEW b \in Int, NEW t \in Nat, t > 0, t * a <= t * b
  PROVE  a <= b
  OBVIOUS

\* An exact share is a whole part and a fraction of less than one request.
LEMMA ShareType ==
  ASSUME TypeOK, total_cap > 0, NEW p \in Cloud
  PROVE  /\ Whole(p) \in Nat
         /\ Fraction(p) \in 0 .. (total_cap - 1)
         /\ requests * capacity[p] = total_cap * Whole(p) + Fraction(p)
<1>1. requests * capacity[p] \in Nat /\ total_cap \in Nat
  BY CapacityType, TotalType, Product, BoundsType DEF TypeOK
<1> DEFINE a == requests * capacity[p]
<1> HIDE DEF a
<1>2. /\ a \div total_cap \in Nat
      /\ a % total_cap \in 0 .. (total_cap - 1)
      /\ a = total_cap * (a \div total_cap) + (a % total_cap)
  BY <1>1, Division DEF a
<1> QED
  BY <1>2 DEF Whole, Fraction, a

\* Bounds on two parts of a sum, scaled, are bounds on the sum.
LEMMA AddBounds ==
  ASSUME NEW t \in Nat, NEW r \in Nat, NEW a \in Nat, NEW c \in Nat, NEW k \in Nat,
         NEW b \in Nat, NEW d \in Nat, NEW l \in Nat,
         t * a <= r * c, r * c <= t * (a + k), t * b <= r * d, r * d <= t * (b + l)
  PROVE  t * (a + b) <= r * (c + d) /\ r * (c + d) <= t * ((a + b) + (k + l))
<1>1. /\ t * (a + b) = (t * a) + (t * b) /\ r * (c + d) = (r * c) + (r * d)
      /\ t * ((a + b) + (k + l)) = (t * (a + k)) + (t * (b + l))
  OBVIOUS
<1>2. /\ t * a \in Nat /\ t * b \in Nat /\ r * c \in Nat /\ r * d \in Nat
      /\ t * (a + k) \in Nat /\ t * (b + l) \in Nat
  BY Product
<1> QED
  BY <1>1, <1>2

\* What the whole parts leave is less than one request for every cloud that serves.
LEMMA FewLeft ==
  ASSUME TypeOK, total_cap > 0,
         NEW A \in [Cloud -> Nat],
         \A p \in Cloud : A[p] = IF p \in serving THEN Whole(p) ELSE 0
  PROVE  requests - SumFunction(A) \in 0 .. Cardinality(serving)
<1> DEFINE a(T) == SumFunctionOnSet(A, T)
           c(T) == SumFunctionOnSet(capacity, T)
           k(T) == Cardinality(T \intersect serving)
           Good == {T \in SUBSET Cloud :
                      /\ total_cap * a(T) <= requests * c(T)
                      /\ requests * c(T) <= total_cap * (a(T) + k(T))}
<1>1. /\ capacity \in [Cloud -> Nat] /\ total_cap \in Nat /\ requests \in Nat
      /\ serving \subseteq Cloud
  BY CapacityType, TotalType, BoundsType DEF TypeOK, serving
<1>2. ASSUME NEW T \in SUBSET Cloud
      PROVE  a(T) \in Nat /\ c(T) \in Nat /\ k(T) \in Nat /\ IsFiniteSet(T \intersect serving)
  <2>1. a(T) \in Nat /\ c(T) \in Nat
    BY <1>1, CloudFinite, SumType
  <2>2. IsFiniteSet(T \intersect serving)
    BY CloudFinite, FS_Subset, T \intersect serving \in SUBSET Cloud
  <2> QED
    BY <2>1, <2>2, FS_CardinalityType
<1>3. ASSUME NEW T \in SUBSET Cloud, \A U \in SUBSET T : U # T => U \in Good
      PROVE  T \in Good
  <2>1. CASE T = {}
    <3>1. a({}) = 0 /\ c({}) = 0 /\ k({}) = 0
      BY SumEmpty, FS_EmptySet, {} \intersect serving = {}
    <3> QED
      BY <1>1, <2>1, <3>1
  <2>2. CASE T # {}
    <3> DEFINE x == Some(T)
               R == T \ {x}
               one == IF x \in serving THEN 1 ELSE 0
    <3>1. x \in T /\ R \in SUBSET T /\ R # T /\ R \in SUBSET Cloud
      BY <2>2, SomeMember
    <3>2. /\ total_cap * a(R) <= requests * c(R)
          /\ requests * c(R) <= total_cap * (a(R) + k(R))
      BY <1>3, <3>1
    <3>3. a(T) = A[x] + a(R) /\ c(T) = capacity[x] + c(R)
      BY <2>2, CloudFinite, FS_Subset, SumUnfold
    <3>4. k(T) = one + k(R)
      <4> HIDE DEF x
      <4>1. CASE x \in serving
        <5>1. R \intersect serving = (T \intersect serving) \ {x}
          OBVIOUS
        <5>2. k(R) = k(T) - 1
          <6> DEFINE V == T \intersect serving
          <6>1. x \in V /\ IsFiniteSet(V) /\ k(T) = Cardinality(V)
                /\ k(R) = Cardinality(V \ {x})
            BY <1>2, <3>1, <4>1, <5>1
          <6> HIDE DEF V, k
          <6> QED
            BY <6>1, FS_RemoveElement
        <5>3. one = 1 /\ k(T) \in Nat /\ k(R) \in Nat
          BY <1>2, <3>1, <4>1
        <5> QED
          BY <5>2, <5>3
      <4>2. CASE x \notin serving
        <5>1. R \intersect serving = T \intersect serving
          BY <4>2
        <5>2. one = 0 /\ k(T) \in Nat /\ k(R) = k(T)
          BY <1>2, <4>2, <5>1
        <5> QED
          BY <5>2
      <4> QED
        BY <4>1, <4>2
    <3>5. /\ total_cap * A[x] <= requests * capacity[x]
          /\ requests * capacity[x] <= total_cap * (A[x] + one)
      <4> HIDE DEF x
      <4>1. CASE x \in serving
        <5>1. /\ requests * capacity[x] = total_cap * A[x] + Fraction(x)
              /\ Fraction(x) \in 0 .. (total_cap - 1) /\ A[x] \in Nat
          BY <3>1, <4>1, ShareType
        <5>2. total_cap * A[x] \in Nat /\ total_cap * (A[x] + 1) = total_cap * A[x] + total_cap
          BY <1>1, <5>1
        <5> QED
          BY <1>1, <4>1, <5>1, <5>2
      <4>2. CASE x \notin serving
        <5>1. capacity[x] = 0 /\ A[x] = 0
          BY <1>1, <3>1, <4>2 DEF serving
        <5> QED
          BY <1>1, <4>2, <5>1
      <4> QED
        BY <4>1, <4>2
    <3>6. A[x] \in Nat /\ capacity[x] \in Nat /\ one \in Nat
      BY <1>1, <3>1
    <3>7. a(R) \in Nat /\ c(R) \in Nat /\ k(R) \in Nat
      BY <1>2, <3>1
    <3> HIDE DEF x, R, one, a, c, k
    <3>8. /\ total_cap * (A[x] + a(R)) <= requests * (capacity[x] + c(R))
          /\ requests * (capacity[x] + c(R)) <= total_cap * ((A[x] + a(R)) + (one + k(R)))
      BY <1>1, <3>2, <3>5, <3>6, <3>7, AddBounds
    <3> QED
      BY <3>3, <3>4, <3>8
  <2> QED
    BY <2>1, <2>2
<1>4. Cloud \in Good
  <2> HIDE DEF Good
  <2> QED
    BY <1>3, CloudFinite, SubsetInduction
<1>5. c(Cloud) = total_cap /\ a(Cloud) = SumFunction(A) /\ k(Cloud) = Cardinality(serving)
  <2>1. DOMAIN A = Cloud /\ Cloud \intersect serving = serving
    BY <1>1
  <2> QED
    BY <2>1, TotalType DEF SumFunction
<1>6. a(Cloud) \in Nat /\ k(Cloud) \in Nat
  BY <1>2
<1> HIDE DEF a, c, k
<1>7. /\ total_cap * a(Cloud) <= total_cap * requests
      /\ total_cap * requests <= total_cap * (a(Cloud) + k(Cloud))
  BY <1>1, <1>4, <1>5
<1>8. a(Cloud) <= requests /\ requests <= a(Cloud) + k(Cloud)
  BY <1>1, <1>6, <1>7, Cancel
<1> QED
  BY <1>1, <1>5, <1>6, <1>8

\* One request more for one cloud is one request more in all.
LEMMA OneMore ==
  ASSUME NEW A \in [Cloud -> Nat], NEW p \in Cloud
  PROVE  SumFunction([A EXCEPT ![p] = @ + 1]) = SumFunction(A) + 1
<1> DEFINE B == [A EXCEPT ![p] = A[p] + 1]
           R == Cloud \ {p}
<1>1. B \in [Cloud -> Nat] /\ B[p] = A[p] + 1 /\ \A x \in R : A[x] = B[x]
  OBVIOUS
<1> HIDE DEF B
<1>2. IsFiniteSet(R) /\ R \in SUBSET Cloud
  BY CloudFinite, FS_Subset
<1>3. /\ SumFunctionOnSet(A, Cloud) = A[p] + SumFunctionOnSet(A, R)
      /\ SumFunctionOnSet(A, R) \in Nat
  BY <1>2, CloudFinite, SumRemove, SumType
<1>4. SumFunctionOnSet(B, Cloud) = B[p] + SumFunctionOnSet(B, R)
  BY <1>1, CloudFinite, SumRemove
<1>5. SumFunctionOnSet(B, R) = SumFunctionOnSet(A, R)
  <2>1. R \in SUBSET R
    OBVIOUS
  <2> HIDE DEF R
  <2> QED
    BY <1>1, <1>2, <2>1, SumSame
<1>6. DOMAIN A = Cloud /\ DOMAIN B = Cloud /\ A[p] \in Nat
  BY <1>1
<1>7. SumFunction(B) = SumFunction(A) + 1
  BY <1>1, <1>3, <1>4, <1>5, <1>6 DEF SumFunction
<1> QED
  BY <1>7, Zenon DEF B

\* The invariant holds before the split.
LEMMA InitHolds == Init => IInv
<1> SUFFICES ASSUME Init PROVE IInv
  OBVIOUS
<1>1. alloc \in [Cloud -> Nat]
  BY DEF Init
<1>2. TypeOK
  BY <1>1 DEF Init, TypeOK
<1> QED
  BY <1>2 DEF Init, IInv, SplitShape

\* The inputs keep what is computed from them.
LEMMA InputsKept ==
  ASSUME UNCHANGED inputs
  PROVE  /\ total_cap' = total_cap /\ serving' = serving /\ capacity' = capacity
         /\ \A p : Whole(p)' = Whole(p) /\ Fraction(p)' = Fraction(p)
<1>1. /\ healthy' = healthy /\ others' = others /\ down' = down /\ requests' = requests
  BY DEF inputs
<1>2. capacity' = capacity
  BY <1>1 DEF capacity
<1>3. total_cap' = total_cap
  BY <1>2 DEF total_cap
<1>4. serving' = serving
  BY <1>2 DEF serving
<1> QED
  BY <1>1, <1>2, <1>3, <1>4 DEF Whole, Fraction

\* The whole parts establish it,
LEMMA SplitStep == ASSUME IInv, Split PROVE IInv'
<1>1. UNCHANGED inputs /\ total_cap > 0 /\ TypeOK /\ serving \subseteq Cloud
  BY DEF Split, IInv, serving
<1>2. /\ total_cap' = total_cap /\ serving' = serving
      /\ \A p : Whole(p)' = Whole(p) /\ Fraction(p)' = Fraction(p)
  BY <1>1, InputsKept
<1>3. alloc' = [p \in Cloud |-> IF p \in serving THEN Whole(p) ELSE 0]
  BY DEF Split
<1>4. alloc' \in [Cloud -> Nat]
  BY <1>1, <1>3, ShareType
<1>5. requests - SumFunction(alloc') \in 0 .. Cardinality(serving)
  BY <1>1, <1>3, <1>4, FewLeft
<1>6. SumFunction(alloc') \in Nat
  BY <1>4, CloudFinite, SumType DEF SumFunction
<1>7. remainder' = requests - SumFunction(alloc') /\ waiting' = serving /\ pc' = "loop"
  BY DEF Split
<1>8. requests' = requests /\ requests \in Nat
  BY <1>1, BoundsType DEF inputs, TypeOK
<1>9. TypeOK'
  BY <1>1, <1>4, <1>5, <1>7, <1>8 DEF TypeOK, inputs
<1>10. SharesShape'
  BY <1>2, <1>3, <1>7 DEF SharesShape
<1>11. (SumFunction(alloc) + remainder = requests)'
  BY <1>6, <1>7, <1>8
<1> QED
  BY <1>1, <1>2, <1>5, <1>7, <1>9, <1>10, <1>11 DEF IInv, SplitShape

\* a round-up keeps it: it takes a cloud of the largest fraction waiting,
LEMMA RoundUpStep == ASSUME IInv, NEW p \in Cloud, RoundUp(p) PROVE IInv'
<1>1. /\ UNCHANGED inputs /\ TypeOK /\ total_cap > 0 /\ SplitShape
      /\ pc = "loop" /\ pc' = "loop"
  BY DEF RoundUp, IInv
<1>2. /\ total_cap' = total_cap /\ serving' = serving
      /\ \A q : Whole(q)' = Whole(q) /\ Fraction(q)' = Fraction(q)
  BY <1>1, InputsKept
<1>3. /\ p \in waiting /\ remainder > 0
      /\ \A q \in waiting : Fraction(p) >= Fraction(q)
      /\ alloc' = [alloc EXCEPT ![p] = alloc[p] + 1]
      /\ remainder' = remainder - 1 /\ waiting' = waiting \ {p}
  BY DEF RoundUp, NextInOrder
<1>4. /\ waiting \subseteq serving /\ SharesShape
      /\ SumFunction(alloc) + remainder = requests
      /\ remainder \in 0 .. Cardinality(waiting)
      /\ \A q \in serving \ waiting, r \in waiting : Fraction(q) >= Fraction(r)
  BY <1>1 DEF SplitShape
<1>5. alloc \in [Cloud -> Nat] /\ alloc' \in [Cloud -> Nat] /\ requests' = requests
  BY <1>1, <1>3 DEF TypeOK, inputs
<1>6. SumFunction(alloc') = SumFunction(alloc) + 1 /\ SumFunction(alloc) \in Nat
  <2>1. SumFunction(alloc) \in Nat
    BY <1>5, CloudFinite, SumType DEF SumFunction
  <2> QED
    BY <1>3, <1>5, <2>1, OneMore
<1>7. IsFiniteSet(waiting) /\ Cardinality(waiting) \in Nat
      /\ Cardinality(waiting') = Cardinality(waiting) - 1
  BY <1>1, <1>3, CloudFinite, FS_Subset, FS_RemoveElement, FS_CardinalityType DEF TypeOK
<1>8. remainder' \in 0 .. Cardinality(waiting')
  BY <1>3, <1>4, <1>7
<1>9. TypeOK'
  BY <1>1, <1>3, <1>5, <1>8 DEF TypeOK, inputs
<1>10. SharesShape'
  <2>1. ASSUME NEW q \in Cloud
        PROVE  alloc'[q] = IF q \notin serving THEN 0
                           ELSE IF q \in waiting' THEN Whole(q) ELSE Whole(q) + 1
    <3>1. alloc[q] = IF q \notin serving THEN 0
                     ELSE IF q \in waiting THEN Whole(q) ELSE Whole(q) + 1
      BY <1>4 DEF SharesShape
    <3> QED
      BY <1>3, <1>4, <1>5, <3>1
  <2> QED
    BY <1>2, <2>1 DEF SharesShape
<1>11. (SumFunction(alloc) + remainder = requests)'
  BY <1>1, <1>3, <1>4, <1>5, <1>6 DEF TypeOK
<1>12. \A q \in serving \ waiting', r \in waiting' : Fraction(q) >= Fraction(r)
  BY <1>3, <1>4
<1> QED
  BY <1>1, <1>2, <1>3, <1>4, <1>8, <1>9, <1>10, <1>11, <1>12 DEF IInv, SplitShape

\* and so do the two ways out.
LEMMA FinishStep == ASSUME IInv, NothingServes \/ Finish PROVE IInv'
<1>1. UNCHANGED <<inputs, alloc, remainder, waiting>> /\ pc' = "done" /\ TypeOK
  BY DEF NothingServes, Finish, IInv
<1>2. /\ total_cap' = total_cap /\ serving' = serving
      /\ \A p : Whole(p)' = Whole(p) /\ Fraction(p)' = Fraction(p)
  BY <1>1, InputsKept
<1>3. TypeOK'
  BY <1>1 DEF TypeOK, inputs
<1>4. CASE NothingServes
  BY <1>1, <1>2, <1>3, <1>4 DEF NothingServes, IInv, SplitShape
<1>5. CASE Finish
  <2>1. pc = "loop" /\ total_cap > 0 /\ SplitShape /\ (waiting = {} \/ remainder <= 0)
    BY <1>5 DEF Finish, IInv
  <2>2. remainder = 0
    <3>1. remainder \in 0 .. Cardinality(waiting) /\ Cardinality({}) = 0
      BY <2>1, FS_EmptySet DEF SplitShape
    <3> QED
      BY <2>1, <3>1
  <2>3. SharesShape'
    BY <1>1, <1>2, <2>1 DEF SharesShape, SplitShape
  <2>4. requests' = requests
    BY <1>1 DEF inputs
  <2> QED
    BY <1>1, <1>2, <1>3, <2>1, <2>2, <2>3, <2>4 DEF IInv, SplitShape
<1> QED
  BY <1>4, <1>5

\* IInv is an invariant of every apportionment.
LEMMA Inductive == Spec => []IInv
<1>1. IInv /\ [Next]_vars => IInv'
  <2> SUFFICES ASSUME IInv, [Next]_vars PROVE IInv'
    OBVIOUS
  <2>1. CASE UNCHANGED vars
    <3>1. UNCHANGED <<inputs, alloc, remainder, waiting, pc>>
      BY <2>1 DEF vars
    <3>2. /\ total_cap' = total_cap /\ serving' = serving
          /\ \A p : Whole(p)' = Whole(p) /\ Fraction(p)' = Fraction(p)
      BY <3>1, InputsKept
    <3>3. TypeOK' /\ (SharesShape <=> SharesShape') /\ requests' = requests
      BY <3>1, <3>2 DEF TypeOK, inputs, IInv, SharesShape
    <3> QED
      BY <3>1, <3>2, <3>3 DEF IInv, SplitShape
  <2> QED
    BY <2>1, SplitStep, RoundUpStep, FinishStep DEF Next
<1> QED
  BY <1>1, InitHolds, PTL DEF Spec

\* Every request is routed, and only to clouds that are up with healthy nodes
\* (distribute(): the largest remainders hand out what the floors left).
THEOREM EverythingRouted == Spec => []AllRouted
<1>1. IInv => AllRouted
  <2> SUFFICES ASSUME IInv, pc = "done", serving # {}
               PROVE  /\ SumFunction(alloc) = requests
                      /\ \A p \in Cloud : alloc[p] > 0 => healthy[p] > 0 /\ p \notin down
    BY DEF AllRouted
  <2>1. TypeOK /\ SplitShape /\ total_cap > 0
    BY TotalType DEF IInv
  <2>2. SumFunction(alloc) = requests
    <3>1. SumFunction(alloc) \in Nat
      BY <2>1, CloudFinite, SumType DEF SumFunction, TypeOK
    <3> QED
      BY <2>1, <3>1 DEF SplitShape
  <2>3. ASSUME NEW p \in Cloud, alloc[p] > 0
        PROVE  healthy[p] > 0 /\ p \notin down
    <3>1. p \in serving
      BY <2>1, <2>3 DEF SplitShape, SharesShape
    <3> QED
      BY <3>1 DEF serving, capacity
  <2> QED
    BY <2>2, <2>3
<1> QED
  BY <1>1, Inductive, PTL

\* With the parts an exact share is made of, two shares are at their distances
\* whichever of the two clouds was rounded up.
LEMMA DistanceOf ==
  ASSUME TypeOK, total_cap > 0, NEW p \in Cloud, NEW i \in Int
  PROVE  Distance(Whole(p) + i, p)
           = LET d == (i * total_cap) - Fraction(p) IN IF d < 0 THEN -d ELSE d
<1>1. /\ Whole(p) \in Nat /\ Fraction(p) \in Nat /\ total_cap \in Nat
      /\ requests * capacity[p] = total_cap * Whole(p) + Fraction(p)
  BY ShareType, TotalType
<1>2. /\ (Whole(p) + i) * total_cap = (total_cap * Whole(p)) + (i * total_cap)
      /\ total_cap * Whole(p) \in Int /\ i * total_cap \in Int
  BY <1>1
<1>3. ((Whole(p) + i) * total_cap) - (requests * capacity[p]) = (i * total_cap) - Fraction(p)
  BY <1>1, <1>2
<1> QED
  BY <1>3, Zenon DEF Distance

\* No request moved from one serving cloud to another makes the shares more
\* proportional: the floors are within one of the exact shares and the clouds
\* rounded up are those with the largest fractions.
THEOREM SharesAreProportional == Spec => []AsProportionalAsCanBe
<1>1. IInv => AsProportionalAsCanBe
  <2> SUFFICES ASSUME IInv, pc = "done", NEW p \in serving, NEW q \in serving,
                      p # q, alloc[p] > 0
               PROVE  Distance(alloc[p], p) + Distance(alloc[q], q)
                        <= Distance(alloc[p] - 1, p) + Distance(alloc[q] + 1, q)
    BY DEF AsProportionalAsCanBe
  <2>1. TypeOK /\ SplitShape /\ total_cap > 0 /\ total_cap \in Nat
    BY TotalType DEF IInv
  <2>2. p \in Cloud /\ q \in Cloud
    BY DEF serving
  <2> DEFINE i == IF p \in waiting THEN 0 ELSE 1
             j == IF q \in waiting THEN 0 ELSE 1
             D(k, r) == LET d == (k * total_cap) - Fraction(r) IN IF d < 0 THEN -d ELSE d
  <2>3. /\ Whole(p) \in Nat /\ Whole(q) \in Nat
        /\ Fraction(p) \in 0 .. (total_cap - 1) /\ Fraction(q) \in 0 .. (total_cap - 1)
    BY <2>1, <2>2, ShareType
  <2>4. alloc[p] = Whole(p) + i /\ alloc[q] = Whole(q) + j
    BY <2>1, <2>2, <2>3 DEF SplitShape, SharesShape
  <2>5. alloc[p] - 1 = Whole(p) + (i - 1) /\ alloc[q] + 1 = Whole(q) + (j + 1)
    BY <2>3, <2>4
  <2>6. i = 1 /\ j = 0 => Fraction(p) >= Fraction(q)
    BY <2>1 DEF SplitShape
  <2>7. i \in {0, 1} /\ j \in {0, 1}
    OBVIOUS
  <2>8. /\ Distance(alloc[p], p) = D(i, p) /\ Distance(alloc[p] - 1, p) = D(i - 1, p)
        /\ Distance(alloc[q], q) = D(j, q) /\ Distance(alloc[q] + 1, q) = D(j + 1, q)
    <3> HIDE DEF i, j
    <3>1. i \in Int /\ i - 1 \in Int /\ j \in Int /\ j + 1 \in Int
      BY <2>7
    <3> QED
      BY <2>1, <2>2, <2>4, <2>5, <3>1, DistanceOf
  <2>9. D(i, p) + D(j, q) <= D(i - 1, p) + D(j + 1, q)
    <3> HIDE DEF i, j
    <3>1. CASE i = 0 /\ j = 0
      BY <2>1, <2>3, <3>1
    <3>2. CASE i = 0 /\ j = 1
      BY <2>1, <2>3, <3>2
    <3>3. CASE i = 1 /\ j = 0
      BY <2>1, <2>3, <2>6, <3>3
    <3>4. CASE i = 1 /\ j = 1
      BY <2>1, <2>3, <3>4
    <3> QED
      BY <2>7, <3>1, <3>2, <3>3, <3>4
  <2> QED
    BY <2>8, <2>9
<1> QED
  BY <1>1, Inductive, PTL
==============================================================================
