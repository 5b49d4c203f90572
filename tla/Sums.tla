-------------------------------- MODULE Sums --------------------------------
(***************************************************************************)
(* What the sum of a function over a finite set is, for every set: the     *)
(* lemmas behind the proofs about TrafficDirector's apportionment (sum()   *)
(* over the clouds in src/active_active/traffic.py).  The community        *)
(* module's SumFunctionOnSet is a CHOOSE of a recursive table over the     *)
(* subsets, so the table is shown to exist first, by induction over the    *)
(* subsets, and the rest is read off it.                                   *)
(***************************************************************************)
EXTENDS Integers, FiniteSets, Functions, FiniteSetTheorems, WellFoundedInduction, TLAPS

\* Induction over the subsets of a finite set, as a fact about the set of those
\* for which a claim holds.
LEMMA SubsetInduction ==
  ASSUME NEW C, IsFiniteSet(C), NEW Good,
         \A T \in SUBSET C : (\A U \in SUBSET T : U # T => U \in Good) => T \in Good
  PROVE  \A T \in SUBSET C : T \in Good
<1> DEFINE Bad == (SUBSET C) \ Good
<1> SUFFICES ASSUME NEW T0 \in SUBSET C, T0 \notin Good
             PROVE  FALSE
  OBVIOUS
<1>1. IsWellFoundedOn(StrictSubsetOrdering(C), SUBSET C)
  <2>1. FiniteSubsetsOf(C) = SUBSET C
    BY FS_FiniteSubsetsOfFinite
  <2>2. IsWellFoundedOn(StrictSubsetOrdering(C), FiniteSubsetsOf(C))
    BY FS_StrictSubsetOrderingWellFounded
  <2> QED
    BY <2>1, <2>2, Zenon
<1>2. PICK T \in Bad : \A U \in Bad : <<U, T>> \notin StrictSubsetOrdering(C)
  <2>1. Bad \subseteq SUBSET C /\ Bad # {}
    OBVIOUS
  <2> HIDE DEF Bad
  <2> QED
    BY <1>1, <2>1, WFMin
<1>3. ASSUME NEW U \in SUBSET T, U # T
      PROVE  U \in Good
  BY <1>2, <1>3 DEF StrictSubsetOrdering
<1> QED
  BY <1>2, <1>3

\* The element a fold over s takes first.
Some(s) == CHOOSE x \in s : TRUE

\* The chosen element of a non-empty set is in it.
LEMMA SomeMember == ASSUME NEW s, s # {} PROVE Some(s) \in s
  BY Zenon DEF Some

\* g is the table of the sums of f over the subsets of S.
IsSumTable(g, f, S) ==
  g = [s \in SUBSET S |-> IF s = {} THEN 0 ELSE f[Some(s)] + g[s \ {Some(s)}]]

SumTable(f, S) == CHOOSE g : IsSumTable(g, f, S)

\* The sum of f over S is the last entry of the table.
LEMMA SumIsInTable ==
  ASSUME NEW f, NEW S
  PROVE  SumFunctionOnSet(f, S) = SumTable(f, S)[S]
BY Zenon DEF SumFunctionOnSet, FoldFunctionOnSet, MapThenFoldSet, Some, SumTable, IsSumTable

\* The table over S and the one over a subset T agree wherever both speak.
LEMMA TablesAgree ==
  ASSUME NEW f, NEW S, NEW T \in SUBSET S, IsFiniteSet(S),
         NEW g, IsSumTable(g, f, S), NEW h, IsSumTable(h, f, T)
  PROVE  \A s \in SUBSET T : g[s] = h[s]
<1> DEFINE Good == {s \in SUBSET T : g[s] = h[s]}
<1>1. IsFiniteSet(T)
  BY FS_Subset
<1>2. ASSUME NEW s \in SUBSET T, \A u \in SUBSET s : u # s => u \in Good
      PROVE  s \in Good
  <2>1. g[s] = IF s = {} THEN 0 ELSE f[Some(s)] + g[s \ {Some(s)}]
    BY s \in SUBSET S DEF IsSumTable
  <2>2. h[s] = IF s = {} THEN 0 ELSE f[Some(s)] + h[s \ {Some(s)}]
    BY DEF IsSumTable
  <2>3. CASE s = {}
    BY <2>1, <2>2, <2>3
  <2>4. CASE s # {}
    <3>1. s \ {Some(s)} \in SUBSET s /\ s \ {Some(s)} # s
      BY <2>4, SomeMember
    <3>2. g[s \ {Some(s)}] = h[s \ {Some(s)}]
      BY <1>2, <3>1
    <3> QED
      BY <2>1, <2>2, <2>4, <3>2
  <2> QED
    BY <2>3, <2>4
<1>3. \A s \in SUBSET T : s \in Good
  <2> HIDE DEF Good
  <2> QED
    BY <1>1, <1>2, SubsetInduction
<1> QED
  BY <1>3

\* A finite set has a table: the tables of its strict subsets make one for it.
LEMMA TableExists ==
  ASSUME NEW f, NEW S, IsFiniteSet(S)
  PROVE  IsSumTable(SumTable(f, S), f, S)
<1> DEFINE Good == {T \in SUBSET S : IsSumTable(SumTable(f, T), f, T)}
<1>1. ASSUME NEW T \in SUBSET S, \A U \in SUBSET T : U # T => U \in Good
      PROVE  T \in Good
  <2> DEFINE Sum(u) == SumTable(f, u)[u]
             g == [s \in SUBSET T |-> IF s = {} THEN 0 ELSE f[Some(s)] + Sum(s \ {Some(s)})]
  <2>1. ASSUME NEW u \in SUBSET T, u # T
        PROVE  g[u] = Sum(u)
    <3>1. IsSumTable(SumTable(f, u), f, u)
      BY <1>1, <2>1
    <3>2. Sum(u) = IF u = {} THEN 0 ELSE f[Some(u)] + SumTable(f, u)[u \ {Some(u)}]
      <4> DEFINE k == SumTable(f, u)
      <4>1. k = [s \in SUBSET u |-> IF s = {} THEN 0 ELSE f[Some(s)] + k[s \ {Some(s)}]]
        BY <3>1 DEF IsSumTable
      <4> HIDE DEF k
      <4>2. k[u] = IF u = {} THEN 0 ELSE f[Some(u)] + k[u \ {Some(u)}]
        BY <4>1
      <4> QED
        BY <4>2 DEF k
    <3>3. CASE u = {}
      BY <3>2, <3>3
    <3>4. CASE u # {}
      <4> DEFINE w == u \ {Some(u)}
      <4>1. w \in SUBSET u /\ w \in SUBSET T /\ w # T
        BY <2>1
      <4>2. IsSumTable(SumTable(f, w), f, w)
        BY <1>1, <4>1
      <4>3. IsFiniteSet(u)
        BY FS_Subset, u \in SUBSET S
      <4>4. SumTable(f, u)[w] = SumTable(f, w)[w]
        <5> HIDE DEF w
        <5> QED
          BY <3>1, <4>1, <4>2, <4>3, TablesAgree, w \in SUBSET w
      <4> QED
        BY <3>2, <3>4, <4>4
    <3> QED
      BY <3>3, <3>4
  <2>2. ASSUME NEW s \in SUBSET T, s # {}
        PROVE  g[s \ {Some(s)}] = Sum(s \ {Some(s)})
    <3>1. s \ {Some(s)} \in SUBSET T /\ s \ {Some(s)} # T
      BY <2>2, SomeMember
    <3> HIDE DEF g, Sum
    <3> QED
      BY <2>1, <3>1
  <2>3. g = [s \in SUBSET T |-> IF s = {} THEN 0 ELSE f[Some(s)] + g[s \ {Some(s)}]]
    BY <2>2
  <2>4. IsSumTable(g, f, T)
    BY <2>3, Zenon DEF IsSumTable
  <2>5. IsSumTable(SumTable(f, T), f, T)
    <3> HIDE DEF g
    <3> QED
      BY <2>4, Zenon DEF SumTable
  <2> QED
    BY <2>5
<1>2. \A T \in SUBSET S : T \in Good
  <2> HIDE DEF Good
  <2> QED
    BY <1>1, SubsetInduction
<1> QED
  BY <1>2

\* The sum over no elements is 0.
LEMMA SumEmpty == ASSUME NEW f PROVE SumFunctionOnSet(f, {}) = 0
<1> DEFINE k == SumTable(f, {})
<1>1. IsSumTable(k, f, {})
  BY TableExists, FS_EmptySet
<1> HIDE DEF k
<1>2. k[{}] = 0
  BY <1>1 DEF IsSumTable
<1> QED
  BY <1>2, SumIsInTable DEF k

\* A sum is its first element's value and the sum of the rest.
LEMMA SumUnfold ==
  ASSUME NEW f, NEW S, IsFiniteSet(S), S # {}
  PROVE  SumFunctionOnSet(f, S) = f[Some(S)] + SumFunctionOnSet(f, S \ {Some(S)})
<1> DEFINE k == SumTable(f, S)
           w == S \ {Some(S)}
<1>1. IsSumTable(k, f, S) /\ IsSumTable(SumTable(f, w), f, w)
  BY TableExists, FS_Subset, w \in SUBSET S
<1>2. k = [s \in SUBSET S |-> IF s = {} THEN 0 ELSE f[Some(s)] + k[s \ {Some(s)}]]
  BY <1>1 DEF IsSumTable
<1>3. k[S] = f[Some(S)] + k[w]
  <2> HIDE DEF k
  <2> QED
    BY <1>2
<1>4. k[w] = SumTable(f, w)[w]
  <2>1. w \in SUBSET S /\ w \in SUBSET w
    OBVIOUS
  <2> HIDE DEF k, w
  <2> QED
    BY <1>1, <2>1, TablesAgree
<1> QED
  BY <1>3, <1>4, SumIsInTable

\* Sums of natural numbers are natural numbers.
LEMMA SumType ==
  ASSUME NEW S, IsFiniteSet(S), NEW f, \A x \in S : f[x] \in Nat
  PROVE  \A T \in SUBSET S : SumFunctionOnSet(f, T) \in Nat
<1> DEFINE Good == {T \in SUBSET S : SumFunctionOnSet(f, T) \in Nat}
<1>1. ASSUME NEW T \in SUBSET S, \A U \in SUBSET T : U # T => U \in Good
      PROVE  T \in Good
  <2>1. CASE T = {}
    BY <2>1, SumEmpty
  <2>2. CASE T # {}
    <3>1. Some(T) \in T /\ IsFiniteSet(T)
      BY <2>2, SomeMember, FS_Subset
    <3>2. SumFunctionOnSet(f, T \ {Some(T)}) \in Nat
      BY <1>1, <3>1
    <3>3. f[Some(T)] \in Nat
      BY <3>1
    <3> QED
      BY <2>2, <3>1, <3>2, <3>3, SumUnfold
  <2> QED
    BY <2>1, <2>2
<1>2. \A T \in SUBSET S : T \in Good
  <2> HIDE DEF Good
  <2> QED
    BY <1>1, SubsetInduction
<1> QED
  BY <1>2

\* Any element may be taken out first: the order of a sum does not matter.
LEMMA SumRemove ==
  ASSUME NEW S, IsFiniteSet(S), NEW f, \A x \in S : f[x] \in Nat
  PROVE  \A T \in SUBSET S : \A x \in T :
           SumFunctionOnSet(f, T) = f[x] + SumFunctionOnSet(f, T \ {x})
<1> DEFINE Good == {T \in SUBSET S : \A x \in T :
                      SumFunctionOnSet(f, T) = f[x] + SumFunctionOnSet(f, T \ {x})}
<1>1. ASSUME NEW T \in SUBSET S, \A U \in SUBSET T : U # T => U \in Good
      PROVE  T \in Good
  <2> SUFFICES ASSUME NEW x \in T
               PROVE  SumFunctionOnSet(f, T) = f[x] + SumFunctionOnSet(f, T \ {x})
    OBVIOUS
  <2> DEFINE y == Some(T)
  <2>1. y \in T /\ IsFiniteSet(T)
    BY SomeMember, FS_Subset
  <2>2. SumFunctionOnSet(f, T) = f[y] + SumFunctionOnSet(f, T \ {y})
    BY <2>1, SumUnfold
  <2> HIDE DEF y
  <2>3. CASE x = y
    BY <2>2, <2>3
  <2>4. CASE x # y
    <3>1. SumFunctionOnSet(f, T \ {y}) = f[x] + SumFunctionOnSet(f, (T \ {y}) \ {x})
      <4>1. T \ {y} \in SUBSET T /\ T \ {y} # T /\ x \in T \ {y}
        BY <2>1, <2>4
      <4> QED
        BY <1>1, <4>1
    <3>2. SumFunctionOnSet(f, T \ {x}) = f[y] + SumFunctionOnSet(f, (T \ {x}) \ {y})
      <4>1. T \ {x} \in SUBSET T /\ T \ {x} # T /\ y \in T \ {x}
        BY <2>1, <2>4
      <4> QED
        BY <1>1, <4>1
    <3>3. (T \ {x}) \ {y} = (T \ {y}) \ {x}
      OBVIOUS
    <3>4. /\ f[x] \in Nat /\ f[y] \in Nat
          /\ SumFunctionOnSet(f, (T \ {y}) \ {x}) \in Nat
      <4>1. (T \ {y}) \ {x} \in SUBSET S
        OBVIOUS
      <4> QED
        BY <2>1, <4>1, SumType
    <3> QED
      BY <2>2, <3>1, <3>2, <3>3, <3>4
  <2> QED
    BY <2>3, <2>4
<1>2. \A T \in SUBSET S : T \in Good
  <2> HIDE DEF Good
  <2> QED
    BY <1>1, SubsetInduction
<1> QED
  BY <1>2

\* Two functions that agree on a set have the same sum over it.
LEMMA SumSame ==
  ASSUME NEW S, IsFiniteSet(S), NEW f, NEW g,
         \A x \in S : f[x] = g[x]
  PROVE  \A T \in SUBSET S : SumFunctionOnSet(f, T) = SumFunctionOnSet(g, T)
<1> DEFINE Good == {T \in SUBSET S : SumFunctionOnSet(f, T) = SumFunctionOnSet(g, T)}
<1>1. ASSUME NEW T \in SUBSET S, \A U \in SUBSET T : U # T => U \in Good
      PROVE  T \in Good
  <2>1. CASE T = {}
    BY <2>1, SumEmpty
  <2>2. CASE T # {}
    <3>1. Some(T) \in T /\ IsFiniteSet(T)
      BY <2>2, SomeMember, FS_Subset
    <3>2. SumFunctionOnSet(f, T \ {Some(T)}) = SumFunctionOnSet(g, T \ {Some(T)})
      BY <1>1, <3>1
    <3>3. f[Some(T)] = g[Some(T)]
      BY <3>1
    <3> QED
      BY <2>2, <3>1, <3>2, <3>3, SumUnfold
  <2> QED
    BY <2>1, <2>2
<1>2. \A T \in SUBSET S : T \in Good
  <2> HIDE DEF Good
  <2> QED
    BY <1>1, SubsetInduction
<1> QED
  BY <1>2
\* The sum of nothing but zeros is zero.
LEMMA SumZero ==
  ASSUME NEW S, IsFiniteSet(S), NEW f, \A x \in S : f[x] = 0
  PROVE  SumFunctionOnSet(f, S) = 0
<1> DEFINE Good == {T \in SUBSET S : SumFunctionOnSet(f, T) = 0}
<1>1. ASSUME NEW T \in SUBSET S, \A U \in SUBSET T : U # T => U \in Good
      PROVE  T \in Good
  <2>1. CASE T = {}
    BY <2>1, SumEmpty
  <2>2. CASE T # {}
    <3>1. Some(T) \in T /\ IsFiniteSet(T)
      BY <2>2, SomeMember, FS_Subset
    <3>2. SumFunctionOnSet(f, T \ {Some(T)}) = 0 /\ f[Some(T)] = 0
      BY <1>1, <3>1
    <3> QED
      BY <2>2, <3>1, <3>2, SumUnfold
  <2> QED
    BY <2>1, <2>2
<1>2. \A T \in SUBSET S : T \in Good
  <2> HIDE DEF Good
  <2> QED
    BY <1>1, SubsetInduction
<1> QED
  BY <1>2

\* The sum over two sets that share no element is the two sums together.
LEMMA SumUnion ==
  ASSUME NEW S, IsFiniteSet(S), NEW f, \A x \in S : f[x] \in Nat, NEW U \in SUBSET S
  PROVE  \A T \in SUBSET S : T \intersect U = {} =>
           SumFunctionOnSet(f, T \union U) = SumFunctionOnSet(f, T) + SumFunctionOnSet(f, U)
<1> DEFINE Good == {T \in SUBSET S : T \intersect U = {} =>
              SumFunctionOnSet(f, T \union U) = SumFunctionOnSet(f, T) + SumFunctionOnSet(f, U)}
<1>1. ASSUME NEW T \in SUBSET S, \A V \in SUBSET T : V # T => V \in Good
      PROVE  T \in Good
  <2> SUFFICES ASSUME T \intersect U = {}
               PROVE  SumFunctionOnSet(f, T \union U)
                        = SumFunctionOnSet(f, T) + SumFunctionOnSet(f, U)
    OBVIOUS
  <2>0. SumFunctionOnSet(f, U) \in Nat
    BY SumType
  <2>1. CASE T = {}
    <3>1. T \union U = U
      BY <2>1
    <3> QED
      BY <2>0, <2>1, <3>1, SumEmpty
  <2>2. CASE T # {}
    <3>1. PICK x \in T : TRUE
      BY <2>2
    <3>2. T \ {x} \in SUBSET T /\ T \ {x} # T /\ (T \ {x}) \intersect U = {}
      BY <3>1
    <3>3. SumFunctionOnSet(f, (T \ {x}) \union U)
            = SumFunctionOnSet(f, T \ {x}) + SumFunctionOnSet(f, U)
      BY <1>1, <3>2
    <3>4. (T \union U) \ {x} = (T \ {x}) \union U
      BY <3>1
    <3>5. SumFunctionOnSet(f, T \union U)
            = f[x] + SumFunctionOnSet(f, (T \union U) \ {x})
      <4>1. T \union U \in SUBSET S /\ x \in T \union U
        BY <3>1
      <4> QED
        BY <4>1, SumRemove
    <3>6. SumFunctionOnSet(f, T) = f[x] + SumFunctionOnSet(f, T \ {x})
      BY <3>1, SumRemove
    <3>7. f[x] \in Nat /\ SumFunctionOnSet(f, T \ {x}) \in Nat
      BY <3>1, SumType
    <3> QED
      BY <2>0, <3>3, <3>4, <3>5, <3>6, <3>7
  <2> QED
    BY <2>1, <2>2
<1>2. \A T \in SUBSET S : T \in Good
  <2> HIDE DEF Good
  <2> QED
    BY <1>1, SubsetInduction
<1> QED
  BY <1>2

\* Elements whose value is zero may be left out of a sum.
LEMMA SumPadded ==
  ASSUME NEW S, IsFiniteSet(S), NEW f, \A x \in S : f[x] \in Nat,
         NEW T \in SUBSET S, \A x \in S \ T : f[x] = 0
  PROVE  SumFunctionOnSet(f, S) = SumFunctionOnSet(f, T)
<1> DEFINE Z == S \ T
<1>1. Z \in SUBSET S /\ Z \intersect T = {} /\ Z \union T = S
  OBVIOUS
<1>2. SumFunctionOnSet(f, Z) = 0
  BY FS_Subset, SumZero
<1>3. SumFunctionOnSet(f, T) \in Nat
  BY SumType
<1>4. SumFunctionOnSet(f, Z \union T) = SumFunctionOnSet(f, Z) + SumFunctionOnSet(f, T)
  <2> HIDE DEF Z
  <2> QED
    BY <1>1, SumUnion
<1>5. SumFunctionOnSet(f, Z \union T) = SumFunctionOnSet(f, S)
  BY <1>1, Zenon
<1> HIDE DEF Z
<1> QED
  BY <1>2, <1>3, <1>4, <1>5

\* The elements of S whose key is in Q
Having(S, key, Q) == {x \in S : key[x] \in Q}

\* g[q] is the sum of f over the elements whose key is q.
SumsParts(g, f, S, key, K) ==
  \A q \in K : g[q] = SumFunctionOnSet(f, Having(S, key, {q}))

\* A set cut into parts by a key: the sums over the parts make up the sum over all.
LEMMA SumParts ==
  ASSUME NEW S, IsFiniteSet(S), NEW f, \A x \in S : f[x] \in Nat,
         NEW K, IsFiniteSet(K), NEW key, NEW g,
         SumsParts(g, f, S, key, K)
  PROVE  \A Q \in SUBSET K :
           SumFunctionOnSet(g, Q) = SumFunctionOnSet(f, Having(S, key, Q))
<1> DEFINE Good == {Q \in SUBSET K :
                      SumFunctionOnSet(g, Q) = SumFunctionOnSet(f, Having(S, key, Q))}
<1>1. ASSUME NEW Q \in SUBSET K, \A V \in SUBSET Q : V # Q => V \in Good
      PROVE  Q \in Good
  <2>1. CASE Q = {}
    <3>1. Having(S, key, Q) = {}
      BY <2>1 DEF Having
    <3> QED
      BY <2>1, <3>1, SumEmpty
  <2>2. CASE Q # {}
    <3> DEFINE q == Some(Q)
               R == Q \ {q}
               Part == Having(S, key, {q})
               Rest == Having(S, key, R)
    <3>1. q \in Q /\ IsFiniteSet(Q) /\ R \in SUBSET Q /\ R # Q
      BY <2>2, SomeMember, FS_Subset
    <3>2. SumFunctionOnSet(g, Q) = g[q] + SumFunctionOnSet(g, R)
      BY <2>2, <3>1, SumUnfold
    <3>3. SumFunctionOnSet(g, R) = SumFunctionOnSet(f, Rest)
      BY <1>1, <3>1
    <3>4. g[q] = SumFunctionOnSet(f, Part)
      BY <3>1 DEF SumsParts
    <3>5. Having(S, key, Q) = Part \union Rest /\ Part \intersect Rest = {}
      BY <3>1 DEF Having
    <3>6. Part \in SUBSET S /\ Rest \in SUBSET S
      BY DEF Having
    <3> HIDE DEF Part, Rest, R, q
    <3>7. SumFunctionOnSet(f, Part \union Rest)
            = SumFunctionOnSet(f, Part) + SumFunctionOnSet(f, Rest)
      BY <3>5, <3>6, SumUnion
    <3> QED
      BY <3>2, <3>3, <3>4, <3>5, <3>7
  <2> QED
    BY <2>1, <2>2
<1>2. \A Q \in SUBSET K : Q \in Good
  <2> HIDE DEF Good
  <2> QED
    BY <1>1, SubsetInduction
<1> QED
  BY <1>2

\* Counting is summing ones.
LEMMA CountIsSum ==
  ASSUME NEW S, IsFiniteSet(S), NEW f, \A x \in S : f[x] = 1
  PROVE  \A T \in SUBSET S : SumFunctionOnSet(f, T) = Cardinality(T)
<1> DEFINE Good == {T \in SUBSET S : SumFunctionOnSet(f, T) = Cardinality(T)}
<1>1. ASSUME NEW T \in SUBSET S, \A U \in SUBSET T : U # T => U \in Good
      PROVE  T \in Good
  <2>1. CASE T = {}
    BY <2>1, SumEmpty, FS_EmptySet
  <2>2. CASE T # {}
    <3> DEFINE x == Some(T)
    <3>1. x \in T /\ IsFiniteSet(T)
      BY <2>2, SomeMember, FS_Subset
    <3>2. SumFunctionOnSet(f, T \ {x}) = Cardinality(T \ {x}) /\ f[x] = 1
      BY <1>1, <3>1
    <3>3. SumFunctionOnSet(f, T) = f[x] + SumFunctionOnSet(f, T \ {x})
      BY <2>2, <3>1, SumUnfold
    <3>4. Cardinality(T \ {x}) = Cardinality(T) - 1 /\ Cardinality(T) \in Nat
      BY <3>1, FS_RemoveElement, FS_CardinalityType
    <3> HIDE DEF x
    <3> QED
      BY <3>2, <3>3, <3>4
  <2> QED
    BY <2>1, <2>2
<1>2. \A T \in SUBSET S : T \in Good
  <2> HIDE DEF Good
  <2> QED
    BY <1>1, SubsetInduction
<1> QED
  BY <1>2

\* Counting a set part by part.
LEMMA CountParts ==
  ASSUME NEW S, IsFiniteSet(S), NEW K, IsFiniteSet(K), NEW key, NEW g,
         \A q \in K : g[q] = Cardinality(Having(S, key, {q}))
  PROVE  SumFunctionOnSet(g, K) = Cardinality(Having(S, key, K))
<1> DEFINE f == [x \in S |-> 1]
<1>1. \A T \in SUBSET S : SumFunctionOnSet(f, T) = Cardinality(T)
  BY CountIsSum
<1>2. \A x \in S : f[x] \in Nat
  OBVIOUS
<1>3. \A Q : Having(S, key, Q) \in SUBSET S
  BY DEF Having
<1> HIDE DEF f
<1>4. SumsParts(g, f, S, key, K)
  BY <1>1, <1>3 DEF SumsParts
<1>5. \A Q \in SUBSET K : SumFunctionOnSet(g, Q) = SumFunctionOnSet(f, Having(S, key, Q))
  BY <1>2, <1>4, SumParts
<1> QED
  BY <1>1, <1>3, <1>5, K \in SUBSET K
=============================================================================
