--------------------------- MODULE DataInduction ---------------------------
(***************************************************************************)
(* Induction over natural numbers, stated for sets and functions instead   *)
(* of predicates and operators: a set of numbers with 0 and the successor  *)
(* of each of its elements is Nat, and a step given as a function can be   *)
(* iterated.  They follow from the well-foundedness of the strict subsets  *)
(* of finite sets.                                                         *)
(***************************************************************************)
EXTENDS Integers, FiniteSetTheorems, WellFoundedInduction, TLAPS

\* A set of natural numbers has a least element.
LEMMA LeastNat ==
  ASSUME NEW T \in SUBSET Nat, T # {}
  PROVE  \E x \in T : \A y \in T : x <= y
<1> DEFINE Below(n) == 0 .. n - 1
           B == {Below(n) : n \in T}
<1>1. B \subseteq FiniteSubsetsOf(Nat) /\ B # {}
  <2>1. ASSUME NEW n \in T
        PROVE  Below(n) \in SUBSET Nat /\ IsFiniteSet(Below(n))
    BY FS_Interval
  <2> QED
    BY <2>1 DEF FiniteSubsetsOf
<1>2. PICK b \in B : \A c \in B : <<c, b>> \notin StrictSubsetOrdering(Nat)
  BY <1>1, WFMin, FS_StrictSubsetOrderingWellFounded, Zenon
<1>3. PICK x \in T : b = Below(x)
  OBVIOUS
<1>4. ASSUME NEW y \in T, y < x
      PROVE  FALSE
  <2>1. Below(y) \subseteq Below(x) /\ Below(y) # Below(x)
    <3>1. y \in Below(x) /\ y \notin Below(y)
      BY <1>4
    <3> QED
      BY <1>4, <3>1
  <2>2. <<Below(y), b>> \in StrictSubsetOrdering(Nat)
    BY <1>3, <2>1 DEF StrictSubsetOrdering
  <2> QED
    BY <1>2, <2>2
<1> QED
  BY <1>4

\* A set with 0 and all successors of its elements has every number.
LEMMA NatSetInduction ==
  ASSUME NEW T, 0 \in T, \A n \in Nat : n \in T => n + 1 \in T
  PROVE  Nat \subseteq T
<1> SUFFICES ASSUME Nat \ T # {}
             PROVE  FALSE
  OBVIOUS
<1>1. PICK x \in Nat \ T : \A y \in Nat \ T : x <= y
  BY LeastNat
<1>2. x - 1 \in Nat /\ x - 1 \in T
  BY <1>1
<1> QED
  BY <1>2

\* f[n] is what n steps make of the first value.
Iterates(f, S, first, step) ==
  /\ f \in [Nat -> S]
  /\ f[0] = first /\ \A n \in Nat : f[n + 1] = step[n][f[n]]

\* Every step can be iterated.
LEMMA NatRecursion ==
  ASSUME NEW S, NEW first \in S, NEW step \in [Nat -> [S -> S]]
  PROVE  \E f : Iterates(f, S, first, step)
<1> DEFINE Run(n, f) == f[0] = first /\ \A m \in 0 .. n - 1 : f[m + 1] = step[m][f[m]]
           Runs(n) == {f \in [0 .. n -> S] : Run(n, f)}
           T == {n \in Nat : Runs(n) # {} /\ \A f, g \in Runs(n) : f = g}
           Cut(n, g) == [m \in 0 .. n |-> g[m]]
<1>0. ASSUME NEW n \in Nat, NEW g \in Runs(n + 1)
      PROVE  Cut(n, g) \in Runs(n)
  OBVIOUS
<1>1. 0 \in T
  <2>1. [m \in 0 .. 0 |-> first] \in Runs(0)
    OBVIOUS
  <2>2. ASSUME NEW f \in Runs(0), NEW g \in Runs(0)
        PROVE  f = g
    <3>1. \A m \in 0 .. 0 : f[m] = g[m]
      OBVIOUS
    <3> QED
      BY <3>1
  <2> QED
    BY <2>1, <2>2
<1>2. ASSUME NEW n \in Nat, n \in T
      PROVE  n + 1 \in T
  <2>1. PICK f \in Runs(n) : \A g \in Runs(n) : g = f
    BY <1>2
  <2> DEFINE h == [m \in 0 .. n + 1 |-> IF m <= n THEN f[m] ELSE step[n][f[n]]]
  <2>2. h \in Runs(n + 1)
    <3>1. f[n] \in S /\ step[n][f[n]] \in S
      BY <2>1
    <3>2. h \in [0 .. n + 1 -> S]
      BY <3>1, <2>1
    <3>3. h[0] = first
      BY <2>1
    <3>4. \A m \in 0 .. (n + 1) - 1 : h[m + 1] = step[m][h[m]]
      BY <2>1
    <3> QED
      BY <3>2, <3>3, <3>4
  <2>3. ASSUME NEW g \in Runs(n + 1)
        PROVE  g = h
    <3>1. Cut(n, g) \in Runs(n)
      BY <1>0
    <3>2. Cut(n, g) = f
      BY <2>1, <3>1
    <3>3. \A m \in 0 .. n : g[m] = f[m]
      BY <3>2
    <3>4. g[n + 1] = step[n][g[n]]
      OBVIOUS
    <3>5. \A m \in 0 .. n + 1 : g[m] = h[m]
      BY <3>3, <3>4
    <3> QED
      BY <3>5, <2>2
  <2>4. Runs(n + 1) # {} /\ \A g, k \in Runs(n + 1) : g = k
    <3> HIDE DEF h, Runs
    <3> QED
      BY <2>2, <2>3
  <2> HIDE DEF Runs
  <2> QED
    BY <2>4
<1>3. Nat \subseteq T
  <2> HIDE DEF T
  <2> QED
    BY <1>1, <1>2, NatSetInduction
<1> DEFINE R(n) == CHOOSE f \in Runs(n) : TRUE
           all == [n \in Nat |-> R(n)[n]]
<1>4. \A n \in Nat : R(n) \in Runs(n) /\ \A g \in Runs(n) : g = R(n)
  BY <1>3
<1> HIDE DEF R
<1>5. all \in [Nat -> S]
  BY <1>4
<1>6. all[0] = first
  BY <1>4
<1>7. ASSUME NEW n \in Nat
      PROVE  all[n + 1] = step[n][all[n]]
  <2> DEFINE g == R(n + 1)
  <2>1. g \in Runs(n + 1)
    BY <1>4
  <2>2. Cut(n, g) \in Runs(n)
    BY <1>0, <2>1
  <2>3. Cut(n, g) = R(n)
    BY <1>4, <2>2
  <2>4. g[n] = R(n)[n]
    <3>1. Cut(n, g)[n] = g[n]
      OBVIOUS
    <3> QED
      BY <2>3, <3>1
  <2>5. g[n + 1] = step[n][g[n]]
    BY <2>1
  <2> QED
    BY <2>4, <2>5
<1> QED
  BY <1>5, <1>6, <1>7 DEF Iterates

\* The same up to a bound, in the form of a recursive function's definition.
IteratesTo(f, N, S, first, step) ==
  /\ f \in [0 .. N -> S]
  /\ f = [k \in 0 .. N |-> IF k = 0 THEN first ELSE step[k][f[k - 1]]]

LEMMA BoundedRecursion ==
  ASSUME NEW N \in Nat, NEW S, NEW first \in S, NEW step \in [Nat -> [S -> S]]
  PROVE  \E f : IteratesTo(f, N, S, first, step)
<1> DEFINE after == [n \in Nat |-> step[n + 1]]
<1>1. after \in [Nat -> [S -> S]]
  OBVIOUS
<1>2. PICK g : Iterates(g, S, first, after)
  <2> HIDE DEF after
  <2> QED
    BY <1>1, NatRecursion
<1>3. g \in [Nat -> S] /\ g[0] = first /\ \A n \in Nat : g[n + 1] = step[n + 1][g[n]]
  BY <1>2 DEF Iterates
<1> DEFINE f == [k \in 0 .. N |-> g[k]]
<1>4. ASSUME NEW k \in 0 .. N, k # 0
      PROVE  g[k] = step[k][g[k - 1]]
  <2>1. k - 1 \in Nat /\ (k - 1) + 1 = k
    BY <1>4
  <2> QED
    BY <1>3, <2>1
<1>5. \A k \in 0 .. N : f[k] = IF k = 0 THEN first ELSE step[k][f[k - 1]]
  BY <1>3, <1>4
<1>6. f \in [0 .. N -> S]
  BY <1>3
<1>7. f = [k \in 0 .. N |-> IF k = 0 THEN first ELSE step[k][f[k - 1]]]
  <2> HIDE DEF f
  <2> QED
    BY <1>5, <1>6
<1> HIDE DEF f
<1> QED
  BY <1>6, <1>7 DEF IteratesTo

\* A bounded set of natural numbers is finite, and each position in it is taken.
LEMMA Ranking ==
  ASSUME NEW N \in Nat, NEW S \in SUBSET (0 .. N - 1)
  PROVE  /\ IsFiniteSet(S) /\ Cardinality(S) \in Nat
         /\ \A m \in Nat : m < Cardinality(S) =>
              \E x \in S : Cardinality({y \in S : y < x}) = m
<1> DEFINE Under(n) == {y \in S : y < n}
<1>0. \A y \in S : y \in Nat /\ y < N
  <2>1. \A y \in 0 .. N - 1 : y \in Nat /\ y < N
    OBVIOUS
  <2> QED
    BY <2>1
<1>1. IsFiniteSet(S) /\ Cardinality(S) \in Nat
  <2>1. IsFiniteSet(0 .. N - 1)
    BY FS_Interval
  <2> QED
    BY <2>1, FS_Subset, FS_CardinalityType
<1>2. ASSUME NEW n \in Nat
      PROVE  IsFiniteSet(Under(n)) /\ Cardinality(Under(n)) \in Nat
  <2>1. Under(n) \in SUBSET S
    OBVIOUS
  <2> HIDE DEF Under
  <2> QED
    BY <1>1, <2>1, FS_Subset, FS_CardinalityType
<1>3. ASSUME NEW n \in Nat
      PROVE  Under(n + 1) = IF n \in S THEN Under(n) \cup {n} ELSE Under(n)
  <2>1. \A y \in S : y < n + 1 <=> y < n \/ y = n
    BY <1>0
  <2> QED
    BY <2>1, <1>0, Zenon
<1>4. ASSUME NEW m \in Nat, m < Cardinality(S),
             \A x \in S : Cardinality(Under(x)) # m
      PROVE  FALSE
  <2> DEFINE T == {n \in Nat : Cardinality(Under(n)) <= m}
  <2>1. 0 \in T
    <3>1. Under(0) = {}
      <4>1. \A y \in S : ~(y < 0)
        BY <1>0
      <4> QED
        BY <4>1
    <3> HIDE DEF Under
    <3> QED
      BY <3>1, FS_EmptySet
  <2>2. ASSUME NEW n \in Nat, n \in T
        PROVE  n + 1 \in T
    <3>1. CASE n \in S
      <4>1. Cardinality(Under(n)) <= m /\ Cardinality(Under(n)) # m
        BY <1>4, <2>2, <3>1
      <4>2. n \notin Under(n)
        OBVIOUS
      <4>3. Under(n + 1) = Under(n) \cup {n}
        BY <1>3, <3>1
      <4> HIDE DEF Under
      <4>4. Cardinality(Under(n + 1)) = Cardinality(Under(n)) + 1
        BY <1>2, <4>2, <4>3, FS_AddElement
      <4> QED
        BY <1>2, <4>1, <4>4
    <3>2. CASE n \notin S
      BY <1>3, <2>2, <3>2
    <3> QED
      BY <3>1, <3>2
  <2>3. Nat \subseteq T
    <3> HIDE DEF T
    <3> QED
      BY <2>1, <2>2, NatSetInduction
  <2>4. Under(N) = S /\ Cardinality(Under(N)) <= m
    BY <1>0, <2>3
  <2> QED
    BY <1>1, <1>4, <2>4
<1> QED
  BY <1>1, <1>4
=============================================================================
