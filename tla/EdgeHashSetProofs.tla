------------------------- MODULE EdgeHashSetProofs -------------------------
(***************************************************************************)
(* Proofs about EdgeHashSet, for every hash function, size of the table    *)
(* and sequence of calls.                                                  *)
(*                                                                         *)
(* The slots of a table are settled when their edge is where it belongs    *)
(* under the current epoch.  Nothing that happens to the others can make a *)
(* settled edge unreachable: a loop passes only settled slots, and a slot  *)
(* stays settled until the table grows again.  A second copy of an edge    *)
(* exists only while one is being moved, and slot i holds it.              *)
(***************************************************************************)
EXTENDS EdgeHashSet, DataInduction

Moving == pc \in {"relocate", "swap", "clear"}
Growing == pc = "rehash" \/ Moving
Slots == DOMAIN edges
PresentSlots == {s \in Slots : Present(s)}

\* The edge of slot s lies where later calls look for it.
Settled(s) == s \in Slots /\ Present(s) /\ ~Stale(s) /\ ~(Moving /\ s = i)

\* Sequence e leads to slot s over settled slots.
Leads(e, s) ==
  \E k \in 1 .. Attempts : Index(e, k) = s /\ \A m \in 1 .. k - 1 : Settled(Index(e, m))

Typed ==
  /\ hash \in [Edges -> EdgeHashes]
  /\ \A s \in Slots : edges[s] \in Slot
  /\ inserted \in Nat /\ epoch \in {0, 1} /\ open \in BOOLEAN
  /\ pc \in {"idle", "probe", "grow", "rehash", "relocate", "swap", "clear"}
  /\ IF pc = "idle" THEN arg = Free ELSE arg \in Edges
  /\ recorded \in SUBSET Edges
  /\ answers \in [Edges -> {"none", "new", "old"}]

\* The sizes: a table is full when its threshold is reached, and has grown to
\* twice its size before the threshold is raised.
Sized ==
  /\ \E k \in Log2Init .. MaxCount : Slots = 0 .. Pow2[k] - 1
  /\ EdgeCount <= MaxCount
  /\ pc = "grow" => 2 * EdgeCount <= MaxCount
  /\ inserted <= threshold /\ (pc = "probe" => inserted < threshold)
  /\ IF Growing THEN \E n \in 1 .. EdgeCount : EdgeCount = 2 * n /\ threshold = Threshold(n)
     ELSE threshold = Threshold(EdgeCount)

\* Slots still to be rehashed lie in the old half, from i on.
Rehashed ==
  /\ i \in Nat
  /\ Growing => 2 * i <= EdgeCount /\ \A s \in Slots : Stale(s) => i <= s /\ 2 * s < EdgeCount
  /\ Moving => 2 * i < EdgeCount /\ i \in Slots /\ Present(i)
  /\ ~Growing => \A s \in Slots : ~Stale(s)

Places == \A s \in Slots : Settled(s) => Leads(edges[s].edge, s)

\* The edge that is moved: marked in slot i, on its way to slot j, or copied.
InTransit ==
  /\ pc \in {"relocate", "clear"} => edges[i].epoch = epoch
  /\ IF pc = "swap"
     THEN /\ tmp \in Slot \ {Free} /\ tmp.epoch = epoch
          /\ j \in Slots /\ j # i /\ edges[j] = edges[i] /\ Stale(i)
          /\ Leads(tmp.edge, j)
          /\ \A s \in Slots : ~EdgeAt(s, tmp.edge)
     ELSE tmp = Free /\ j = 0
  /\ pc = "clear" => \E s \in Slots \ {i} : EdgeAt(s, edges[i].edge)

\* Two copies of an edge.
Unique ==
  \A s, r \in Slots : Present(s) /\ Present(r) /\ edges[s].edge = edges[r].edge /\ s # r =>
    \/ pc = "clear" /\ i \in {s, r}
    \/ pc = "swap" /\ {s, r} = {i, j}

Kept == \A e \in Edges :
  e \in recorded <=> (\E s \in Slots : EdgeAt(s, e)) \/ (pc = "swap" /\ tmp.edge = e)

Counted ==
  /\ IsFiniteSet(PresentSlots)
  /\ Cardinality(PresentSlots) = IF pc = "clear" THEN inserted + 1 ELSE inserted

Inv == Typed /\ Sized /\ Rehashed /\ Places /\ InTransit /\ Unique /\ Kept /\ Counted

----------------------------------------------------------------------------
(* Sizes, index sequences and the loops over them.                         *)

\* Pow2 is what its definition says.
LEMMA Pow2Def ==
  /\ Pow2 \in [Nat -> Nat \ {0}]
  /\ Pow2[0] = 1 /\ \A k \in Nat : Pow2[k + 1] = 2 * Pow2[k]
<1> DEFINE S == Nat \ {0}
           step == [n \in Nat |-> [v \in S |-> 2 * v]]
<1>1. step \in [Nat -> [S -> S]] /\ 1 \in S
  OBVIOUS
<1>2. PICK f : Iterates(f, S, 1, step)
  <2> HIDE DEF step, S
  <2> QED
    BY <1>1, NatRecursion
<1>2a. f \in [Nat -> S] /\ f[0] = 1 /\ \A n \in Nat : f[n + 1] = 2 * f[n]
  BY <1>2 DEF Iterates
<1>3. ASSUME NEW k \in Nat
      PROVE  f[k] = IF k = 0 THEN 1 ELSE 2 * f[k - 1]
  <2>1. CASE k # 0
    <3>1. k - 1 \in Nat /\ (k - 1) + 1 = k
      BY <2>1
    <3>2. f[(k - 1) + 1] = 2 * f[k - 1]
      BY <1>2a, <3>1
    <3> QED
      BY <2>1, <3>1, <3>2
  <2> QED
    BY <1>2a, <2>1
<1> DEFINE IsPow2(g) == g = [k \in Nat |-> IF k = 0 THEN 1 ELSE 2 * g[k - 1]]
<1>4. IsPow2(f)
  BY <1>2a, <1>3
<1>5. IsPow2(Pow2)
  <2>1. Pow2 = CHOOSE g : IsPow2(g)
    BY DEF Pow2
  <2> HIDE DEF IsPow2
  <2> QED
    BY <1>4, <2>1
<1>6. \A k \in Nat : Pow2[k] = IF k = 0 THEN 1 ELSE 2 * Pow2[k - 1]
  BY <1>5
<1>7. Pow2[0] = 1 /\ \A k \in Nat : Pow2[k + 1] = 2 * Pow2[k]
  BY <1>6
<1>8. \A k \in Nat : Pow2[k] \in S
  <2> DEFINE T == {k \in Nat : Pow2[k] \in S}
  <2>1. 0 \in T /\ \A k \in Nat : k \in T => k + 1 \in T
    BY <1>7
  <2>2. Nat \subseteq T
    <3> HIDE DEF T
    <3> QED
      BY <2>1, NatSetInduction
  <2> QED
    BY <2>2
<1>9. Pow2 \in [Nat -> S]
  <2>1. Pow2 = [k \in Nat |-> Pow2[k]]
    BY <1>5
  <2> QED
    BY <1>8, <2>1
<1> QED
  BY <1>7, <1>9

LEMMA Pow2Above == \A k \in Nat : k < Pow2[k]
<1> DEFINE T == {k \in Nat : k < Pow2[k]}
<1>1. 0 \in T /\ \A k \in Nat : k \in T => k + 1 \in T
  BY Pow2Def
<1>2. Nat \subseteq T
  <2> HIDE DEF T
  <2> QED
    BY <1>1, NatSetInduction
<1> QED
  BY <1>2

\* The hash value of every attempt is a hash value.
LEMMA TrailType == Trail \in [1 .. Attempts -> [Hashes -> Hashes]]
<1> DEFINE S == [Hashes -> Hashes]
           Next1(k, prev) == [h \in Hashes |->
              IF (Attempts - k + 1) % 4 = 3 THEN Mix[prev[h]] ELSE (prev[h] + 1) % HashMod]
           first == [h \in Hashes |-> h]
           step == [n \in Nat |-> [v \in S |-> Next1(n + 1, v)]]
<1>1. ASSUME NEW k, NEW v \in S
      PROVE  Next1(k, v) \in S
  <2>1. \A h \in Hashes : Mix[v[h]] \in Hashes
    BY SizeAssumption
  <2>2. \A h \in Hashes : v[h] \in Nat /\ HashMod \in Nat \ {0}
    <3>1. \A h \in Hashes : v[h] \in Hashes
      OBVIOUS
    <3>2. Hashes \subseteq Nat /\ HashMod \in Nat \ {0}
      BY SizeAssumption DEF Hashes
    <3> QED
      BY <3>1, <3>2
  <2>3. \A h \in Hashes : (v[h] + 1) % HashMod \in Hashes
    BY <2>2 DEF Hashes
  <2> QED
    BY <2>1, <2>3
<1> HIDE DEF Next1
<1>2. step \in [Nat -> [S -> S]] /\ first \in S
  BY <1>1
<1>3. PICK f : Iterates(f, S, first, step)
  <2> HIDE DEF step, S, first
  <2> QED
    BY <1>2, NatRecursion
<1>4. f \in [Nat -> S] /\ f[0] = first /\ \A n \in Nat : f[n + 1] = Next1(n + 1, f[n])
  BY <1>3 DEF Iterates
<1> DEFINE IsTrail(g) == g = [k \in 0 .. Attempts |-> IF k = 0 THEN first ELSE Next1(k, g[k - 1])]
           g0 == [k \in 0 .. Attempts |-> f[k]]
           trail == CHOOSE g : IsTrail(g)
<1>5. IsTrail(g0)
  <2> SUFFICES ASSUME NEW k \in 0 .. Attempts
               PROVE  g0[k] = IF k = 0 THEN first ELSE Next1(k, g0[k - 1])
    BY SizeAssumption
  <2>1. CASE k # 0
    <3>1. k - 1 \in Nat /\ k - 1 \in 0 .. Attempts /\ (k - 1) + 1 = k
      BY <2>1, SizeAssumption
    <3>2. f[(k - 1) + 1] = Next1((k - 1) + 1, f[k - 1])
      BY <1>4, <3>1
    <3> QED
      BY <2>1, <3>1, <3>2
  <2> QED
    BY <1>4, <2>1
<1>6. IsTrail(trail)
  <2> HIDE DEF IsTrail, g0
  <2> QED
    BY <1>5
<1>7. Trail = [k \in 1 .. Attempts |-> trail[k]]
  BY DEF Trail, Next1
<1>8. \A k \in 0 .. Attempts : trail[k] = IF k = 0 THEN first ELSE Next1(k, trail[k - 1])
  <2> HIDE DEF trail
  <2> QED
    BY <1>6
<1> HIDE DEF trail
<1>9. \A k \in 0 .. Attempts : trail[k] \in S
  <2> DEFINE T == {k \in Nat : k <= Attempts => trail[k] \in S}
  <2>1. 0 \in T
    <3>1. 0 \in 0 .. Attempts
      BY SizeAssumption
    <3>2. trail[0] = first
      BY <1>8, <3>1
    <3> HIDE DEF first, S
    <3> QED
      BY <1>2, <3>2
  <2>2. ASSUME NEW k \in Nat, k \in T, k + 1 <= Attempts
        PROVE  trail[k + 1] \in S
    <3>1. trail[k] \in S
      BY <2>2, SizeAssumption
    <3>2. trail[k + 1] = Next1(k + 1, trail[k])
      <4>1. k + 1 \in 0 .. Attempts /\ k + 1 # 0 /\ (k + 1) - 1 = k
        BY <2>2, SizeAssumption
      <4> HIDE DEF first
      <4>2. trail[k + 1] = Next1(k + 1, trail[(k + 1) - 1])
        BY <1>8, <4>1
      <4> QED
        BY <4>1, <4>2
    <3> QED
      BY <1>1, <3>1, <3>2
  <2>3. Nat \subseteq T
    <3>1. \A k \in Nat : k \in T => k + 1 \in T
      BY <2>2
    <3> HIDE DEF T
    <3> QED
      BY <2>1, <3>1, NatSetInduction
  <2> QED
    BY <2>3, SizeAssumption
<1> QED
  BY <1>7, <1>9, SizeAssumption

\* A loop that stops stops at the first slot at which it may.
LEMMA Stopping ==
  ASSUME NEW e, NEW S, CanStop(e, S)
  PROVE  /\ FirstStop(e, S) \in S
         /\ \E k \in 1 .. Attempts : /\ Index(e, k) = FirstStop(e, S)
                                     /\ \A m \in 1 .. k - 1 : Index(e, m) \notin S
<1>1. Stops(e, S) \in SUBSET Nat /\ Stops(e, S) # {}
  BY DEF CanStop, Stops
<1>2. \E x \in Stops(e, S) : \A y \in Stops(e, S) : x <= y
  BY <1>1, LeastNat
<1>3. /\ Min(Stops(e, S)) \in Stops(e, S)
      /\ \A y \in Stops(e, S) : Min(Stops(e, S)) <= y
  BY <1>2 DEF Min
<1> DEFINE k == Min(Stops(e, S))
<1>4. k \in 1 .. Attempts /\ Index(e, k) \in S
  BY <1>3 DEF Stops
<1>5. ASSUME NEW m \in 1 .. k - 1, Index(e, m) \in S
      PROVE  FALSE
  <2>1. m \in 1 .. Attempts /\ m < k
    BY <1>4, SizeAssumption
  <2>2. m \in Stops(e, S)
    BY <1>5, <2>1 DEF Stops
  <2> QED
    BY <1>3, <1>4, <2>1, <2>2, SizeAssumption
<1> QED
  BY <1>4, <1>5 DEF FirstStop

\* Conversely.
LEMMA StoppingAt ==
  ASSUME NEW e, NEW S, NEW k \in 1 .. Attempts, Index(e, k) \in S,
         \A m \in 1 .. k - 1 : Index(e, m) \in S => Index(e, m) = Index(e, k)
  PROVE  CanStop(e, S) /\ FirstStop(e, S) = Index(e, k)
<1>1. CanStop(e, S)
  BY DEF CanStop, Stops
<1>2. PICK n \in 1 .. Attempts : Index(e, n) = FirstStop(e, S) /\ Index(e, n) \in S
                                /\ \A m \in 1 .. n - 1 : Index(e, m) \notin S
  BY <1>1, Stopping
<1>3. n <= k
  BY <1>2, SizeAssumption
<1> QED
  BY <1>1, <1>2, <1>3, SizeAssumption

LEMMA ThresholdGrows ==
  ASSUME NEW n \in Nat \ {0}
  PROVE  Threshold(n) \in Nat /\ Threshold(n) < n /\ Threshold(n) < Threshold(2 * n)
BY DEF Threshold

LEMMA SizeFacts ==
  ASSUME Sized
  PROVE  EdgeCount \in Nat \ {0} /\ Slots = 0 .. EdgeCount - 1 /\ IsFiniteSet(Slots) /\ 0 \in Slots
<1>1. PICK k \in Log2Init .. MaxCount : Slots = 0 .. Pow2[k] - 1
  BY DEF Sized
<1>2. k \in Nat /\ Pow2[k] \in Nat \ {0}
  BY Pow2Def, SizeAssumption
<1>3. Cardinality(Slots) = Pow2[k] /\ IsFiniteSet(Slots)
  <2> DEFINE n == Pow2[k] - 1
  <2>1. n \in Int /\ 0 <= n /\ n - 0 + 1 = Pow2[k]
    BY <1>2
  <2> HIDE DEF n
  <2>2. IsFiniteSet(0 .. n) /\ Cardinality(0 .. n) = n - 0 + 1
    BY <2>1, FS_Interval
  <2> QED
    BY <1>1, <2>1, <2>2 DEF n
<1> QED
  BY <1>1, <1>2, <1>3 DEF EdgeCount, Slots

LEMMA ThresholdType ==
  ASSUME Sized
  PROVE  threshold \in Nat
<1>1. EdgeCount \in Nat \ {0} /\ \A n \in 1 .. EdgeCount : n \in Nat \ {0}
  BY SizeFacts
<1> QED
  BY <1>1, ThresholdGrows DEF Sized

LEMMA IndexInside ==
  ASSUME Typed, Sized, NEW e \in Edges, NEW k \in 1 .. Attempts
  PROVE  Index(e, k) \in Slots
<1>1. Trail[k][hash[e]] \in Nat
  <2>1. hash[e] \in Hashes
    BY SizeAssumption DEF Typed
  <2>2. Hashes \subseteq Nat
    BY SizeAssumption DEF Hashes
  <2> QED
    BY <2>1, <2>2, TrailType
<1>2. EdgeCount \in Nat \ {0} /\ Slots = 0 .. EdgeCount - 1
  BY SizeFacts
<1>3. \A x \in Nat, n \in Nat \ {0} : x % n \in 0 .. n - 1
  OBVIOUS
<1> QED
  BY <1>1, <1>2, <1>3 DEF Index

\* A way to a slot stays one while the slots it passes stay settled.
LEMMA LeadsKept ==
  ASSUME hash' = hash, Slots' = Slots, \A s \in Slots : Settled(s) => Settled(s)',
         NEW e, NEW s, Leads(e, s)
  PROVE  Leads(e, s)'
<1>1. EdgeCount' = EdgeCount
  BY DEF EdgeCount, Slots
<1>2. \A k \in 1 .. Attempts : Index(e, k)' = Index(e, k)
  BY <1>1 DEF Index
<1>3. PICK k \in 1 .. Attempts : Index(e, k) = s /\ \A m \in 1 .. k - 1 : Settled(Index(e, m))
  BY DEF Leads
<1>4. ASSUME NEW m \in 1 .. k - 1
      PROVE  Settled(Index(e, m))'
  <2>1. Settled(Index(e, m)) /\ Index(e, m) \in Slots /\ m \in 1 .. Attempts
    BY <1>3, SizeAssumption DEF Settled
  <2>2. PICK r \in Slots : r = Index(e, m) /\ Settled(r)
    BY <2>1
  <2>3. Settled(r)' /\ Index(e, m)' = r
    BY <1>2, <2>1, <2>2
  <2> QED
    BY <2>3 DEF Settled, Present, Stale
<1> QED
  BY <1>2, <1>3, <1>4 DEF Leads

LEMMA PlacesKept ==
  ASSUME hash' = hash, Slots' = Slots, \A s \in Slots : Settled(s) => Settled(s)',
         \A s \in Slots : Settled(s)' => Leads(edges'[s].edge, s)
  PROVE  Places'
<1>1. ASSUME NEW s \in Slots, Settled(s)', NEW e, e = edges'[s].edge
      PROVE  Leads(e, s)'
  <2>1. Leads(e, s)
    BY <1>1
  <2> QED
    BY <2>1, LeadsKept
<1> QED
  BY <1>1 DEF Places, Leads, Index, Settled, Present, Stale, Slots

\* Where a loop stops: a slot of the table, to which settled slots lead.
LEMMA LoopEnd ==
  ASSUME Inv, NEW e \in Edges, NEW S, CanStop(e, S), S \subseteq Slots,
         \A r \in Slots \ S : Settled(r)
  PROVE  FirstStop(e, S) \in S /\ Leads(e, FirstStop(e, S))
<1>1. FirstStop(e, S) \in S
  BY Stopping
<1>2. PICK k \in 1 .. Attempts : Index(e, k) = FirstStop(e, S)
                                /\ \A m \in 1 .. k - 1 : Index(e, m) \notin S
  BY Stopping
<1>3. \A m \in 1 .. k - 1 : Settled(Index(e, m))
  <2> TAKE m \in 1 .. k - 1
  <2>1. m \in 1 .. Attempts
    BY SizeAssumption
  <2> QED
    BY <1>2, <2>1, IndexInside DEF Inv
<1> QED
  BY <1>1, <1>2, <1>3 DEF Leads

\* While nothing is moved, a loop for an edge of the table stops at its slot.
LEMMA Found ==
  ASSUME Inv, ~Growing, NEW s \in Slots, Present(s)
  PROVE  LET e == edges[s].edge IN
         Settled(s) /\ CanStop(e, AddStops(e)) /\ FirstStop(e, AddStops(e)) = s
<1> DEFINE e == edges[s].edge
<1>1. Settled(s)
  BY DEF Inv, Rehashed, Settled, Growing
<1>2. PICK k \in 1 .. Attempts : Index(e, k) = s /\ \A m \in 1 .. k - 1 : Settled(Index(e, m))
  BY <1>1 DEF Inv, Places, Leads
<1>3. Index(e, k) \in AddStops(e)
  BY <1>2 DEF AddStops, EdgeAt, Slots
<1>4. ASSUME NEW m \in 1 .. k - 1, Index(e, m) \in AddStops(e)
      PROVE  Index(e, m) = Index(e, k)
  <2>1. Index(e, m) \in Slots /\ Present(Index(e, m)) /\ edges[Index(e, m)].edge = e
    BY <1>2, <1>4 DEF Settled, AddStops, EdgeAt
  <2> QED
    BY <1>2, <2>1 DEF Inv, Unique, Growing, Moving
<1> QED
  BY <1>1, <1>2, <1>3, <1>4, StoppingAt

----------------------------------------------------------------------------
(* The invariant.                                                          *)

LEMMA InvInit == Init => Inv
<1> SUFFICES ASSUME Init
             PROVE  Inv
  OBVIOUS
<1> DEFINE n == Pow2[Log2Init]
<1>1. n \in Nat \ {0} /\ Log2Init < n
  BY Pow2Def, Pow2Above, SizeAssumption
<1>2. Slots = 0 .. n - 1 /\ \A s \in Slots : edges[s] = Free
  BY DEF Init, Slots
<1>3. PresentSlots = {}
  BY <1>2 DEF PresentSlots, Present
<1>4. EdgeCount = n
  <2> HIDE DEF n
  <2>1. 0 <= n - 1 /\ (n - 1) - 0 + 1 = n
    BY <1>1
  <2>2. Cardinality(0 .. n - 1) = (n - 1) - 0 + 1
    BY <1>1, <2>1, FS_Interval
  <2> QED
    BY <1>2, <2>1, <2>2 DEF EdgeCount, Slots
<1>5. Typed
  BY <1>2 DEF Init, Typed, Slot
<1>6. Sized
  BY <1>1, <1>2, <1>4, SizeAssumption, ThresholdGrows DEF Init, Sized, Growing, Moving
<1>7. Rehashed /\ Places /\ Unique
  BY <1>2 DEF Init, Rehashed, Places, Settled, Unique, Stale, Present, Growing, Moving
<1>8. InTransit /\ Kept
  BY <1>2 DEF Init, InTransit, Kept, EdgeAt, Present
<1>9. Counted
  BY <1>3, FS_EmptySet DEF Init, Counted
<1> QED
  BY <1>5, <1>6, <1>7, <1>8, <1>9 DEF Inv

\* Steps that leave the table and what is being moved alone, between calls or
\* at their start.
LEMMA QuietStep ==
  ASSUME Inv, ~Growing, ~Growing', UNCHANGED <<hash, edges, inserted, threshold, epoch, i, j, tmp>>,
         recorded' = recorded, Typed',
         pc' = "grow" => 2 * EdgeCount <= MaxCount, pc' = "probe" => inserted < threshold
  PROVE  Inv'
<1> USE DEF Growing, Moving
<1>1. Slots' = Slots /\ EdgeCount' = EdgeCount
  BY DEF Slots, EdgeCount
<1>2. Sized'
  BY <1>1 DEF Inv, Sized
<1>3. Rehashed'
  BY <1>1 DEF Inv, Rehashed, Stale, Present
<1>4. \A s \in Slots : Settled(s)' <=> Settled(s)
  BY <1>1 DEF Settled, Present, Stale
<1>5. Places'
  BY <1>1, <1>4, PlacesKept DEF Inv, Places
<1>6. InTransit' /\ Unique' /\ Kept' /\ Counted'
  BY <1>1 DEF Inv, InTransit, Unique, Kept, Counted, PresentSlots, Present, EdgeAt, Stale
<1> QED
  BY <1>2, <1>3, <1>5, <1>6 DEF Inv

LEMMA CallStep ==
  ASSUME Inv, Close \/ \E e \in Edges : Add(e) \/ AddClosed(e)
  PROVE  Inv'
<1> USE DEF Growing, Moving
<1>1. UNCHANGED <<hash, edges, inserted, threshold, epoch, i, j, tmp, recorded>>
  BY DEF Close, Add, AddClosed, table, locals
<1>2. ~Growing /\ ~Growing'
  BY DEF Close, Add, AddClosed, locals
<1>3. Typed'
  BY <1>1 DEF Inv, Typed, Close, Add, AddClosed, table, locals, Slots
<1>4. pc' = "grow" => 2 * EdgeCount <= MaxCount
  BY DEF Close, Add, AddClosed, locals
<1>5. pc' = "probe" => inserted < threshold
  <2>1. inserted \in Nat /\ threshold \in Nat
    BY ThresholdType DEF Inv, Typed
  <2> QED
    BY <2>1 DEF Close, Add, AddClosed, locals
<1> QED
  BY <1>1, <1>2, <1>3, <1>4, <1>5, QuietStep

(* add_edge finds a place. *)
LEMMA ProbeStep ==
  ASSUME Inv, Probe
  PROVE  Inv'
<1> USE DEF Growing, Moving
<1> DEFINE s == FirstStop(arg, AddStops(arg))
<1>0. /\ pc = "probe" /\ pc' = "idle" /\ arg \in Edges /\ arg' = Free
      /\ UNCHANGED <<hash, threshold, epoch, open, i, j, tmp>>
      /\ inserted < threshold /\ inserted \in Nat /\ threshold \in Nat
  BY ThresholdType DEF Probe, Return, Inv, Typed
<1>1. s \in AddStops(arg) /\ s \in Slots /\ Leads(arg, s)
  <2>1. AddStops(arg) \subseteq Slots
    BY DEF AddStops, Slots
  <2>2. ASSUME NEW r \in Slots \ AddStops(arg)
        PROVE  Settled(r)
    BY <1>0 DEF AddStops, Slots, Settled, Inv, Rehashed
  <2>3. CanStop(arg, AddStops(arg))
    BY DEF Probe
  <2> QED
    BY <1>0, <2>1, <2>2, <2>3, LoopEnd
<1> HIDE DEF s
<1>2. CASE Present(s)
  <2>1. UNCHANGED <<edges, inserted, recorded>> /\ answers' = [answers EXCEPT ![arg] = "old"]
    BY <1>2 DEF Probe, Return, s
  <2>2. Typed'
    BY <1>0, <2>1 DEF Inv, Typed, Slots
  <2> QED
    BY <1>0, <2>1, <2>2, QuietStep
<1>3. CASE ~Present(s)
  <2>1. /\ edges' = [edges EXCEPT ![s] = Stamped(arg)]
        /\ inserted' = inserted + 1
        /\ recorded' = recorded \cup {arg}
        /\ answers' = [answers EXCEPT ![arg] = "new"]
    BY <1>3 DEF Probe, Return, s
  <2>2. Slots' = Slots /\ EdgeCount' = EdgeCount
    BY <2>1 DEF Slots, EdgeCount
  <2>3. /\ edges'[s] = Stamped(arg) /\ \A r \in Slots \ {s} : edges'[r] = edges[r]
        /\ Stamped(arg) # Free /\ Stamped(arg) \in Slot
    BY <1>0, <1>1, <2>1, FreeAssumption DEF Slots, Stamped, Slot, Inv, Typed
  <2>4. \A r \in Slots : ~EdgeAt(r, arg)
    BY <1>0, <1>3, Found DEF EdgeAt, s
  <2>5. \A r \in Slots : Settled(r) => Settled(r)'
    BY <1>0, <1>3, <2>2, <2>3 DEF Settled, Present, Stale
  <2>6. Typed'
    BY <1>0, <2>1, <2>2, <2>3 DEF Inv, Typed
  <2>7. Sized'
    BY <1>0, <2>1, <2>2 DEF Inv, Sized
  <2>8. Rehashed'
    BY <1>0, <2>2, <2>3 DEF Inv, Rehashed, Stale, Present, Stamped
  <2>9. Places'
    <3>1. \A r \in Slots : Settled(r)' => Leads(edges'[r].edge, r)
      BY <1>0, <1>1, <2>3 DEF Inv, Places, Rehashed, Settled, Present, Stale, Stamped
    <3> QED
      BY <1>0, <2>2, <2>5, <3>1, PlacesKept
  <2>10. InTransit' /\ Unique'
    BY <1>0, <2>1, <2>2, <2>3, <2>4 DEF Inv, InTransit, Unique, Present, EdgeAt, Stamped
  <2>12. Kept'
    BY <1>0, <1>1, <1>3, <2>1, <2>2, <2>3 DEF Inv, Kept, Present, EdgeAt, Stamped
  <2>11. Counted'
    <3>1. PresentSlots' = PresentSlots \cup {s} /\ s \notin PresentSlots
      BY <1>1, <1>3, <2>2, <2>3 DEF PresentSlots, Present
    <3> QED
      BY <1>0, <2>1, <3>1, FS_AddElement DEF Inv, Counted
  <2> QED
    BY <2>6, <2>7, <2>8, <2>9, <2>10, <2>11, <2>12 DEF Inv
<1> QED
  BY <1>2, <1>3

(* increase_size begins: the table is twice as large, and every edge in it *)
(* is stale.                                                               *)
LEMMA GrowStep ==
  ASSUME Inv, Grow
  PROVE  Inv'
<1> USE DEF Growing, Moving
<1> DEFINE n == EdgeCount
<1>0. /\ pc = "grow" /\ pc' = "rehash" /\ i' = 0 /\ epoch' = 1 - epoch /\ 2 * n <= MaxCount
      /\ UNCHANGED <<hash, inserted, threshold, open, arg, j, tmp, recorded, answers>>
  BY DEF Grow, Inv, Sized
<1>1. n \in Nat \ {0} /\ Slots = 0 .. n - 1
  BY SizeFacts DEF Inv
<1>2. edges' = [s \in 0 .. 2 * n - 1 |-> IF s < n THEN edges[s] ELSE Free]
  BY DEF Grow
<1> HIDE DEF n
<1>3. /\ Slots' = 0 .. 2 * n - 1 /\ Slots \subseteq Slots'
      /\ \A s \in Slots : edges'[s] = edges[s]
      /\ \A s \in Slots' \ Slots : edges'[s] = Free
  BY <1>1, <1>2 DEF Slots
<1>4. EdgeCount' = 2 * n
  <2>1. 0 <= 2 * n - 1 /\ (2 * n - 1) - 0 + 1 = 2 * n /\ 2 * n - 1 \in Int
    BY <1>1
  <2>2. Cardinality(0 .. 2 * n - 1) = (2 * n - 1) - 0 + 1
    BY <2>1, FS_Interval
  <2> QED
    BY <1>3, <2>1, <2>2 DEF EdgeCount, Slots
<1>5. \A s \in Slots' : Present(s)' => s \in Slots /\ Present(s) /\ Stale(s)' /\ edges[s].epoch = epoch
  BY <1>0, <1>3 DEF Present, Stale, Inv, Typed, Rehashed
<1>6. Typed'
  BY <1>0, <1>3 DEF Inv, Typed, Slot
<1>7. Sized'
  <2>1. PICK k \in Log2Init .. MaxCount : Slots = 0 .. Pow2[k] - 1
    BY DEF Inv, Sized
  <2>2. k \in Nat /\ k + 1 \in Nat /\ Pow2[k] \in Nat \ {0} /\ Pow2[k + 1] = 2 * Pow2[k]
        /\ k + 1 < Pow2[k + 1]
    BY Pow2Def, Pow2Above, SizeAssumption
  <2>3. Pow2[k] = n
    <3>1. n - 1 = Pow2[k] - 1
      BY <1>1, <2>1, <2>2
    <3> QED
      BY <1>1, <2>2, <3>1
  <2>4. k + 1 \in Log2Init .. MaxCount /\ Slots' = 0 .. Pow2[k + 1] - 1
    BY <1>0, <1>1, <1>3, <2>2, <2>3, SizeAssumption
  <2>5. n \in 1 .. 2 * n /\ threshold = Threshold(n)
    BY <1>0, <1>1 DEF Inv, Sized, n
  <2> QED
    BY <1>0, <1>4, <2>4, <2>5 DEF Inv, Sized, Threshold
<1>8. Rehashed'
  BY <1>0, <1>1, <1>3, <1>4, <1>5 DEF Rehashed, Stale
<1>9. Places' /\ InTransit' /\ Unique'
  BY <1>0, <1>1, <1>3, <1>5 DEF Inv, Places, Settled, InTransit, Unique
<1>10. Kept'
  <2>1. \A e \in Edges : (\E s \in Slots' : EdgeAt(s, e)') <=> \E s \in Slots : EdgeAt(s, e)
    BY <1>3 DEF EdgeAt, Present
  <2> QED
    BY <1>0, <2>1 DEF Inv, Kept
<1>11. Counted'
  <2>1. PresentSlots' = PresentSlots
    BY <1>3 DEF PresentSlots, Present
  <2> QED
    BY <1>0, <2>1 DEF Inv, Counted
<1> QED
  BY <1>6, <1>7, <1>8, <1>9, <1>10, <1>11 DEF Inv

(* increase_size ends: no edge is stale, and there is room. *)
LEMMA EndGrowStep ==
  ASSUME Inv, EndGrow
  PROVE  Inv'
<1> USE DEF Growing, Moving
<1>0. /\ pc = "rehash" /\ pc' = "probe" /\ i' = 0 /\ 2 * i = EdgeCount
      /\ UNCHANGED <<hash, edges, inserted, epoch, open, arg, j, tmp, recorded, answers>>
      /\ threshold' = Threshold(EdgeCount)
  BY DEF EndGrow
<1>1. Slots' = Slots /\ EdgeCount' = EdgeCount
  BY <1>0 DEF Slots, EdgeCount
<1>2. \A s \in Slots : ~Stale(s) /\ ~Stale(s)'
  BY <1>0, SizeFacts DEF Inv, Rehashed, Stale, Present
<1>3. Typed'
  BY <1>0, <1>1 DEF Inv, Typed
<1>4. Sized'
  <2>1. PICK n \in 1 .. EdgeCount : EdgeCount = 2 * n /\ threshold = Threshold(n)
    BY <1>0 DEF Inv, Sized
  <2>2. n \in Nat \ {0}
    BY <2>1, SizeFacts DEF Inv
  <2>3. Threshold(n) < Threshold(2 * n) /\ Threshold(n) \in Nat /\ Threshold(2 * n) \in Nat
    BY <2>2, ThresholdGrows
  <2>4. inserted < threshold'
    BY <1>0, <2>1, <2>3 DEF Inv, Sized, Typed
  <2> QED
    BY <1>0, <1>1, <2>4, <2>3, <2>1 DEF Inv, Sized, Typed
<1>5. Rehashed'
  BY <1>0, <1>1, <1>2 DEF Rehashed
<1>6. Places'
  BY <1>0, <1>1, PlacesKept DEF Inv, Places, Settled, Present, Stale
<1>7. InTransit' /\ Unique' /\ Kept' /\ Counted'
  BY <1>0, <1>1 DEF Inv, InTransit, Unique, Kept, Counted, PresentSlots, Present, EdgeAt
<1> QED
  BY <1>3, <1>4, <1>5, <1>6, <1>7 DEF Inv

(* A slot that needs no rehashing. *)
LEMMA SkipStep ==
  ASSUME Inv, SkipSlot
  PROVE  Inv'
<1> USE DEF Growing, Moving
<1>0. /\ pc = "rehash" /\ pc' = pc /\ i' = i + 1 /\ 2 * i < EdgeCount /\ ~Stale(i)
      /\ UNCHANGED <<hash, edges, inserted, threshold, epoch, open, arg, j, tmp, recorded, answers>>
  BY DEF SkipSlot, table
<1>1. Slots' = Slots /\ EdgeCount' = EdgeCount
  BY <1>0 DEF Slots, EdgeCount
<1>3. Typed' /\ Sized'
  BY <1>0, <1>1 DEF Inv, Typed, Sized
<1>4. EdgeCount \in Nat /\ \E n \in Nat : EdgeCount = 2 * n
  BY <1>0, SizeFacts DEF Inv, Sized
<1>5. Rehashed'
  <2>1. i \in Nat /\ Slots \subseteq Nat
    BY SizeFacts DEF Inv, Rehashed
  <2> QED
    BY <1>0, <1>1, <1>4, <2>1 DEF Inv, Rehashed, Stale, Present
<1>6. Places'
  BY <1>0, <1>1, PlacesKept DEF Inv, Places, Settled, Present, Stale
<1>7. InTransit' /\ Unique' /\ Kept' /\ Counted'
  BY <1>0, <1>1 DEF Inv, InTransit, Unique, Kept, Counted, PresentSlots, Present, EdgeAt
<1> QED
  BY <1>3, <1>5, <1>6, <1>7 DEF Inv

\* What a stale or a marked slot holds.
LEMMA SlotFacts ==
  ASSUME Inv, NEW s \in Slots, Present(s)
  PROVE  /\ edges[s] = [edge |-> edges[s].edge, epoch |-> edges[s].epoch]
         /\ edges[s].edge \in Edges /\ edges[s].epoch \in {0, 1}
  BY DEF Inv, Typed, Slot, Present

LEMMA StampStep ==
  ASSUME Inv, StampSlot
  PROVE  Inv'
<1> USE DEF Growing, Moving
<1>0. /\ pc = "rehash" /\ pc' = "relocate" /\ 2 * i < EdgeCount /\ Stale(i)
      /\ edges' = [edges EXCEPT ![i].epoch = epoch]
      /\ UNCHANGED <<hash, inserted, threshold, epoch, open, arg, i, j, tmp, recorded, answers>>
  BY DEF StampSlot, locals
<1>1. Slots' = Slots /\ EdgeCount' = EdgeCount /\ i \in Slots
  BY <1>0, SizeFacts DEF Slots, EdgeCount, Inv, Rehashed
<1>2. /\ edges'[i] = [edge |-> edges[i].edge, epoch |-> epoch]
      /\ edges[i].edge \in Edges /\ edges'[i] # Free /\ edges'[i] \in Slot
      /\ \A s \in Slots \ {i} : edges'[s] = edges[s]
  <2>1. Present(i)
    BY <1>0 DEF Stale
  <2>2. epoch \in {0, 1}
    BY DEF Inv, Typed
  <2> QED
    BY <1>0, <1>1, <2>1, <2>2, SlotFacts, FreeAssumption DEF Slots, Slot
<1>3. Typed' /\ Sized'
  BY <1>0, <1>1, <1>2 DEF Inv, Typed, Sized
<1>4. Rehashed'
  BY <1>0, <1>1, <1>2 DEF Inv, Rehashed, Stale, Present
<1>5. Places'
  <2>1. \A s \in Slots : Settled(s)' <=> Settled(s)
    BY <1>0, <1>1, <1>2 DEF Settled, Present, Stale
  <2> QED
    BY <1>0, <1>1, <1>2, <2>1, PlacesKept DEF Inv, Places, Settled, Stale
<1>6. InTransit' /\ Unique' /\ Kept'
  BY <1>0, <1>1, <1>2 DEF Inv, InTransit, Unique, Kept, Present, EdgeAt, Stale
<1>7. Counted'
  <2>1. PresentSlots' = PresentSlots
    BY <1>0, <1>1, <1>2 DEF PresentSlots, Present, Stale
  <2> QED
    BY <1>0, <2>1 DEF Inv, Counted
<1> QED
  BY <1>3, <1>4, <1>5, <1>6, <1>7 DEF Inv

\* The place of the marked edge of slot i: a slot that is free, stale or i
\* itself, to which settled slots lead.
LEMMA PlaceFound ==
  ASSUME Inv, pc = "relocate", CanStop(edges[i].edge, ResizeStops(edges[i].edge))
  PROVE  LET e == edges[i].edge
             s == FirstStop(e, ResizeStops(e))
         IN  /\ s \in Slots /\ Leads(e, s) /\ e \in Edges
             /\ \/ ~Present(s) \/ Stale(s) \/ s = i
             /\ i \in Slots /\ edges[i] = [edge |-> e, epoch |-> epoch] /\ Present(i)
<1> DEFINE e == edges[i].edge
           S == ResizeStops(e)
           s == FirstStop(e, S)
<1> USE DEF Growing, Moving
<1>1. i \in Slots /\ edges[i] = [edge |-> e, epoch |-> epoch] /\ Present(i) /\ e \in Edges
  <2>1. i \in Slots /\ Present(i) /\ edges[i].epoch = epoch
    BY DEF Inv, Rehashed, InTransit
  <2> QED
    BY <2>1, SlotFacts
<1>2. S \subseteq Slots
  BY DEF ResizeStops, AddStops, Slots
<1>3. ASSUME NEW r \in Slots \ S
      PROVE  Settled(r)
  BY <1>1 DEF ResizeStops, AddStops, EdgeAt, Slots, Settled, Stale, Present
<1>4. s \in S /\ Leads(e, s)
  <2> HIDE DEF e, S
  <2> QED
    BY <1>1, <1>2, <1>3, LoopEnd DEF e, S
<1>5. ~Present(s) \/ Stale(s) \/ s = i
  <2>1. s \in Slots /\ (~Present(s) \/ EdgeAt(s, e) \/ Stale(s))
    BY <1>4, <1>2 DEF ResizeStops, AddStops, Stale
  <2>2. EdgeAt(s, e) => s = i
    BY <1>1, <2>1 DEF Inv, Unique, EdgeAt
  <2> QED
    BY <2>1, <2>2
<1> QED
  BY <1>1, <1>2, <1>4, <1>5

(* The edge is where it belongs. *)
LEMMA StayStep ==
  ASSUME Inv, Stay
  PROVE  Inv'
<1> USE DEF Growing, Moving
<1> DEFINE e == edges[i].edge
           s == FirstStop(e, ResizeStops(e))
<1>0. /\ pc = "relocate" /\ pc' = "rehash" /\ i' = i + 1 /\ EdgeAt(s, e) /\ ~Stale(s)
      /\ CanStop(e, ResizeStops(e))
      /\ UNCHANGED <<hash, edges, inserted, threshold, epoch, open, arg, j, tmp, recorded, answers>>
  BY DEF Stay, table
<1>1. Slots' = Slots /\ EdgeCount' = EdgeCount
  BY <1>0 DEF Slots, EdgeCount
<1>2. s = i /\ Leads(e, i) /\ i \in Slots /\ Present(i) /\ ~Stale(i)
  BY <1>0, PlaceFound DEF EdgeAt
<1> HIDE DEF s
<1>3. Typed' /\ Sized'
  BY <1>0, <1>1 DEF Inv, Typed, Sized
<1>5. Rehashed'
  <2>1. i \in Nat /\ Slots \subseteq Nat /\ EdgeCount \in Nat /\ \E n \in Nat : EdgeCount = 2 * n
    BY <1>0, SizeFacts DEF Inv, Rehashed, Sized
  <2>2. \A r \in Slots : Stale(r)' => Stale(r) /\ r # i
    BY <1>0, <1>2 DEF Stale, Present
  <2> QED
    BY <1>0, <1>1, <2>1, <2>2 DEF Inv, Rehashed
<1>6. Places'
  <2>1. \A r \in Slots : Settled(r) => Settled(r)'
    BY <1>0, <1>1 DEF Settled, Present, Stale
  <2>2. \A r \in Slots : Settled(r)' => Leads(edges'[r].edge, r)
    BY <1>0, <1>1, <1>2 DEF Inv, Places, Settled, Present, Stale
  <2> QED
    BY <1>0, <1>1, <2>1, <2>2, PlacesKept
<1>7. InTransit' /\ Unique' /\ Kept' /\ Counted'
  BY <1>0, <1>1 DEF Inv, InTransit, Unique, Kept, Counted, PresentSlots, Present, EdgeAt
<1> QED
  BY <1>3, <1>5, <1>6, <1>7 DEF Inv

(* A stale edge is in the way: std::swap. *)
LEMMA BeginSwapStep ==
  ASSUME Inv, BeginSwap
  PROVE  Inv'
<1> USE DEF Growing, Moving
<1>a. PICK e : e = edges[i].edge
  OBVIOUS
<1>b. PICK s : s = FirstStop(e, ResizeStops(e))
  OBVIOUS
<1>0. /\ pc = "relocate" /\ pc' = "swap" /\ tmp' = edges[i] /\ j' = s /\ Stale(s)
      /\ edges' = [edges EXCEPT ![i] = edges[s]]
      /\ CanStop(e, ResizeStops(e))
      /\ UNCHANGED <<hash, inserted, threshold, epoch, open, arg, i, recorded, answers>>
  BY <1>a, <1>b DEF BeginSwap
<1>1. Slots' = Slots /\ EdgeCount' = EdgeCount
  BY <1>0 DEF Slots, EdgeCount
<1>2. /\ s \in Slots /\ Leads(e, s) /\ e \in Edges
      /\ i \in Slots /\ edges[i] = [edge |-> e, epoch |-> epoch] /\ Present(i)
  BY <1>0, <1>a, <1>b, PlaceFound
<1>3. s # i /\ Present(s)
  BY <1>0, <1>2 DEF Stale
<1>4. edges'[i] = edges[s] /\ \A r \in Slots \ {i} : edges'[r] = edges[r]
  BY <1>0, <1>2 DEF Slots
<1>5. Typed' /\ Sized'
  BY <1>0, <1>1, <1>2, <1>4 DEF Inv, Typed, Sized
<1>6. Rehashed'
  BY <1>0, <1>1, <1>2, <1>3, <1>4 DEF Inv, Rehashed, Stale, Present
<1>7. \A r \in Slots : Settled(r)' <=> Settled(r)
  BY <1>0, <1>1, <1>4 DEF Settled, Present, Stale
<1>8. Places'
  <2>1. \A r \in Slots : Settled(r)' => Leads(edges'[r].edge, r)
    BY <1>0, <1>1, <1>4, <1>7 DEF Inv, Places, Settled
  <2> QED
    BY <1>0, <1>1, <1>7, <2>1, PlacesKept
<1>9. \A r \in Slots : ~EdgeAt(r, e)'
  BY <1>0, <1>2, <1>3, <1>4 DEF Inv, Unique, EdgeAt, Present
<1>10. Leads(e, s)'
  BY <1>0, <1>1, <1>2, <1>7, LeadsKept
<1>11. InTransit'
  <2>1. tmp' \in Slot \ {Free} /\ tmp'.epoch = epoch' /\ tmp'.edge = e
    BY <1>0, <1>2 DEF Inv, Typed, Present
  <2>2. edges'[j'] = edges'[i'] /\ j' # i' /\ Stale(i)' /\ j' \in Slots'
    BY <1>0, <1>1, <1>2, <1>3, <1>4 DEF Stale, Present
  <2>3. \A r \in Slots' : ~EdgeAt(r, tmp.edge)'
    BY <1>1, <1>9, <2>1 DEF EdgeAt, Present
  <2>4. Leads(tmp.edge, j)'
    BY <1>0, <1>10, <2>1 DEF Leads, Index, Settled, Present, Stale, Slots, EdgeCount
  <2> QED
    BY <1>0, <2>1, <2>2, <2>3, <2>4 DEF InTransit
<1>12. Unique'
  BY <1>0, <1>1, <1>2, <1>3, <1>4 DEF Inv, Unique, Present
<1>13. Kept'
  <2>1. ASSUME NEW d \in Edges
        PROVE  (\E r \in Slots : EdgeAt(r, d)) <=> (\E r \in Slots' : EdgeAt(r, d)') \/ d = e
    BY <1>1, <1>2, <1>3, <1>4 DEF EdgeAt, Present
  <2> QED
    BY <1>0, <1>2, <2>1 DEF Inv, Kept
<1>14. Counted'
  <2>1. PresentSlots' = PresentSlots
    BY <1>1, <1>2, <1>3, <1>4 DEF PresentSlots, Present
  <2> QED
    BY <1>0, <2>1 DEF Inv, Counted
<1> QED
  BY <1>5, <1>6, <1>8, <1>11, <1>12, <1>13, <1>14 DEF Inv

LEMMA EndSwapStep ==
  ASSUME Inv, EndSwap
  PROVE  Inv'
<1> USE DEF Growing, Moving
<1>0. /\ pc = "swap" /\ pc' = "rehash" /\ tmp' = Free /\ j' = 0
      /\ edges' = [edges EXCEPT ![j] = tmp]
      /\ UNCHANGED <<hash, inserted, threshold, epoch, open, arg, i, recorded, answers>>
  BY DEF EndSwap
<1>1. Slots' = Slots /\ EdgeCount' = EdgeCount
  BY <1>0 DEF Slots, EdgeCount
<1>2. /\ tmp \in Slot \ {Free} /\ tmp.epoch = epoch /\ i \in Slots /\ Present(i)
      /\ j \in Slots /\ j # i /\ edges[j] = edges[i] /\ Stale(i) /\ Leads(tmp.edge, j)
      /\ \A s \in Slots : ~EdgeAt(s, tmp.edge)
  BY <1>0 DEF Inv, InTransit, Rehashed
<1>3. /\ edges'[j] = tmp /\ \A r \in Slots \ {j} : edges'[r] = edges[r]
      /\ tmp # Free /\ tmp.edge \in Edges
  BY <1>0, <1>2 DEF Slots, Slot
<1>5. Typed' /\ Sized'
  BY <1>0, <1>1, <1>2, <1>3 DEF Inv, Typed, Sized
<1>6. Rehashed'
  BY <1>0, <1>1, <1>2, <1>3 DEF Inv, Rehashed, Stale, Present
<1>7. \A r \in Slots : Settled(r) => Settled(r)'
  BY <1>0, <1>1, <1>2, <1>3 DEF Settled, Present, Stale
<1>8. Places'
  <2>1. \A r \in Slots : Settled(r)' => Leads(edges'[r].edge, r)
    BY <1>0, <1>1, <1>2, <1>3 DEF Inv, Places, Settled, Present, Stale
  <2> QED
    BY <1>0, <1>1, <1>7, <2>1, PlacesKept
<1>9. InTransit'
  BY <1>0 DEF InTransit
<1>10. Unique'
  BY <1>0, <1>1, <1>2, <1>3 DEF Inv, Unique, Present, EdgeAt
<1>11. Kept'
  <2>1. ASSUME NEW d \in Edges
        PROVE  (\E r \in Slots' : EdgeAt(r, d)') <=> (\E r \in Slots : EdgeAt(r, d)) \/ d = tmp.edge
    BY <1>1, <1>2, <1>3 DEF EdgeAt, Present
  <2> QED
    BY <1>0, <2>1 DEF Inv, Kept
<1>12. Counted'
  <2>1. PresentSlots' = PresentSlots
    BY <1>1, <1>2, <1>3 DEF PresentSlots, Present
  <2> QED
    BY <1>0, <2>1 DEF Inv, Counted
<1> QED
  BY <1>5, <1>6, <1>8, <1>9, <1>10, <1>11, <1>12 DEF Inv

(* A free slot: the edge is copied, then slot i cleared. *)
LEMMA CopyStep ==
  ASSUME Inv, CopyEdge
  PROVE  Inv'
<1> USE DEF Growing, Moving
<1> DEFINE e == edges[i].edge
           s == FirstStop(e, ResizeStops(e))
<1>0. /\ pc = "relocate" /\ pc' = "clear" /\ ~Present(s)
      /\ edges' = [edges EXCEPT ![s] = Stamped(e)]
      /\ CanStop(e, ResizeStops(e))
      /\ UNCHANGED <<hash, inserted, threshold, epoch, open, arg, i, j, tmp, recorded, answers>>
  BY DEF CopyEdge, locals
<1>1. Slots' = Slots /\ EdgeCount' = EdgeCount
  BY <1>0 DEF Slots, EdgeCount
<1>2. /\ s \in Slots /\ Leads(e, s) /\ e \in Edges
      /\ i \in Slots /\ edges[i] = [edge |-> e, epoch |-> epoch] /\ Present(i)
  BY <1>0, PlaceFound
<1>3. s # i
  BY <1>0, <1>2
<1> HIDE DEF s
<1>4. /\ edges'[s] = [edge |-> e, epoch |-> epoch] /\ edges'[s] # Free
      /\ \A r \in Slots \ {s} : edges'[r] = edges[r]
  BY <1>0, <1>2 DEF Slots, Stamped, Present
<1>5. Typed' /\ Sized'
  BY <1>0, <1>1, <1>2, <1>4 DEF Inv, Typed, Sized, Slot
<1>6. Rehashed'
  BY <1>0, <1>1, <1>2, <1>3, <1>4 DEF Inv, Rehashed, Stale, Present
<1>7. \A r \in Slots : Settled(r) => Settled(r)'
  BY <1>0, <1>1, <1>4 DEF Settled, Present, Stale
<1>8. Places'
  <2>1. \A r \in Slots : Settled(r)' => Leads(edges'[r].edge, r)
    BY <1>0, <1>1, <1>2, <1>3, <1>4 DEF Inv, Places, Settled, Present, Stale
  <2> QED
    BY <1>0, <1>1, <1>7, <2>1, PlacesKept
<1>9. InTransit'
  BY <1>0, <1>1, <1>2, <1>3, <1>4 DEF Inv, InTransit, EdgeAt, Present
<1>10. Unique'
  BY <1>0, <1>1, <1>2, <1>3, <1>4 DEF Inv, Unique, Present
<1>11. Kept'
  <2>1. ASSUME NEW d \in Edges
        PROVE  (\E r \in Slots' : EdgeAt(r, d)') <=> (\E r \in Slots : EdgeAt(r, d))
    BY <1>0, <1>1, <1>2, <1>3, <1>4 DEF EdgeAt, Present
  <2> QED
    BY <1>0, <2>1 DEF Inv, Kept
<1>12. Counted'
  <2>1. PresentSlots' = PresentSlots \cup {s} /\ s \notin PresentSlots
    BY <1>0, <1>1, <1>2, <1>4 DEF PresentSlots, Present
  <2>2. inserted \in Nat
    BY DEF Inv, Typed
  <2> QED
    BY <1>0, <2>1, <2>2, FS_AddElement DEF Inv, Counted
<1> QED
  BY <1>5, <1>6, <1>8, <1>9, <1>10, <1>11, <1>12 DEF Inv

LEMMA ClearStep ==
  ASSUME Inv, ClearSlot
  PROVE  Inv'
<1> USE DEF Growing, Moving
<1>0. /\ pc = "clear" /\ pc' = "rehash" /\ i' = i + 1
      /\ edges' = [edges EXCEPT ![i] = Free]
      /\ UNCHANGED <<hash, inserted, threshold, epoch, open, arg, j, tmp, recorded, answers>>
  BY DEF ClearSlot
<1>1. Slots' = Slots /\ EdgeCount' = EdgeCount
  BY <1>0 DEF Slots, EdgeCount
<1>2. /\ i \in Slots /\ Present(i) /\ 2 * i < EdgeCount
      /\ \E s \in Slots \ {i} : EdgeAt(s, edges[i].edge)
  BY <1>0 DEF Inv, Rehashed, InTransit
<1>3. edges'[i] = Free /\ \A r \in Slots \ {i} : edges'[r] = edges[r]
  BY <1>0, <1>2 DEF Slots
<1>5. Typed' /\ Sized'
  BY <1>0, <1>1, <1>2, <1>3 DEF Inv, Typed, Sized, Slot
<1>6. Rehashed'
  <2>1. i \in Nat /\ Slots \subseteq Nat /\ EdgeCount \in Nat /\ \E n \in Nat : EdgeCount = 2 * n
    BY <1>0, SizeFacts DEF Inv, Rehashed, Sized
  <2>2. \A r \in Slots : Stale(r)' => Stale(r) /\ r # i
    BY <1>0, <1>2, <1>3 DEF Stale, Present
  <2> QED
    BY <1>0, <1>1, <1>2, <2>1, <2>2 DEF Inv, Rehashed
<1>7. \A r \in Slots : Settled(r) => Settled(r)'
  BY <1>0, <1>1, <1>2, <1>3 DEF Settled, Present, Stale
<1>8. Places'
  <2>1. \A r \in Slots : Settled(r)' => Leads(edges'[r].edge, r)
    BY <1>0, <1>1, <1>2, <1>3 DEF Inv, Places, Settled, Present, Stale
  <2> QED
    BY <1>0, <1>1, <1>7, <2>1, PlacesKept
<1>9. InTransit'
  BY <1>0 DEF Inv, InTransit
<1>10. Unique'
  BY <1>0, <1>1, <1>2, <1>3 DEF Inv, Unique, Present
<1>11. Kept'
  <2>1. ASSUME NEW d \in Edges
        PROVE  (\E r \in Slots' : EdgeAt(r, d)') <=> (\E r \in Slots : EdgeAt(r, d))
    BY <1>0, <1>1, <1>2, <1>3 DEF EdgeAt, Present
  <2> QED
    BY <1>0, <2>1 DEF Inv, Kept
<1>12. Counted'
  <2>1. PresentSlots' = PresentSlots \ {i} /\ i \in PresentSlots
    BY <1>0, <1>1, <1>2, <1>3 DEF PresentSlots, Present
  <2>2. inserted \in Nat
    BY DEF Inv, Typed
  <2> QED
    BY <1>0, <2>1, <2>2, FS_RemoveElement DEF Inv, Counted
<1> QED
  BY <1>5, <1>6, <1>8, <1>9, <1>10, <1>11, <1>12 DEF Inv

LEMMA InvNext ==
  ASSUME Inv, [Next]_vars
  PROVE  Inv'
<1>1. CASE UNCHANGED vars
  <2>1. UNCHANGED <<hash, edges, inserted, threshold, epoch, i, j, tmp, recorded, open, pc, arg, answers>>
    BY <1>1 DEF vars, table, locals
  <2>2. Slots' = Slots /\ EdgeCount' = EdgeCount
    BY <2>1 DEF Slots, EdgeCount
  <2>3. Typed' /\ Sized' /\ Rehashed' /\ Unique' /\ Kept' /\ Counted'
    BY <2>1, <2>2 DEF Inv, Typed, Sized, Rehashed, Unique, Kept, Counted, PresentSlots, Present,
                      EdgeAt, Stale, Growing, Moving
  <2>4. \A s \in Slots : Settled(s)' <=> Settled(s)
    BY <2>1, <2>2 DEF Settled, Present, Stale, Moving
  <2>5. Places'
    BY <2>1, <2>2, <2>4, PlacesKept DEF Inv, Places
  <2>6. InTransit'
    <3>1. ASSUME pc = "swap"
          PROVE  Leads(tmp.edge, j)'
      <4>1. Leads(tmp.edge, j)
        BY <3>1 DEF Inv, InTransit
      <4> QED
        BY <2>1, <2>2, <4>1 DEF Leads, Index, Settled, Present, Stale, Moving
    <3> QED
      BY <2>1, <2>2, <3>1 DEF Inv, InTransit, EdgeAt, Present, Stale
  <2> QED
    BY <2>3, <2>5, <2>6 DEF Inv
<1>2. CASE Close \/ \E e \in Edges : Add(e) \/ AddClosed(e)
  BY <1>2, CallStep
<1>3. CASE Probe
  BY <1>3, ProbeStep
<1>4. CASE Resize
  BY <1>4, GrowStep, SkipStep, StampStep, StayStep, BeginSwapStep, EndSwapStep, CopyStep, ClearStep,
     EndGrowStep DEF Resize
<1> QED
  BY <1>1, <1>2, <1>3, <1>4 DEF Next

\* No store of add_edge or of a resize breaks the invariant.
THEOREM Invariant == Spec => []Inv
<1>1. Init => Inv
  BY InvInit
<1>2. Inv /\ [Next]_vars => Inv'
  BY InvNext
<1> QED
  BY <1>1, <1>2, PTL DEF Spec

\* The sizes of a table are powers of two, and slot i is one of its slots.
THEOREM TypeCorrect == Spec => []TypeOK
<1>1. Inv => TypeOK
  <2> SUFFICES ASSUME Inv
               PROVE  TypeOK
    OBVIOUS
  <2>1. threshold \in Nat /\ 0 \in Slots
    BY ThresholdType, SizeFacts DEF Inv
  <2>2. i \in Nat /\ (Moving => i \in Slots)
    BY DEF Inv, Rehashed
  <2>3. tmp \in Slot /\ j \in Slots
    BY <2>1 DEF Inv, InTransit, Slot
  <2> QED
    BY <2>1, <2>2, <2>3 DEF Inv, Typed, Sized, TypeOK, Moving, Slots
<1> QED
  BY <1>1, Invariant, PTL

\* Whenever the process is killed or copied, the trace file holds exactly the
\* edges that were recorded, but for one in a register of std::swap
\* (increase_size and resize_insert of edge_hash_set.h).
THEOREM FileCorrect == Spec => []FileKeepsEdges
<1>1. Inv => FileKeepsEdges
  <2> SUFFICES ASSUME Inv
               PROVE  FileKeepsEdges
    OBVIOUS
  <2>1. ASSUME NEW e \in OnDisk
        PROVE  e \in recorded
    <3>1. PICK s \in Slots : Present(s) /\ e = edges[s].edge
      BY DEF OnDisk, Slots
    <3>2. e \in Edges /\ EdgeAt(s, e)
      BY <3>1, SlotFacts DEF EdgeAt
    <3> QED
      BY <3>2 DEF Inv, Kept
  <2>2. ASSUME NEW e \in recorded \ OnDisk
        PROVE  pc = "swap" /\ e = tmp.edge
    <3>1. e \in Edges /\ \A s \in Slots : ~EdgeAt(s, e)
      BY DEF Inv, Typed, OnDisk, EdgeAt, Slots
    <3> QED
      BY <3>1 DEF Inv, Kept
  <2> QED
    BY <2>1, <2>2 DEF FileKeepsEdges
<1> QED
  BY <1>1, Invariant, PTL

\* Between calls, the loop of add_edge for an edge of the table stops at its
\* slot, and inserted_edges counts the edges.
THEOREM FindsEdges == Spec => []Findable
<1>1. Inv => Findable
  <2> SUFFICES ASSUME Inv, pc = "idle"
               PROVE  /\ \A s \in Slots : Present(s) =>
                            LET e == edges[s].edge IN
                            /\ edges[s].epoch = epoch
                            /\ CanStop(e, AddStops(e)) /\ FirstStop(e, AddStops(e)) = s
                      /\ inserted = Cardinality(PresentSlots)
    BY DEF Findable, PresentSlots, Slots
  <2>1. ~Growing
    BY DEF Growing, Moving
  <2> QED
    BY <2>1, Found DEF Inv, Counted, Settled, Stale
<1> QED
  BY <1>1, Invariant, PTL

\* The assertion after a resize holds, and the attempts of an index sequence are
\* exhausted only when other edges are in all the slots it visits: by bad luck
\* with the hash, never because of what a resize has left in the table.
THEOREM NoAssertionFails == Spec => []AssertionsHold
<1>1. ASSUME Inv, NEW e \in Edges, NEW S, ~CanStop(e, S)
      PROVE  SlotsOf(e) \subseteq Slots /\ SlotsOf(e) \cap S = {}
  BY <1>1, IndexInside DEF Inv, SlotsOf, CanStop, Stops
<1>2. ASSUME NEW A, NEW B, IsFiniteSet(B), A \subseteq B
      PROVE  Cardinality(A) <= Cardinality(B) /\ (A # B => Cardinality(A) < Cardinality(B))
  <2>1. A \in SUBSET B
    BY <1>2
  <2>2. /\ IsFiniteSet(A) /\ Cardinality(A) <= Cardinality(B)
        /\ Cardinality(B) = Cardinality(A) => B = A
    BY <1>2, <2>1, FS_Subset
  <2>3. Cardinality(A) \in Nat /\ Cardinality(B) \in Nat
    BY <1>2, <2>2, FS_CardinalityType
  <2> QED
    BY <2>2, <2>3
<1>3. ASSUME Inv, pc = "probe", ~CanStop(arg, AddStops(arg))
      PROVE  Cardinality(SlotsOf(arg)) <= inserted
  <2>1. arg \in Edges
    BY <1>3 DEF Inv, Typed
  <2>2. SlotsOf(arg) \subseteq PresentSlots
    BY <1>1, <1>3, <2>1 DEF AddStops, PresentSlots, Slots
  <2> QED
    BY <1>2, <1>3, <2>2 DEF Inv, Counted
<1>4. ASSUME Inv, pc = "relocate", ~CanStop(edges[i].edge, ResizeStops(edges[i].edge))
      PROVE  Cardinality(SlotsOf(edges[i].edge)) < inserted
  <2> DEFINE e == edges[i].edge
  <2>1. i \in Slots /\ Present(i) /\ e \in Edges
    BY <1>4, SlotFacts DEF Inv, Rehashed, Moving
  <2>2. SlotsOf(e) \subseteq Slots /\ SlotsOf(e) \cap ResizeStops(e) = {}
    BY <1>1, <1>4, <2>1
  <2>3. i \in ResizeStops(e) /\ i \in PresentSlots
    BY <2>1 DEF ResizeStops, AddStops, EdgeAt, Slots, PresentSlots
  <2>4. SlotsOf(e) \subseteq PresentSlots /\ SlotsOf(e) # PresentSlots
    BY <2>2, <2>3 DEF ResizeStops, AddStops, PresentSlots, Slots
  <2> QED
    BY <1>2, <1>4, <2>4 DEF Inv, Counted
<1>5. Inv => AssertionsHold
  BY <1>3, <1>4 DEF AssertionsHold, Exhausted, Inv, Sized
<1> QED
  BY <1>5, Invariant, PTL

(* The table implements a set: calls change what TraceSet says they do.    *)
LEMMA SetStep ==
  ASSUME Inv, [Next]_vars
  PROVE  [Promise!Next]_(Promise!vars)
<1>1. CASE UNCHANGED vars
  BY <1>1 DEF vars, table, locals, Promise!vars
<1>2. CASE Close
  BY <1>2 DEF Close, table, locals, Inv, Typed, Promise!Next, Promise!Close
<1>3. ASSUME NEW e \in Edges, Add(e) \/ AddClosed(e)
      PROVE  Promise!Add(e) \/ Promise!AddClosed(e)
  BY <1>3 DEF Add, AddClosed, table, locals, Inv, Typed, Promise!Add, Promise!AddClosed
<1>4. CASE Resize
  BY <1>4 DEF Resize, Grow, SkipSlot, StampSlot, Stay, BeginSwap, EndSwap, CopyEdge, ClearSlot,
              EndGrow, table, locals, Promise!vars
<1>5. CASE Probe
  <2> DEFINE s == FirstStop(arg, AddStops(arg))
  <2>1. /\ pc = "probe" /\ arg \in Edges /\ arg' = Free /\ open' = open /\ CanStop(arg, AddStops(arg))
        /\ ~Growing
    BY <1>5 DEF Probe, Return, Inv, Typed, Growing, Moving
  <2>2. s \in Slots /\ (~Present(s) \/ EdgeAt(s, arg))
    <3>1. s \in AddStops(arg)
      BY <2>1, Stopping
    <3> QED
      BY <3>1 DEF AddStops, Slots
  <2>3. Present(s) <=> arg \in recorded
    <3>1. ASSUME NEW r \in Slots, EdgeAt(r, arg)
          PROVE  r = s
      BY <2>1, <3>1, Found DEF EdgeAt
    <3> HIDE DEF s
    <3> QED
      BY <2>1, <2>2, <3>1 DEF Inv, Kept, EdgeAt
  <2>4. /\ recorded' = recorded \cup {arg}
        /\ answers' = [answers EXCEPT ![arg] = IF arg \in recorded THEN "old" ELSE "new"]
    BY <1>5, <2>1, <2>3 DEF Probe, Return
  <2> QED
    BY <2>1, <2>4 DEF Promise!Next, Promise!Added
<1> QED
  BY <1>1, <1>2, <1>3, <1>4, <1>5 DEF Next, Promise!Next

\* add_edge answers true exactly once for each edge, across all resizes.
THEOREM ImplementsTraceSet == Spec => ImplementsSet
<1>1. Init => Promise!Init
  BY DEF Init, Promise!Init
<1>2. Inv /\ [Next]_vars => [Promise!Next]_(Promise!vars)
  BY SetStep
<1> QED
  BY <1>1, <1>2, Invariant, PTL DEF Spec, ImplementsSet, Promise!Spec
=============================================================================
