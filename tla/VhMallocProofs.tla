--------------------------- MODULE VhMallocProofs ---------------------------
(***************************************************************************)
(* Proofs about VhMalloc, for every number of threads, size of a slab and  *)
(* interleaving.                                                           *)
(*                                                                         *)
(* The free list of a pool is a chain: its first slab is the latest with   *)
(* free elements, and the links lead to the next lower and the next higher *)
(* one.  This says without recursion what FreeList returns, and is kept    *)
(* where a slab is linked in or out.  The slab that a thread is making has *)
(* free elements before it is on the list.                                 *)
(***************************************************************************)
EXTENDS VhMalloc, DataInduction

Locks(t) == pc[t] \in {"new", "map", "mark", "pick"}
Marks(t) == pc[t] \in {"map", "mark"}

\* x is the highest of a set of slabs, or the lowest; Nil if there is none.
IsTop(x, S) == IF x = Nil THEN S = {} ELSE x \in S /\ \A r \in S : r <= x
IsBottom(x, S) == IF x = Nil THEN S = {} ELSE x \in S /\ \A r \in S : x <= r
Lower(S, s) == {r \in S : r < s}
Higher(S, s) == {r \in S : r > s}

\* The slabs of S, latest first, linked both ways.
IsList(S, first, next, prev) ==
  /\ IsTop(first, S)
  /\ \A s \in S : IsTop(next[s], Lower(S, s)) /\ IsBottom(prev[s], Higher(S, s))

\* The slabs on the free list of t's pool.
Linked(t) == {s \in Slabs : owner[s] = t /\ free[s] > 0 /\ ~(Marks(t) /\ s = ptr[t][1])}

Typed ==
  /\ made \in 0 .. MaxSlabs
  /\ owner \in [Slabs -> Threads \cup {Unlocked}]
  /\ region \in [Slabs -> Regions \cup {Nil}]
  /\ ids \in [Slabs -> [Elements -> TagOrNone]]
  /\ free \in [Slabs -> Nat]
  /\ poolFree \in [Threads -> Nat]
  /\ head \in [Threads -> 0 .. MaxSlabs]
  /\ free_next \in [Slabs -> 0 .. MaxSlabs]
  /\ free_prev \in [Slabs -> 0 .. MaxSlabs]
  /\ slabMap \in [Regions -> 0 .. MaxSlabs]
  /\ entries \in SUBSET (Slabs \X Slabs)
  /\ pc \in [Threads -> {"idle", "lock", "new", "map", "mark", "pick", "return", "free"}]
  /\ table \in [Threads -> 0 .. MaxSlabs]
  /\ ptr \in [Threads -> Element \cup {NoPtr}]
  /\ held \in SUBSET (Element \X (Tags \cup {Untagged}))
  /\ aborted \in BOOLEAN

\* A slab that is not made yet has no owner, nothing in it and no table.
Made ==
  /\ \A s \in 1 .. made : owner[s] \in Threads /\ region[s] \in Regions
  /\ \A s \in Slabs \ (1 .. made) :
       owner[s] = Unlocked /\ free[s] = 0 /\ \A i \in Elements : ids[s][i] = Empty
  /\ \A r \in Regions : slabMap[r] <= made
  /\ \A t \in Threads : table[t] <= made
  /\ \A e \in entries : e[1] <= made

LocksHeld == lock = [t \in Threads |-> IF Locks(t) THEN t ELSE Unlocked]

\* The new slab of a thread: its latest and empty.  Its table is its own until
\* it is in the map.
Making ==
  \A t \in Threads :
    /\ Marks(t) => /\ ptr[t][1] \in SlabsOf(t) /\ \A r \in SlabsOf(t) : r <= ptr[t][1]
                   /\ \A i \in Elements : ids[ptr[t][1]][i] = Empty
                   /\ pc[t] = "mark" => table[t] # Nil
    /\ pc[t] = "map" => /\ \A r \in Regions : slabMap[r] # ptr[t][1]
                        /\ \A u \in Threads : table[u] # ptr[t][1]
                        /\ \A s \in Slabs : <<ptr[t][1], s>> \notin entries
    /\ pc[t] \in {"return", "free"} => ptr[t] \in (1 .. made) \X Elements

\* Nothing happens to an element between its choice and its return.
Fresh == \A t \in Threads : pc[t] = "return" => ids[ptr[t][1]][ptr[t][2]] = Untagged

Exact ==
  /\ \A s \in 1 .. made : free[s] = Cardinality(FreeIds(s))
  /\ \A t \in Threads : poolFree[t] = Cardinality(FreeElements(t))

Spare ==
  \A t \in Threads :
    /\ pc[t] \in {"map", "mark", "pick"} => poolFree[t] > Overprovision
    /\ ~Locks(t) /\ SlabsOf(t) # {} => poolFree[t] >= Overprovision

Lists == \A t \in Threads : IsList(Linked(t), head[t], free_next, free_prev)

Inv == /\ Typed /\ Made /\ LocksHeld /\ Making /\ Fresh
       /\ Exact /\ Spare /\ Lists /\ HeldExact

-----------------------------------------------------------------------------
(* Lists of slabs.                                                         *)

\* A slab is linked in at its place, between the next higher and the next lower.
LEMMA LinkIn ==
  ASSUME NEW S \in SUBSET Slabs, NEW s \in Slabs \ S, NEW first, NEW next, NEW prev,
         next \in [Slabs -> 0 .. MaxSlabs], prev \in [Slabs -> 0 .. MaxSlabs],
         IsList(S, first, next, prev),
         NEW a, IsBottom(a, Higher(S, s)), NEW b, IsTop(b, Lower(S, s))
  PROVE  IsList(S \cup {s}, IF a = Nil THEN s ELSE first,
                SetAt([next EXCEPT ![s] = b], a, s), SetAt([prev EXCEPT ![s] = a], b, s))
<1> DEFINE S2 == S \cup {s}
           first2 == IF a = Nil THEN s ELSE first
           next2 == SetAt([next EXCEPT ![s] = b], a, s)
           prev2 == SetAt([prev EXCEPT ![s] = a], b, s)
<1>0. Nil \notin Slabs /\ \A x \in Slabs : x \in Nat
  BY PoolAssumption DEF Nil, Slabs
<1>1. /\ a # Nil => a \in S /\ a > s /\ \A r \in S : r > s => a <= r
      /\ a = Nil => \A r \in S : ~(r > s)
      /\ b # Nil => b \in S /\ b < s /\ \A r \in S : r < s => r <= b
      /\ b = Nil => \A r \in S : ~(r < s)
  BY DEF IsBottom, IsTop, Higher, Lower
<1>2. /\ next2[s] = b /\ (a # Nil => next2[a] = s)
      /\ \A r \in S \ {a} : next2[r] = next[r]
  BY <1>0, <1>1 DEF SetAt
<1>3. /\ prev2[s] = a /\ (b # Nil => prev2[b] = s)
      /\ \A r \in S \ {b} : prev2[r] = prev[r]
  BY <1>0, <1>1 DEF SetAt
<1> HIDE DEF next2, prev2
<1>4. IsTop(first2, S2)
  <2>1. CASE a = Nil
    BY <1>0, <1>1, <2>1 DEF IsTop
  <2>2. CASE a # Nil
    <3>1. first \in S /\ \A r \in S : r <= first
      BY <1>1, <2>2 DEF IsList, IsTop
    <3> QED
      BY <1>0, <1>1, <2>2, <3>1 DEF IsTop
  <2> QED
    BY <2>1, <2>2
<1>5. ASSUME NEW r \in S2
      PROVE  IsTop(next2[r], Lower(S2, r))
  <2>1. CASE r = s
    <3>1. Lower(S2, s) = Lower(S, s)
      BY <1>0 DEF Lower
    <3> QED
      BY <1>2, <2>1, <3>1
  <2>2. CASE r \in S /\ r = a
    BY <1>0, <1>1, <1>2, <2>2 DEF IsTop, Lower
  <2>3. CASE r \in S /\ r # a
    <3>1. IsTop(next[r], Lower(S, r)) /\ next2[r] = next[r]
      BY <1>2, <2>3 DEF IsList
    <3>2. CASE r < s
      BY <1>0, <2>3, <3>1, <3>2 DEF IsTop, Lower
    <3>3. CASE r > s
      <4>1. a # Nil /\ a \in Lower(S, r)
        BY <1>0, <1>1, <2>3, <3>3 DEF Lower
      <4>2. next[r] # Nil /\ next[r] \in Lower(S, r) /\ \A x \in Lower(S, r) : x <= next[r]
        BY <3>1, <4>1 DEF IsTop
      <4>3. s < next[r]
        BY <1>0, <1>1, <4>1, <4>2 DEF Lower
      <4> QED
        BY <1>0, <3>1, <4>2, <4>3 DEF IsTop, Lower
    <3> QED
      BY <1>0, <2>3, <3>2, <3>3
  <2> QED
    BY <2>1, <2>2, <2>3
<1>6. ASSUME NEW r \in S2
      PROVE  IsBottom(prev2[r], Higher(S2, r))
  <2>1. CASE r = s
    <3>1. Higher(S2, s) = Higher(S, s)
      BY <1>0 DEF Higher
    <3> QED
      BY <1>3, <2>1, <3>1
  <2>2. CASE r \in S /\ r = b
    BY <1>0, <1>1, <1>3, <2>2 DEF IsBottom, Higher
  <2>3. CASE r \in S /\ r # b
    <3>1. IsBottom(prev[r], Higher(S, r)) /\ prev2[r] = prev[r]
      BY <1>3, <2>3 DEF IsList
    <3>2. CASE r > s
      BY <1>0, <2>3, <3>1, <3>2 DEF IsBottom, Higher
    <3>3. CASE r < s
      <4>1. b # Nil /\ b \in Higher(S, r)
        BY <1>0, <1>1, <2>3, <3>3 DEF Higher
      <4>2. prev[r] # Nil /\ prev[r] \in Higher(S, r) /\ \A x \in Higher(S, r) : prev[r] <= x
        BY <3>1, <4>1 DEF IsBottom
      <4>3. prev[r] < s
        BY <1>0, <1>1, <4>1, <4>2 DEF Higher
      <4> QED
        BY <1>0, <3>1, <4>2, <4>3 DEF IsBottom, Higher
    <3> QED
      BY <1>0, <2>3, <3>2, <3>3
  <2> QED
    BY <2>1, <2>2, <2>3
<1> QED
  BY <1>4, <1>5, <1>6 DEF IsList, next2, prev2

\* A slab is taken off the list.
LEMMA LinkOut ==
  ASSUME NEW S \in SUBSET Slabs, NEW s \in S, NEW first, NEW next, NEW prev,
         next \in [Slabs -> 0 .. MaxSlabs], prev \in [Slabs -> 0 .. MaxSlabs],
         IsList(S, first, next, prev)
  PROVE  IsList(S \ {s}, IF prev[s] = Nil THEN next[s] ELSE first,
                SetAt(next, prev[s], next[s]), SetAt(prev, next[s], prev[s]))
<1> DEFINE a == prev[s]
           b == next[s]
           S2 == S \ {s}
           first2 == IF a = Nil THEN b ELSE first
           next2 == SetAt(next, a, b)
           prev2 == SetAt(prev, b, a)
<1>0. Nil \notin Slabs /\ \A x \in Slabs : x \in Nat
  BY PoolAssumption DEF Nil, Slabs
<1>1. /\ a # Nil => a \in S /\ a > s /\ \A r \in S : r > s => a <= r
      /\ a = Nil => \A r \in S : ~(r > s)
      /\ b # Nil => b \in S /\ b < s /\ \A r \in S : r < s => r <= b
      /\ b = Nil => \A r \in S : ~(r < s)
  BY DEF IsList, IsBottom, IsTop, Higher, Lower
<1>2. (a # Nil => next2[a] = b) /\ \A r \in S \ {a} : next2[r] = next[r]
  BY <1>0, <1>1 DEF SetAt
<1>3. (b # Nil => prev2[b] = a) /\ \A r \in S \ {b} : prev2[r] = prev[r]
  BY <1>0, <1>1 DEF SetAt
<1>4. /\ \A r \in S \ {s} : IsTop(next[r], Lower(S, r)) /\ IsBottom(prev[r], Higher(S, r))
      /\ first \in S /\ \A r \in S : r <= first
  BY DEF IsList, IsTop
<1> HIDE DEF a, b, next2, prev2
<1>5. IsTop(first2, S2)
  BY <1>0, <1>1, <1>4 DEF IsTop
<1>6. ASSUME NEW r \in S2
      PROVE  IsTop(next2[r], Lower(S2, r))
  <2>1. CASE r = a
    BY <1>0, <1>1, <1>2, <2>1 DEF IsTop, Lower
  <2>2. CASE r # a /\ r < s
    BY <1>0, <1>2, <1>4, <2>2 DEF IsTop, Lower
  <2>3. CASE r # a /\ r > s
    <3>1. a # Nil /\ a \in Lower(S, r)
      BY <1>0, <1>1, <2>3 DEF Lower
    <3>2. next[r] # Nil /\ next[r] \in Lower(S, r) /\ \A x \in Lower(S, r) : x <= next[r]
      BY <1>4, <3>1 DEF IsTop
    <3>3. next[r] # s
      BY <1>0, <1>1, <3>1, <3>2 DEF Lower
    <3> QED
      BY <1>0, <1>2, <2>3, <3>2, <3>3 DEF IsTop, Lower
  <2> QED
    BY <1>0, <2>1, <2>2, <2>3
<1>7. ASSUME NEW r \in S2
      PROVE  IsBottom(prev2[r], Higher(S2, r))
  <2>1. CASE r = b
    BY <1>0, <1>1, <1>3, <2>1 DEF IsBottom, Higher
  <2>2. CASE r # b /\ r > s
    BY <1>0, <1>3, <1>4, <2>2 DEF IsBottom, Higher
  <2>3. CASE r # b /\ r < s
    <3>1. b # Nil /\ b \in Higher(S, r)
      BY <1>0, <1>1, <2>3 DEF Higher
    <3>2. prev[r] # Nil /\ prev[r] \in Higher(S, r) /\ \A x \in Higher(S, r) : prev[r] <= x
      BY <1>4, <3>1 DEF IsBottom
    <3>3. prev[r] # s
      BY <1>0, <1>1, <3>1, <3>2 DEF Higher
    <3> QED
      BY <1>0, <1>3, <2>3, <3>2, <3>3 DEF IsBottom, Higher
  <2> QED
    BY <1>0, <2>1, <2>2, <2>3
<1> QED
  BY <1>5, <1>6, <1>7 DEF IsList, a, b, next2, prev2

\* q holds the slabs of S from s on down.
Chain(q, S, s) ==
  /\ q \in Seq(Slabs)
  /\ \A k \in DOMAIN q : q[k] \in S /\ q[k] <= s
  /\ \A r \in S : r <= s => \E k \in DOMAIN q : q[k] = r
  /\ \A k, m \in DOMAIN q : m < k => q[k] < q[m]
  /\ \A k \in DOMAIN q : k > 1 => free_prev[q[k]] = q[k - 1]
  /\ s # Nil => q # <<>> /\ q[1] = s

LEMMA ChainGrows ==
  ASSUME NEW S \in SUBSET Slabs, NEW s \in S, NEW q,
         IsTop(free_next[s], Lower(S, s)), Chain(q, S, free_next[s]),
         \A r \in S : IsBottom(free_prev[r], Higher(S, r))
  PROVE  Chain(<<s>> \o q, S, s)
<1> DEFINE p == <<s>> \o q
           n == free_next[s]
<1>0. (\A x \in S : x \in Nat /\ x > Nil) /\ Nil = 0
  <2>1. \A x \in Slabs : x \in Nat /\ x > 0
    BY PoolAssumption DEF Slabs
  <2> QED
    BY <2>1 DEF Nil
<1>1. q \in Seq(Slabs) /\ Len(q) \in Nat /\ DOMAIN q = 1 .. Len(q)
  BY DEF Chain
<1>2. /\ p \in Seq(Slabs) /\ DOMAIN p = 1 .. Len(q) + 1 /\ p[1] = s
      /\ \A k \in DOMAIN p : k # 1 => k - 1 \in DOMAIN q /\ p[k] = q[k - 1]
      /\ \A k \in DOMAIN q : k + 1 \in DOMAIN p /\ p[k + 1] = q[k]
  BY <1>1
<1>3. p # <<>>
  BY <1>2
<1> HIDE DEF p
<1>4. n = Nil \/ (n \in S /\ n < s)
  BY <1>0 DEF IsTop, Lower
<1>5. \A k \in DOMAIN q : q[k] \in S /\ q[k] < s
  BY <1>0, <1>4 DEF Chain
<1>6. \A k \in DOMAIN p : p[k] \in S /\ p[k] <= s
  BY <1>0, <1>2, <1>5
<1>7. ASSUME NEW r \in S, r <= s
      PROVE  \E k \in DOMAIN p : p[k] = r
  <2>1. CASE r = s
    BY <1>2, <2>1, <1>1
  <2>2. CASE r < s
    <3>1. r <= n
      BY <2>2 DEF IsTop, Lower
    <3>2. PICK k \in DOMAIN q : q[k] = r
      BY <3>1 DEF Chain
    <3> QED
      BY <1>2, <3>2
  <2> QED
    BY <1>0, <1>7, <2>1, <2>2
<1>8. ASSUME NEW k \in DOMAIN p, NEW m \in DOMAIN p, m < k
      PROVE  p[k] < p[m]
  <2>1. k # 1 /\ k - 1 \in DOMAIN q /\ p[k] = q[k - 1]
    BY <1>1, <1>2, <1>8
  <2>2. CASE m = 1
    BY <1>2, <1>5, <2>1, <2>2
  <2>3. CASE m # 1
    <3>1. m - 1 \in DOMAIN q /\ p[m] = q[m - 1] /\ m - 1 < k - 1
      BY <1>1, <1>2, <1>8, <2>3
    <3> QED
      BY <2>1, <3>1 DEF Chain
  <2> QED
    BY <2>2, <2>3
<1>9. ASSUME NEW k \in DOMAIN p, k > 1
      PROVE  free_prev[p[k]] = p[k - 1]
  <2>1. k - 1 \in DOMAIN q /\ p[k] = q[k - 1]
    BY <1>2, <1>9
  <2>2. CASE k - 1 = 1
    <3>1. n # Nil
      <4>1. q[1] \in S /\ q[1] <= n
        BY <2>1, <2>2 DEF Chain
      <4> QED
        BY <1>0, <4>1
    <3>2. p[k] = n /\ n \in S /\ n < s /\ \A r \in S : r < s => r <= n
      BY <2>1, <2>2, <3>1 DEF Chain, IsTop, Lower
    <3>3. IsBottom(free_prev[n], Higher(S, n)) /\ s \in Higher(S, n)
      BY <1>0, <3>2 DEF Higher
    <3>4. free_prev[n] \in S /\ free_prev[n] > n /\ free_prev[n] <= s
      BY <3>3 DEF IsBottom, Higher
    <3>5. free_prev[n] = s
      BY <1>0, <3>2, <3>4
    <3> QED
      BY <1>2, <2>2, <3>2, <3>5
  <2>3. CASE k - 1 # 1
    <3>1. k - 1 > 1 /\ (k - 1) - 1 \in DOMAIN q /\ k - 1 \in DOMAIN p /\ k - 1 # 1
      BY <1>1, <1>2, <2>1, <2>3
    <3>2. p[k - 1] = q[(k - 1) - 1]
      BY <1>2, <3>1
    <3> QED
      BY <2>1, <3>1, <3>2 DEF Chain
  <2> QED
    BY <2>2, <2>3
<1>10. Chain(p, S, s)
  BY <1>2, <1>3, <1>6, <1>7, <1>8, <1>9 DEF Chain
<1> QED
  BY <1>10 DEF p

\* What FreeList returns for a list.
LEMMA FreeListIs ==
  ASSUME NEW t, NEW S \in SUBSET Slabs, IsList(S, head[t], free_next, free_prev),
         free_next \in [Slabs -> 0 .. MaxSlabs]
  PROVE  Chain(FreeList(t), S, head[t])
<1> DEFINE Ends == 0 .. MaxSlabs
           None == [s \in Ends |-> <<>>]
           Longer(v) == [s \in Ends |-> IF s = Nil THEN <<>> ELSE <<s>> \o v[free_next[s]]]
           Q == [Ends -> Seq(Slabs)]
           step == [k \in Nat |-> [v \in Q |-> Longer(v)]]
           IsFrom(g) == g = [k \in Ends |-> IF k = 0 THEN None ELSE Longer(g[k - 1])]
           from == CHOOSE g : IsFrom(g)
<1>0. /\ MaxSlabs \in Nat /\ Nil = 0 /\ Nil \in Ends /\ Slabs \subseteq Ends
      /\ \A s \in Ends : s # Nil => s \in Slabs /\ free_next[s] \in Ends
  <2>1. \A s \in Ends : s # 0 => s \in Slabs
    BY PoolAssumption DEF Slabs
  <2> QED
    BY <2>1, PoolAssumption DEF Nil, Slabs
<1>1. ASSUME NEW v \in Q
      PROVE  Longer(v) \in Q
  <2>1. ASSUME NEW s \in Ends, s # Nil
        PROVE  <<s>> \o v[free_next[s]] \in Seq(Slabs)
    <3>1. v[free_next[s]] \in Seq(Slabs) /\ <<s>> \in Seq(Slabs)
      BY <1>0, <2>1
    <3> QED
      BY <3>1
  <2>2. <<>> \in Seq(Slabs)
    OBVIOUS
  <2> QED
    BY <2>1, <2>2
<1>2. step \in [Nat -> [Q -> Q]] /\ None \in Q
  <2>1. None \in Q
    OBVIOUS
  <2> HIDE DEF Longer, Q, None
  <2> QED
    BY <1>1, <2>1
<1>3. PICK f : IteratesTo(f, MaxSlabs, Q, None, step)
  <2> HIDE DEF step, Q, None
  <2> QED
    BY <1>0, <1>2, BoundedRecursion
<1>3a. /\ f \in [Ends -> Q]
       /\ f = [k \in Ends |-> IF k = 0 THEN None ELSE step[k][f[k - 1]]]
  BY <1>3 DEF IteratesTo
<1>4. IsFrom(f)
  <2> SUFFICES ASSUME NEW k \in Ends, k # 0
               PROVE  step[k][f[k - 1]] = Longer(f[k - 1])
    BY <1>3a
  <2>1. k \in Nat /\ f[k - 1] \in Q
    <3>1. k \in Nat /\ k - 1 \in Ends
      BY <1>0
    <3> HIDE DEF Q, Ends
    <3> QED
      BY <3>1, <1>3a
  <2> HIDE DEF Longer, Q
  <2> QED
    BY <2>1
<1>5. IsFrom(from)
  <2> HIDE DEF IsFrom
  <2> QED
    BY <1>4
<1>6. FreeList(t) = from[MaxSlabs][head[t]]
  BY DEF FreeList
<1>7. \A k \in Ends : from[k] = IF k = 0 THEN None ELSE Longer(from[k - 1])
  <2> HIDE DEF from
  <2> QED
    BY <1>5
<1> HIDE DEF from
<1>8. \A r \in S : IsTop(free_next[r], Lower(S, r)) /\ IsBottom(free_prev[r], Higher(S, r))
  BY DEF IsList
<1>9. ASSUME NEW k \in Ends
      PROVE  Chain(from[k][Nil], S, Nil)
  <2>1. from[k][Nil] = <<>>
    BY <1>0, <1>7
  <2>2. \A r \in S : ~(r <= Nil)
    BY PoolAssumption DEF Slabs, Nil
  <2> QED
    BY <2>1, <2>2 DEF Chain
<1> DEFINE Good(k) == \A s \in S : s <= k => Chain(from[k][s], S, s)
           T == {k \in Nat : k <= MaxSlabs => Good(k)}
<1>10. 0 \in T
  <2>1. \A s \in S : ~(s <= 0)
    BY PoolAssumption DEF Slabs
  <2> QED
    BY <2>1
<1>11. ASSUME NEW k \in Nat, k \in T
       PROVE  k + 1 \in T
  <2> SUFFICES ASSUME k + 1 <= MaxSlabs, NEW s \in S, s <= k + 1
               PROVE  Chain(from[k + 1][s], S, s)
    OBVIOUS
  <2> DEFINE n == free_next[s]
  <2>1. k \in Ends /\ k + 1 \in Ends /\ k + 1 # 0 /\ (k + 1) - 1 = k /\ s \in Ends /\ s # Nil
    BY <1>0, PoolAssumption DEF Slabs
  <2>2. from[k + 1] = Longer(from[k])
    BY <1>7, <2>1
  <2>3. from[k + 1][s] = <<s>> \o from[k][n]
    BY <2>1, <2>2
  <2>4. Chain(from[k][n], S, n)
    <3>1. CASE n = Nil
      BY <1>9, <2>1, <3>1
    <3>2. CASE n # Nil
      <4>1. n \in S /\ n < s
        BY <1>8, <3>2, <1>0 DEF IsTop, Lower
      <4>2. n <= k
        BY <4>1, <1>0, PoolAssumption DEF Slabs
      <4> QED
        BY <1>11, <2>1, <4>1, <4>2
    <3> QED
      BY <3>1, <3>2
  <2>5. Chain(<<s>> \o from[k][n], S, s)
    <3> HIDE DEF n
    <3>1. n = free_next[s]
      BY DEF n
    <3> QED
      BY <1>8, <2>4, <3>1, ChainGrows
  <2> QED
    BY <2>3, <2>5
<1>12. Good(MaxSlabs)
  <2>1. Nat \subseteq T
    <3> HIDE DEF T
    <3> QED
      BY <1>10, <1>11, NatSetInduction
  <2> HIDE DEF Good
  <2> QED
    BY <1>0, <2>1
<1>13. CASE head[t] = Nil
  <2>1. Chain(from[MaxSlabs][Nil], S, Nil)
    BY <1>0, <1>9
  <2> QED
    BY <1>6, <1>13, <2>1
<1>14. CASE head[t] # Nil
  <2>1. head[t] \in S /\ head[t] <= MaxSlabs
    <3>1. head[t] \in S
      BY <1>14 DEF IsList, IsTop
    <3>2. \A x \in Slabs : x <= MaxSlabs
      BY <1>0 DEF Slabs
    <3> QED
      BY <3>1, <3>2
  <2> QED
    BY <1>6, <1>12, <2>1
<1> QED
  BY <1>13, <1>14

-----------------------------------------------------------------------------
(* Free elements.                                                          *)

LEMMA FreeIdsFacts ==
  ASSUME NEW s
  PROVE  /\ FreeIds(s) \subseteq Elements /\ IsFiniteSet(FreeIds(s))
         /\ Cardinality(FreeIds(s)) \in 0 .. SlabCap
         /\ Cardinality(FreeIds(s)) = 0 <=> FreeIds(s) = {}
         /\ (\A i \in Elements : ids[s][i] = Empty) => Cardinality(FreeIds(s)) = SlabCap
<1>1. IsFiniteSet(Elements) /\ Cardinality(Elements) = SlabCap
  <2>1. 0 \in Int /\ SlabCap - 1 \in Int /\ 0 <= SlabCap - 1 /\ (SlabCap - 1) - 0 + 1 = SlabCap
    BY PoolAssumption
  <2> QED
    BY <2>1, FS_Interval DEF Elements
<1>2. FreeIds(s) \in SUBSET Elements
  BY DEF FreeIds
<1>3. IsFiniteSet(FreeIds(s)) /\ Cardinality(FreeIds(s)) <= SlabCap
  BY <1>1, <1>2, FS_Subset
<1>4. Cardinality(FreeIds(s)) \in Nat
  BY <1>3, FS_CardinalityType
<1>5. (\A i \in Elements : ids[s][i] = Empty) => FreeIds(s) = Elements
  BY DEF FreeIds
<1> QED
  BY <1>1, <1>2, <1>3, <1>4, <1>5, FS_EmptySet, PoolAssumption

\* The free elements of a set of slabs.
FreeIn(S) == {o \in S \X Elements : ids[o[1]][o[2]] = Empty}

\* A slab's free elements are added to those of others.
LEMMA FreeInGrows ==
  ASSUME NEW S, NEW s, s \notin S, IsFiniteSet(FreeIn(S))
  PROVE  /\ IsFiniteSet(FreeIn(S \cup {s}))
         /\ Cardinality(FreeIn(S \cup {s})) = Cardinality(FreeIn(S)) + Cardinality(FreeIds(s))
<1> DEFINE Row == {s} \X FreeIds(s)
<1>1. IsFiniteSet(Row) /\ Cardinality(Row) = Cardinality(FreeIds(s))
  <2>1. IsFiniteSet({s}) /\ Cardinality({s}) = 1
    BY FS_Singleton
  <2>2. Cardinality(FreeIds(s)) \in Nat
    BY FreeIdsFacts
  <2> QED
    BY <2>1, <2>2, FreeIdsFacts, FS_Product
<1>2. FreeIn(S \cup {s}) = FreeIn(S) \cup Row
  BY DEF FreeIn, FreeIds
<1>3. FreeIn(S) \cap Row = {}
  BY DEF FreeIn
<1> HIDE DEF Row
<1>4. /\ IsFiniteSet(FreeIn(S) \cup Row)
      /\ Cardinality(FreeIn(S) \cup Row)
           = Cardinality(FreeIn(S)) + Cardinality(Row) - Cardinality(FreeIn(S) \cap Row)
  BY <1>1, FS_Union
<1>5. Cardinality(FreeIn(S)) \in Nat /\ Cardinality(Row) \in Nat
  BY <1>1, FS_CardinalityType
<1>6. Cardinality(FreeIn(S) \cap Row) = 0
  BY <1>3, FS_EmptySet
<1>7. Cardinality(FreeIn(S) \cup Row) = Cardinality(FreeIn(S)) + Cardinality(Row)
  BY <1>4, <1>5, <1>6
<1> QED
  BY <1>1, <1>2, <1>4, <1>7

\* Counting slab by slab and then one by one finds a free element.
LEMMA AtFree ==
  ASSUME NEW S \in SUBSET Slabs, NEW x, NEW list, Chain(list, S, x),
         \A r \in S : r <= x,
         \A s \in S : free[s] = Cardinality(FreeIds(s)),
         NEW offset \in Nat, offset < Cardinality(FreeIn(S))
  PROVE  At(list, offset) \in FreeIn(S)
<1> DEFINE Upto(k) == {list[m] : m \in 1 .. k}
           step == [k \in Nat |-> [v \in Nat |-> v + Cardinality(FreeIds(list[k]))]]
           N == Len(list)
           IsBefore(g) == g = [k \in 0 .. N |-> IF k = 0 THEN 0 ELSE g[k - 1] + free[list[k]]]
           before == CHOOSE g : IsBefore(g)
<1>0. /\ N \in Nat /\ DOMAIN list = 1 .. N
      /\ \A k \in 1 .. N : list[k] \in S
      /\ \A k, m \in 1 .. N : m # k => list[k] # list[m]
      /\ Upto(N) = S
  <2>1. N \in Nat /\ DOMAIN list = 1 .. N
    BY DEF Chain
  <2>2. \A k \in 1 .. N : list[k] \in S
    BY <2>1 DEF Chain
  <2>3. \A k \in 1 .. N : list[k] \in Nat
    <3>1. Slabs \subseteq Nat
      BY PoolAssumption DEF Slabs
    <3> QED
      BY <2>2, <3>1
  <2>4. ASSUME NEW k \in 1 .. N, NEW m \in 1 .. N, m # k
        PROVE  list[k] # list[m]
    <3>1. k < m \/ m < k
      BY <2>1, <2>4
    <3>2. list[k] < list[m] \/ list[m] < list[k]
      BY <2>1, <3>1 DEF Chain
    <3> QED
      BY <2>3, <3>2
  <2>5. \A r \in S : \E k \in 1 .. N : list[k] = r
    BY <2>1 DEF Chain
  <2> QED
    BY <2>1, <2>2, <2>4, <2>5
<1>1. \A k \in Nat : Cardinality(FreeIds(list[k])) \in Nat
  BY FreeIdsFacts
<1>2. PICK f : IteratesTo(f, N, Nat, 0, step)
  <2>1. step \in [Nat -> [Nat -> Nat]]
    BY <1>1
  <2> HIDE DEF step, N
  <2> QED
    BY <1>0, <2>1, BoundedRecursion
<1>3. f \in [0 .. N -> Nat] /\ f = [k \in 0 .. N |-> IF k = 0 THEN 0 ELSE step[k][f[k - 1]]]
  BY <1>2 DEF IteratesTo
<1>4. IsBefore(f)
  <2> SUFFICES ASSUME NEW k \in 0 .. N, k # 0
               PROVE  step[k][f[k - 1]] = f[k - 1] + free[list[k]]
    BY <1>3
  <2>1. k \in Nat /\ k \in 1 .. N /\ k - 1 \in 0 .. N
    BY <1>0
  <2>2. f[k - 1] \in Nat
    BY <1>3, <2>1
  <2> QED
    BY <1>0, <1>1, <2>1, <2>2
<1>5. \A k \in 0 .. N : before[k] = IF k = 0 THEN 0 ELSE before[k - 1] + free[list[k]]
  <2>1. IsBefore(before)
    <3> HIDE DEF IsBefore
    <3> QED
      BY <1>4
  <2> HIDE DEF before
  <2> QED
    BY <2>1
<1> DEFINE k1 == Min({n \in 1 .. N : offset < before[n]})
           rest == offset - before[k1 - 1]
           s == list[k1]
<1>6. At(list, offset) =
        <<s, CHOOSE i \in FreeIds(s) : Cardinality({j \in FreeIds(s) : j < i}) = rest>>
  BY DEF At
<1> HIDE DEF before
<1>7. \A k \in 0 .. N : /\ IsFiniteSet(FreeIn(Upto(k)))
                        /\ before[k] = Cardinality(FreeIn(Upto(k)))
                        /\ before[k] \in Nat
  <2> DEFINE Good(k) == /\ IsFiniteSet(FreeIn(Upto(k)))
                        /\ before[k] = Cardinality(FreeIn(Upto(k)))
             T == {k \in Nat : k <= N => Good(k)}
  <2>1. 0 \in T
    <3>1. FreeIn(Upto(0)) = {}
      BY DEF FreeIn
    <3>2. before[0] = 0
      BY <1>0, <1>5
    <3> HIDE DEF Upto
    <3> QED
      BY <3>1, <3>2, FS_EmptySet
  <2>2. ASSUME NEW k \in Nat, k \in T, k + 1 <= N
        PROVE  Good(k + 1)
    <3>1. k + 1 \in 0 .. N /\ k + 1 \in 1 .. N /\ (k + 1) - 1 = k /\ k + 1 # 0 /\ k <= N
      BY <1>0, <2>2
    <3>2. Upto(k + 1) = Upto(k) \cup {list[k + 1]}
      <4>1. \A m : m \in 1 .. k + 1 <=> m \in 1 .. k \/ m = k + 1
        OBVIOUS
      <4> QED
        BY <4>1
    <3>3. list[k + 1] \notin Upto(k)
      BY <1>0, <3>1
    <3>4. before[k + 1] = before[k] + Cardinality(FreeIds(list[k + 1]))
      <4>1. free[list[k + 1]] = Cardinality(FreeIds(list[k + 1]))
        BY <1>0, <3>1
      <4> QED
        BY <1>5, <3>1, <4>1
    <3>5. Good(k)
      BY <2>2, <3>1
    <3> HIDE DEF Upto
    <3> QED
      BY <3>2, <3>3, <3>4, <3>5, FreeInGrows
  <2>3. Nat \subseteq T
    <3>1. \A k \in Nat : k \in T => k + 1 \in T
      BY <2>2
    <3> HIDE DEF T
    <3> QED
      BY <2>1, <3>1, NatSetInduction
  <2>4. \A k \in 0 .. N : Good(k)
    BY <1>0, <2>3
  <2> HIDE DEF Upto
  <2> QED
    BY <2>4, FS_CardinalityType
<1>8. /\ k1 \in 1 .. N /\ offset < before[k1]
      /\ \A n \in 1 .. N : offset < before[n] => k1 <= n
  <2> DEFINE T == {n \in 1 .. N : offset < before[n]}
  <2>1. before[N] = Cardinality(FreeIn(S))
    BY <1>0, <1>7
  <2>2. N # 0
    <3>1. before[0] = 0 /\ before[N] \in Nat
      BY <1>0, <1>5, <1>7
    <3> QED
      BY <2>1, <3>1
  <2>3. N \in T
    BY <1>0, <2>1, <2>2
  <2>4. \E y \in T : \A z \in T : y <= z
    <3>1. T \in SUBSET Nat
      BY <1>0
    <3> HIDE DEF T
    <3> QED
      BY <2>3, <3>1, LeastNat
  <2>5. Min(T) \in T /\ \A z \in T : Min(T) <= z
    BY <2>4 DEF Min
  <2> QED
    BY <2>5
<1> HIDE DEF k1
<1>9. s \in S /\ before[k1] = before[k1 - 1] + Cardinality(FreeIds(s))
  BY <1>0, <1>5, <1>8
<1>10. before[k1 - 1] \in Nat /\ before[k1 - 1] <= offset
  <2>1. k1 - 1 \in 0 .. N
    BY <1>0, <1>8
  <2>1a. before[k1 - 1] \in Nat
    BY <1>7, <2>1
  <2>2. CASE k1 = 1
    BY <1>0, <1>5, <2>1, <2>2
  <2>3. CASE k1 # 1
    BY <1>0, <1>8, <2>1, <2>1a, <2>3
  <2> QED
    BY <2>2, <2>3
<1>11. rest \in Nat /\ rest < Cardinality(FreeIds(s))
  <2>1. Cardinality(FreeIds(s)) \in Nat
    BY FreeIdsFacts
  <2> QED
    BY <1>8, <1>9, <1>10, <2>1
<1> HIDE DEF rest, s
<1>12. \E i \in FreeIds(s) : Cardinality({j \in FreeIds(s) : j < i}) = rest
  <2>1. FreeIds(s) \in SUBSET (0 .. SlabCap - 1) /\ SlabCap \in Nat
    BY PoolAssumption DEF FreeIds, Elements
  <2> QED
    BY <1>11, <2>1, Ranking
<1> DEFINE i == CHOOSE i \in FreeIds(s) : Cardinality({j \in FreeIds(s) : j < i}) = rest
<1>13. i \in FreeIds(s)
  BY <1>12
<1> HIDE DEF i
<1>14. <<s, i>> \in FreeIn(S)
  BY <1>9, <1>13 DEF FreeIn, FreeIds
<1> QED
  BY <1>6, <1>14 DEF i

-----------------------------------------------------------------------------
(* Steps that leave the heap alone.                                        *)

PCs == {"idle", "lock", "new", "map", "mark", "pick", "return", "free"}

LEMMA GotoFacts ==
  ASSUME Typed, NEW t \in Threads, NEW from, NEW to \in PCs, Goto(t, from, to)
  PROVE  /\ pc[t] = from /\ ~aborted /\ pc' \in [Threads -> PCs] /\ pc'[t] = to
         /\ \A u \in Threads \ {t} : pc'[u] = pc[u]
BY DEF Goto, Typed, PCs

LEMMA SlabFacts ==
  ASSUME Inv
  PROVE  /\ MaxSlabs \in Nat /\ made \in 0 .. MaxSlabs
         /\ 1 .. made \subseteq Slabs /\ 1 .. made \subseteq Nat
         /\ \A s \in Slabs, t \in Threads : owner[s] = t => s \in 1 .. made
         /\ \A t \in Threads : SlabsOf(t) = {s \in Slabs : owner[s] = t}
<1>1. MaxSlabs \in Nat /\ made \in 0 .. MaxSlabs
  BY PoolAssumption DEF Inv, Typed
<1>2. 1 .. made \subseteq Slabs /\ 1 .. made \subseteq Nat
  BY <1>1 DEF Slabs
<1>3. \A s \in Slabs, t \in Threads : owner[s] = t => s \in 1 .. made
  BY PoolAssumption DEF Inv, Made
<1> QED
  BY <1>1, <1>2, <1>3 DEF SlabsOf

LEMMA ExactKept ==
  ASSUME Inv, UNCHANGED <<made, owner, free, poolFree>>,
         \A s \in 1 .. made, i \in Elements : ids'[s][i] = Empty <=> ids[s][i] = Empty
  PROVE  Exact'
<1>1. \A s \in 1 .. made : FreeIds(s)' = FreeIds(s)
  BY DEF FreeIds
<1>2. ASSUME NEW t \in Threads
      PROVE  FreeElements(t)' = FreeElements(t)
  <2>1. SlabsOf(t)' = SlabsOf(t) /\ SlabsOf(t) \subseteq 1 .. made
    BY DEF SlabsOf
  <2> QED
    BY <2>1 DEF FreeElements
<1> QED
  BY <1>1, <1>2 DEF Inv, Exact

LEMMA Quiet ==
  ASSUME Inv, NEW t \in Threads, UNCHANGED <<made, owner, region, counts, freeList, map, table>>,
         \A u \in Threads \ {t} : pc'[u] = pc[u] /\ ptr'[u] = ptr[u],
         \A s \in Slabs, i \in Elements : ids'[s][i] = Empty <=> ids[s][i] = Empty,
         ~Marks(t), ~Marks(t)', Locks(t)' \/ ~Locks(t),
         pc'[t] = "pick" => poolFree[t] > Overprovision,
         pc'[t] \in {"return", "free"} => ptr'[t] \in (1 .. made) \X Elements
  PROVE  Made' /\ Making' /\ Exact' /\ Spare' /\ Lists'
<1>1. Made'
  BY DEF Inv, Made, counts, map
<1>2. Exact'
  BY SlabFacts, ExactKept DEF counts
<1>3. \A u \in Threads : SlabsOf(u)' = SlabsOf(u)
  BY DEF SlabsOf
<1>4. Making'
  <2> SUFFICES ASSUME NEW u \in Threads
               PROVE  /\ Marks(u)' => /\ ptr'[u][1] \in SlabsOf(u)
                                      /\ \A r \in SlabsOf(u) : r <= ptr'[u][1]
                                      /\ \A i \in Elements : ids'[ptr'[u][1]][i] = Empty
                                      /\ pc'[u] = "mark" => table[u] # Nil
                      /\ pc'[u] = "map" => /\ \A r \in Regions : slabMap[r] # ptr'[u][1]
                                           /\ \A v \in Threads : table[v] # ptr'[u][1]
                                           /\ \A s \in Slabs : <<ptr'[u][1], s>> \notin entries
                      /\ pc'[u] \in {"return", "free"} => ptr'[u] \in (1 .. made) \X Elements
    BY <1>3 DEF Making, map
  <2>1. CASE u = t
    BY <2>1 DEF Marks
  <2>2. CASE u # t
    <3>1. SlabsOf(u) \subseteq Slabs
      BY SlabFacts
    <3> QED
      BY <2>2, <3>1 DEF Inv, Making, Marks
  <2> QED
    BY <2>1, <2>2
<1>5. Spare'
  <2> SUFFICES ASSUME NEW u \in Threads
               PROVE  /\ pc'[u] \in {"map", "mark", "pick"} => poolFree[u] > Overprovision
                      /\ ~Locks(u)' /\ SlabsOf(u) # {} => poolFree[u] >= Overprovision
    BY <1>3 DEF Spare, counts
  <2>1. CASE u = t
    BY <2>1 DEF Marks, Inv, Spare
  <2>2. CASE u # t
    BY <2>2 DEF Locks, Inv, Spare
  <2> QED
    BY <2>1, <2>2
<1>6. \A u \in Threads : Linked(u)' = Linked(u)
  <2>1. \A u \in Threads : (Marks(u)' <=> Marks(u)) /\ (Marks(u) => ptr'[u] = ptr[u])
    BY DEF Marks
  <2> QED
    BY <2>1 DEF Linked, counts
<1>7. Lists'
  BY <1>6 DEF Inv, Lists, freeList, IsList, IsTop, IsBottom, Lower, Higher
<1> QED
  BY <1>1, <1>2, <1>4, <1>5, <1>7

LEMMA MallocStep ==
  ASSUME Inv, NEW t \in Threads, Malloc(t)
  PROVE  Inv'
<1>1. /\ pc[t] = "idle" /\ pc' \in [Threads -> PCs] /\ pc'[t] = "lock"
      /\ \A u \in Threads \ {t} : pc'[u] = pc[u]
      /\ UNCHANGED <<made, owner, region, ids, counts, freeList, lock, map,
                     table, ptr, held, aborted>>
  BY GotoFacts DEF Malloc, Inv, PCs
<1>2. Typed'
  BY <1>1 DEF Inv, Typed, PCs, counts, freeList, map
<1>3. Made' /\ Making' /\ Exact' /\ Spare' /\ Lists'
  BY <1>1, Quiet DEF Marks, Locks
<1>4. LocksHeld'
  BY <1>1 DEF Inv, LocksHeld, Locks
<1>5. HeldExact'
  <2>1. InFlight' = InFlight
    BY <1>1 DEF InFlight
  <2> QED
    BY <1>1, <2>1 DEF Inv, HeldExact, Lost, GetSlab, map
<1>6. Fresh'
  BY <1>1 DEF Inv, Fresh
<1> QED
  BY <1>2, <1>3, <1>4, <1>5, <1>6 DEF Inv

LEMMA LockPoolStep ==
  ASSUME Inv, NEW t \in Threads, LockPool(t)
  PROVE  Inv'
<1>1. /\ pc[t] = "lock" /\ pc' \in [Threads -> PCs]
      /\ pc'[t] = IF poolFree[t] <= Overprovision THEN "new" ELSE "pick"
      /\ \A u \in Threads \ {t} : pc'[u] = pc[u]
      /\ lock' = [lock EXCEPT ![t] = t]
      /\ UNCHANGED <<made, owner, region, ids, counts, freeList, map,
                     table, ptr, held, aborted>>
  BY GotoFacts DEF LockPool, Inv, PCs
<1>2. Typed'
  BY <1>1 DEF Inv, Typed, PCs, counts, freeList, map
<1>3. Made' /\ Making' /\ Exact' /\ Spare' /\ Lists'
  <2>1. pc'[t] = "pick" => poolFree[t] > Overprovision
    BY <1>1, PoolAssumption DEF Inv, Typed
  <2> QED
    BY <1>1, <2>1, Quiet DEF Marks, Locks
<1>4. LocksHeld'
  BY <1>1 DEF Inv, LocksHeld, Locks
<1>5. HeldExact'
  <2>1. InFlight' = InFlight
    BY <1>1 DEF InFlight
  <2> QED
    BY <1>1, <2>1 DEF Inv, HeldExact, Lost, GetSlab, map
<1>6. Fresh'
  BY <1>1 DEF Inv, Fresh
<1> QED
  BY <1>2, <1>3, <1>4, <1>5, <1>6 DEF Inv

LEMMA SetTagFailsStep ==
  ASSUME Inv, NEW t \in Threads, SetTagFails(t)
  PROVE  Inv'
<1>1. UNCHANGED <<made, owner, region, ids, counts, freeList, lock, map,
                  pc, table, ptr, held>> /\ aborted' \in BOOLEAN /\ pc[t] = "return"
  BY DEF SetTagFails
<1>2. Typed'
  BY <1>1 DEF Inv, Typed, counts, freeList, map
<1>3. Made' /\ Making' /\ Exact' /\ Spare' /\ Lists'
  <2>1. ptr[t] \in (1 .. made) \X Elements
    BY <1>1 DEF Inv, Making
  <2> QED
    BY <1>1, <2>1, Quiet DEF Marks, Locks
<1>4. LocksHeld'
  BY <1>1 DEF Inv, LocksHeld, Locks
<1>5. HeldExact'
  BY <1>1 DEF Inv, HeldExact, InFlight, Lost, GetSlab, map
<1>6. Fresh'
  BY <1>1 DEF Inv, Fresh
<1> QED
  BY <1>2, <1>3, <1>4, <1>5, <1>6 DEF Inv

\* An element gets its final tag, and the program has it.
LEMMA Delivered ==
  ASSUME Inv, NEW t \in Threads, NEW tag \in Tags \cup {Untagged},
         pc[t] = "return", pc' \in [Threads -> PCs], pc'[t] = "idle",
         \A u \in Threads \ {t} : pc'[u] = pc[u],
         ids' = [ids EXCEPT ![ptr[t][1]][ptr[t][2]] = tag],
         held' = held \cup {<<ptr[t], tag>>},
         ptr' = [ptr EXCEPT ![t] = NoPtr],
         UNCHANGED <<made, owner, region, counts, freeList, lock, map, table, aborted>>
  PROVE  Inv'
<1> DEFINE o == ptr[t]
           Tag(p) == ids[p[1]][p[2]]
           Tag2(p) == ids'[p[1]][p[2]]
<1>1. /\ o \in (1 .. made) \X Elements /\ 1 .. made \subseteq Slabs /\ o \in Element
      /\ tag # Empty /\ tag \in TagOrNone
  BY SlabFacts, PoolAssumption DEF Inv, Making, Element, TagOrNone
<1>2. \A u \in Threads \ {t} : ptr'[u] = ptr[u]
  BY DEF Inv, Typed
<1>3. Tag(o) = Untagged /\ t \in InFlight /\ \A h \in held : h[1] # o
  BY DEF Inv, Fresh, HeldExact, InFlight
<1>4. Tag2(o) = tag /\ \A p \in Element : p # o => Tag2(p) = Tag(p)
  BY <1>1 DEF Inv, Typed, Element
<1>5. \A p \in Element : Tag2(p) = Empty <=> Tag(p) = Empty
  BY <1>1, <1>3, <1>4, PoolAssumption
<1>6. Typed'
  <2>1. held' \in SUBSET (Element \X (Tags \cup {Untagged}))
    BY <1>1 DEF Inv, Typed
  <2>2. ids' \in [Slabs -> [Elements -> TagOrNone]]
    BY <1>1 DEF Inv, Typed
  <2> QED
    BY <2>1, <2>2 DEF Inv, Typed, PCs, counts, freeList, map
<1>7. Made' /\ Making' /\ Exact' /\ Spare' /\ Lists'
  <2>1. ASSUME NEW s \in Slabs, NEW i \in Elements
        PROVE  ids'[s][i] = Empty <=> ids[s][i] = Empty
    <3>1. <<s, i>> \in Element
      BY DEF Element
    <3> QED
      BY <1>5, <3>1
  <2> QED
    BY <1>2, <2>1, Quiet DEF Marks, Locks
<1>8. LocksHeld'
  BY DEF Inv, LocksHeld, Locks
<1>9. InFlight' = InFlight \ {t}
  BY DEF InFlight
<1>10. ASSUME NEW u \in InFlight'
       PROVE  /\ u \in Threads /\ u # t /\ u \in InFlight /\ ptr'[u] = ptr[u] /\ ptr[u] # o
              /\ ptr[u] \in Element /\ Tag2(ptr[u]) = Tag(ptr[u])
  <2>1. u \in InFlight /\ u # t /\ u \in Threads
    BY <1>9 DEF InFlight
  <2>2. ptr[u] # o
    BY <1>3, <2>1 DEF Inv, HeldExact
  <2>3. ptr[u] \in Element
    BY <1>1, <2>1 DEF Inv, Making, InFlight, Element
  <2> QED
    BY <1>2, <1>4, <2>1, <2>2, <2>3
<1>11. Fresh'
  <2> SUFFICES ASSUME NEW u \in Threads, pc'[u] = "return"
               PROVE  Tag2(ptr'[u]) = Untagged
    BY DEF Fresh
  <2>1. u \in InFlight' /\ u # t /\ pc[u] = "return"
    BY DEF InFlight
  <2> QED
    BY <1>10, <2>1 DEF Inv, Fresh
<1>12. HeldExact'
  <2>1. ASSUME NEW h \in held
        PROVE  h[1] \in Element /\ h[1] # o /\ Tag2(h[1]) = h[2]
    BY <1>3, <1>4 DEF Inv, Typed, HeldExact
  <2>2. \A h \in held' : Tag2(h[1]) = h[2]
    BY <1>4, <2>1
  <2>3. \A g, h \in held' : g[1] = h[1] => g = h
    BY <2>1 DEF Inv, HeldExact
  <2>4. ASSUME NEW u \in InFlight'
        PROVE  Tag2(ptr'[u]) # Empty /\ \A h \in held' : h[1] # ptr'[u]
    <3>1. Tag(ptr[u]) # Empty /\ \A h \in held : h[1] # ptr[u]
      BY <1>10 DEF Inv, HeldExact
    <3> QED
      BY <1>10, <3>1
  <2>5. \A u, v \in InFlight' : u # v => ptr'[u] # ptr'[v]
    BY <1>10 DEF Inv, HeldExact
  <2>6. ASSUME NEW p \in (1 .. made) \X Elements, Tag2(p) # Empty
        PROVE  \/ \E h \in held' : h[1] = p
               \/ \E u \in InFlight' : ptr'[u] = p
               \/ Lost(p[1])'
    <3>1. Lost(p[1])' = Lost(p[1]) /\ p \in Element
      BY <1>1 DEF Lost, GetSlab, map, Element
    <3>2. CASE p = o
      <4>1. <<o, tag>> \in held' /\ <<o, tag>>[1] = o
        OBVIOUS
      <4> QED
        BY <3>2, <4>1
    <3>3. CASE p # o
      <4>1. \/ \E h \in held : h[1] = p
            \/ \E u \in InFlight : ptr[u] = p
            \/ Lost(p[1])
        BY <1>5, <2>6, <3>1 DEF Inv, HeldExact
      <4>2. ASSUME NEW u \in InFlight, ptr[u] = p
            PROVE  u \in InFlight' /\ ptr'[u] = p
        BY <1>9, <1>2, <3>3, <4>2 DEF InFlight
      <4> QED
        BY <3>1, <4>1, <4>2
    <3> QED
      BY <3>2, <3>3
  <2> QED
    BY <2>2, <2>3, <2>4, <2>5, <2>6 DEF HeldExact
<1> QED
  BY <1>6, <1>7, <1>8, <1>11, <1>12 DEF Inv

LEMMA ReturnStep ==
  ASSUME Inv, NEW t \in Threads, Return(t)
  PROVE  Inv'
<1>1. /\ pc[t] = "return" /\ pc' \in [Threads -> PCs] /\ pc'[t] = "idle"
      /\ \A u \in Threads \ {t} : pc'[u] = pc[u]
  BY GotoFacts DEF Return, Inv, PCs
<1>2. ids = [ids EXCEPT ![ptr[t][1]][ptr[t][2]] = Untagged]
  BY <1>1, SlabFacts DEF Inv, Typed, Making, Fresh
<1>3. ids' = [ids EXCEPT ![ptr[t][1]][ptr[t][2]] = Untagged]
  BY <1>2 DEF Return
<1> QED
  BY <1>1, <1>3, Delivered DEF Return

LEMMA SetTagStep ==
  ASSUME Inv, NEW t \in Threads, SetTag(t)
  PROVE  Inv'
<1>1. /\ pc[t] = "return" /\ pc' \in [Threads -> PCs] /\ pc'[t] = "idle"
      /\ \A u \in Threads \ {t} : pc'[u] = pc[u]
  BY GotoFacts DEF SetTag, Inv, PCs
<1>2. PICK tag \in Tags : /\ ids' = [ids EXCEPT ![ptr[t][1]][ptr[t][2]] = tag]
                          /\ held' = held \cup {<<ptr[t], tag>>}
  BY DEF SetTag
<1> QED
  BY <1>1, <1>2, Delivered DEF SetTag

LEMMA FreeStep ==
  ASSUME Inv, NEW t \in Threads, Free(t)
  PROVE  Inv'
<1>1. PICK h \in held :
        /\ held' = held \ {h}
        /\ IF GetSlab(h[1][1]) = Nil
             THEN Goto(t, "idle", "idle") /\ UNCHANGED ptr
             ELSE Goto(t, "idle", "free") /\ ptr' = [ptr EXCEPT ![t] = h[1]]
        /\ UNCHANGED <<made, owner, region, ids, counts, freeList, lock, map, table, aborted>>
  BY DEF Free
<1> DEFINE o == h[1]
<1>2. /\ o \in Element /\ ids[o[1]][o[2]] # Empty
      /\ \A g \in held \ {h} : g[1] # o
      /\ \A u \in InFlight : ptr[u] # o
  BY <1>1, PoolAssumption DEF Inv, Typed, HeldExact
<1>3. o \in (1 .. made) \X Elements
  <2>1. o[1] \in Slabs /\ o[2] \in Elements
    BY <1>2 DEF Element
  <2>2. o[1] \in 1 .. made
    BY <1>2, <2>1 DEF Inv, Made
  <2> QED
    BY <1>2, <2>1, <2>2 DEF Element
<1>4. /\ pc[t] = "idle" /\ pc' \in [Threads -> PCs] /\ pc'[t] \in {"idle", "free"}
      /\ \A u \in Threads \ {t} : pc'[u] = pc[u] /\ ptr'[u] = ptr[u]
      /\ pc'[t] = "free" => ptr'[t] = o
      /\ pc'[t] = "idle" => Lost(o[1])
      /\ ptr' \in [Threads -> Element \cup {NoPtr}]
  <2>1. CASE GetSlab(o[1]) = Nil
    <3>1. Goto(t, "idle", "idle") /\ UNCHANGED ptr
      BY <1>1, <2>1
    <3>2. /\ pc[t] = "idle" /\ pc' \in [Threads -> PCs] /\ pc'[t] = "idle"
          /\ \A u \in Threads \ {t} : pc'[u] = pc[u]
      BY <3>1, GotoFacts DEF Inv, PCs
    <3> QED
      BY <2>1, <3>1, <3>2 DEF Inv, Typed, Lost
  <2>2. CASE GetSlab(o[1]) # Nil
    <3>1. Goto(t, "idle", "free") /\ ptr' = [ptr EXCEPT ![t] = o]
      BY <1>1, <2>2
    <3>2. /\ pc[t] = "idle" /\ pc' \in [Threads -> PCs] /\ pc'[t] = "free"
          /\ \A u \in Threads \ {t} : pc'[u] = pc[u]
      BY <3>1, GotoFacts DEF Inv, PCs
    <3> QED
      BY <1>2, <3>1, <3>2 DEF Inv, Typed
  <2> QED
    BY <2>1, <2>2
<1>5. UNCHANGED <<made, owner, region, ids, counts, freeList, lock, map, table, aborted>>
  BY <1>1
<1>6. Typed'
  BY <1>1, <1>4, <1>5 DEF Inv, Typed, PCs, counts, freeList, map
<1>7. Made' /\ Making' /\ Exact' /\ Spare' /\ Lists'
  BY <1>3, <1>4, <1>5, Quiet DEF Marks, Locks
<1>8. LocksHeld'
  BY <1>4, <1>5 DEF Inv, LocksHeld, Locks
<1>9. Fresh'
  BY <1>4, <1>5 DEF Inv, Fresh
<1>10. HeldExact'
  <2>1. \A u \in Threads \ {t} : u \in InFlight' <=> u \in InFlight
    BY <1>4 DEF InFlight
  <2>2. t \notin InFlight /\ (t \in InFlight' <=> pc'[t] = "free") /\ InFlight' \subseteq Threads
    BY <1>4 DEF InFlight
  <2>3. /\ \A g \in held' : ids'[g[1][1]][g[1][2]] = g[2]
        /\ \A f, g \in held' : f[1] = g[1] => f = g
    BY <1>1, <1>5 DEF Inv, HeldExact
  <2>4. ASSUME NEW u \in InFlight'
        PROVE  ids'[ptr'[u][1]][ptr'[u][2]] # Empty /\ \A g \in held' : g[1] # ptr'[u]
    BY <1>1, <1>2, <1>4, <1>5, <2>1, <2>2 DEF Inv, HeldExact
  <2>5. \A u, v \in InFlight' : u # v => ptr'[u] # ptr'[v]
    BY <1>2, <1>4, <2>1, <2>2 DEF Inv, HeldExact
  <2>6. ASSUME NEW p \in (1 .. made) \X Elements, ids[p[1]][p[2]] # Empty
        PROVE  \/ \E g \in held' : g[1] = p
               \/ \E u \in InFlight' : ptr'[u] = p
               \/ Lost(p[1])'
    <3>1. Lost(p[1])' = Lost(p[1])
      BY <1>5 DEF Lost, GetSlab, map
    <3>2. CASE p = o
      BY <1>4, <2>2, <3>1, <3>2
    <3>3. CASE p # o
      <4>1. \/ \E g \in held : g[1] = p
            \/ \E u \in InFlight : ptr[u] = p
            \/ Lost(p[1])
        BY <2>6 DEF Inv, HeldExact
      <4>2. ASSUME NEW u \in InFlight, ptr[u] = p
            PROVE  u \in InFlight' /\ ptr'[u] = p
        BY <1>4, <2>1, <2>2, <4>2 DEF InFlight
      <4> QED
        BY <1>1, <3>1, <3>3, <4>1, <4>2
    <3> QED
      BY <3>2, <3>3
  <2> QED
    BY <1>5, <2>3, <2>4, <2>5, <2>6 DEF HeldExact
<1> QED
  BY <1>6, <1>7, <1>8, <1>9, <1>10 DEF Inv

-----------------------------------------------------------------------------
(* Steps that make a slab.                                                 *)

\* A list that shares no slab with the changed links is as it was.
LEMMA ListApart ==
  ASSUME NEW S, NEW first, NEW next, NEW prev, NEW next2, NEW prev2,
         IsList(S, first, next, prev),
         \A r \in S : next2[r] = next[r] /\ prev2[r] = prev[r]
  PROVE  IsList(S, first, next2, prev2)
BY DEF IsList

LEMMA FreeElementsIs ==
  ASSUME NEW t
  PROVE  FreeElements(t) = FreeIn(SlabsOf(t))
BY DEF FreeElements, FreeIn

LEMMA FreeElementsFacts ==
  ASSUME Inv, NEW t \in Threads
  PROVE  IsFiniteSet(FreeElements(t)) /\ FreeElements(t) \subseteq Element
<1>1. IsFiniteSet(Slabs) /\ IsFiniteSet(Elements)
  BY PoolAssumption, FS_Interval DEF Slabs, Elements
<1>2. IsFiniteSet(Slabs \X Elements)
  BY <1>1, FS_Product
<1>3. FreeElements(t) \in SUBSET (Slabs \X Elements)
  BY SlabFacts DEF FreeElements
<1> QED
  BY <1>2, <1>3, FS_Subset DEF Element

LEMMA NewSlabStep ==
  ASSUME Inv, NEW t \in Threads, NewSlab(t)
  PROVE  Inv'
<1> DEFINE s == made + 1
<1>1. PICK r \in Regions :
        /\ region' = [region EXCEPT ![s] = r]
        /\ table' = [table EXCEPT ![t] = slabMap[r]]
        /\ Goto(t, "new", IF slabMap[r] = Nil THEN "map" ELSE "mark")
  BY DEF NewSlab
<1>2. /\ pc[t] = "new" /\ pc' \in [Threads -> PCs]
      /\ pc'[t] = IF slabMap[r] = Nil THEN "map" ELSE "mark"
      /\ \A u \in Threads \ {t} : pc'[u] = pc[u]
  BY <1>1, GotoFacts DEF Inv, PCs
<1>3. /\ s <= MaxSlabs /\ made' = s
      /\ owner' = [owner EXCEPT ![s] = t]
      /\ free' = [free EXCEPT ![s] = SlabCap]
      /\ poolFree' = [poolFree EXCEPT ![t] = @ + SlabCap]
      /\ ptr' = [ptr EXCEPT ![t] = <<s, 0>>]
      /\ UNCHANGED <<ids, freeList, lock, map, held, aborted>>
  BY DEF NewSlab
<1>4. /\ s \in Slabs /\ s \notin 1 .. made /\ 1 .. s = 1 .. made \cup {s}
      /\ 1 .. made \subseteq Slabs \ {s} /\ made \in Nat
      /\ \A x \in 1 .. made : x < s
  BY <1>3, SlabFacts DEF Slabs
<1>5. /\ \A i \in Elements : ids[s][i] = Empty
      /\ free[s] = 0 /\ owner[s] = Unlocked
  BY <1>4 DEF Inv, Made
<1>6. \A x \in Slabs \ {s} : owner'[x] = owner[x] /\ region'[x] = region[x] /\ free'[x] = free[x]
  BY <1>1, <1>3 DEF Inv, Typed
<1>7. /\ owner'[s] = t /\ region'[s] = r /\ free'[s] = SlabCap
      /\ table'[t] = slabMap[r] /\ ptr'[t] = <<s, 0>>
      /\ \A u \in Threads \ {t} : table'[u] = table[u] /\ ptr'[u] = ptr[u]
  BY <1>1, <1>3, <1>4 DEF Inv, Typed
<1> HIDE DEF s
<1>8. Typed'
  <2>1. <<s, 0>> \in Element
    BY <1>4, PoolAssumption DEF Element, Elements
  <2>2. made' \in 0 .. MaxSlabs
    BY <1>3, <1>4 DEF Slabs
  <2>3. poolFree' \in [Threads -> Nat] /\ free' \in [Slabs -> Nat]
    <3>1. SlabCap \in Nat /\ poolFree[t] + SlabCap \in Nat
      BY PoolAssumption DEF Inv, Typed
    <3> QED
      BY <1>3, <3>1 DEF Inv, Typed
  <2>4. slabMap[r] \in 0 .. MaxSlabs
    BY DEF Inv, Typed
  <2> QED
    BY <1>1, <1>2, <1>3, <2>1, <2>2, <2>3, <2>4 DEF Inv, Typed, PCs, freeList, map
<1>9. Made'
  <2>1. \A x \in 1 .. made' : owner'[x] \in Threads /\ region'[x] \in Regions
    BY <1>3, <1>4, <1>6, <1>7 DEF Inv, Made
  <2>2. \A x \in Slabs \ (1 .. made') :
          owner'[x] = Unlocked /\ free'[x] = 0 /\ \A i \in Elements : ids'[x][i] = Empty
    BY <1>3, <1>4, <1>6 DEF Inv, Made
  <2>3. \A x \in 0 .. MaxSlabs : x <= made => x <= s
    BY <1>4, PoolAssumption DEF Slabs
  <2>4. \A q \in Regions : slabMap'[q] <= made'
    BY <1>3, <2>3 DEF Inv, Made, Typed, map
  <2>5. \A u \in Threads : table'[u] <= made'
    BY <1>3, <1>7, <2>3 DEF Inv, Made, Typed
  <2>6. \A e \in entries' : e[1] <= made'
    <3>1. \A e \in entries : e[1] \in 0 .. MaxSlabs
      BY PoolAssumption DEF Inv, Typed, Slabs
    <3> QED
      BY <1>3, <2>3, <3>1 DEF Inv, Made, map
  <2> QED
    BY <2>1, <2>2, <2>4, <2>5, <2>6 DEF Made
<1>10. LocksHeld'
  BY <1>2, <1>3 DEF Inv, LocksHeld, Locks
<1>11. /\ SlabsOf(t)' = SlabsOf(t) \cup {s} /\ s \notin SlabsOf(t)
       /\ \A u \in Threads \ {t} : SlabsOf(u)' = SlabsOf(u)
  <2>1. ASSUME NEW u \in Threads, NEW x
        PROVE  x \in SlabsOf(u)' <=> x \in SlabsOf(u) \/ (u = t /\ x = s)
    BY <1>3, <1>4, <1>6, <1>7 DEF SlabsOf
  <2>2. s \notin SlabsOf(t)
    BY <1>4 DEF SlabsOf
  <2> QED
    BY <2>1, <2>2
<1>12. Making'
  <2>1. /\ \A q \in Regions : slabMap'[q] # s
        /\ \A u \in Threads : table'[u] # s
        /\ \A x \in Slabs : <<s, x>> \notin entries'
    <3>1. ~(s <= made)
      BY <1>4 DEF s
    <3>2. \A q \in Regions : slabMap[q] <= made
      BY DEF Inv, Made
    <3>3. \A u \in Threads : table[u] <= made
      BY DEF Inv, Made
    <3>4. ASSUME NEW x \in Slabs, <<s, x>> \in entries
          PROVE  FALSE
      <4>1. <<s, x>>[1] <= made
        BY <3>4 DEF Inv, Made
      <4> QED
        BY <3>1, <4>1
    <3> QED
      BY <1>3, <1>7, <3>1, <3>2, <3>3, <3>4 DEF map
  <2>2. ASSUME NEW u \in Threads, Marks(u)'
        PROVE  /\ ptr'[u][1] \in SlabsOf(u)' /\ \A x \in SlabsOf(u)' : x <= ptr'[u][1]
               /\ \A i \in Elements : ids'[ptr'[u][1]][i] = Empty
               /\ pc'[u] = "mark" => table'[u] # Nil
               /\ pc'[u] = "map" => /\ \A q \in Regions : slabMap'[q] # ptr'[u][1]
                                    /\ \A v \in Threads : table'[v] # ptr'[u][1]
                                    /\ \A x \in Slabs : <<ptr'[u][1], x>> \notin entries'
    <3>1. CASE u = t
      <4>1. \A x \in SlabsOf(t)' : x <= s
        BY <1>4, <1>11 DEF SlabsOf
      <4> QED
        BY <1>2, <1>3, <1>5, <1>7, <1>11, <2>1, <3>1, <4>1
    <3>2. CASE u # t
      <4>1. Marks(u) /\ pc'[u] = pc[u] /\ ptr'[u] = ptr[u] /\ SlabsOf(u)' = SlabsOf(u)
            /\ table'[u] = table[u]
        BY <1>2, <1>7, <1>11, <2>2, <3>2 DEF Marks
      <4>2. pc[u] = "map" => \A v \in Threads : table'[v] # ptr[u][1]
        BY <1>7 DEF Inv, Making
      <4> QED
        BY <1>3, <4>1, <4>2 DEF Inv, Making, map
    <3> QED
      BY <3>1, <3>2
  <2>3. ASSUME NEW u \in Threads, pc'[u] \in {"return", "free"}
        PROVE  ptr'[u] \in (1 .. made') \X Elements
    <3>1. u # t /\ pc[u] = pc'[u] /\ ptr'[u] = ptr[u]
      BY <1>2, <1>7, <2>3
    <3> QED
      BY <1>3, <1>4, <2>3, <3>1 DEF Inv, Making
  <2> QED
    BY <2>2, <2>3 DEF Making, Marks
<1>13. Fresh'
  BY <1>2, <1>3, <1>7 DEF Inv, Fresh
<1>14. Exact'
  <2>1. \A x : FreeIds(x)' = FreeIds(x)
    BY <1>3 DEF FreeIds
  <2>2. Cardinality(FreeIds(s)) = SlabCap
    BY <1>5, FreeIdsFacts
  <2>3. ASSUME NEW x \in 1 .. made'
        PROVE  free'[x] = Cardinality(FreeIds(x)')
    BY <1>3, <1>4, <1>6, <1>7, <2>1, <2>2 DEF Inv, Exact
  <2>4. ASSUME NEW u \in Threads
        PROVE  poolFree'[u] = Cardinality(FreeElements(u)')
    <3>1. FreeElements(u)' = FreeIn(SlabsOf(u)')
      BY <1>3 DEF FreeElements, FreeIn
    <3>2. CASE u = t
      <4>1. IsFiniteSet(FreeIn(SlabsOf(t))) /\ poolFree[t] = Cardinality(FreeIn(SlabsOf(t)))
        BY FreeElementsIs, FreeElementsFacts DEF Inv, Exact
      <4>2. Cardinality(FreeIn(SlabsOf(t) \cup {s}))
              = Cardinality(FreeIn(SlabsOf(t))) + Cardinality(FreeIds(s))
        BY <1>11, <4>1, FreeInGrows
      <4> QED
        BY <1>3, <1>11, <2>2, <3>1, <3>2, <4>1, <4>2 DEF Inv, Typed
    <3>3. CASE u # t
      BY <1>3, <1>11, <3>1, <3>3, FreeElementsIs DEF Inv, Typed, Exact
    <3> QED
      BY <3>2, <3>3
  <2> QED
    BY <2>3, <2>4 DEF Exact
<1>15. Spare'
  <2> SUFFICES ASSUME NEW u \in Threads
               PROVE  /\ pc'[u] \in {"map", "mark", "pick"} => poolFree'[u] > Overprovision
                      /\ ~Locks(u)' /\ SlabsOf(u)' # {} => poolFree'[u] >= Overprovision
    BY DEF Spare
  <2>1. CASE u = t
    <3>1. poolFree'[t] > Overprovision
      <4>1. poolFree[t] \in Nat /\ poolFree'[t] = poolFree[t] + SlabCap
        BY <1>3 DEF Inv, Typed
      <4> QED
        BY <4>1, PoolAssumption
    <3> QED
      BY <1>2, <2>1, <3>1 DEF Locks
  <2>2. CASE u # t
    <3>1. poolFree'[u] = poolFree[u] /\ pc'[u] = pc[u] /\ SlabsOf(u)' = SlabsOf(u)
      BY <1>2, <1>3, <1>11, <2>2 DEF Inv, Typed
    <3> QED
      BY <3>1 DEF Inv, Spare, Locks
  <2> QED
    BY <2>1, <2>2
<1>16. Lists'
  <2>1. ASSUME NEW u \in Threads
        PROVE  Linked(u)' = Linked(u)
    <3>1. CASE u = t
      <4>1. Marks(t)' /\ ~Marks(t)
        BY <1>2 DEF Marks
      <4>2. ASSUME NEW x \in Slabs
            PROVE  x \in Linked(t)' <=> x \in Linked(t)
        <5>1. CASE x = s
          BY <1>5, <1>7, <4>1, <5>1 DEF Linked
        <5>2. CASE x # s
          BY <1>6, <1>7, <4>1, <5>2 DEF Linked
        <5> QED
          BY <5>1, <5>2
      <4>3. Linked(t)' \subseteq Slabs /\ Linked(t) \subseteq Slabs
        BY DEF Linked
      <4> QED
        BY <3>1, <4>2, <4>3
    <3>2. CASE u # t
      <4>1. (Marks(u)' <=> Marks(u)) /\ ptr'[u] = ptr[u]
        BY <1>2, <1>7, <3>2 DEF Marks
      <4>2. ASSUME NEW x \in Slabs
            PROVE  x \in Linked(u)' <=> x \in Linked(u)
        <5>1. CASE x = s
          BY <1>5, <1>7, <3>2, <5>1, PoolAssumption DEF Linked
        <5>2. CASE x # s
          BY <1>6, <4>1, <5>2 DEF Linked
        <5> QED
          BY <5>1, <5>2
      <4>3. Linked(u)' \subseteq Slabs /\ Linked(u) \subseteq Slabs
        BY DEF Linked
      <4> QED
        BY <4>2, <4>3
    <3> QED
      BY <3>1, <3>2
  <2> QED
    BY <1>3, <2>1 DEF Inv, Lists, freeList, IsList, IsTop, IsBottom, Lower, Higher
<1>17. HeldExact'
  <2>1. InFlight' = InFlight
    BY <1>2 DEF InFlight
  <2>2. \A u \in InFlight : ptr'[u] = ptr[u]
    BY <1>2, <1>7 DEF InFlight
  <2>3. ASSUME NEW o \in (1 .. made') \X Elements, ids'[o[1]][o[2]] # Empty
        PROVE  \/ \E h \in held' : h[1] = o
               \/ \E u \in InFlight' : ptr'[u] = o
               \/ Lost(o[1])'
    <3>1. o[1] # s /\ o \in (1 .. made) \X Elements
      BY <1>3, <1>4, <1>5, <2>3
    <3>2. Lost(o[1])' = Lost(o[1])
      BY <1>3, <1>4, <1>6, <3>1 DEF Lost, GetSlab, map
    <3>3. \/ \E h \in held : h[1] = o
          \/ \E u \in InFlight : ptr[u] = o
          \/ Lost(o[1])
      BY <1>3, <2>3, <3>1 DEF Inv, HeldExact
    <3> QED
      BY <1>3, <2>1, <2>2, <3>2, <3>3
  <2>4. /\ \A h \in held' : ids'[h[1][1]][h[1][2]] = h[2]
        /\ \A g, h \in held' : g[1] = h[1] => g = h
    BY <1>3 DEF Inv, HeldExact
  <2>5. /\ \A u \in InFlight' : ids'[ptr'[u][1]][ptr'[u][2]] # Empty
                                /\ \A h \in held' : h[1] # ptr'[u]
        /\ \A u, v \in InFlight' : u # v => ptr'[u] # ptr'[v]
    BY <1>3, <2>1, <2>2 DEF Inv, HeldExact
  <2> QED
    BY <2>3, <2>4, <2>5 DEF HeldExact
<1> QED
  BY <1>8, <1>9, <1>10, <1>12, <1>13, <1>14, <1>15, <1>16, <1>17 DEF Inv

LEMMA MapRegionStep ==
  ASSUME Inv, NEW t \in Threads, MapRegion(t)
  PROVE  Inv'
<1> DEFINE s == ptr[t][1]
<1>1. /\ pc[t] = "map" /\ pc' \in [Threads -> PCs] /\ pc'[t] = "mark"
      /\ \A u \in Threads \ {t} : pc'[u] = pc[u]
      /\ table' = [table EXCEPT ![t] = s]
      /\ slabMap' = [slabMap EXCEPT ![region[s]] = s]
      /\ UNCHANGED <<made, owner, region, ids, counts, freeList, lock, entries,
                     ptr, held, aborted>>
  BY GotoFacts DEF MapRegion, Inv, PCs
<1>2. /\ s \in SlabsOf(t) /\ s \in 1 .. made /\ s \in Slabs /\ owner[s] = t /\ s # Nil
      /\ (\A x \in Slabs : <<s, x>> \notin entries)
      /\ s <= made
  <2>1. s \in SlabsOf(t) /\ (\A x \in Slabs : <<s, x>> \notin entries)
    BY <1>1 DEF Inv, Making, Marks
  <2>2. s \in 1 .. made /\ owner[s] = t
    BY <2>1 DEF SlabsOf
  <2> QED
    BY <2>1, <2>2, SlabFacts DEF Nil
<1> HIDE DEF s
<1>3. /\ \A r \in Regions : slabMap'[r] = IF r = region[s] THEN s ELSE slabMap[r]
      /\ \A u \in Threads : table'[u] = IF u = t THEN s ELSE table[u]
  BY <1>1 DEF Inv, Typed
<1>4. Typed'
  <2>1. s \in 0 .. MaxSlabs
    BY <1>2, PoolAssumption DEF Slabs
  <2> QED
    BY <1>1, <2>1 DEF Inv, Typed, PCs, counts, freeList
<1>5. Made'
  BY <1>1, <1>2, <1>3 DEF Inv, Made, counts
<1>6. LocksHeld'
  BY <1>1 DEF Inv, LocksHeld, Locks
<1>7. \A u \in Threads : SlabsOf(u)' = SlabsOf(u) /\ (Marks(u)' <=> Marks(u))
  BY <1>1 DEF SlabsOf, Marks
<1>8. Making'
  <2> SUFFICES ASSUME NEW u \in Threads
               PROVE  /\ Marks(u)' => /\ ptr[u][1] \in SlabsOf(u)
                                      /\ \A r \in SlabsOf(u) : r <= ptr[u][1]
                                      /\ \A i \in Elements : ids[ptr[u][1]][i] = Empty
                                      /\ pc'[u] = "mark" => table'[u] # Nil
                      /\ pc'[u] = "map" => /\ \A r \in Regions : slabMap'[r] # ptr[u][1]
                                           /\ \A v \in Threads : table'[v] # ptr[u][1]
                                           /\ \A x \in Slabs : <<ptr[u][1], x>> \notin entries
                      /\ pc'[u] \in {"return", "free"} => ptr[u] \in (1 .. made) \X Elements
    BY <1>1, <1>7 DEF Making
  <2>1. CASE u = t
    BY <1>1, <1>2, <1>3, <1>7, <2>1 DEF Inv, Making
  <2>2. CASE u # t
    <3>1. pc[u] = "map" => ptr[u][1] # s
      BY <1>2, <2>2 DEF Inv, Making, SlabsOf, Marks
    <3> QED
      BY <1>1, <1>3, <1>7, <2>2, <3>1 DEF Inv, Making
  <2> QED
    BY <2>1, <2>2
<1>9. Fresh'
  BY <1>1 DEF Inv, Fresh
<1>10. Exact'
  BY <1>1, ExactKept DEF counts
<1>11. Spare'
  BY <1>1, <1>7 DEF Inv, Spare, Locks, counts
<1>12. Lists'
  <2>1. \A u \in Threads : Linked(u)' = Linked(u)
    BY <1>1, <1>7 DEF Linked, counts
  <2> QED
    BY <1>1, <2>1 DEF Inv, Lists, freeList, IsList, IsTop, IsBottom, Lower, Higher
<1>13. HeldExact'
  <2>1. InFlight' = InFlight
    BY <1>1 DEF InFlight
  <2>2. ASSUME NEW x \in 1 .. made, Lost(x)
        PROVE  Lost(x)'
    <3>1. x \in Slabs /\ region[x] \in Regions /\ x # Nil
      BY SlabFacts DEF Inv, Made, Nil
    <3>2. <<slabMap[region[x]], x>> \notin entries
      BY <2>2, <3>1 DEF Lost, GetSlab
    <3>3. <<slabMap'[region[x]], x>> \notin entries
      BY <1>2, <1>3, <3>1, <3>2
    <3> QED
      BY <1>1, <3>3 DEF Lost, GetSlab
  <2>3. ASSUME NEW o \in (1 .. made) \X Elements, ids[o[1]][o[2]] # Empty
        PROVE  \/ \E h \in held : h[1] = o
               \/ \E u \in InFlight : ptr[u] = o
               \/ Lost(o[1])'
    BY <2>2, <2>3 DEF Inv, HeldExact
  <2> QED
    BY <1>1, <2>1, <2>3 DEF Inv, HeldExact
<1> QED
  BY <1>4, <1>5, <1>6, <1>8, <1>9, <1>10, <1>11, <1>12, <1>13 DEF Inv

LEMMA MarkSlabStep ==
  ASSUME Inv, NEW t \in Threads, MarkSlab(t)
  PROVE  Inv'
<1> DEFINE s == ptr[t][1]
<1>1. /\ pc[t] = "mark" /\ pc' \in [Threads -> PCs] /\ pc'[t] = "pick"
      /\ \A u \in Threads \ {t} : pc'[u] = pc[u]
      /\ entries' = entries \cup {<<table[t], s>>}
      /\ LinkFree(t, Nil, s, head[t])
      /\ table' = [table EXCEPT ![t] = Nil]
      /\ ptr' = [ptr EXCEPT ![t] = NoPtr]
      /\ UNCHANGED <<made, owner, region, ids, counts, lock, slabMap, held, aborted>>
  BY GotoFacts DEF MarkSlab, Inv, PCs
<1>2. /\ s \in SlabsOf(t) /\ s \in 1 .. made /\ s \in Slabs /\ owner[s] = t /\ s # Nil
      /\ \A x \in SlabsOf(t) : x <= s
      /\ \A i \in Elements : ids[s][i] = Empty
      /\ table[t] # Nil /\ table[t] \in Slabs /\ table[t] <= made
  <2>1. /\ s \in SlabsOf(t) /\ (\A x \in SlabsOf(t) : x <= s)
        /\ \A i \in Elements : ids[s][i] = Empty
        /\ table[t] # Nil
    BY <1>1 DEF Inv, Making, Marks
  <2>2. s \in 1 .. made /\ owner[s] = t
    BY <2>1 DEF SlabsOf
  <2>3. table[t] \in 0 .. MaxSlabs /\ table[t] <= made
    BY DEF Inv, Typed, Made
  <2> QED
    BY <2>1, <2>2, <2>3, SlabFacts, PoolAssumption DEF Nil, Slabs
<1> HIDE DEF s
<1>3. /\ free_next' = [free_next EXCEPT ![s] = head[t]]
      /\ free_prev' = SetAt([free_prev EXCEPT ![s] = Nil], head[t], s)
      /\ head' = [head EXCEPT ![t] = s]
  BY <1>1 DEF LinkFree, SetAt
<1>4. \A u \in Threads : /\ table'[u] = IF u = t THEN Nil ELSE table[u]
                         /\ ptr'[u] = IF u = t THEN NoPtr ELSE ptr[u]
  BY <1>1 DEF Inv, Typed
<1>5. s \in 0 .. MaxSlabs /\ Nil \in 0 .. MaxSlabs
  BY <1>2, PoolAssumption DEF Slabs, Nil
<1>6. Typed'
  <2>1. free_prev' \in [Slabs -> 0 .. MaxSlabs]
    BY <1>3, <1>5 DEF SetAt, Inv, Typed
  <2>2. free_next' \in [Slabs -> 0 .. MaxSlabs] /\ head' \in [Threads -> 0 .. MaxSlabs]
    BY <1>3, <1>5 DEF Inv, Typed
  <2>3. entries' \in SUBSET (Slabs \X Slabs)
    BY <1>1, <1>2 DEF Inv, Typed
  <2>4. table' \in [Threads -> 0 .. MaxSlabs] /\ ptr' \in [Threads -> Element \cup {NoPtr}]
    BY <1>1, <1>5 DEF Inv, Typed
  <2> QED
    BY <1>1, <2>1, <2>2, <2>3, <2>4 DEF Inv, Typed, PCs, counts
<1>7. Made'
  <2>1. \A e \in entries' : e[1] <= made
    BY <1>1, <1>2 DEF Inv, Made
  <2>2. \A u \in Threads : table'[u] <= made
    BY <1>4, SlabFacts DEF Inv, Made, Nil
  <2> QED
    BY <1>1, <2>1, <2>2 DEF Inv, Made, counts
<1>8. LocksHeld'
  BY <1>1 DEF Inv, LocksHeld, Locks
<1>9. \A u \in Threads : SlabsOf(u)' = SlabsOf(u)
  BY <1>1 DEF SlabsOf
<1>10. Making'
  <2> SUFFICES ASSUME NEW u \in Threads
               PROVE  /\ Marks(u)' => /\ ptr'[u][1] \in SlabsOf(u)
                                      /\ \A r \in SlabsOf(u) : r <= ptr'[u][1]
                                      /\ \A i \in Elements : ids[ptr'[u][1]][i] = Empty
                                      /\ pc'[u] = "mark" => table'[u] # Nil
                      /\ pc'[u] = "map" => /\ \A r \in Regions : slabMap[r] # ptr'[u][1]
                                           /\ \A v \in Threads : table'[v] # ptr'[u][1]
                                           /\ \A x \in Slabs : <<ptr'[u][1], x>> \notin entries'
                      /\ pc'[u] \in {"return", "free"} => ptr'[u] \in (1 .. made) \X Elements
    BY <1>1, <1>9 DEF Making
  <2>1. CASE u = t
    BY <1>1, <2>1 DEF Marks
  <2>2. CASE u # t
    <3>1. pc'[u] = pc[u] /\ ptr'[u] = ptr[u] /\ table'[u] = table[u] /\ (Marks(u)' <=> Marks(u))
      BY <1>1, <1>4, <2>2 DEF Marks
    <3>2. ASSUME pc[u] = "map"
          PROVE  /\ \A v \in Threads : table'[v] # ptr[u][1]
                 /\ \A x \in Slabs : <<ptr[u][1], x>> \notin entries'
      <4>1. ptr[u][1] \in SlabsOf(u)
        BY <3>2 DEF Inv, Making, Marks
      <4>2. ptr[u][1] # Nil /\ \A v \in Threads : table[v] # ptr[u][1]
        BY <3>2, <4>1, SlabFacts DEF Inv, Making, SlabsOf, Nil
      <4> QED
        BY <1>1, <1>4, <3>2, <4>2 DEF Inv, Making
    <3> QED
      BY <3>1, <3>2 DEF Inv, Making
  <2> QED
    BY <2>1, <2>2
<1>11. Fresh'
  BY <1>1, <1>4 DEF Inv, Fresh
<1>12. Exact'
  BY <1>1, ExactKept DEF counts
<1>13. Spare'
  BY <1>1, <1>9 DEF Inv, Spare, Locks, counts
<1>14. Lists'
  <2> SUFFICES ASSUME NEW u \in Threads
               PROVE  IsList(Linked(u)', head'[u], free_next', free_prev')
    BY DEF Lists, IsList, IsTop, IsBottom, Lower, Higher
  <2>1. IsList(Linked(u), head[u], free_next, free_prev) /\ Linked(u) \in SUBSET Slabs
    BY DEF Inv, Lists, Linked
  <2>2. CASE u = t
    <3>1. Linked(t)' = Linked(t) \cup {s} /\ s \notin Linked(t)
      <4>1. free[s] = Cardinality(FreeIds(s)) /\ Cardinality(FreeIds(s)) = SlabCap /\ SlabCap > 0
        BY <1>2, FreeIdsFacts, PoolAssumption DEF Inv, Exact
      <4>2. Marks(t) /\ ~Marks(t)' /\ s = ptr[t][1]
        BY <1>1 DEF Marks, s
      <4> QED
        BY <1>1, <1>2, <4>1, <4>2 DEF Linked, counts
    <3>2. Linked(t) \subseteq SlabsOf(t)
      BY SlabFacts DEF Linked
    <3>3. IsBottom(Nil, Higher(Linked(t), s))
      <4>1. \A x \in Linked(t) : ~(x > s)
        BY <1>2, <3>2, SlabFacts DEF SlabsOf
      <4> QED
        BY <4>1 DEF IsBottom, Higher
    <3>4. IsTop(head[t], Lower(Linked(t), s))
      <4>1. \A x \in Linked(t) : x < s
        BY <1>2, <3>1, <3>2, SlabFacts DEF SlabsOf
      <4>2. Lower(Linked(t), s) = Linked(t)
        BY <4>1 DEF Lower
      <4> QED
        BY <2>1, <2>2, <4>2 DEF IsList
    <3>5. IsList(Linked(t) \cup {s}, s, SetAt([free_next EXCEPT ![s] = head[t]], Nil, s),
                 SetAt([free_prev EXCEPT ![s] = Nil], head[t], s))
      <4>1. /\ free_next \in [Slabs -> 0 .. MaxSlabs] /\ free_prev \in [Slabs -> 0 .. MaxSlabs]
            /\ s \in Slabs \ Linked(t)
        BY <1>2, <3>1 DEF Inv, Typed
      <4> HIDE DEF Inv
      <4>2. IsList(Linked(t) \cup {s}, IF Nil = Nil THEN s ELSE head[t],
                   SetAt([free_next EXCEPT ![s] = head[t]], Nil, s),
                   SetAt([free_prev EXCEPT ![s] = Nil], head[t], s))
        BY <2>1, <2>2, <3>3, <3>4, <4>1, LinkIn
      <4> QED
        BY <4>2
    <3>6. head'[t] = s /\ free_next' = SetAt([free_next EXCEPT ![s] = head[t]], Nil, s)
      BY <1>3 DEF SetAt, Inv, Typed
    <3> QED
      BY <1>3, <2>2, <3>1, <3>5, <3>6
  <2>3. CASE u # t
    <3>1. (Marks(u)' <=> Marks(u)) /\ ptr'[u] = ptr[u]
      BY <1>1, <1>4, <2>3 DEF Marks
    <3>2. Linked(u)' = Linked(u) /\ head'[u] = head[u]
      BY <1>1, <1>3, <2>3, <3>1 DEF Linked, counts, Inv, Typed
    <3>3. \A x \in Linked(u) : x # s /\ x # head[t]
      <4>1. head[t] = Nil \/ owner[head[t]] = t
        BY DEF Inv, Lists, IsList, IsTop, Linked
      <4>2. \A x \in Linked(u) : x # Nil /\ owner[x] = u
        BY PoolAssumption DEF Linked, Slabs, Nil
      <4> QED
        BY <1>2, <2>3, <4>1, <4>2
    <3>4. \A x \in Linked(u) : free_next'[x] = free_next[x] /\ free_prev'[x] = free_prev[x]
      BY <1>3, <2>1, <3>3 DEF SetAt, Inv, Typed
    <3> QED
      BY <2>1, <3>2, <3>4, ListApart
  <2> QED
    BY <2>2, <2>3
<1>15. HeldExact'
  <2>1. InFlight' = InFlight /\ \A u \in InFlight : ptr'[u] = ptr[u]
    BY <1>1, <1>4 DEF InFlight
  <2>2. ASSUME NEW o \in (1 .. made) \X Elements, ids[o[1]][o[2]] # Empty
        PROVE  \/ \E h \in held : h[1] = o
               \/ \E u \in InFlight : ptr[u] = o
               \/ Lost(o[1])'
    <3>1. o[1] # s
      BY <1>2, <2>2
    <3>2. Lost(o[1])' = Lost(o[1])
      BY <1>1, <3>1 DEF Lost, GetSlab
    <3> QED
      BY <2>2, <3>2 DEF Inv, HeldExact
  <2>3. /\ \A h \in held' : ids'[h[1][1]][h[1][2]] = h[2]
        /\ \A g, h \in held' : g[1] = h[1] => g = h
    BY <1>1 DEF Inv, HeldExact
  <2>4. /\ \A u \in InFlight' : ids'[ptr'[u][1]][ptr'[u][2]] # Empty
                                /\ \A h \in held' : h[1] # ptr'[u]
        /\ \A u, v \in InFlight' : u # v => ptr'[u] # ptr'[v]
    BY <1>1, <2>1 DEF Inv, HeldExact
  <2> QED
    BY <1>1, <2>1, <2>2, <2>3, <2>4 DEF HeldExact
<1> QED
  BY <1>6, <1>7, <1>8, <1>10, <1>11, <1>12, <1>13, <1>14, <1>15 DEF Inv

-----------------------------------------------------------------------------
(* Elements come and go.                                                   *)

\* The list of a pool whose thread makes no slab has all its free elements.
LEMMA PoolList ==
  ASSUME Inv, NEW t \in Threads, ~Marks(t)
  PROVE  /\ Linked(t) = {s \in SlabsOf(t) : free[s] > 0} /\ Linked(t) \subseteq Slabs
         /\ Chain(FreeList(t), Linked(t), head[t])
         /\ \A r \in Linked(t) : r <= head[t]
         /\ FreeElements(t) = FreeIn(Linked(t))
<1>1. Linked(t) = {s \in SlabsOf(t) : free[s] > 0} /\ Linked(t) \subseteq Slabs
  BY SlabFacts DEF Linked
<1>2. IsList(Linked(t), head[t], free_next, free_prev) /\ free_next \in [Slabs -> 0 .. MaxSlabs]
  BY DEF Inv, Lists, Typed
<1>3. Chain(FreeList(t), Linked(t), head[t])
  BY <1>1, <1>2, FreeListIs
<1>4. \A r \in Linked(t) : r <= head[t]
  BY <1>2 DEF IsList, IsTop
<1>5. ASSUME NEW s \in SlabsOf(t), NEW i \in Elements, ids[s][i] = Empty
      PROVE  s \in Linked(t)
  <2>1. s \in 1 .. made /\ s \in Slabs /\ free[s] \in Nat
    BY SlabFacts DEF SlabsOf, Inv, Typed
  <2>2. free[s] = Cardinality(FreeIds(s)) /\ i \in FreeIds(s)
    BY <1>5, <2>1 DEF Inv, Exact, FreeIds
  <2>3. free[s] # 0
    BY <2>2, FreeIdsFacts
  <2> QED
    BY <1>1, <2>1, <2>3
<1>6. FreeElements(t) = FreeIn(Linked(t))
  BY <1>1, <1>5 DEF FreeElements, FreeIn
<1> QED
  BY <1>1, <1>3, <1>4, <1>6

\* Only the list of t's pool changed.
ListChanged(t, S) ==
  /\ free_next' \in [Slabs -> 0 .. MaxSlabs] /\ free_prev' \in [Slabs -> 0 .. MaxSlabs]
  /\ head' \in [Threads -> 0 .. MaxSlabs]
  /\ IsList(S, head'[t], free_next', free_prev')
  /\ \A u \in Threads \ {t} : head'[u] = head[u]
  /\ \A x \in Slabs : owner[x] # t => free_next'[x] = free_next[x] /\ free_prev'[x] = free_prev[x]

LEMMA ListSame ==
  ASSUME Inv, NEW t \in Threads, UNCHANGED freeList
  PROVE  ListChanged(t, Linked(t))
<1>1. IsList(Linked(t), head[t], free_next, free_prev)
  BY DEF Inv, Lists
<1>2. head' = head /\ free_next' = free_next /\ free_prev' = free_prev
  BY DEF freeList
<1> QED
  BY <1>1, <1>2 DEF ListChanged, Inv, Typed

LEMMA MakeFullList ==
  ASSUME Inv, NEW t \in Threads, NEW s \in Linked(t), MakeFull(s)
  PROVE  ListChanged(t, Linked(t) \ {s})
<1>1. /\ IsList(Linked(t), head[t], free_next, free_prev)
      /\ Linked(t) \in SUBSET Slabs /\ s \in Slabs /\ owner[s] = t
      /\ free_next \in [Slabs -> 0 .. MaxSlabs] /\ free_prev \in [Slabs -> 0 .. MaxSlabs]
      /\ head \in [Threads -> 0 .. MaxSlabs]
  BY DEF Inv, Lists, Linked, Typed
<1> DEFINE a == free_prev[s]
           b == free_next[s]
<1>2. /\ free_next' = SetAt(free_next, a, b) /\ free_prev' = SetAt(free_prev, b, a)
      /\ head' = IF a = Nil THEN [head EXCEPT ![t] = b] ELSE head
  BY <1>1 DEF MakeFull
<1>3. a \in 0 .. MaxSlabs /\ b \in 0 .. MaxSlabs
  BY <1>1
<1>4. (a = Nil \/ a \in Linked(t)) /\ (b = Nil \/ b \in Linked(t))
  BY <1>1 DEF IsList, IsTop, IsBottom, Lower, Higher
<1>5. IsList(Linked(t) \ {s}, IF a = Nil THEN b ELSE head[t],
             SetAt(free_next, a, b), SetAt(free_prev, b, a))
  BY <1>1, LinkOut
<1> HIDE DEF a, b
<1>6. head'[t] = IF a = Nil THEN b ELSE head[t]
  BY <1>1, <1>2
<1>7. IsList(Linked(t) \ {s}, head'[t], free_next', free_prev')
  BY <1>2, <1>5, <1>6
<1>8. /\ free_next' \in [Slabs -> 0 .. MaxSlabs] /\ free_prev' \in [Slabs -> 0 .. MaxSlabs]
      /\ head' \in [Threads -> 0 .. MaxSlabs]
  BY <1>1, <1>2, <1>3 DEF SetAt
<1>9. \A u \in Threads \ {t} : head'[u] = head[u]
  BY <1>1, <1>2
<1>10. ASSUME NEW x \in Slabs, owner[x] # t
       PROVE  free_next'[x] = free_next[x] /\ free_prev'[x] = free_prev[x]
  <2>1. (a = Nil \/ x # a) /\ (b = Nil \/ x # b)
    BY <1>4, <1>10 DEF Linked
  <2> QED
    BY <1>1, <1>2, <2>1 DEF SetAt
<1> QED
  BY <1>7, <1>8, <1>9, <1>10 DEF ListChanged

LEMMA MakeFreeList ==
  ASSUME Inv, NEW t \in Threads, ~Marks(t), NEW s \in SlabsOf(t), s \notin Linked(t), MakeFree(s)
  PROVE  ListChanged(t, Linked(t) \cup {s})
<1>1. /\ IsList(Linked(t), head[t], free_next, free_prev)
      /\ Linked(t) \in SUBSET Slabs /\ s \in Slabs /\ owner[s] = t /\ s \in 1 .. made
      /\ free_next \in [Slabs -> 0 .. MaxSlabs] /\ free_prev \in [Slabs -> 0 .. MaxSlabs]
      /\ head \in [Threads -> 0 .. MaxSlabs]
      /\ Linked(t) = {x \in SlabsOf(t) : free[x] > 0}
  BY SlabFacts, PoolList DEF Inv, Lists, Linked, Typed, SlabsOf
<1>2. FreeBefore(s) = Higher(Linked(t), s)
  <2>1. ASSUME NEW x
        PROVE  x \in s + 1 .. made <=> x \in 1 .. made /\ x > s
    BY <1>1, SlabFacts
  <2> QED
    BY <1>1, <2>1 DEF FreeBefore, Higher, SlabsOf
<1>3. /\ \A x \in Slabs : x \in Nat /\ x # Nil
      /\ s \in 0 .. MaxSlabs /\ Nil \in 0 .. MaxSlabs
  BY <1>1, PoolAssumption DEF Slabs, Nil
<1>3a. \A x \in Linked(t) : x \in Nat /\ s \in Nat /\ x # s
  BY <1>1, <1>3
<1>4. \E a, b : /\ LinkFree(t, a, s, b)
                /\ IsBottom(a, Higher(Linked(t), s)) /\ IsTop(b, Lower(Linked(t), s))
  <2>1. CASE FreeBefore(s) = {}
    <3>1. LinkFree(t, Nil, s, head[t])
      BY <1>1, <2>1 DEF MakeFree
    <3>2. \A x \in Linked(t) : x < s
      <4>1. \A x \in Linked(t) : ~(x > s)
        BY <1>2, <2>1 DEF Higher
      <4> QED
        BY <1>3a, <4>1
    <3>3. Lower(Linked(t), s) = Linked(t)
      BY <3>2 DEF Lower
    <3> QED
      BY <1>1, <1>2, <2>1, <3>1, <3>3 DEF IsList, IsBottom
  <2>2. CASE FreeBefore(s) # {}
    <3> DEFINE r == Min(FreeBefore(s))
    <3>1. LinkFree(t, r, s, free_next[r])
      BY <1>1, <2>2 DEF MakeFree
    <3>2. \E x \in FreeBefore(s) : \A y \in FreeBefore(s) : x <= y
      <4>1. FreeBefore(s) \in SUBSET Nat
        BY <1>1, <1>2, <1>3 DEF Higher
      <4> QED
        BY <2>2, <4>1, LeastNat
    <3>3. r \in FreeBefore(s) /\ \A y \in FreeBefore(s) : r <= y
      BY <3>2 DEF Min
    <3> HIDE DEF r
    <3>4. r \in Linked(t) /\ r > s /\ \A y \in Linked(t) : y > s => r <= y
      BY <1>2, <3>3 DEF Higher
    <3>5. IsBottom(r, Higher(Linked(t), s))
      BY <1>2, <1>3, <1>1, <3>3, <3>4 DEF IsBottom
    <3>6. Lower(Linked(t), r) = Lower(Linked(t), s)
      <4>1. \A y \in Linked(t) : y < r <=> y < s
        BY <1>3a, <3>4
      <4> QED
        BY <4>1 DEF Lower
    <3>7. IsTop(free_next[r], Lower(Linked(t), s))
      BY <1>1, <3>4, <3>6 DEF IsList
    <3> QED
      BY <3>1, <3>5, <3>7
  <2> QED
    BY <2>1, <2>2
<1>5. PICK a, b : /\ LinkFree(t, a, s, b)
                  /\ IsBottom(a, Higher(Linked(t), s)) /\ IsTop(b, Lower(Linked(t), s))
  BY <1>4
<1>6. /\ free_next' = SetAt([free_next EXCEPT ![s] = b], a, s)
      /\ free_prev' = SetAt([free_prev EXCEPT ![s] = a], b, s)
      /\ head' = IF a = Nil THEN [head EXCEPT ![t] = s] ELSE head
  BY <1>5 DEF LinkFree
<1>7. (a = Nil \/ a \in Linked(t)) /\ (b = Nil \/ b \in Linked(t))
  BY <1>5 DEF IsTop, IsBottom, Lower, Higher
<1>8. a \in 0 .. MaxSlabs /\ b \in 0 .. MaxSlabs
  BY <1>1, <1>3, <1>7, PoolAssumption DEF Slabs
<1>9. IsList(Linked(t) \cup {s}, IF a = Nil THEN s ELSE head[t], free_next', free_prev')
  <2>1. s \in Slabs \ Linked(t)
    BY <1>1
  <2> QED
    BY <1>1, <1>5, <1>6, <2>1, LinkIn
<1>10. head'[t] = IF a = Nil THEN s ELSE head[t]
  BY <1>1, <1>6
<1>11. IsList(Linked(t) \cup {s}, head'[t], free_next', free_prev')
  BY <1>9, <1>10
<1>12. /\ free_next' \in [Slabs -> 0 .. MaxSlabs] /\ free_prev' \in [Slabs -> 0 .. MaxSlabs]
       /\ head' \in [Threads -> 0 .. MaxSlabs]
  BY <1>1, <1>3, <1>6, <1>8 DEF SetAt
<1>13. \A u \in Threads \ {t} : head'[u] = head[u]
  BY <1>1, <1>6
<1>14. ASSUME NEW x \in Slabs, owner[x] # t
       PROVE  free_next'[x] = free_next[x] /\ free_prev'[x] = free_prev[x]
  <2>1. (a = Nil \/ x # a) /\ (b = Nil \/ x # b) /\ x # s
    BY <1>1, <1>7, <1>14 DEF Linked
  <2> QED
    BY <1>1, <1>6, <2>1 DEF SetAt
<1> QED
  BY <1>11, <1>12, <1>13, <1>14 DEF ListChanged

\* The lists after a slab of t's pool got or lost free elements.
LEMMA ListsAfter ==
  ASSUME Inv, NEW t \in Threads, ListChanged(t, Linked(t)'), UNCHANGED owner,
         \A u \in Threads \ {t} : (Marks(u)' <=> Marks(u)) /\ (Marks(u) => ptr'[u] = ptr[u]),
         \A x \in Slabs : owner[x] # t => free'[x] = free[x]
  PROVE  Lists'
<1> SUFFICES ASSUME NEW u \in Threads
             PROVE  IsList(Linked(u)', head'[u], free_next', free_prev')
  BY DEF Lists, IsList, IsTop, IsBottom, Lower, Higher
<1>1. CASE u = t
  BY <1>1 DEF ListChanged
<1>2. CASE u # t
  <2>1. Linked(u)' = Linked(u)
    BY <1>2 DEF Linked
  <2>2. IsList(Linked(u), head[u], free_next, free_prev) /\ head'[u] = head[u]
    BY <1>2 DEF Inv, Lists, ListChanged
  <2>3. \A x \in Linked(u) : free_next'[x] = free_next[x] /\ free_prev'[x] = free_prev[x]
    BY <1>2 DEF Linked, ListChanged
  <2> QED
    BY <2>1, <2>2, <2>3, ListApart
<1> QED
  BY <1>1, <1>2

LEMMA PickStep ==
  ASSUME Inv, NEW t \in Threads, Pick(t)
  PROVE  Inv'
<1>1. PICK offset \in 0 .. poolFree[t] - 1 :
        LET o == At(FreeList(t), offset)
            s == o[1]
        IN /\ ids' = [ids EXCEPT ![s][o[2]] = Untagged]
           /\ free' = [free EXCEPT ![s] = @ - 1]
           /\ ptr' = [ptr EXCEPT ![t] = o]
           /\ IF free[s] = 1 THEN MakeFull(s) ELSE UNCHANGED freeList
  BY DEF Pick
<1>2. /\ pc[t] = "pick" /\ pc' \in [Threads -> PCs] /\ pc'[t] = "return"
      /\ \A u \in Threads \ {t} : pc'[u] = pc[u]
      /\ poolFree' = [poolFree EXCEPT ![t] = @ - 1]
      /\ lock' = [lock EXCEPT ![t] = Unlocked]
      /\ UNCHANGED <<made, owner, region, map, table, held, aborted>>
  BY GotoFacts DEF Pick, Inv, PCs
<1>3. At(FreeList(t), offset) \in FreeIn(Linked(t)) /\ FreeIn(Linked(t)) = FreeElements(t)
  <2>1. ~Marks(t)
    BY <1>2 DEF Marks
  <2>2. \A r \in Linked(t) : free[r] = Cardinality(FreeIds(r))
    BY <2>1, PoolList DEF SlabsOf, Inv, Exact
  <2>3. offset \in Nat /\ offset < Cardinality(FreeIn(Linked(t)))
    <3>1. poolFree[t] \in Nat /\ poolFree[t] = Cardinality(FreeIn(Linked(t)))
      BY <2>1, PoolList DEF Inv, Typed, Exact
    <3> QED
      BY <3>1
  <2> QED
    BY <2>1, <2>2, <2>3, PoolList, AtFree
<1>4. PICK s \in Linked(t), i \in Elements : /\ At(FreeList(t), offset) = <<s, i>>
                                             /\ ids[s][i] = Empty
  BY <1>3 DEF FreeIn
<1> DEFINE o == <<s, i>>
<1>5. /\ s \in SlabsOf(t) /\ s \in 1 .. made /\ s \in Slabs
      /\ i \in Elements /\ o \in Element /\ ids[s][i] = Empty /\ owner[s] = t
      /\ o \in FreeElements(t)
      /\ ids' = [ids EXCEPT ![s][i] = Untagged]
      /\ free' = [free EXCEPT ![s] = @ - 1]
      /\ ptr' = [ptr EXCEPT ![t] = o]
      /\ IF free[s] = 1 THEN MakeFull(s) ELSE UNCHANGED freeList
  <2>1. s \in Slabs /\ owner[s] = t
    BY DEF Linked
  <2>2. s \in SlabsOf(t) /\ s \in 1 .. made
    BY <2>1, SlabFacts
  <2>3. <<s, i>>[1] = s /\ <<s, i>>[2] = i
    OBVIOUS
  <2> QED
    BY <1>1, <1>3, <1>4, <2>1, <2>2, <2>3 DEF Element
<1>6. /\ ids'[s][i] = Untagged /\ Untagged # Empty
      /\ \A x \in Slabs, k \in Elements : x # s \/ k # i => ids'[x][k] = ids[x][k]
  BY <1>5, PoolAssumption DEF Inv, Typed
<1>7. /\ free[s] \in Nat /\ free[s] > 0 /\ free'[s] = free[s] - 1
      /\ \A x \in Slabs \ {s} : free'[x] = free[x]
  BY <1>5 DEF Inv, Typed, Linked
<1>8. /\ poolFree[t] \in Nat /\ poolFree[t] > Overprovision /\ poolFree'[t] = poolFree[t] - 1
      /\ \A u \in Threads \ {t} : poolFree'[u] = poolFree[u] /\ ptr'[u] = ptr[u]
      /\ ptr'[t] = o
  BY <1>2, <1>5 DEF Inv, Typed, Spare
<1>9. \A u \in Threads : SlabsOf(u)' = SlabsOf(u)
  BY <1>2 DEF SlabsOf
<1>10. ListChanged(t, Linked(t)')
  <2>1. Linked(t)' = IF free[s] = 1 THEN Linked(t) \ {s} ELSE Linked(t)
    <3>1. ~Marks(t) /\ ~Marks(t)'
      BY <1>2 DEF Marks
    <3>2. \A x \in Slabs : x \in Linked(t)' <=> x \in Linked(t) /\ (x = s => free[s] # 1)
      BY <1>2, <1>5, <1>7, <3>1 DEF Linked
    <3>3. Linked(t)' \subseteq Slabs /\ Linked(t) \subseteq Slabs
      BY DEF Linked
    <3> QED
      BY <3>2, <3>3
  <2>2. CASE free[s] = 1
    BY <1>4, <1>5, <2>1, <2>2, MakeFullList
  <2>3. CASE free[s] # 1
    BY <1>5, <2>1, <2>3, ListSame
  <2> QED
    BY <2>2, <2>3
<1>11. Typed'
  <2>1. ids' \in [Slabs -> [Elements -> TagOrNone]]
    BY <1>5 DEF Inv, Typed, TagOrNone
  <2>2. free' \in [Slabs -> Nat]
    BY <1>5, <1>7 DEF Inv, Typed
  <2>3. poolFree' \in [Threads -> Nat]
    BY <1>2, <1>8, PoolAssumption DEF Inv, Typed
  <2>4. ptr' \in [Threads -> Element \cup {NoPtr}]
    BY <1>5 DEF Inv, Typed
  <2> QED
    BY <1>2, <1>10, <2>1, <2>2, <2>3, <2>4 DEF Inv, Typed, PCs, ListChanged, map
<1>12. Made'
  <2>1. s \notin Slabs \ (1 .. made)
    BY <1>5
  <2> QED
    BY <1>2, <1>6, <1>7, <2>1 DEF Inv, Made, map
<1>13. LocksHeld'
  BY <1>2 DEF Inv, LocksHeld, Locks
<1>14. Making'
  <2> SUFFICES ASSUME NEW u \in Threads
               PROVE  /\ Marks(u)' => /\ ptr'[u][1] \in SlabsOf(u)
                                      /\ \A r \in SlabsOf(u) : r <= ptr'[u][1]
                                      /\ \A k \in Elements : ids'[ptr'[u][1]][k] = Empty
                                      /\ pc'[u] = "mark" => table[u] # Nil
                      /\ pc'[u] = "map" => /\ \A r \in Regions : slabMap[r] # ptr'[u][1]
                                           /\ \A v \in Threads : table[v] # ptr'[u][1]
                                           /\ \A x \in Slabs : <<ptr'[u][1], x>> \notin entries
                      /\ pc'[u] \in {"return", "free"} => ptr'[u] \in (1 .. made) \X Elements
    BY <1>2, <1>9 DEF Making, map
  <2>1. CASE u = t
    BY <1>2, <1>5, <1>8, <2>1 DEF Marks
  <2>2. CASE u # t
    <3>1. pc'[u] = pc[u] /\ ptr'[u] = ptr[u] /\ (Marks(u)' <=> Marks(u))
      BY <1>2, <1>8, <2>2 DEF Marks
    <3>2. ASSUME Marks(u)
          PROVE  \A k \in Elements : ids'[ptr[u][1]][k] = Empty
      <4>1. ptr[u][1] \in Slabs /\ owner[ptr[u][1]] = u
        BY <3>2, SlabFacts DEF Inv, Making
      <4>2. \A k \in Elements : ids[ptr[u][1]][k] = Empty
        BY <3>2 DEF Inv, Making
      <4> QED
        BY <1>5, <1>6, <2>2, <4>1, <4>2
    <3> QED
      BY <3>1, <3>2 DEF Inv, Making
  <2> QED
    BY <2>1, <2>2
<1>15. \A u \in InFlight : u # t /\ ptr'[u] = ptr[u] /\ ptr[u] # o /\ ptr[u] \in Element
  <2> SUFFICES ASSUME NEW u \in InFlight
               PROVE  u # t /\ ptr'[u] = ptr[u] /\ ptr[u] # o /\ ptr[u] \in Element
    OBVIOUS
  <2>1. u \in Threads /\ u # t
    BY <1>2 DEF InFlight
  <2>2. ids[ptr[u][1]][ptr[u][2]] # Empty
    BY DEF Inv, HeldExact
  <2>3. ptr[u] \in (1 .. made) \X Elements
    BY <2>1 DEF Inv, Making, InFlight
  <2> QED
    BY <1>5, <1>8, <2>1, <2>2, <2>3, SlabFacts DEF Element
<1>16. \A p \in Element : p # o => ids'[p[1]][p[2]] = ids[p[1]][p[2]]
  <2> SUFFICES ASSUME NEW p \in Element, p # o
               PROVE  ids'[p[1]][p[2]] = ids[p[1]][p[2]]
    OBVIOUS
  <2>1. p = <<p[1], p[2]>> /\ p[1] \in Slabs /\ p[2] \in Elements
    BY DEF Element
  <2> QED
    BY <1>6, <2>1
<1>17. \A h \in held : h[1] # o /\ h[1] \in Element
  BY <1>5, PoolAssumption DEF Inv, Typed, HeldExact
<1>18. InFlight' = InFlight \cup {t}
  BY <1>2 DEF InFlight
<1>19. Fresh'
  <2> SUFFICES ASSUME NEW u \in Threads, pc'[u] = "return"
               PROVE  ids'[ptr'[u][1]][ptr'[u][2]] = Untagged
    BY DEF Fresh
  <2>1. CASE u = t
    BY <1>5, <1>6, <1>8, <2>1
  <2>2. CASE u # t
    <3>1. pc[u] = "return" /\ u \in InFlight
      BY <1>2, <2>2 DEF InFlight
    <3> QED
      BY <1>15, <1>16, <3>1 DEF Inv, Fresh
  <2> QED
    BY <2>1, <2>2
<1>20. Exact'
  <2>1. FreeIds(s)' = FreeIds(s) \ {i} /\ i \in FreeIds(s)
    <3>1. \A k \in Elements : ids'[s][k] = Empty <=> ids[s][k] = Empty /\ k # i
      BY <1>5, <1>6
    <3> QED
      BY <1>5, <3>1 DEF FreeIds
  <2>2. \A x \in Slabs \ {s} : FreeIds(x)' = FreeIds(x)
    BY <1>6 DEF FreeIds
  <2>3. ASSUME NEW x \in 1 .. made
        PROVE  free'[x] = Cardinality(FreeIds(x)')
    <3>1. free[x] = Cardinality(FreeIds(x)) /\ x \in Slabs
      BY SlabFacts DEF Inv, Exact
    <3>2. CASE x = s
      <4>1. Cardinality(FreeIds(s) \ {i}) = Cardinality(FreeIds(s)) - 1
        BY <2>1, FreeIdsFacts, FS_RemoveElement
      <4> QED
        BY <1>7, <2>1, <3>1, <3>2, <4>1
    <3>3. CASE x # s
      BY <1>7, <2>2, <3>1, <3>3
    <3> QED
      BY <3>2, <3>3
  <2>4. ASSUME NEW u \in Threads
        PROVE  poolFree'[u] = Cardinality(FreeElements(u)')
    <3>1. poolFree[u] = Cardinality(FreeElements(u)) /\ IsFiniteSet(FreeElements(u))
      BY FreeElementsFacts DEF Inv, Exact
    <3>2. SlabsOf(u) \subseteq Slabs
      BY SlabFacts
    <3>3. CASE u = t
      <4>1. FreeElements(t)' = FreeElements(t) \ {o}
        <5>1. \A p \in SlabsOf(t) \X Elements :
                ids'[p[1]][p[2]] = Empty <=> ids[p[1]][p[2]] = Empty /\ p # o
          BY <1>5, <1>6, <1>16, <3>2, <3>3 DEF Element
        <5> QED
          BY <1>9, <5>1 DEF FreeElements
      <4>2. Cardinality(FreeElements(t) \ {o}) = Cardinality(FreeElements(t)) - 1
        BY <1>5, <3>1, <3>3, FS_RemoveElement
      <4> QED
        BY <1>8, <3>1, <3>3, <4>1, <4>2
    <3>4. CASE u # t
      <4>1. s \notin SlabsOf(u)
        BY <1>5, <3>4 DEF SlabsOf
      <4>2. FreeElements(u)' = FreeElements(u)
        BY <1>6, <1>9, <3>2, <4>1 DEF FreeElements
      <4> QED
        BY <1>8, <3>1, <3>4, <4>2
    <3> QED
      BY <3>3, <3>4
  <2> QED
    BY <1>2, <2>3, <2>4 DEF Exact
<1>21. Spare'
  <2> SUFFICES ASSUME NEW u \in Threads
               PROVE  /\ pc'[u] \in {"map", "mark", "pick"} => poolFree'[u] > Overprovision
                      /\ ~Locks(u)' /\ SlabsOf(u) # {} => poolFree'[u] >= Overprovision
    BY <1>9 DEF Spare
  <2>1. CASE u = t
    BY <1>2, <1>8, <2>1, PoolAssumption
  <2>2. CASE u # t
    BY <1>2, <1>8, <2>2 DEF Inv, Spare, Locks
  <2> QED
    BY <2>1, <2>2
<1>22. Lists'
  <2>1. \A u \in Threads \ {t} : (Marks(u)' <=> Marks(u)) /\ (Marks(u) => ptr'[u] = ptr[u])
    BY <1>2, <1>8 DEF Marks
  <2>2. \A x \in Slabs : owner[x] # t => free'[x] = free[x]
    BY <1>5, <1>7
  <2> QED
    BY <1>2, <1>10, <2>1, <2>2, ListsAfter
<1>23. HeldExact'
  <2>1. /\ \A h \in held' : ids'[h[1][1]][h[1][2]] = h[2]
        /\ \A g, h \in held' : g[1] = h[1] => g = h
    BY <1>2, <1>16, <1>17 DEF Inv, HeldExact
  <2>2. ASSUME NEW u \in InFlight'
        PROVE  ids'[ptr'[u][1]][ptr'[u][2]] # Empty /\ \A h \in held' : h[1] # ptr'[u]
    <3>1. CASE u = t
      BY <1>2, <1>5, <1>6, <1>8, <1>17, <3>1
    <3>2. CASE u \in InFlight
      BY <1>2, <1>15, <1>16, <3>2 DEF Inv, HeldExact
    <3> QED
      BY <1>18, <3>1, <3>2
  <2>3. \A u, v \in InFlight' : u # v => ptr'[u] # ptr'[v]
    BY <1>8, <1>15, <1>18 DEF Inv, HeldExact
  <2>4. ASSUME NEW p \in (1 .. made) \X Elements, ids'[p[1]][p[2]] # Empty
        PROVE  \/ \E h \in held' : h[1] = p
               \/ \E u \in InFlight' : ptr'[u] = p
               \/ Lost(p[1])'
    <3>1. CASE p = o
      BY <1>8, <1>18, <3>1
    <3>2. CASE p # o
      <4>1. p \in Element /\ Lost(p[1])' = Lost(p[1])
        BY <1>2, SlabFacts DEF Element, Lost, GetSlab, map
      <4>2. \/ \E h \in held : h[1] = p
            \/ \E u \in InFlight : ptr[u] = p
            \/ Lost(p[1])
        BY <1>16, <2>4, <3>2, <4>1 DEF Inv, HeldExact
      <4> QED
        BY <1>2, <1>15, <1>18, <4>1, <4>2
    <3> QED
      BY <3>1, <3>2
  <2> QED
    BY <1>2, <2>1, <2>2, <2>3, <2>4 DEF HeldExact
<1> QED
  BY <1>11, <1>12, <1>13, <1>14, <1>19, <1>20, <1>21, <1>22, <1>23 DEF Inv

LEMMA DeallocateStep ==
  ASSUME Inv, NEW t \in Threads, Deallocate(t)
  PROVE  Inv'
<1>1. /\ pc[t] = "free" /\ pc' \in [Threads -> PCs] /\ pc'[t] = "idle"
      /\ \A u \in Threads \ {t} : pc'[u] = pc[u]
  BY GotoFacts DEF Deallocate, Inv, PCs
<1>2. ptr[t] \in (1 .. made) \X Elements
  BY <1>1 DEF Inv, Making
<1>3. PICK s \in 1 .. made, i \in Elements : ptr[t] = <<s, i>>
  BY <1>2
<1> DEFINE o == <<s, i>>
<1>4. PICK v \in Threads : owner[s] = v
  BY DEF Inv, Made
<1>5. /\ s \in Slabs /\ s \in SlabsOf(v) /\ o \in Element
      /\ lock[v] = Unlocked /\ ~Locks(v) /\ ~Marks(v)
      /\ ids' = [ids EXCEPT ![s][i] = Empty]
      /\ free' = [free EXCEPT ![s] = @ + 1]
      /\ poolFree' = [poolFree EXCEPT ![v] = @ + 1]
      /\ IF free[s] = 0 THEN MakeFree(s) ELSE UNCHANGED freeList
      /\ ptr' = [ptr EXCEPT ![t] = NoPtr]
      /\ UNCHANGED <<made, owner, region, lock, map, table, held, aborted>>
  <2>1. ptr[t][1] = s /\ ptr[t][2] = i
    BY <1>3
  <2>2. s \in Slabs /\ s \in SlabsOf(v) /\ o \in Element
    BY <1>4, SlabFacts DEF Element
  <2>3. lock[v] = Unlocked
    BY <1>4, <2>1 DEF Deallocate
  <2>4. ~Locks(v)
    BY <2>3, PoolAssumption DEF Inv, LocksHeld
  <2>5. ~Marks(v)
    BY <2>4 DEF Locks, Marks
  <2> QED
    BY <1>4, <2>1, <2>2, <2>3, <2>4, <2>5 DEF Deallocate
<1>6. /\ ids'[s][i] = Empty
      /\ \A x \in Slabs, k \in Elements : x # s \/ k # i => ids'[x][k] = ids[x][k]
      /\ \A x \in Slabs, k \in Elements : ids[x][k] = Empty => ids'[x][k] = Empty
  BY <1>5 DEF Inv, Typed
<1>7. /\ free[s] \in Nat /\ free'[s] = free[s] + 1
      /\ \A x \in Slabs \ {s} : free'[x] = free[x]
  BY <1>5 DEF Inv, Typed
<1>8. /\ poolFree[v] \in Nat /\ poolFree'[v] = poolFree[v] + 1
      /\ \A u \in Threads \ {v} : poolFree'[u] = poolFree[u]
  BY <1>5 DEF Inv, Typed
<1>9. \A u \in Threads \ {t} : ptr'[u] = ptr[u]
  BY <1>5 DEF Inv, Typed
<1>10. \A u \in Threads : SlabsOf(u)' = SlabsOf(u) /\ (Marks(u)' <=> Marks(u))
  BY <1>1, <1>5 DEF SlabsOf, Marks
<1>11. ids[s][i] # Empty /\ \A h \in held : h[1] # o
  BY <1>1, <1>3 DEF Inv, HeldExact, InFlight
<1>12. ListChanged(v, Linked(v)')
  <2>1. Linked(v) = {x \in SlabsOf(v) : free[x] > 0}
    BY <1>5, PoolList
  <2>2. Linked(v)' = Linked(v) \cup {s}
    <3>1. ~Marks(v)'
      BY <1>5, <1>10
    <3>2. \A x \in Slabs : x \in Linked(v)' <=> x \in Linked(v) \/ x = s
      BY <1>4, <1>5, <1>7, <3>1 DEF Linked
    <3>3. Linked(v)' \subseteq Slabs /\ Linked(v) \subseteq Slabs
      BY DEF Linked
    <3> QED
      BY <1>5, <3>2, <3>3
  <2>3. CASE free[s] = 0
    <3>1. s \notin Linked(v)
      BY <2>1, <2>3
    <3> QED
      BY <1>5, <2>2, <2>3, <3>1, MakeFreeList
  <2>4. CASE free[s] # 0
    <3>1. Linked(v) \cup {s} = Linked(v)
      BY <1>5, <1>7, <2>1, <2>4
    <3> QED
      BY <1>5, <2>2, <2>4, <3>1, ListSame
  <2> QED
    BY <2>3, <2>4
<1>13. Typed'
  <2>1. ids' \in [Slabs -> [Elements -> TagOrNone]]
    BY <1>5 DEF Inv, Typed, TagOrNone
  <2>2. free' \in [Slabs -> Nat]
    BY <1>5, <1>7 DEF Inv, Typed
  <2>3. poolFree' \in [Threads -> Nat]
    BY <1>5, <1>8 DEF Inv, Typed
  <2>4. ptr' \in [Threads -> Element \cup {NoPtr}]
    BY <1>5 DEF Inv, Typed
  <2> QED
    BY <1>1, <1>5, <1>12, <2>1, <2>2, <2>3, <2>4 DEF Inv, Typed, PCs, ListChanged, map
<1>14. Made'
  BY <1>5, <1>6, <1>7 DEF Inv, Made, map
<1>15. LocksHeld'
  BY <1>1, <1>5 DEF Inv, LocksHeld, Locks
<1>16. Making'
  <2> SUFFICES ASSUME NEW u \in Threads
               PROVE  /\ Marks(u) => /\ ptr'[u][1] \in SlabsOf(u)
                                     /\ \A r \in SlabsOf(u) : r <= ptr'[u][1]
                                     /\ \A k \in Elements : ids'[ptr'[u][1]][k] = Empty
                                     /\ pc'[u] = "mark" => table[u] # Nil
                      /\ pc'[u] = "map" => /\ \A r \in Regions : slabMap[r] # ptr'[u][1]
                                           /\ \A w \in Threads : table[w] # ptr'[u][1]
                                           /\ \A x \in Slabs : <<ptr'[u][1], x>> \notin entries
                      /\ pc'[u] \in {"return", "free"} => ptr'[u] \in (1 .. made) \X Elements
    BY <1>5, <1>10 DEF Making, map
  <2>1. CASE u = t
    BY <1>1, <2>1 DEF Marks
  <2>2. CASE u # t
    <3>1. pc'[u] = pc[u] /\ ptr'[u] = ptr[u]
      BY <1>1, <1>9, <2>2
    <3>2. ASSUME Marks(u)
          PROVE  \A k \in Elements : ids'[ptr[u][1]][k] = Empty
      <4>1. ptr[u][1] \in Slabs
        BY <3>2, SlabFacts DEF Inv, Making
      <4>2. \A k \in Elements : ids[ptr[u][1]][k] = Empty
        BY <3>2 DEF Inv, Making
      <4> QED
        BY <1>6, <4>1, <4>2
    <3> QED
      BY <3>1, <3>2 DEF Inv, Making
  <2> QED
    BY <2>1, <2>2
<1>17. InFlight' = InFlight \ {t} /\ t \in InFlight
  BY <1>1 DEF InFlight
<1>18. \A u \in InFlight' : u \in InFlight /\ ptr'[u] = ptr[u] /\ ptr[u] # o /\ ptr[u] \in Element
  <2> SUFFICES ASSUME NEW u \in InFlight'
               PROVE  u \in InFlight /\ ptr'[u] = ptr[u] /\ ptr[u] # o /\ ptr[u] \in Element
    OBVIOUS
  <2>1. u \in Threads /\ u # t /\ u \in InFlight
    BY <1>17 DEF InFlight
  <2>2. ptr[u] # o
    BY <1>3, <1>17, <2>1 DEF Inv, HeldExact
  <2>3. ptr[u] \in (1 .. made) \X Elements
    BY <2>1 DEF Inv, Making, InFlight
  <2> QED
    BY <1>9, <2>1, <2>2, <2>3, SlabFacts DEF Element
<1>19. \A p \in Element : p # o => ids'[p[1]][p[2]] = ids[p[1]][p[2]]
  <2> SUFFICES ASSUME NEW p \in Element, p # o
               PROVE  ids'[p[1]][p[2]] = ids[p[1]][p[2]]
    OBVIOUS
  <2>1. p = <<p[1], p[2]>> /\ p[1] \in Slabs /\ p[2] \in Elements
    BY DEF Element
  <2> QED
    BY <1>6, <2>1
<1>20. Fresh'
  <2> SUFFICES ASSUME NEW u \in Threads, pc'[u] = "return"
               PROVE  ids'[ptr'[u][1]][ptr'[u][2]] = Untagged
    BY DEF Fresh
  <2>1. pc[u] = "return" /\ u \in InFlight'
    BY <1>1 DEF InFlight
  <2> QED
    BY <1>18, <1>19, <2>1 DEF Inv, Fresh
<1>21. Exact'
  <2>1. FreeIds(s)' = FreeIds(s) \cup {i} /\ i \notin FreeIds(s)
    <3>1. \A k \in Elements : ids'[s][k] = Empty <=> ids[s][k] = Empty \/ k = i
      BY <1>5, <1>6
    <3> QED
      BY <1>11, <3>1 DEF FreeIds
  <2>2. \A x \in Slabs \ {s} : FreeIds(x)' = FreeIds(x)
    BY <1>6 DEF FreeIds
  <2>3. ASSUME NEW x \in 1 .. made
        PROVE  free'[x] = Cardinality(FreeIds(x)')
    <3>1. free[x] = Cardinality(FreeIds(x)) /\ x \in Slabs
      BY SlabFacts DEF Inv, Exact
    <3>2. CASE x = s
      <4>1. Cardinality(FreeIds(s) \cup {i}) = Cardinality(FreeIds(s)) + 1
        BY <2>1, FreeIdsFacts, FS_AddElement
      <4> QED
        BY <1>7, <2>1, <3>1, <3>2, <4>1
    <3>3. CASE x # s
      BY <1>7, <2>2, <3>1, <3>3
    <3> QED
      BY <3>2, <3>3
  <2>4. ASSUME NEW u \in Threads
        PROVE  poolFree'[u] = Cardinality(FreeElements(u)')
    <3>1. poolFree[u] = Cardinality(FreeElements(u)) /\ IsFiniteSet(FreeElements(u))
      BY FreeElementsFacts DEF Inv, Exact
    <3>2. SlabsOf(u) \subseteq Slabs
      BY SlabFacts
    <3>3. CASE u = v
      <4>1. FreeElements(v)' = FreeElements(v) \cup {o}
        <5>1. \A p \in SlabsOf(v) \X Elements :
                ids'[p[1]][p[2]] = Empty <=> ids[p[1]][p[2]] = Empty \/ p = o
          BY <1>5, <1>6, <1>19, <3>2, <3>3 DEF Element
        <5> QED
          BY <1>5, <1>10, <5>1 DEF FreeElements
      <4>2. o \notin FreeElements(v)
        BY <1>11 DEF FreeElements
      <4>3. Cardinality(FreeElements(v) \cup {o}) = Cardinality(FreeElements(v)) + 1
        BY <3>1, <3>3, <4>2, FS_AddElement
      <4> QED
        BY <1>8, <3>1, <3>3, <4>1, <4>3
    <3>4. CASE u # v
      <4>1. s \notin SlabsOf(u)
        BY <1>4, <3>4 DEF SlabsOf
      <4>2. FreeElements(u)' = FreeElements(u)
        BY <1>6, <1>10, <3>2, <4>1 DEF FreeElements
      <4> QED
        BY <1>8, <3>1, <3>4, <4>2
    <3> QED
      BY <3>3, <3>4
  <2> QED
    BY <1>5, <2>3, <2>4 DEF Exact
<1>22. Spare'
  <2> SUFFICES ASSUME NEW u \in Threads
               PROVE  /\ pc'[u] \in {"map", "mark", "pick"} => poolFree'[u] > Overprovision
                      /\ ~Locks(u)' /\ SlabsOf(u) # {} => poolFree'[u] >= Overprovision
    BY <1>10 DEF Spare
  <2>1. (pc'[u] \in {"map", "mark", "pick"} => pc[u] = pc'[u]) /\ (Locks(u)' <=> Locks(u))
    BY <1>1 DEF Locks
  <2>2. poolFree[u] \in Nat /\ poolFree'[u] \in Nat /\ poolFree'[u] >= poolFree[u]
    <3>1. poolFree[u] \in Nat
      BY DEF Inv, Typed
    <3>2. poolFree'[u] = poolFree[u] + 1 \/ poolFree'[u] = poolFree[u]
      BY <1>8
    <3> QED
      BY <3>1, <3>2
  <2>3. /\ pc[u] \in {"map", "mark", "pick"} => poolFree[u] > Overprovision
        /\ ~Locks(u) /\ SlabsOf(u) # {} => poolFree[u] >= Overprovision
    BY DEF Inv, Spare
  <2> QED
    BY <2>1, <2>2, <2>3, PoolAssumption
<1>23. Lists'
  <2>1. \A u \in Threads : (Marks(u)' <=> Marks(u)) /\ (Marks(u) => ptr'[u] = ptr[u])
    BY <1>1, <1>9, <1>10 DEF Marks
  <2>2. \A x \in Slabs : owner[x] # v => free'[x] = free[x]
    BY <1>4, <1>7
  <2> QED
    BY <1>5, <1>12, <2>1, <2>2, ListsAfter
<1>24. HeldExact'
  <2>1. /\ \A h \in held' : ids'[h[1][1]][h[1][2]] = h[2]
        /\ \A g, h \in held' : g[1] = h[1] => g = h
    <3>1. \A h \in held : h[1] \in Element
      BY DEF Inv, Typed
    <3> QED
      BY <1>5, <1>11, <1>19, <3>1 DEF Inv, HeldExact
  <2>2. /\ \A u \in InFlight' : ids'[ptr'[u][1]][ptr'[u][2]] # Empty
                                /\ \A h \in held' : h[1] # ptr'[u]
        /\ \A u, w \in InFlight' : u # w => ptr'[u] # ptr'[w]
    BY <1>5, <1>18, <1>19 DEF Inv, HeldExact
  <2>3. ASSUME NEW p \in (1 .. made) \X Elements, ids'[p[1]][p[2]] # Empty
        PROVE  \/ \E h \in held' : h[1] = p
               \/ \E u \in InFlight' : ptr'[u] = p
               \/ Lost(p[1])'
    <3>1. p # o /\ p \in Element /\ Lost(p[1])' = Lost(p[1])
      BY <1>5, <1>6, <2>3, SlabFacts DEF Element, Lost, GetSlab, map
    <3>2. \/ \E h \in held : h[1] = p
          \/ \E u \in InFlight : ptr[u] = p
          \/ Lost(p[1])
      BY <1>19, <2>3, <3>1 DEF Inv, HeldExact
    <3>3. \A u \in InFlight : ptr[u] = p => u \in InFlight'
      BY <1>3, <1>17, <3>1
    <3> QED
      BY <1>5, <1>18, <3>1, <3>2, <3>3
  <2> QED
    BY <1>5, <2>1, <2>2, <2>3 DEF HeldExact
<1> QED
  BY <1>13, <1>14, <1>15, <1>16, <1>20, <1>21, <1>22, <1>23, <1>24 DEF Inv

-----------------------------------------------------------------------------
(* The theorems.                                                           *)

LEMMA InvInit == Init => Inv
<1> SUFFICES ASSUME Init
             PROVE  Inv
  OBVIOUS
<1>0. MaxSlabs \in Nat /\ Nil = 0 /\ 1 .. made = {}
  BY PoolAssumption DEF Init, Nil
<1>1. Typed
  <2>1. ids \in [Slabs -> [Elements -> TagOrNone]]
    BY DEF Init, TagOrNone
  <2>2. 0 \in 0 .. MaxSlabs /\ Nil \in 0 .. MaxSlabs
    BY <1>0
  <2> QED
    BY <2>1, <2>2 DEF Init, Typed
<1>2. Made
  BY <1>0 DEF Init, Made
<1>3. LocksHeld /\ Making /\ Fresh
  BY DEF Init, LocksHeld, Locks, Making, Marks, Fresh
<1>4. \A t \in Threads : FreeElements(t) = {} /\ SlabsOf(t) = {}
  BY <1>0 DEF SlabsOf, FreeElements
<1>5. Exact /\ Spare
  BY <1>0, <1>4, FS_EmptySet DEF Init, Exact, Spare
<1>6. Lists
  <2>1. \A t \in Threads : Linked(t) = {}
    BY DEF Init, Linked
  <2> QED
    BY <2>1 DEF Init, Lists, IsList, IsTop
<1>7. HeldExact
  BY <1>0 DEF Init, HeldExact, InFlight
<1> QED
  BY <1>1, <1>2, <1>3, <1>5, <1>6, <1>7 DEF Inv

LEMMA InvNext == Inv /\ [Next]_vars => Inv'
<1> SUFFICES ASSUME Inv, [Next]_vars
             PROVE  Inv'
  OBVIOUS
<1>1. CASE UNCHANGED vars
  BY <1>1 DEF vars, counts, freeList, map, Inv, Typed, Made, LocksHeld, Locks, Making, Marks,
              Fresh, Exact, FreeIds, FreeElements, SlabsOf, Spare, Lists, Linked, IsList, IsTop,
              IsBottom, Lower, Higher, HeldExact, InFlight, Lost, GetSlab
<1>2. ASSUME NEW t \in Threads, Malloc(t) \/ Free(t) \/ Continue(t)
      PROVE  Inv'
  BY <1>2, MallocStep, FreeStep, LockPoolStep, NewSlabStep, MapRegionStep, MarkSlabStep,
     PickStep, ReturnStep, SetTagStep, SetTagFailsStep, DeallocateStep DEF Continue
<1> QED
  BY <1>1, <1>2 DEF Next

\* No step of a thread inside an allocation or a free, whoever else is inside one,
\* breaks the invariant.
THEOREM Invariant == Spec => []Inv
  BY InvInit, InvNext, PTL DEF Spec

\* The counts stay within what the slabs hold, and tags and pointers are what
\* their types say.
THEOREM TypeCorrect == Spec => []TypeOK
<1>1. Inv => TypeOK
  <2> SUFFICES ASSUME Inv
               PROVE  TypeOK
    OBVIOUS
  <2>1. free \in [Slabs -> 0 .. SlabCap]
    <3> SUFFICES ASSUME NEW s \in Slabs
                 PROVE  free[s] \in 0 .. SlabCap
      BY DEF Inv, Typed
    <3>1. CASE s \in 1 .. made
      <4>1. free[s] = Cardinality(FreeIds(s))
        BY <3>1 DEF Inv, Exact
      <4> QED
        BY <4>1, FreeIdsFacts
    <3>2. CASE s \notin 1 .. made
      BY <3>2, PoolAssumption DEF Inv, Made
    <3> QED
      BY <3>1, <3>2
  <2>2. poolFree \in [Threads -> 0 .. SlabCap * MaxSlabs]
    <3> SUFFICES ASSUME NEW t \in Threads
                 PROVE  poolFree[t] \in 0 .. SlabCap * MaxSlabs
      BY DEF Inv, Typed
    <3>1. IsFiniteSet(Elements) /\ Cardinality(Elements) = SlabCap
      <4>1. 0 \in Int /\ SlabCap - 1 \in Int /\ 0 <= SlabCap - 1 /\ (SlabCap - 1) - 0 + 1 = SlabCap
        BY PoolAssumption
      <4> QED
        BY <4>1, FS_Interval DEF Elements
    <3>2. IsFiniteSet(Slabs) /\ Cardinality(Slabs) = MaxSlabs
      <4>1. 1 \in Int /\ MaxSlabs \in Int /\ (1 > MaxSlabs => MaxSlabs = 0) /\ MaxSlabs - 1 + 1 = MaxSlabs
        BY PoolAssumption
      <4> QED
        BY <4>1, FS_Interval DEF Slabs
    <3>3. IsFiniteSet(Element) /\ Cardinality(Element) = MaxSlabs * SlabCap
      BY <3>1, <3>2, FS_Product DEF Element
    <3>4. Cardinality(FreeElements(t)) <= Cardinality(Element)
      <4>1. FreeElements(t) \in SUBSET Element
        BY FreeElementsFacts
      <4> QED
        BY <3>3, <4>1, FS_Subset
    <3>5. poolFree[t] \in Nat /\ poolFree[t] <= MaxSlabs * SlabCap
      BY <3>3, <3>4 DEF Inv, Typed, Exact
    <3>6. MaxSlabs * SlabCap = SlabCap * MaxSlabs /\ SlabCap * MaxSlabs \in Nat
      BY PoolAssumption
    <3> QED
      BY <3>5, <3>6
  <2>3. lock \in [Threads -> Threads \cup {Unlocked}]
    BY DEF Inv, LocksHeld
  <2>4. held \in SUBSET (Element \X TagOrNone)
    BY DEF Inv, Typed, TagOrNone
  <2> QED
    BY <2>1, <2>2, <2>3, <2>4 DEF Inv, Typed, TypeOK
<1> QED
  BY <1>1, Invariant, PTL

\* Whichever threads free what, a pool's list holds its slabs with free elements
\* in their order, and its counts are exact: allocate always finds an element.
THEOREM PoolsStayExact == Spec => []PoolsExact
<1>1. Inv => PoolsExact
  <2> SUFFICES ASSUME Inv, NEW t \in Threads, lock[t] = Unlocked
               PROVE  LET list == FreeList(t) IN
                      /\ {list[k] : k \in DOMAIN list} = {s \in SlabsOf(t) : free[s] > 0}
                      /\ \A k \in DOMAIN list :
                           /\ k > 1 => list[k] < list[k - 1]
                           /\ free_prev[list[k]] = IF k = 1 THEN Nil ELSE list[k - 1]
                      /\ \A s \in SlabsOf(t) : free[s] = Cardinality(FreeIds(s))
                      /\ poolFree[t] = Cardinality(FreeElements(t))
                      /\ SlabsOf(t) # {} => poolFree[t] >= Overprovision
    BY DEF PoolsExact
  <2> DEFINE list == FreeList(t)
  <2>1. ~Locks(t) /\ ~Marks(t)
    BY PoolAssumption DEF Inv, LocksHeld, Locks, Marks
  <2>2. /\ Linked(t) = {s \in SlabsOf(t) : free[s] > 0}
        /\ Chain(list, Linked(t), head[t])
        /\ \A r \in Linked(t) : r <= head[t]
    BY <2>1, PoolList
  <2> HIDE DEF list
  <2>3. {list[k] : k \in DOMAIN list} = Linked(t)
    BY <2>2 DEF Chain
  <2>4. ASSUME NEW k \in DOMAIN list
        PROVE  /\ k > 1 => list[k] < list[k - 1]
               /\ free_prev[list[k]] = IF k = 1 THEN Nil ELSE list[k - 1]
    <3>1. Len(list) \in Nat /\ DOMAIN list = 1 .. Len(list)
      BY <2>2 DEF Chain
    <3>2. CASE k > 1
      <4>1. k - 1 \in DOMAIN list /\ k - 1 < k
        BY <3>1, <3>2
      <4> QED
        BY <2>2, <3>1, <3>2, <4>1 DEF Chain
    <3>3. CASE k = 1
      <4>1. list[1] \in Linked(t) /\ Linked(t) \subseteq Slabs
        BY <2>2, <3>3 DEF Chain, Linked
      <4>2. head[t] # Nil /\ list[1] = head[t]
        BY <2>2, <4>1 DEF Chain, Inv, Lists, IsList, IsTop
      <4>3. IsBottom(free_prev[list[1]], Higher(Linked(t), list[1]))
        BY <4>1 DEF Inv, Lists, IsList
      <4>4. Higher(Linked(t), list[1]) = {}
        BY <2>2, <4>1, <4>2, PoolAssumption DEF Higher, Slabs
      <4> QED
        BY <3>3, <4>3, <4>4 DEF IsBottom
    <3> QED
      BY <3>1, <3>2, <3>3
  <2>5. /\ \A s \in SlabsOf(t) : free[s] = Cardinality(FreeIds(s))
        /\ poolFree[t] = Cardinality(FreeElements(t))
        /\ SlabsOf(t) # {} => poolFree[t] >= Overprovision
    BY <2>1 DEF Inv, Exact, Spare, SlabsOf
  <2> QED
    BY <2>2, <2>3, <2>4, <2>5 DEF list
<1> QED
  BY <1>1, Invariant, PTL

\* No element is in two hands, and each has the tag its holder gave it.
THEOREM HeldStayExact == Spec => []HeldExact
<1>1. Inv => HeldExact
  BY DEF Inv
<1> QED
  BY <1>1, Invariant, PTL
=============================================================================
