-------------------------- MODULE EdgesCodecProofs --------------------------
(***************************************************************************)
(* Proofs about the edge codec, for every width of words, set of globals,  *)
(* number of kinds of edges and of graphs.                                 *)
(***************************************************************************)
EXTENDS EdgesCodec, SequenceTheorems, DataInduction

----------------------------------------------------------------------------
(* The arithmetic loses nothing, whatever the width of a word: 2 * Half    *)
(* values, of which the code has 2^32.                                     *)

\* The quotient and the remainder by 2 of even and of odd numbers, the only
\* fact about \div and % that the proofs need.
LEMMA Halves ==
  \A n \in Nat : /\ (2 * n) % 2 = 0 /\ (2 * n) \div 2 = n
                 /\ (2 * n + 1) % 2 = 1 /\ (2 * n + 1) \div 2 = n
  OBVIOUS

\* A larger number of blocks is larger by a block.
LEMMA Blocks ==
  ASSUME NEW L \in Nat \ {0}, NEW a \in Int, NEW b \in Int, a < b
  PROVE  a * L + L <= b * L
<1>1. b - a - 1 \in Nat /\ b = a + 1 + (b - a - 1)
  OBVIOUS
<1>2. PICK d \in Nat : b = a + 1 + d
  BY <1>1
<1>3. b * L = a * L + L + d * L
  BY <1>2
<1>4. d * L >= 0
  BY <1>2
<1> QED
  BY <1>3, <1>4

LEMMA Division ==
  ASSUME NEW L \in Nat \ {0}, NEW w \in Nat
  PROVE  w = ((w \div L) * L) + (w % L) /\ w % L \in 0 .. L - 1 /\ w \div L \in Nat
  OBVIOUS

\* The two fields of a number, whatever the size of the lower one.
LEMMA Fields ==
  ASSUME NEW L \in Nat \ {0}, NEW s \in Nat, NEW m \in 0 .. L - 1
  PROVE  (s * L + m) \div L = s /\ (s * L + m) % L = m
<1> DEFINE w == s * L + m
           q == w \div L
           r == w % L
<1>0. w \in Nat
  OBVIOUS
<1>1. w = q * L + r /\ r \in 0 .. L - 1 /\ q \in Nat
  BY <1>0, Division
<1>2. w = s * L + m
  OBVIOUS
<1>3. s * L \in Int /\ q * L \in Int
  BY <1>1
<1> HIDE DEF w, q, r
<1>4. ~(q < s)
  <2> SUFFICES ASSUME q < s
               PROVE  FALSE
    OBVIOUS
  <2>1. q * L + L <= s * L
    BY <1>1, Blocks
  <2> QED
    BY <1>1, <1>2, <1>3, <2>1
<1>5. ~(s < q)
  <2> SUFFICES ASSUME s < q
               PROVE  FALSE
    OBVIOUS
  <2>1. s * L + L <= q * L
    BY <1>1, Blocks
  <2> QED
    BY <1>1, <1>2, <1>3, <2>1
<1>6. q = s
  BY <1>1, <1>4, <1>5
<1> QED
  BY <1>1, <1>2, <1>3, <1>6 DEF q, r, w

LEMMA SymbolUnpacked ==
  ASSUME NEW s \in Nat
  PROVE  SymbolOf(PackSymbol(s)) = s /\ LocalOf(PackSymbol(s)) = -1
<1>1. LocalSize \in Nat \ {0} /\ 0 \in 0 .. LocalSize - 1 /\ s + 1 \in Nat
  BY HalfAssumption, LocalSizeAssumption
<1>2. ((s + 1) * LocalSize + 0) \div LocalSize = s + 1 /\ ((s + 1) * LocalSize + 0) % LocalSize = 0
  BY <1>1, Fields
<1>3. (s + 1) * LocalSize + 0 = PackSymbol(s)
  BY <1>1 DEF PackSymbol
<1> QED
  BY <1>2, <1>3 DEF SymbolOf, LocalOf

LEMMA LocalUnpacked ==
  ASSUME NEW s \in Nat, NEW n \in 0 .. MaxLocals - 1
  PROVE  SymbolOf(PackLocal(s, n)) = s /\ LocalOf(PackLocal(s, n)) = n
<1>1. /\ LocalSize \in Nat \ {0} /\ n + 1 \in 0 .. LocalSize - 1 /\ s + 1 \in Nat
      /\ n \in Int
  BY HalfAssumption, LocalSizeAssumption DEF MaxLocals
<1>2. ((s + 1) * LocalSize + (n + 1)) \div LocalSize = s + 1 /\ ((s + 1) * LocalSize + (n + 1)) % LocalSize = n + 1
  BY <1>1, Fields
<1> QED
  BY <1>1, <1>2 DEF SymbolOf, LocalOf, PackLocal

(* The words of nodes (Edges.h) are apart: whatever symbols and locals a   *)
(* writer numbers, as many locals as Node::local asserts, a word is of one *)
(* node only, and its parts are what was put in.                           *)
THEOREM NodeRoundTrip ==
  ASSUME NEW s \in Nat
  PROVE  /\ SymbolOf(PackSymbol(s)) = s /\ LocalOf(PackSymbol(s)) = -1
         /\ \A n \in 0 .. MaxLocals - 1 : SymbolOf(PackLocal(s, n)) = s /\ LocalOf(PackLocal(s, n)) = n
<1>1. \A n \in 0 .. MaxLocals - 1 : SymbolOf(PackLocal(s, n)) = s /\ LocalOf(PackLocal(s, n)) = n
  BY LocalUnpacked
<1> QED
  BY <1>1, SymbolUnpacked

\* zigzag_encode yields a word.
LEMMA EncodeType ==
  ASSUME NEW w \in Words
  PROVE  zigzag_encode(w) \in Words
  BY HalfAssumption DEF zigzag_encode, Signed, Words

\* zigzag_decode undoes zigzag_encode on every word (Encoding.h), the smallest
\* negative number included, whose double does not fit in a word.
THEOREM ZigzagRoundTrip ==
  ASSUME NEW w \in Words
  PROVE  zigzag_decode(zigzag_encode(w)) = w
<1>1. CASE w < Half
  <2>1. zigzag_encode(w) = 2 * w
    BY <1>1, HalfAssumption DEF zigzag_encode, Signed, Words
  <2>2. (2 * w) % 2 = 0 /\ (2 * w) \div 2 = w
    BY Halves, HalfAssumption DEF Words
  <2> QED
    BY <2>1, <2>2 DEF zigzag_decode
<1>2. CASE w >= Half
  <2> DEFINE n == 2 * Half - 1 - w
  <2>1. n \in Nat /\ w = 2 * Half - 1 - n
    BY <1>2, HalfAssumption DEF Words
  <2>2. zigzag_encode(w) = 2 * n + 1
    BY <1>2, <2>1, HalfAssumption DEF zigzag_encode, Signed, Words
  <2>3. (2 * n + 1) % 2 = 1 /\ (2 * n + 1) \div 2 = n
    BY <2>1, Halves
  <2>4. zigzag_decode(2 * n + 1) = Wrap(-n - 1)
    BY <2>3 DEF zigzag_decode
  <2>5. Wrap(-n - 1) = w
    BY <2>1, HalfAssumption DEF Wrap
  <2> QED
    BY <2>2, <2>4, <2>5
<1> QED
  BY <1>1, <1>2, HalfAssumption DEF Words

\* A difference of two words, wrapped, is a word, and adding it again wraps to
\* where it came from.
LEMMA WrappedDifference ==
  ASSUME NEW prev \in Words, NEW number \in Words
  PROVE  /\ Wrap(number - prev) \in Words
         /\ Wrap(prev + Wrap(number - prev)) = number
  BY HalfAssumption DEF Wrap, Words

\* What the reader makes of a stored difference is the number that the writer
\* stored, whatever the numbers before it were (Writer.cpp finish against
\* Reader.cpp visitEdgesInner): differences wrap, but no number is lost.
THEOREM DeltaRoundTrip ==
  ASSUME NEW prev \in Words, NEW number \in Words
  PROVE  /\ ToDelta(prev, number) \in Words
         /\ FromDelta(prev, ToDelta(prev, number)) = number
<1> DEFINE d == Wrap(number - prev)
<1>1. d \in Words /\ Wrap(prev + d) = number
  BY WrappedDifference
<1>2. zigzag_encode(d) \in Words /\ zigzag_decode(zigzag_encode(d)) = d
  BY <1>1, EncodeType, ZigzagRoundTrip
<1> QED
  BY <1>1, <1>2 DEF ToDelta, FromDelta

----------------------------------------------------------------------------
(* Concatenation of a sequence of sequences.                               *)

\* The concatenation of the first k sequences, by recursion.
RunningCat(s, f) ==
  f = [k \in 1 .. Len(s) |-> IF k = 1 THEN s[k] ELSE f[k - 1] \o s[k]]

\* The concatenation of a sequence of sequences, computed from the left.
LEMMA PrefixesExist ==
  ASSUME NEW S, NEW s \in Seq(Seq(S)), s # <<>>
  PROVE  \E f : RunningCat(s, f) /\ FlattenSeq(s) = f[Len(s)]
<1> DEFINE Q == Seq(S)
           N == Len(s) - 1
           step == [k \in Nat |-> [v \in Q |-> IF k <= N THEN v \o s[k + 1] ELSE v]]
<1>0. N \in Nat /\ Len(s) \in Nat \ {0} /\ \A k \in 0 .. N : s[k + 1] \in Q
  BY ElementOfSeq, LenProperties, EmptySeq
<1>1. step \in [Nat -> [Q -> Q]] /\ s[1] \in Q
  <2>1. ASSUME NEW v \in Q, NEW k \in Nat, k <= N
        PROVE  v \o s[k + 1] \in Q
    BY <1>0, <2>1, ConcatProperties
  <2> QED
    BY <1>0, <2>1
<1>2. PICK g : IteratesTo(g, N, Q, s[1], step)
  <2> HIDE DEF step, Q, N
  <2> QED
    BY <1>0, <1>1, BoundedRecursion
<1> DEFINE f == [k \in 1 .. Len(s) |-> g[k - 1]]
<1>3. RunningCat(s, f)
  <2>1. g \in [0 .. N -> Q] /\ \A k \in 0 .. N : g[k] = IF k = 0 THEN s[1] ELSE step[k][g[k - 1]]
    BY <1>2 DEF IteratesTo
  <2>2. ASSUME NEW k \in 1 .. Len(s), k # 1
        PROVE  f[k] = f[k - 1] \o s[k]
    <3>1. k - 1 \in 0 .. N /\ k - 1 # 0 /\ k - 1 \in Nat /\ k - 1 <= N /\ (k - 1) + 1 = k
          /\ k - 2 \in 0 .. N /\ (k - 1) - 1 = k - 2 /\ k - 1 \in 1 .. Len(s)
      BY <1>0, <2>2
    <3>2. g[k - 1] = step[k - 1][g[k - 2]] /\ g[k - 2] \in Q
      BY <2>1, <3>1
    <3>3. g[k - 1] = g[k - 2] \o s[k]
      BY <3>1, <3>2
    <3> QED
      BY <3>1, <3>3
  <2>3. f[1] = s[1]
    <3>1. 0 \in 0 .. N /\ 1 \in 1 .. Len(s)
      BY <1>0
    <3>2. g[0] = s[1]
      BY <2>1, <3>1
    <3> QED
      BY <3>1, <3>2
  <2>4. \A k \in 1 .. Len(s) : f[k] = IF k = 1 THEN s[k] ELSE f[k - 1] \o s[k]
    BY <2>2, <2>3
  <2> HIDE DEF Q, N
  <2> QED
    BY <2>4 DEF RunningCat
<1> DEFINE Is(h) == h = [k \in 1 .. Len(s) |-> IF k = 1 THEN s[k] ELSE h[k - 1] \o s[k]]
           flatten == CHOOSE h : Is(h)
<1>4. Is(flatten)
  <2>1. Is(f)
    BY <1>3 DEF RunningCat
  <2> HIDE DEF Is
  <2> QED
    BY <2>1
<1>5. FlattenSeq(s) = flatten[Len(s)]
  <2> HIDE DEF f, step, Q
  <2> QED
    BY <1>0 DEF FlattenSeq
<1> HIDE DEF flatten
<1> QED
  BY <1>4, <1>5 DEF RunningCat


\* The same step by step; the last of them is the whole.
Grows(S, s, f) ==
  /\ f[1] = s[1]
  /\ \A k \in 2 .. Len(s) : f[k] = f[k - 1] \o s[k]
  /\ \A k \in 1 .. Len(s) : f[k] \in Seq(S)
  /\ FlattenSeq(s) = f[Len(s)]

LEMMA FlattenGrows ==
  ASSUME NEW S, NEW s \in Seq(Seq(S)), s # <<>>
  PROVE  \E f : Grows(S, s, f)
<1> PICK f : RunningCat(s, f) /\ FlattenSeq(s) = f[Len(s)]
  BY PrefixesExist
<1>0. Len(s) \in Nat /\ \A k \in 1 .. Len(s) : s[k] \in Seq(S)
  BY ElementOfSeq, LenProperties
<1>1. \A k \in 1 .. Len(s) : f[k] = IF k = 1 THEN s[k] ELSE f[k - 1] \o s[k]
  BY DEF RunningCat
<1>2. f[1] = s[1]
  <2>1. 1 \in 1 .. Len(s)
    BY <1>0, EmptySeq
  <2> QED
    BY <1>1, <2>1
<1>3. ASSUME NEW k \in 2 .. Len(s)
      PROVE  f[k] = f[k - 1] \o s[k]
  <2>1. k \in 1 .. Len(s) /\ k # 1
    BY <1>0
  <2> QED
    BY <1>1, <2>1
<1> DEFINE T == {k \in Nat : k + 1 <= Len(s) => f[k + 1] \in Seq(S)}
<1>4. 0 \in T
  <2>1. 1 <= Len(s) => 1 \in 1 .. Len(s)
    BY <1>0
  <2>2. 1 <= Len(s) => f[1] = s[1]
    BY <1>1, <2>1
  <2> QED
    BY <1>0, <2>1, <2>2
<1>5. ASSUME NEW k \in Nat, k \in T
      PROVE  k + 1 \in T
  <2> SUFFICES ASSUME (k + 1) + 1 <= Len(s)
               PROVE  f[(k + 1) + 1] \in Seq(S)
    OBVIOUS
  <2> DEFINE m == (k + 1) + 1
  <2>1. m \in 2 .. Len(s) /\ m - 1 = k + 1 /\ m \in 1 .. Len(s)
    BY <1>0
  <2>2. f[m - 1] \in Seq(S) /\ s[m] \in Seq(S)
    BY <1>0, <1>5, <2>1
  <2>3. f[m] = f[m - 1] \o s[m]
    BY <1>3, <2>1
  <2> QED
    BY <2>2, <2>3, ConcatProperties
<1>6. Nat \subseteq T
  <2> HIDE DEF T
  <2> QED
    BY <1>4, <1>5, NatSetInduction
<1>7. ASSUME NEW k \in 1 .. Len(s)
      PROVE  f[k] \in Seq(S)
  <2>1. k - 1 \in Nat /\ (k - 1) + 1 = k /\ k <= Len(s)
    BY <1>0
  <2> QED
    BY <1>6, <2>1
<1> QED
  BY <1>2, <1>3, <1>7 DEF Grows

LEMMA FlattenEmpty == FlattenSeq(<<>>) = <<>>
  BY DEF FlattenSeq

LEMMA FlattenType ==
  ASSUME NEW S, NEW s \in Seq(Seq(S))
  PROVE  FlattenSeq(s) \in Seq(S)
<1>1. CASE s = <<>>
  BY <1>1, FlattenEmpty, EmptySeq
<1>2. CASE s # <<>>
  <2>1. PICK f : Grows(S, s, f)
    BY <1>2, FlattenGrows
  <2>2. Len(s) \in 1 .. Len(s)
    BY <1>2, EmptySeq
  <2> QED
    BY <2>1, <2>2 DEF Grows
<1> QED
  BY <1>1, <1>2

LEMMA FlattenAppend ==
  ASSUME NEW S, NEW s \in Seq(Seq(S)), NEW x \in Seq(S)
  PROVE  FlattenSeq(Append(s, x)) = FlattenSeq(s) \o x
<1> DEFINE t == Append(s, x)
<1>1. /\ t \in Seq(Seq(S)) /\ t # <<>> /\ Len(t) = Len(s) + 1 /\ Len(s) \in Nat
      /\ \A k \in 1 .. Len(s) : t[k] = s[k]
      /\ t[Len(s) + 1] = x
  BY AppendProperties, LenProperties
<1> HIDE DEF t
<1>2. PICK g : Grows(S, t, g)
  BY <1>1, FlattenGrows
<1>3. /\ g[1] = t[1]
      /\ \A k \in 2 .. Len(t) : g[k] = g[k - 1] \o t[k]
  BY <1>1, <1>2 DEF Grows
<1>4. CASE s = <<>>
  <2>1. Len(s) = 0
    BY <1>4, EmptySeq
  <2>2. FlattenSeq(t) = x
    BY <1>1, <1>2, <1>3, <2>1 DEF Grows
  <2> QED
    BY <1>4, <2>2, FlattenEmpty, ConcatEmptySeq DEF t
<1>5. CASE s # <<>>
  <2>1. PICK f : Grows(S, s, f)
    BY <1>5, FlattenGrows
  <2>2. /\ f[1] = s[1]
        /\ \A k \in 2 .. Len(s) : f[k] = f[k - 1] \o s[k]
    BY <1>5, <2>1 DEF Grows
  <2>3. Len(s) \in Nat \ {0}
    BY <1>5, EmptySeq
  <2> DEFINE T == {k \in Nat : k + 1 <= Len(s) => g[k + 1] = f[k + 1]}
  <2>4. 0 \in T
    BY <1>1, <1>3, <2>2, <2>3
  <2>5. ASSUME NEW k \in Nat, k \in T
        PROVE  k + 1 \in T
    <3> SUFFICES ASSUME (k + 1) + 1 <= Len(s)
                 PROVE  g[(k + 1) + 1] = f[(k + 1) + 1]
      OBVIOUS
    <3> DEFINE m == (k + 1) + 1
    <3>1. /\ m \in 2 .. Len(t) /\ m \in 2 .. Len(s) /\ m \in 1 .. Len(s)
          /\ m - 1 = k + 1 /\ k + 1 <= Len(s)
      BY <1>1, <2>3
    <3>2. g[m] = g[m - 1] \o t[m] /\ f[m] = f[m - 1] \o s[m]
      BY <1>3, <2>2, <3>1
    <3>3. g[m - 1] = f[m - 1] /\ t[m] = s[m]
      BY <1>1, <2>5, <3>1
    <3> QED
      BY <3>2, <3>3
  <2>6. Nat \subseteq T
    <3> HIDE DEF T
    <3> QED
      BY <2>4, <2>5, NatSetInduction
  <2>7. g[Len(s)] = f[Len(s)]
    <3>1. Len(s) - 1 \in Nat /\ (Len(s) - 1) + 1 = Len(s) /\ Len(s) <= Len(s)
      BY <2>3
    <3>2. Len(s) - 1 \in T
      BY <2>6, <3>1
    <3>3. g[(Len(s) - 1) + 1] = f[(Len(s) - 1) + 1]
      BY <3>1, <3>2
    <3> QED
      BY <3>1, <3>3
  <2>8. g[Len(t)] = g[Len(s)] \o t[Len(t)]
    <3>1. Len(t) \in 2 .. Len(t) /\ Len(t) - 1 = Len(s)
      BY <1>1, <2>3
    <3> QED
      BY <1>3, <3>1
  <2>9. FlattenSeq(t) = g[Len(t)] /\ FlattenSeq(s) = f[Len(s)] /\ t[Len(t)] = x
    BY <1>1, <1>2, <2>1 DEF Grows
  <2> QED
    BY <2>7, <2>8, <2>9 DEF t
<1> QED
  BY <1>4, <1>5

\* The same from the front.
LEMMA FlattenFront ==
  ASSUME NEW S, NEW s \in Seq(Seq(S)), s # <<>>
  PROVE  FlattenSeq(s) = s[1] \o FlattenSeq(Tail(s))
<1> DEFINE t == Tail(s)
<1>1. /\ Len(s) \in Nat \ {0} /\ t \in Seq(Seq(S)) /\ Len(t) = Len(s) - 1
      /\ \A k \in 1 .. Len(t) : t[k] = s[k + 1]
      /\ \A k \in 1 .. Len(s) : s[k] \in Seq(S)
  BY HeadTailProperties, EmptySeq, ElementOfSeq
<1> HIDE DEF t
<1>2. PICK f : Grows(S, s, f)
  BY FlattenGrows
<1>3. /\ f[1] = s[1]
      /\ \A k \in 2 .. Len(s) : f[k] = f[k - 1] \o s[k]
  BY <1>2 DEF Grows
<1>4. CASE t = <<>>
  <2>1. Len(s) = 1
    BY <1>1, <1>4, EmptySeq
  <2>2. FlattenSeq(s) = s[1] /\ s[1] \in Seq(S)
    BY <1>1, <1>2, <1>3, <2>1 DEF Grows
  <2> QED
    BY <1>4, <2>2, FlattenEmpty, ConcatEmptySeq DEF t
<1>5. CASE t # <<>>
  <2>1. PICK g : Grows(S, t, g)
    BY <1>1, <1>5, FlattenGrows
  <2>2. /\ g[1] = t[1]
        /\ \A k \in 2 .. Len(t) : g[k] = g[k - 1] \o t[k]
        /\ \A k \in 1 .. Len(t) : g[k] \in Seq(S)
    BY <1>1, <1>5, <2>1 DEF Grows
  <2>3. Len(t) \in Nat \ {0}
    BY <1>1, <1>5, EmptySeq
  <2> DEFINE T == {k \in Nat : k \in 1 .. Len(t) => f[k + 1] = s[1] \o g[k]}
  <2>4. 0 \in T
    BY <2>3
  <2>5. ASSUME NEW k \in Nat, k \in T
        PROVE  k + 1 \in T
    <3> DEFINE m == k + 1
    <3>1. ASSUME m \in 1 .. Len(t)
          PROVE  f[m + 1] = s[1] \o g[m]
      <4>1. m + 1 \in 2 .. Len(s) /\ (m + 1) - 1 = m /\ 1 \in 1 .. Len(s)
        BY <1>1, <2>3, <3>1
      <4>2. f[m + 1] = f[m] \o s[m + 1]
        BY <1>3, <4>1
      <4>3. t[m] = s[m + 1] /\ t[m] \in Seq(S) /\ s[1] \in Seq(S)
        BY <1>1, <3>1, <4>1, ElementOfSeq
      <4>4. CASE k = 0
        <5>1. m = 1
          BY <4>4
        <5>2. f[m] = s[1] /\ g[m] = t[m]
          BY <1>3, <2>2, <5>1
        <5> QED
          BY <4>2, <4>3, <5>2
      <4>5. CASE k # 0
        <5>1. m \in 2 .. Len(t) /\ k \in 1 .. Len(t) /\ m - 1 = k
          BY <2>3, <3>1, <4>5
        <5>2. g[m] = g[k] \o t[m] /\ f[m] = s[1] \o g[k] /\ g[k] \in Seq(S)
          BY <2>2, <2>5, <5>1
        <5>3. (s[1] \o g[k]) \o t[m] = s[1] \o (g[k] \o t[m])
          <6>1. \A x, y, z \in Seq(S) : (x \o y) \o z = x \o (y \o z)
            BY ConcatAssociative
          <6>2. s[1] \in Seq(S) /\ g[k] \in Seq(S) /\ t[m] \in Seq(S)
            BY <4>3, <5>2
          <6> HIDE DEF m, T
          <6> QED
            BY <6>1, <6>2, Zenon
        <5> QED
          BY <4>2, <4>3, <5>2, <5>3
      <4> QED
        BY <4>4, <4>5
    <3>2. m \in Nat
      OBVIOUS
    <3> QED
      BY <3>1, <3>2, Zenon
  <2>6. Nat \subseteq T
    <3> HIDE DEF T
    <3> QED
      BY <2>4, <2>5, NatSetInduction
  <2>7. f[Len(t) + 1] = s[1] \o g[Len(t)]
    <3>1. Len(t) \in Nat /\ Len(t) \in 1 .. Len(t)
      BY <2>3
    <3>2. Len(t) \in T
      BY <2>6, <3>1
    <3> QED
      BY <3>1, <3>2, Zenon
  <2>8. Len(t) + 1 = Len(s) /\ FlattenSeq(s) = f[Len(s)] /\ FlattenSeq(t) = g[Len(t)]
    BY <1>1, <1>2, <2>1, <2>3 DEF Grows
  <2> QED
    BY <2>7, <2>8 DEF t
<1> QED
  BY <1>4, <1>5


\* Where the k-th sequence lies in the whole.
Lies(s, f, k) ==
  /\ Len(f[k]) \in Nat /\ Len(s[k]) \in Nat
  /\ Len(f[k]) = Len(s[k]) + IF k = 1 THEN 0 ELSE Len(f[k - 1])
  /\ Len(f[k]) <= Len(FlattenSeq(s))
  /\ \A i \in 1 .. Len(s[k]) : FlattenSeq(s)[Len(f[k]) - Len(s[k]) + i] = s[k][i]

\* Where the k-th sequence lies in the concatenation.
LEMMA FlattenAt ==
  ASSUME NEW S, NEW s \in Seq(Seq(S)), NEW f, Grows(S, s, f), NEW k \in 1 .. Len(s)
  PROVE  Lies(s, f, k)
<1>1. /\ f[1] = s[1]
      /\ \A j \in 2 .. Len(s) : f[j] = f[j - 1] \o s[j]
      /\ \A j \in 1 .. Len(s) : f[j] \in Seq(S)
      /\ FlattenSeq(s) = f[Len(s)]
  BY DEF Grows
<1>2. Len(s) \in Nat /\ \A j \in 1 .. Len(s) : s[j] \in Seq(S)
  BY ElementOfSeq, LenProperties
<1>3. \A j \in 1 .. Len(s) : Len(f[j]) \in Nat /\ Len(s[j]) \in Nat
  BY <1>1, <1>2, LenProperties
<1>4. /\ Len(f[k]) = Len(s[k]) + IF k = 1 THEN 0 ELSE Len(f[k - 1])
      /\ \A i \in 1 .. Len(s[k]) : f[k][Len(f[k]) - Len(s[k]) + i] = s[k][i]
  <2>1. CASE k = 1
    <3>1. f[k] = s[k] /\ Len(s[k]) \in Nat
      BY <1>1, <1>3, <2>1
    <3>2. Len(f[k]) - Len(s[k]) = 0 /\ \A i \in 1 .. Len(s[k]) : 0 + i = i
      BY <3>1
    <3> QED
      BY <2>1, <3>1, <3>2
  <2>2. CASE k # 1
    <3>1. k \in 2 .. Len(s) /\ k - 1 \in 1 .. Len(s)
      BY <1>2, <2>2
    <3>2. f[k] = f[k - 1] \o s[k] /\ f[k - 1] \in Seq(S) /\ s[k] \in Seq(S)
      BY <1>1, <1>2, <3>1
    <3> DEFINE a == Len(f[k - 1])
               b == Len(s[k])
    <3>3. a \in Nat /\ b \in Nat
      BY <1>3, <3>1
    <3>4. Len(f[k]) = a + b /\ \A i \in 1 .. a + b :
                               f[k][i] = IF i <= a THEN f[k - 1][i] ELSE s[k][i - a]
      <4>1. \A x, y \in Seq(S) :
              /\ Len(x \o y) = Len(x) + Len(y)
              /\ \A i \in 1 .. Len(x) + Len(y) :
                   (x \o y)[i] = IF i <= Len(x) THEN x[i] ELSE y[i - Len(x)]
        BY ConcatProperties
      <4> DEFINE x == f[k - 1]
                 y == s[k]
      <4>2. x \in Seq(S) /\ y \in Seq(S) /\ f[k] = x \o y
        BY <3>2
      <4> HIDE DEF x, y
      <4>3. /\ Len(f[k]) = Len(x) + Len(y)
            /\ \A i \in 1 .. Len(x) + Len(y) :
                 f[k][i] = IF i <= Len(x) THEN x[i] ELSE y[i - Len(x)]
        BY <4>1, <4>2
      <4> QED
        BY <4>3 DEF x, y
    <3>5. ASSUME NEW i \in 1 .. b
          PROVE  f[k][Len(f[k]) - b + i] = s[k][i]
      <4> HIDE DEF a, b
      <4>1. Len(f[k]) - b + i = a + i /\ a + i \in 1 .. a + b /\ ~(a + i <= a) /\ (a + i) - a = i
        BY <3>3, <3>4
      <4> QED
        BY <3>4, <4>1
    <3>6. Len(f[k]) = b + a
      <4> HIDE DEF a, b
      <4> QED
        BY <3>3, <3>4
    <3> QED
      BY <2>2, <3>5, <3>6
  <2> QED
    BY <2>1, <2>2
<1> DEFINE Keeps(j) == /\ Len(f[k]) <= Len(f[j])
                       /\ \A i \in 1 .. Len(f[k]) : f[j][i] = f[k][i]
           T == {n \in Nat : k + n \in 1 .. Len(s) => Keeps(k + n)}
<1>5. 0 \in T
  BY <1>3
<1>6. ASSUME NEW n \in Nat, n \in T
      PROVE  n + 1 \in T
  <2> SUFFICES ASSUME k + (n + 1) \in 1 .. Len(s)
               PROVE  Keeps(k + (n + 1))
    OBVIOUS
  <2> DEFINE j == k + (n + 1)
  <2>1. /\ j \in 2 .. Len(s) /\ j - 1 = k + n /\ k + n \in 1 .. Len(s)
        /\ j \in 1 .. Len(s) /\ j - 1 \in 1 .. Len(s)
    BY <1>2
  <2>2. Keeps(j - 1)
    BY <1>6, <2>1
  <2>3. f[j] = f[j - 1] \o s[j] /\ f[j - 1] \in Seq(S) /\ s[j] \in Seq(S)
    BY <1>1, <1>2, <2>1
  <2>4. /\ Len(f[j]) = Len(f[j - 1]) + Len(s[j])
        /\ \A i \in 1 .. Len(f[j - 1]) : f[j][i] = f[j - 1][i]
    <3> DEFINE a == f[j - 1]
               b == s[j]
    <3>1. Len(a) \in Nat /\ Len(b) \in Nat
      BY <1>3, <2>1
    <3>2. f[j] = a \o b /\ a \in Seq(S) /\ b \in Seq(S)
      BY <2>3
    <3> HIDE DEF a, b, j
    <3>3. /\ Len(f[j]) = Len(a) + Len(b)
          /\ \A i \in 1 .. Len(a) : f[j][i] = a[i]
      BY <3>1, <3>2, ConcatProperties
    <3> QED
      BY <3>3 DEF a, b
  <2>5. Len(f[k]) \in Nat /\ Len(f[j - 1]) \in Nat /\ Len(s[j]) \in Nat
    BY <1>3, <2>1
  <2>6. Keeps(j)
    <3>1. /\ Len(f[k]) <= Len(f[j - 1])
          /\ \A i \in 1 .. Len(f[k]) : f[j - 1][i] = f[k][i]
      BY <2>2
    <3> HIDE DEF j
    <3>2. Len(f[k]) <= Len(f[j])
      <4> DEFINE a == Len(f[k])
                 b == Len(f[j - 1])
                 c == Len(s[j])
      <4>1. a \in Nat /\ b \in Nat /\ c \in Nat /\ a <= b /\ Len(f[j]) = b + c
        BY <2>4, <2>5, <3>1
      <4> HIDE DEF a, b, c
      <4>2. a <= Len(f[j])
        BY <4>1
      <4> QED
        BY <4>2 DEF a
    <3>3. \A i \in 1 .. Len(f[k]) : i \in 1 .. Len(f[j - 1])
      BY <2>5, <3>1
    <3> QED
      BY <2>4, <3>1, <3>2, <3>3
  <2> QED
    BY <2>6
<1>7. Nat \subseteq T
  <2> HIDE DEF T
  <2> QED
    BY <1>5, <1>6, NatSetInduction
<1>8. Keeps(Len(s))
  <2>1. Len(s) - k \in Nat /\ k + (Len(s) - k) = Len(s) /\ Len(s) \in 1 .. Len(s)
    BY <1>2
  <2>2. Len(s) - k \in T
    BY <1>7, <2>1
  <2>3. Keeps(k + (Len(s) - k))
    BY <2>1, <2>2
  <2> QED
    BY <2>1, <2>3
<1>9. \A i \in 1 .. Len(s[k]) : Len(f[k]) - Len(s[k]) + i \in 1 .. Len(f[k])
  <2>1. CASE k = 1
    BY <1>3, <1>4, <2>1
  <2>2. CASE k # 1
    <3>1. k - 1 \in 1 .. Len(s)
      BY <1>2, <2>2
    <3> DEFINE a == Len(f[k])
               b == Len(f[k - 1])
               c == Len(s[k])
    <3>2. a = c + b /\ b \in Nat /\ c \in Nat
      BY <1>3, <1>4, <2>2, <3>1
    <3> HIDE DEF a, b, c
    <3>3. \A i \in 1 .. c : a - c + i \in 1 .. a
      BY <3>2
    <3> QED
      BY <3>3 DEF a, c
  <2> QED
    BY <2>1, <2>2
<1> QED
  BY <1>1, <1>3, <1>4, <1>8, <1>9 DEF Lies


\* A sequence found in another one is a part of it.
LEMMA Slice ==
  ASSUME NEW S, NEW w \in Seq(S), NEW a \in Seq(S), NEW off \in Nat,
         off + Len(a) <= Len(w), \A i \in 1 .. Len(a) : w[off + i] = a[i]
  PROVE  SubSeq(w, off + 1, off + Len(a)) = a
<1> DEFINE b == SubSeq(w, off + 1, off + Len(a))
<1>1. Len(w) \in Nat /\ Len(a) \in Nat
  BY LenProperties
<1>2. \A i \in off + 1 .. off + Len(a) : w[i] \in S
  <2>1. \A i \in off + 1 .. off + Len(a) : i \in 1 .. Len(w)
    BY <1>1
  <2> QED
    BY <2>1, ElementOfSeq
<1>3. off + 1 \in Int /\ off + Len(a) \in Int
  BY <1>1
<1>4. /\ b \in Seq(S)
      /\ Len(b) = IF off + 1 <= off + Len(a) THEN (off + Len(a)) - (off + 1) + 1 ELSE 0
      /\ \A i \in 1 .. (off + Len(a)) - (off + 1) + 1 : b[i] = w[(off + 1) + i - 1]
  BY <1>2, <1>3, SubSeqProperties
<1>5. Len(b) = Len(a)
  BY <1>1, <1>4
<1>6. ASSUME NEW i \in 1 .. Len(b)
      PROVE  b[i] = a[i]
  <2>1. i \in 1 .. (off + Len(a)) - (off + 1) + 1 /\ (off + 1) + i - 1 = off + i /\ i \in 1 .. Len(a)
    BY <1>1, <1>5
  <2> QED
    BY <1>4, <2>1
<1> HIDE DEF b
<1>7. b = a
  BY <1>4, <1>5, <1>6, SeqEqual
<1> QED
  BY <1>7 DEF b

----------------------------------------------------------------------------
(* The words of one kind's edges.                                          *)

\* A node number that a table of ns symbols can decode, and an edge of kind k
\* of such nodes.
Good(c, ns) == c \in Words /\ (c % 2 = 1 => c \div 2 < ns)
GoodEdge(k, e, ns) ==
  /\ e \in Seq(Words) /\ Len(e) = Components[k]
  /\ Good(e[1], ns) /\ Good(e[2], ns)

\* Edges of kind k, and the words of those after the first m.
GoodEdges(k, s, ns) ==
  /\ s \in Seq(Seq(Words)) /\ Len(s) \in Words
  /\ \A n \in 1 .. Len(s) : GoodEdge(k, s[n], ns)
Rest(s, m) == FlattenSeq([n \in 1 .. Len(s) - m |-> EncodeEdge(s, m + n)])

LEMMA KindsType ==
  /\ Len(Components) \in Nat \ {0} /\ Kinds = 1 .. Len(Components)
  /\ \A k \in Kinds : Components[k] \in {2, 3}
  BY CodecAssumption, EmptySeq, LenProperties, ElementOfSeq DEF Kinds

\* One edge takes as many words as it has components.
LEMMA EncodeEdgeType ==
  ASSUME NEW k \in Kinds, NEW ns, NEW s, GoodEdges(k, s, ns), NEW n \in 1 .. Len(s)
  PROVE  /\ Prev(s, n) \in Words
         /\ EncodeEdge(s, n) \in Seq(Words)
         /\ Len(EncodeEdge(s, n)) = Components[k]
         /\ EncodeEdge(s, n)[1] = ToDelta(Prev(s, n), s[n][1])
         /\ EncodeEdge(s, n)[2] = ToDelta(s[n][1], s[n][2])
         /\ SubSeq(EncodeEdge(s, n), 3, Components[k]) = SubSeq(s[n], 3, Len(s[n]))
<1>1. s[n] \in Seq(Words) /\ Len(s[n]) = Components[k] /\ s[n][1] \in Words /\ s[n][2] \in Words
  BY DEF GoodEdges, GoodEdge, Good
<1>2. Prev(s, n) \in Words
  <2>1. CASE n = 1
    BY <2>1, HalfAssumption DEF Prev, Words
  <2>2. CASE n # 1
    <3>1. Len(s) \in Nat
      BY DEF GoodEdges, Words
    <3>2. n - 1 \in 1 .. Len(s)
      BY <2>2, <3>1
    <3> QED
      BY <2>2, <3>2 DEF Prev, GoodEdges, GoodEdge, Good
  <2> QED
    BY <2>1, <2>2
<1> DEFINE a == ToDelta(Prev(s, n), s[n][1])
           b == ToDelta(s[n][1], s[n][2])
           t == SubSeq(s[n], 3, Len(s[n]))
           e == EncodeEdge(s, n)
<1>3. a \in Words /\ b \in Words
  BY <1>1, <1>2, DeltaRoundTrip
<1>4. Components[k] \in {2, 3}
  BY KindsType
<1>5. t \in Seq(Words) /\ Len(t) = Components[k] - 2
  <2>1. \A i \in 3 .. Len(s[n]) : s[n][i] \in Words
    <3>1. \A i \in 3 .. Len(s[n]) : i \in 1 .. Len(s[n])
      BY <1>1, <1>4
    <3> QED
      BY <1>1, <3>1, ElementOfSeq
  <2>2. 3 \in Int /\ Len(s[n]) \in Int
    BY <1>1, <1>4
  <2>3. t \in Seq(Words) /\ Len(t) = IF 3 <= Len(s[n]) THEN Len(s[n]) - 3 + 1 ELSE 0
    BY <2>1, <2>2, SubSeqProperties
  <2> QED
    BY <1>1, <1>4, <2>3
<1>6. e = <<a, b>> \o t
  BY DEF EncodeEdge
<1>7. <<a, b>> \in Seq(Words) /\ Len(<<a, b>>) = 2
  BY <1>3
<1> HIDE DEF a, b, t, e
<1>8. e \in Seq(Words) /\ Len(e) = Components[k] /\ e[1] = a /\ e[2] = b
  BY <1>4, <1>5, <1>6, <1>7, ConcatProperties
<1>9. \A i \in 1 .. Len(t) : e[2 + i] = t[i]
  BY <1>5, <1>6, <1>7, ConcatProperties
<1>10. SubSeq(e, 2 + 1, 2 + Len(t)) = t
  BY <1>4, <1>5, <1>8, <1>9, Slice
<1>11. 2 + 1 = 3 /\ 2 + Len(t) = Components[k]
  BY <1>4, <1>5
<1> QED
  BY <1>2, <1>8, <1>10, <1>11 DEF a, b, t, e


LEMMA FunctionIsSeq ==
  ASSUME NEW S, NEW N \in Nat, NEW r \in [1 .. N -> S]
  PROVE  r \in Seq(S) /\ Len(r) = N
BY SeqDef

LEMMA CatWords ==
  \A x, y \in Seq(Words) :
    /\ x \o y \in Seq(Words) /\ Len(x \o y) = Len(x) + Len(y)
    /\ Len(x) \in Nat /\ Len(y) \in Nat
    /\ \A i \in 1 .. Len(x) : (x \o y)[i] = x[i]
    /\ \A i \in 1 .. Len(y) : (x \o y)[Len(x) + i] = y[i]
<1> TAKE x, y \in Seq(Words)
<1>1. /\ x \o y \in Seq(Words) /\ Len(x \o y) = Len(x) + Len(y)
      /\ \A i \in 1 .. Len(x) + Len(y) :
           (x \o y)[i] = IF i <= Len(x) THEN x[i] ELSE y[i - Len(x)]
  BY ConcatProperties
<1>2. Len(x) \in Nat /\ Len(y) \in Nat
  BY LenProperties
<1> QED
  BY <1>1, <1>2

\* What is left of the edges after m of them is a sequence of words.
LEMMA RestType ==
  ASSUME NEW k \in Kinds, NEW ns, NEW s, GoodEdges(k, s, ns), NEW m \in 0 .. Len(s)
  PROVE  Rest(s, m) \in Seq(Words)
<1> DEFINE r == [n \in 1 .. Len(s) - m |-> EncodeEdge(s, m + n)]
<1>1. Len(s) \in Nat
  BY DEF GoodEdges, Words
<1>2. \A n \in 1 .. Len(s) - m : EncodeEdge(s, m + n) \in Seq(Words)
  <2>1. \A n \in 1 .. Len(s) - m : m + n \in 1 .. Len(s)
    BY <1>1
  <2> QED
    BY <2>1, EncodeEdgeType
<1>3. r \in Seq(Seq(Words))
  <2>1. r \in [1 .. Len(s) - m -> Seq(Words)]
    BY <1>2, Zenon
  <2>2. Len(s) - m \in Nat
    BY <1>1
  <2> HIDE DEF r
  <2> QED
    BY <2>1, <2>2, FunctionIsSeq, Zenon
<1> HIDE DEF r
<1>4. FlattenSeq(r) \in Seq(Words)
  BY <1>3, FlattenType
<1> QED
  BY <1>4 DEF Rest, r

\* Without the first of its edges.
LEMMA RestStep ==
  ASSUME NEW k \in Kinds, NEW ns, NEW s, GoodEdges(k, s, ns), NEW m \in 0 .. Len(s) - 1
  PROVE  Rest(s, m) = EncodeEdge(s, m + 1) \o Rest(s, m + 1)
<1> DEFINE r == [n \in 1 .. Len(s) - m |-> EncodeEdge(s, m + n)]
           q == [n \in 1 .. Len(s) - (m + 1) |-> EncodeEdge(s, (m + 1) + n)]
<1>1. Len(s) \in Nat
  BY DEF GoodEdges, Words
<1>2. \A n \in 1 .. Len(s) - m : EncodeEdge(s, m + n) \in Seq(Words)
  <2>1. \A n \in 1 .. Len(s) - m : m + n \in 1 .. Len(s)
    BY <1>1
  <2> QED
    BY <2>1, EncodeEdgeType
<1>3. /\ Len(s) - m \in Nat \ {0} /\ r \in [1 .. Len(s) - m -> Seq(Words)]
      /\ r[1] = EncodeEdge(s, m + 1)
  <2>1. Len(s) - m \in Nat \ {0} /\ 1 \in 1 .. Len(s) - m
    BY <1>1
  <2> QED
    BY <1>2, <2>1, Zenon
<1>4. \A n \in 1 .. Len(s) - (m + 1) : /\ n \in 1 .. Len(s) - m /\ n + 1 \in 1 .. Len(s) - m
                                       /\ (m + 1) + n = m + (n + 1)
  BY <1>1
<1>5. q \in [1 .. Len(s) - (m + 1) -> Seq(Words)] /\ Len(s) - (m + 1) \in Nat
  <2>1. \A n \in 1 .. Len(s) - (m + 1) : EncodeEdge(s, (m + 1) + n) \in Seq(Words)
    BY <1>2, <1>4
  <2>2. Len(s) - (m + 1) \in Nat
    BY <1>1
  <2> QED
    BY <2>1, <2>2, Zenon
<1>6. \A n \in 1 .. Len(s) - (m + 1) : q[n] = r[n + 1]
  BY <1>4
<1> HIDE DEF r, q
<1>7. /\ r \in Seq(Seq(Words)) /\ r # <<>> /\ Len(r) = Len(s) - m
      /\ q \in Seq(Seq(Words)) /\ Len(q) = Len(s) - (m + 1)
  <2>1. r \in Seq(Seq(Words)) /\ q \in Seq(Seq(Words))
    <3>1. Len(s) - m \in Nat
      BY <1>3
    <3> QED
      BY <1>3, <1>5, <3>1, FunctionIsSeq, Zenon
  <2>2. Len(r) = Len(s) - m /\ Len(q) = Len(s) - (m + 1)
    <3>1. Len(s) - m \in Nat /\ \A n \in Nat : \A f \in [1 .. n -> Seq(Words)] : Len(f) = n
      BY <1>3, FunctionIsSeq
    <3>2. Len(r) = Len(s) - m
      BY <1>3, <3>1, Zenon
    <3>3. Len(q) = Len(s) - (m + 1)
      BY <1>5, <3>1, Zenon
    <3> QED
      BY <3>2, <3>3
  <2> QED
    BY <1>3, <2>1, <2>2, EmptySeq
<1>8. q = Tail(r)
  <2>1. Len(q) = Len(r) - 1
    BY <1>1, <1>7
  <2>2. /\ Tail(r) \in Seq(Seq(Words)) /\ Len(Tail(r)) = Len(q)
        /\ \A i \in 1 .. Len(Tail(r)) : Tail(r)[i] = r[i + 1]
    BY <1>7, <2>1, HeadTailProperties
  <2>3. \A i \in 1 .. Len(q) : q[i] = Tail(r)[i]
    BY <1>6, <1>7, <2>2
  <2> QED
    BY <1>7, <2>2, <2>3, SeqEqual
<1>9. FlattenSeq(r) = r[1] \o FlattenSeq(q)
  BY <1>7, <1>8, FlattenFront
<1> QED
  BY <1>3, <1>9 DEF Rest, r, q

\* All edges of a kind take their number times the components.
LEMMA RestLength ==
  ASSUME NEW k \in Kinds, NEW ns, NEW s, GoodEdges(k, s, ns)
  PROVE  /\ Rest(s, Len(s)) = <<>>
         /\ Len(Rest(s, 0)) = Components[k] * Len(s)
<1>1. Len(s) \in Nat
  BY DEF GoodEdges, Words
<1>2. Rest(s, Len(s)) = <<>>
  <2>1. [n \in 1 .. Len(s) - Len(s) |-> EncodeEdge(s, Len(s) + n)] = <<>>
    <3>1. 1 .. Len(s) - Len(s) = {}
      BY <1>1
    <3> DEFINE r == [n \in 1 .. Len(s) - Len(s) |-> EncodeEdge(s, Len(s) + n)]
    <3>2. r = [n \in {} |-> EncodeEdge(s, Len(s) + n)]
      BY <3>1
    <3> QED
      BY <3>2, SeqDef, EmptySeq
  <2> QED
    BY <2>1, FlattenEmpty DEF Rest
<1>3. Components[k] \in {2, 3}
  BY KindsType
<1> DEFINE T == {n \in Nat : n <= Len(s) => Len(Rest(s, Len(s) - n)) = Components[k] * n}
<1>4. 0 \in T
  <2>1. Len(s) - 0 = Len(s) /\ Components[k] * 0 = 0
    BY <1>1, <1>3
  <2> QED
    BY <1>2, <2>1, EmptySeq
<1>5. ASSUME NEW n \in Nat, n \in T
      PROVE  n + 1 \in T
  <2> SUFFICES ASSUME n + 1 <= Len(s)
               PROVE  Len(Rest(s, Len(s) - (n + 1))) = Components[k] * (n + 1)
    OBVIOUS
  <2> DEFINE m == Len(s) - (n + 1)
  <2>1. /\ m \in 0 .. Len(s) - 1 /\ m + 1 = Len(s) - n /\ m + 1 \in 1 .. Len(s) /\ m + 1 \in 0 .. Len(s)
        /\ n <= Len(s)
    BY <1>1
  <2> HIDE DEF m
  <2>2. Rest(s, m) = EncodeEdge(s, m + 1) \o Rest(s, m + 1)
    BY <2>1, RestStep
  <2>3. /\ EncodeEdge(s, m + 1) \in Seq(Words) /\ Len(EncodeEdge(s, m + 1)) = Components[k]
        /\ Rest(s, m + 1) \in Seq(Words)
    <3>1. EncodeEdge(s, m + 1) \in Seq(Words) /\ Len(EncodeEdge(s, m + 1)) = Components[k]
      BY <2>1, EncodeEdgeType
    <3>2. Rest(s, m + 1) \in Seq(Words)
      BY <2>1, RestType
    <3> QED
      BY <3>1, <3>2
  <2>4. Len(Rest(s, m + 1)) = Components[k] * n
    BY <1>5, <2>1
  <2>5. Len(Rest(s, m)) = Components[k] + Components[k] * n
    <3>1. Len(Rest(s, m)) = Len(EncodeEdge(s, m + 1)) + Len(Rest(s, m + 1))
      <4> DEFINE a == EncodeEdge(s, m + 1)
                 b == Rest(s, m + 1)
      <4>1. a \in Seq(Words) /\ b \in Seq(Words) /\ Rest(s, m) = a \o b
        BY <2>2, <2>3
      <4> HIDE DEF a, b
      <4>2. Len(a \o b) = Len(a) + Len(b)
        BY <4>1, CatWords
      <4> QED
        BY <4>1, <4>2 DEF a, b
    <3> QED
      BY <2>3, <2>4, <3>1
  <2>6. Components[k] + Components[k] * n = Components[k] * (n + 1)
    BY <1>3
  <2> QED
    BY <2>5, <2>6 DEF m
<1>6. Len(s) \in T
  <2>1. Nat \subseteq T
    <3> HIDE DEF T
    <3> QED
      BY <1>4, <1>5, NatSetInduction
  <2> QED
    BY <1>1, <2>1
<1>7. Len(s) - Len(s) = 0 /\ Len(s) <= Len(s)
  BY <1>1
<1> QED
  BY <1>2, <1>6, <1>7

\* Behind their number.
Encoded(s) ==
  /\ Encode(s) \in Seq(Words) /\ Rest(s, 0) \in Seq(Words)
  /\ Len(Encode(s)) = 1 + Len(Rest(s, 0)) /\ Encode(s)[1] = Len(s)
  /\ \A i \in 1 .. Len(Rest(s, 0)) : Encode(s)[1 + i] = Rest(s, 0)[i]

\* The words of a kind are the count and then all of its edges.
LEMMA EncodeIsRest ==
  ASSUME NEW k \in Kinds, NEW ns, NEW s, GoodEdges(k, s, ns)
  PROVE  Encoded(s)
<1>1. Len(s) \in Nat /\ Len(s) \in Words /\ DOMAIN s = 1 .. Len(s)
  BY LenProperties DEF GoodEdges, Words
<1>2. Encode(s) = <<Len(s)>> \o Rest(s, 0)
  <2> DEFINE a == [n \in DOMAIN s |-> EncodeEdge(s, n)]
             b == [n \in 1 .. Len(s) - 0 |-> EncodeEdge(s, 0 + n)]
  <2>1. Len(s) - 0 = Len(s) /\ \A n \in 1 .. Len(s) : 0 + n = n
    BY <1>1
  <2>2. DOMAIN a = 1 .. Len(s) /\ DOMAIN b = 1 .. Len(s)
    BY <1>1, <2>1
  <2>3. \A n \in 1 .. Len(s) : a[n] = b[n]
    BY <1>1, <2>1
  <2>4. a = b
    BY <1>1, <2>1
  <2> QED
    BY <2>4 DEF Encode, Rest
<1>3. Rest(s, 0) \in Seq(Words)
  BY <1>1, RestType
<1>4. <<Len(s)>> \in Seq(Words) /\ Len(<<Len(s)>>) = 1 /\ <<Len(s)>>[1] = Len(s)
  BY <1>1
<1> DEFINE h == <<Len(s)>>
           r == Rest(s, 0)
<1> HIDE DEF h, r
<1>5. /\ h \in Seq(Words) /\ Len(h) = 1 /\ h[1] = Len(s) /\ r \in Seq(Words) /\ Len(r) \in Nat
      /\ Encode(s) = h \o r
  BY <1>2, <1>3, <1>4, LenProperties DEF h, r
<1>6. /\ Encode(s) \in Seq(Words) /\ Len(Encode(s)) = 1 + Len(r) /\ Encode(s)[1] = Len(s)
      /\ \A i \in 1 .. Len(r) : Encode(s)[1 + i] = r[i]
  <2>1. /\ h \o r \in Seq(Words) /\ Len(h \o r) = Len(h) + Len(r)
        /\ \A i \in 1 .. Len(h) : (h \o r)[i] = h[i]
        /\ \A i \in 1 .. Len(r) : (h \o r)[Len(h) + i] = r[i]
    BY <1>5, CatWords, Zenon
  <2>2. 1 \in 1 .. Len(h)
    BY <1>5
  <2> QED
    BY <1>5, <2>1, <2>2, Zenon
<1> QED
  BY <1>3, <1>6 DEF r, Encoded


----------------------------------------------------------------------------
(* The words of a function.                                                *)

\* Edges of each kind, and their words.
Lists(es, ns) == es \in [Kinds -> Seq(Seq(Words))] /\ \A k \in Kinds : GoodEdges(k, es[k], ns)
Stream(es) == FlattenSeq([k \in Kinds |-> Encode(es[k])])

LEMMA Encodings ==
  ASSUME NEW ns, NEW es, Lists(es, ns)
  PROVE  /\ [k \in Kinds |-> Encode(es[k])] \in Seq(Seq(Words))
         /\ Len([k \in Kinds |-> Encode(es[k])]) = Len(Components)
         /\ Stream(es) \in Seq(Words)
<1> DEFINE e == [k \in Kinds |-> Encode(es[k])]
<1>1. \A k \in Kinds : Encode(es[k]) \in Seq(Words)
  <2> SUFFICES ASSUME NEW k \in Kinds
               PROVE  Encode(es[k]) \in Seq(Words)
    OBVIOUS
  <2>1. GoodEdges(k, es[k], ns)
    BY DEF Lists
  <2> QED
    BY <2>1, EncodeIsRest DEF Encoded
<1>2. e \in [1 .. Len(Components) -> Seq(Words)] /\ Len(Components) \in Nat
  BY <1>1, KindsType
<1> HIDE DEF e
<1>3. e \in Seq(Seq(Words)) /\ Len(e) = Len(Components)
  BY <1>2, FunctionIsSeq
<1>4. FlattenSeq(e) \in Seq(Words)
  BY <1>3, FlattenType
<1> QED
  BY <1>3, <1>4 DEF Stream, e

\* Where the words of each kind are in the stream, if it begins with five other
\* words.  Stretch(w, es, off): those of kind k start behind off[k].
Stretch(w, es, off) ==
  /\ off[1] = 0 /\ off[Len(Components) + 1] = Len(Stream(es))
  /\ \A k \in Kinds :
       /\ off[k] \in Nat /\ off[k + 1] = off[k] + 1 + Len(Rest(es[k], 0))
       /\ off[k + 1] <= Len(Stream(es))
       /\ w[6 + off[k]] = Len(es[k])
       /\ \A i \in 1 .. Len(Rest(es[k], 0)) : w[6 + off[k] + i] = Rest(es[k], 0)[i]

\* Each kind has its stretch of the words of a function.
LEMMA Stretches ==
  ASSUME NEW ns, NEW es, Lists(es, ns), NEW w,
         \A i \in 1 .. Len(Stream(es)) : w[5 + i] = Stream(es)[i]
  PROVE  \E off : Stretch(w, es, off)
<1> DEFINE e == [k \in Kinds |-> Encode(es[k])]
           N == Len(Components)
<1>0. /\ e \in Seq(Seq(Words)) /\ Len(e) = N /\ e # <<>> /\ N \in Nat \ {0} /\ Kinds = 1 .. N
      /\ Stream(es) = FlattenSeq(e) /\ Stream(es) \in Seq(Words) /\ Len(Stream(es)) \in Nat
  BY Encodings, KindsType, EmptySeq, LenProperties DEF Stream
<1>1. \A k \in Kinds : e[k] = Encode(es[k])
  OBVIOUS
<1> HIDE DEF e, N
<1>2. PICK f : Grows(Words, e, f)
  BY <1>0, FlattenGrows
<1> DEFINE off == [k \in 1 .. N + 1 |-> IF k = 1 THEN 0 ELSE Len(f[k - 1])]
<1>3. off[1] = 0 /\ off[N + 1] = Len(Stream(es))
  <2>1. 1 \in 1 .. N + 1 /\ N + 1 \in 1 .. N + 1 /\ N + 1 # 1 /\ (N + 1) - 1 = N
    BY <1>0
  <2>2. FlattenSeq(e) = f[N]
    BY <1>0, <1>2 DEF Grows
  <2> QED
    BY <1>0, <2>1, <2>2
<1>4. ASSUME NEW k \in Kinds
      PROVE  /\ off[k] \in Nat /\ off[k + 1] = off[k] + 1 + Len(Rest(es[k], 0))
             /\ off[k + 1] <= Len(Stream(es))
             /\ w[6 + off[k]] = Len(es[k])
             /\ \A i \in 1 .. Len(Rest(es[k], 0)) : w[6 + off[k] + i] = Rest(es[k], 0)[i]
  <2> DEFINE r == Rest(es[k], 0)
             o == off[k]
  <2>1. /\ k \in 1 .. Len(e) /\ k \in 1 .. N + 1 /\ k + 1 \in 1 .. N + 1 /\ k + 1 # 1 /\ (k + 1) - 1 = k
        /\ k # 1 => k - 1 \in 1 .. Len(e)
    BY <1>0
  <2>2. /\ Len(f[k]) \in Nat /\ Len(e[k]) \in Nat
        /\ Len(f[k]) = Len(e[k]) + IF k = 1 THEN 0 ELSE Len(f[k - 1])
        /\ Len(f[k]) <= Len(FlattenSeq(e))
        /\ \A i \in 1 .. Len(e[k]) : FlattenSeq(e)[Len(f[k]) - Len(e[k]) + i] = e[k][i]
    <3>1. Lies(e, f, k)
      BY <1>0, <1>2, <2>1, FlattenAt
    <3> QED
      BY <3>1 DEF Lies
  <2>3. off[k + 1] = Len(f[k]) /\ o = IF k = 1 THEN 0 ELSE Len(f[k - 1])
    BY <2>1
  <2>4. k # 1 => Len(f[k - 1]) \in Nat
    BY <1>0, <1>2, <2>1, FlattenAt DEF Lies
  <2>5. o \in Nat
    BY <2>3, <2>4
  <2>6. /\ Len(e[k]) = 1 + Len(r) /\ e[k][1] = Len(es[k]) /\ Len(r) \in Nat
        /\ \A i \in 1 .. Len(r) : e[k][1 + i] = r[i]
    <3>1. GoodEdges(k, es[k], ns)
      BY DEF Lists
    <3> QED
      <4>1. /\ Len(Encode(es[k])) = 1 + Len(Rest(es[k], 0)) /\ Encode(es[k])[1] = Len(es[k])
            /\ Rest(es[k], 0) \in Seq(Words)
            /\ \A i \in 1 .. Len(Rest(es[k], 0)) : Encode(es[k])[1 + i] = Rest(es[k], 0)[i]
        <5>1. Encoded(es[k])
          BY <3>1, EncodeIsRest
        <5> QED
          BY <5>1 DEF Encoded
      <4>2. Len(Rest(es[k], 0)) \in Nat
        BY <4>1, LenProperties
      <4> QED
        BY <1>1, <4>1, <4>2, Zenon
  <2> HIDE DEF off, r, o
  <2>7. off[k + 1] = o + 1 + Len(r) /\ off[k + 1] <= Len(Stream(es)) /\ off[k + 1] - Len(e[k]) = o
    <3> DEFINE a == Len(f[k])
               b == Len(e[k])
               c == Len(r)
    <3>1. /\ a = b + o /\ a <= Len(Stream(es)) /\ b = 1 + c /\ c \in Nat /\ o \in Nat /\ off[k + 1] = a
      BY <1>0, <2>2, <2>3, <2>5, <2>6
    <3> HIDE DEF a, b, c
    <3>2. a = o + 1 + c /\ a - b = o
      BY <3>1
    <3> QED
      BY <3>1, <3>2 DEF b, c
  <2>8. \A i \in 1 .. Len(e[k]) : w[5 + (o + i)] = e[k][i]
    <3>1. \A i \in 1 .. Len(e[k]) : o + i \in 1 .. Len(Stream(es))
      BY <1>0, <2>5, <2>6, <2>7
    <3>2. \A i \in 1 .. Len(e[k]) : Stream(es)[o + i] = e[k][i]
      BY <1>0, <2>2, <2>3, <2>7
    <3> QED
      BY <3>1, <3>2
  <2>9. w[6 + o] = Len(es[k])
    <3>1. 1 \in 1 .. Len(e[k]) /\ 5 + (o + 1) = 6 + o
      BY <2>5, <2>6
    <3> QED
      BY <2>6, <2>8, <3>1
  <2>10. ASSUME NEW i \in 1 .. Len(r)
         PROVE  w[6 + o + i] = r[i]
    <3>1. 1 + i \in 1 .. Len(e[k]) /\ 5 + (o + (1 + i)) = 6 + o + i
      BY <2>5, <2>6
    <3>2. w[5 + (o + (1 + i))] = e[k][1 + i]
      BY <2>8, <3>1
    <3> QED
      BY <2>6, <3>1, <3>2
  <2> QED
    BY <2>5, <2>7, <2>9, <2>10 DEF o, r
<1> HIDE DEF off
<1> QED
  BY <1>3, <1>4 DEF Stretch, N


\* next_words finds the words of each kind and the end of the function's.
Found(w, es) ==
  /\ StartOf(w)[Len(Components) + 1] = 6 + Len(Stream(es))
  /\ \A k \in Kinds : SubSeq(w, StartOf(w)[k] + 1, StartOf(w)[k + 1] - 1) = Rest(es[k], 0)

\* The reader finds the start of each kind where the writer put it (Reader.cpp next_words).
LEMMA StartsFound ==
  ASSUME NEW ns, NEW es, Lists(es, ns), NEW w \in Seq(Words),
         5 + Len(Stream(es)) <= Len(w),
         \A i \in 1 .. Len(Stream(es)) : w[5 + i] = Stream(es)[i]
  PROVE  Found(w, es)
<1> DEFINE N == Len(Components)
           total == Len(Stream(es))
<1>0. /\ N \in Nat \ {0} /\ Kinds = 1 .. N /\ total \in Nat /\ Len(w) \in Nat
      /\ 5 + total <= Len(w)
  BY KindsType, Encodings, LenProperties
<1>1. PICK off : Stretch(w, es, off)
  BY Stretches
<1> DEFINE sol == [k \in 1 .. N + 1 |-> 6 + off[k]]
           Step(k, x) == IF x > Len(w) THEN Len(w) + 2 ELSE x + 1 + Components[k] * w[x]
           Is(g) == g = [k \in 1 .. N + 1 |-> IF k = 1 THEN 6 ELSE
                                               IF g[k - 1] > Len(w) THEN Len(w) + 2
                                               ELSE g[k - 1] + 1 + Components[k - 1] * w[g[k - 1]]]
           start == CHOOSE g : Is(g)
<1>2. off[1] = 0 /\ off[N + 1] = total
  BY <1>1 DEF Stretch
<1>3. ASSUME NEW k \in Kinds
      PROVE  /\ off[k] \in Nat /\ off[k + 1] \in Nat
             /\ off[k + 1] = off[k] + 1 + Len(Rest(es[k], 0))
             /\ off[k + 1] <= total
             /\ w[6 + off[k]] = Len(es[k])
             /\ \A i \in 1 .. Len(Rest(es[k], 0)) : w[6 + off[k] + i] = Rest(es[k], 0)[i]
             /\ Rest(es[k], 0) \in Seq(Words)
             /\ Len(Rest(es[k], 0)) = Components[k] * Len(es[k]) /\ Len(Rest(es[k], 0)) \in Nat
  <2>1. GoodEdges(k, es[k], ns)
    BY DEF Lists
  <2>2. Rest(es[k], 0) \in Seq(Words)
    BY <2>1, EncodeIsRest DEF Encoded
  <2>3. Len(Rest(es[k], 0)) = Components[k] * Len(es[k]) /\ Len(Rest(es[k], 0)) \in Nat
    BY <2>1, <2>2, RestLength, LenProperties
  <2>4. /\ off[k] \in Nat /\ off[k + 1] = off[k] + 1 + Len(Rest(es[k], 0))
        /\ off[k + 1] <= total
        /\ w[6 + off[k]] = Len(es[k])
        /\ \A i \in 1 .. Len(Rest(es[k], 0)) : w[6 + off[k] + i] = Rest(es[k], 0)[i]
    BY <1>1 DEF Stretch
  <2>5. off[k + 1] \in Nat
    BY <2>3, <2>4
  <2> QED
    BY <2>2, <2>3, <2>4, <2>5
<1> HIDE DEF N, total
<1>4. ASSUME NEW k \in Kinds
      PROVE  sol[k + 1] = Step(k, sol[k])
  <2>1. k \in 1 .. N + 1 /\ k + 1 \in 1 .. N + 1
    BY <1>0
  <2>2. sol[k] = 6 + off[k] /\ sol[k + 1] = 6 + off[k + 1]
    BY <2>1
  <2> DEFINE a == off[k]
             b == off[k + 1]
             c == Len(Rest(es[k], 0))
  <2>3. a \in Nat /\ c \in Nat /\ b = a + 1 + c /\ b <= total
    BY <1>3
  <2>4. c = Components[k] * w[6 + a]
    BY <1>3
  <2> HIDE DEF a, b, c
  <2>5. 6 + b = Step(k, 6 + a)
    <3>1. ~(6 + a > Len(w))
      BY <1>0, <2>3
    <3>2. 6 + b = (6 + a) + 1 + c
      BY <2>3
    <3> QED
      BY <2>4, <3>1, <3>2
  <2> QED
    BY <2>2, <2>5 DEF a, b
<1>5. sol[1] = 6
  BY <1>0, <1>2
<1>6. Is(sol)
  <2>1. ASSUME NEW k \in 1 .. N + 1, k # 1
        PROVE  sol[k] = Step(k - 1, sol[k - 1])
    <3>1. k - 1 \in Kinds /\ (k - 1) + 1 = k
      BY <1>0, <2>1
    <3>2. sol[(k - 1) + 1] = Step(k - 1, sol[k - 1])
      BY <1>4, <3>1
    <3> HIDE DEF sol, Step
    <3> QED
      BY <3>1, <3>2
  <2>2. sol = [k \in 1 .. N + 1 |-> sol[k]]
    OBVIOUS
  <2> HIDE DEF sol
  <2>3. \A k \in 1 .. N + 1 : sol[k] = IF k = 1 THEN 6 ELSE Step(k - 1, sol[k - 1])
    BY <1>5, <2>1
  <2> QED
    BY <2>2, <2>3
<1>7. Is(start)
  <2> HIDE DEF sol, Is
  <2> QED
    BY <1>6
<1>8. StartOf(w) = start
  BY DEF StartOf, N
<1> HIDE DEF start
<1>9. \A k \in 1 .. N + 1 : start[k] = IF k = 1 THEN 6 ELSE Step(k - 1, start[k - 1])
  BY <1>7
<1> HIDE DEF sol, Is
<1> DEFINE T == {n \in Nat : n + 1 \in 1 .. N + 1 => start[n + 1] = sol[n + 1]}
<1>10. 0 \in T
  BY <1>0, <1>5, <1>9
<1>11. ASSUME NEW n \in Nat, n \in T
       PROVE  n + 1 \in T
  <2> SUFFICES ASSUME (n + 1) + 1 \in 1 .. N + 1
               PROVE  start[(n + 1) + 1] = sol[(n + 1) + 1]
    OBVIOUS
  <2> DEFINE k == n + 1
  <2>1. k \in Kinds /\ k + 1 \in 1 .. N + 1 /\ k + 1 # 1 /\ (k + 1) - 1 = k /\ k \in 1 .. N + 1
    BY <1>0
  <2>2. start[k] = sol[k]
    BY <1>11, <2>1
  <2> HIDE DEF k, Step
  <2>3. start[k + 1] = Step(k, start[k]) /\ sol[k + 1] = Step(k, sol[k])
    BY <1>4, <1>9, <2>1
  <2>4. start[k + 1] = sol[k + 1]
    BY <2>2, <2>3
  <2> QED
    BY <2>4 DEF k
<1>12. ASSUME NEW k \in 1 .. N + 1
       PROVE  start[k] = 6 + off[k]
  <2>1. k - 1 \in Nat /\ (k - 1) + 1 = k
    BY <1>0
  <2>2. k - 1 \in T
    <3> HIDE DEF T
    <3> QED
      BY <1>10, <1>11, <2>1, NatSetInduction
  <2>3. start[k] = sol[k]
    BY <2>1, <2>2
  <2> QED
    BY <2>3 DEF sol
<1>13. start[N + 1] = 6 + total
  BY <1>0, <1>2, <1>12
<1>14. ASSUME NEW k \in Kinds
       PROVE  SubSeq(w, start[k] + 1, start[k + 1] - 1) = Rest(es[k], 0)
  <2> DEFINE a == off[k]
             r == Rest(es[k], 0)
             c == Len(r)
  <2>1. /\ a \in Nat /\ c \in Nat /\ off[k + 1] = a + 1 + c /\ a + 1 + c <= total
        /\ r \in Seq(Words) /\ \A i \in 1 .. c : w[6 + a + i] = r[i]
    BY <1>3
  <2>2. start[k] = 6 + a /\ start[k + 1] = 6 + off[k + 1]
    BY <1>0, <1>12
  <2> HIDE DEF a, r
  <2>3. /\ 6 + a \in Nat /\ (6 + a) + c <= Len(w)
        /\ start[k] + 1 = (6 + a) + 1 /\ start[k + 1] - 1 = (6 + a) + c
    BY <1>0, <2>1, <2>2
  <2>4. \A i \in 1 .. Len(r) : w[(6 + a) + i] = r[i]
    BY <2>1
  <2>5. SubSeq(w, (6 + a) + 1, (6 + a) + Len(r)) = r
    BY <2>1, <2>3, <2>4, Slice
  <2> QED
    BY <2>3, <2>5 DEF r
<1> QED
  BY <1>8, <1>13, <1>14 DEF Found, N, total


----------------------------------------------------------------------------
(* What the words of a function say.                                       *)

\* decode_node and the edge of three words, with the table of symbols sy, in
\* the function f.
Decode(sy, f, c) == IF c % 2 = 1 THEN GlobalNode(sy[(c \div 2) + 1]) ELSE LocalNode(f, c \div 2)
DecodeEdge(sy, f, e) == <<Decode(sy, f, e[1]), Decode(sy, f, e[2])>> \o SubSeq(e, 3, Len(e))

\* The bag of the first m edges of s.
Tally(sy, f, s, m) ==
  [x \in {DecodeEdge(sy, f, s[n]) : n \in 1 .. m} |->
     Cardinality({n \in 1 .. m : DecodeEdge(sy, f, s[n]) = x})]

\* The description that the five words h, the names nm and the edges es of a
\* function are, with the tables sy of symbols and st of strings.
DescOf(sy, st, has, h, nm, es) ==
  [fun |-> sy[h[1] + 1],
   sbom |-> Known(<<st[h[2] + 1], st[h[3] + 1]>>),
   names |-> IF has THEN [n \in 1 .. h[4] |-> st[nm[n] + 1]] ELSE <<>>,
   edges |-> [k \in Kinds |-> Tally(sy, sy[h[1] + 1], es[k], Len(es[k]))],
   allocas |-> h[5],
   locals |-> h[4]]

Descs == {DescOf(sy, st, has, h, nm, es) :
            sy \in Seq(Globals), st \in Seq(Strings), has \in BOOLEAN,
            h \in Seq(Words), nm \in Seq(Nat), es \in [Kinds -> Seq(Seq(Words))]}

\* The tables have what the words refer to.
Valid(sy, st, has, h, nm, es) ==
  /\ h \in Seq(Words) /\ Len(h) = 5
  /\ h[1] < Len(sy) /\ h[2] < Len(st) /\ h[3] < Len(st) /\ h[5] <= h[4]
  /\ nm \in Seq(Nat)
  /\ has => Len(nm) = h[4] /\ \A n \in 1 .. h[4] : nm[n] < Len(st)
  /\ Lists(es, Len(sy))

\* The words part and the names nm are the description d.
Describes(sy, st, has, part, nm, d) ==
  \E h, es : /\ Valid(sy, st, has, h, nm, es)
             /\ part = h \o Stream(es)
             /\ d = DescOf(sy, st, has, h, nm, es)

\* Tables only grow, and what was said with a table is said with a longer one.
Longer(a, b) == Len(a) <= Len(b) /\ \A n \in 1 .. Len(a) : b[n] = a[n]

LEMMA TallySame ==
  ASSUME NEW sy, NEW sz, NEW f, NEW s, NEW m,
         \A n \in 1 .. m : DecodeEdge(sy, f, s[n]) = DecodeEdge(sz, f, s[n])
  PROVE  Tally(sy, f, s, m) = Tally(sz, f, s, m)
<1> DEFINE A == {DecodeEdge(sy, f, s[n]) : n \in 1 .. m}
           B == {DecodeEdge(sz, f, s[n]) : n \in 1 .. m}
           At(x) == {n \in 1 .. m : DecodeEdge(sy, f, s[n]) = x}
           Bt(x) == {n \in 1 .. m : DecodeEdge(sz, f, s[n]) = x}
<1>1. A = B
  OBVIOUS
<1>2. \A x : At(x) = Bt(x)
  OBVIOUS
<1> HIDE DEF A, B, At, Bt
<1>3. [x \in A |-> Cardinality(At(x))] = [x \in B |-> Cardinality(Bt(x))]
  BY <1>1, <1>2
<1> QED
  BY <1>3 DEF Tally, A, B, At, Bt

\* Numbers keep their meaning when the table of symbols grows.
LEMMA DecodeSame ==
  ASSUME NEW sy \in Seq(Globals), NEW sz \in Seq(Globals), Longer(sy, sz), NEW f,
         NEW k, NEW e, GoodEdge(k, e, Len(sy))
  PROVE  DecodeEdge(sy, f, e) = DecodeEdge(sz, f, e)
<1>1. ASSUME NEW c, Good(c, Len(sy))
      PROVE  Decode(sy, f, c) = Decode(sz, f, c)
  <2>1. CASE c % 2 = 1
    <3>1. c \in Nat /\ c \div 2 < Len(sy) /\ Len(sy) \in Nat
      BY <1>1, <2>1, LenProperties DEF Good, Words
    <3>2. (c \div 2) + 1 \in 1 .. Len(sy)
      BY <3>1
    <3> QED
      BY <2>1, <3>2 DEF Decode, Longer
  <2>2. CASE c % 2 # 1
    BY <2>2 DEF Decode
  <2> QED
    BY <2>1, <2>2
<1>2. Good(e[1], Len(sy)) /\ Good(e[2], Len(sy))
  BY DEF GoodEdge
<1> QED
  BY <1>1, <1>2 DEF DecodeEdge

LEMMA GoodMore ==
  ASSUME NEW a, NEW b, a \in Nat, b \in Nat, a <= b, NEW es, Lists(es, a)
  PROVE  Lists(es, b)
<1>1. ASSUME NEW c, Good(c, a)
      PROVE  Good(c, b)
  <2>1. c \in Nat
    BY <1>1 DEF Good, Words
  <2>2. c \div 2 \in Nat
    BY <2>1
  <2> QED
    BY <1>1, <2>2 DEF Good
<1>2. \A k \in Kinds : GoodEdges(k, es[k], b)
  <2> SUFFICES ASSUME NEW k \in Kinds
               PROVE  GoodEdges(k, es[k], b)
    OBVIOUS
  <2>1. \A n \in 1 .. Len(es[k]) : GoodEdge(k, es[k][n], b)
    BY <1>1 DEF Lists, GoodEdges, GoodEdge
  <2> QED
    BY <2>1 DEF Lists, GoodEdges
<1> QED
  BY <1>2 DEF Lists

\* So do the words of a function when both tables grow.
LEMMA DescribesMore ==
  ASSUME NEW sy \in Seq(Globals), NEW sz \in Seq(Globals), Longer(sy, sz),
         NEW st \in Seq(Strings), NEW su \in Seq(Strings), Longer(st, su),
         NEW has, NEW part, NEW nm, NEW d,
         Describes(sy, st, has, part, nm, d)
  PROVE  Describes(sz, su, has, part, nm, d)
<1>1. PICK h, es : /\ Valid(sy, st, has, h, nm, es)
                   /\ part = h \o Stream(es)
                   /\ d = DescOf(sy, st, has, h, nm, es)
  BY DEF Describes
<1>2. /\ Len(sy) \in Nat /\ Len(sz) \in Nat /\ Len(sy) <= Len(sz)
      /\ Len(st) \in Nat /\ Len(su) \in Nat /\ Len(st) <= Len(su)
  BY LenProperties DEF Longer
<1>3. /\ h \in Seq(Words) /\ Len(h) = 5 /\ nm \in Seq(Nat) /\ Lists(es, Len(sy))
      /\ h[1] < Len(sy) /\ h[2] < Len(st) /\ h[3] < Len(st) /\ h[5] <= h[4]
      /\ has => Len(nm) = h[4] /\ \A n \in 1 .. h[4] : nm[n] < Len(st)
  BY <1>1 DEF Valid
<1>4. \A i \in 1 .. 5 : h[i] \in Nat
  <2>1. \A i \in 1 .. Len(h) : h[i] \in Words
    BY <1>3, ElementOfSeq
  <2> QED
    BY <1>3, <2>1 DEF Words
<1>5. has => \A n \in 1 .. h[4] : nm[n] \in Nat
  BY <1>3, ElementOfSeq
<1>6. Valid(sz, su, has, h, nm, es)
  <2>1. Lists(es, Len(sz))
    BY <1>2, <1>3, GoodMore
  <2>2. h[1] < Len(sz) /\ h[2] < Len(su) /\ h[3] < Len(su)
    BY <1>2, <1>3, <1>4
  <2>3. has => \A n \in 1 .. h[4] : nm[n] < Len(su)
    BY <1>2, <1>3, <1>5
  <2> QED
    BY <1>3, <2>1, <2>2, <2>3 DEF Valid
<1>7. DescOf(sz, su, has, h, nm, es) = d
  <2>1. /\ h[1] + 1 \in 1 .. Len(sy) /\ h[2] + 1 \in 1 .. Len(st) /\ h[3] + 1 \in 1 .. Len(st)
        /\ has => \A n \in 1 .. h[4] : nm[n] + 1 \in 1 .. Len(st)
    <3>1. h[1] \in Nat /\ h[2] \in Nat /\ h[3] \in Nat
      BY <1>4
    <3>2. /\ h[1] + 1 \in 1 .. Len(sy) /\ h[2] + 1 \in 1 .. Len(st) /\ h[3] + 1 \in 1 .. Len(st)
      BY <1>2, <1>3, <3>1
    <3>3. ASSUME has, NEW n \in 1 .. h[4]
          PROVE  nm[n] + 1 \in 1 .. Len(st)
      <4>1. nm[n] \in Nat /\ nm[n] < Len(st)
        BY <1>3, <1>5, <3>3
      <4> QED
        BY <1>2, <4>1
    <3> QED
      BY <3>2, <3>3
  <2>2. /\ sz[h[1] + 1] = sy[h[1] + 1] /\ su[h[2] + 1] = st[h[2] + 1] /\ su[h[3] + 1] = st[h[3] + 1]
        /\ has => \A n \in 1 .. h[4] : su[nm[n] + 1] = st[nm[n] + 1]
    BY <2>1 DEF Longer
  <2> DEFINE f == sy[h[1] + 1]
  <2>3. ASSUME NEW k \in Kinds
        PROVE  Tally(sy, f, es[k], Len(es[k])) = Tally(sz, f, es[k], Len(es[k]))
    <3>1. \A n \in 1 .. Len(es[k]) : GoodEdge(k, es[k][n], Len(sy))
      BY <1>3 DEF Lists, GoodEdges
    <3>2. \A n \in 1 .. Len(es[k]) : DecodeEdge(sy, f, es[k][n]) = DecodeEdge(sz, f, es[k][n])
      <4> HIDE DEF f
      <4> QED
        BY <3>1, DecodeSame
    <3> HIDE DEF f
    <3> QED
      BY <3>2, TallySame
  <2>4. [k \in Kinds |-> Tally(sy, f, es[k], Len(es[k]))]
          = [k \in Kinds |-> Tally(sz, f, es[k], Len(es[k]))]
    <3> HIDE DEF f
    <3> QED
      BY <2>3
  <2>5. has => [n \in 1 .. h[4] |-> su[nm[n] + 1]] = [n \in 1 .. h[4] |-> st[nm[n] + 1]]
    BY <2>2
  <2> QED
    BY <1>1, <2>2, <2>4, <2>5 DEF DescOf
<1> QED
  BY <1>1, <1>6, <1>7 DEF Describes


\* The words w and the names nm of a graph, or what is left of them, are the
\* descriptions ds.
Holds(sy, st, has, nm, w, ds) ==
  \E parts, nms :
    /\ parts \in Seq(Seq(Words)) /\ nms \in Seq(Seq(Nat))
    /\ Len(parts) = Len(ds) /\ Len(nms) = Len(ds)
    /\ w = FlattenSeq(parts)
    /\ has => nm = FlattenSeq(nms)
    /\ \A n \in 1 .. Len(ds) : Describes(sy, st, has, parts[n], nms[n], ds[n])

LEMMA HoldsNone ==
  ASSUME NEW sy, NEW st, NEW has
  PROVE  Holds(sy, st, has, <<>>, <<>>, <<>>)
<1> DEFINE e == <<>>
<1>1. e \in Seq(Seq(Words)) /\ e \in Seq(Seq(Nat)) /\ Len(e) = 0 /\ FlattenSeq(e) = <<>>
  BY FlattenEmpty, EmptySeq
<1>2. \A n \in 1 .. Len(e) : FALSE
  BY <1>1
<1> QED
  BY <1>1, <1>2 DEF Holds

\* And the words of all functions of a graph.
LEMMA HoldsMore ==
  ASSUME NEW sy \in Seq(Globals), NEW sz \in Seq(Globals), Longer(sy, sz),
         NEW st \in Seq(Strings), NEW su \in Seq(Strings), Longer(st, su),
         NEW has, NEW nm, NEW w, NEW ds,
         Holds(sy, st, has, nm, w, ds)
  PROVE  Holds(sz, su, has, nm, w, ds)
<1>1. PICK parts, nms :
         /\ parts \in Seq(Seq(Words)) /\ nms \in Seq(Seq(Nat))
         /\ Len(parts) = Len(ds) /\ Len(nms) = Len(ds)
         /\ w = FlattenSeq(parts)
         /\ has => nm = FlattenSeq(nms)
         /\ \A n \in 1 .. Len(ds) : Describes(sy, st, has, parts[n], nms[n], ds[n])
  BY DEF Holds
<1>2. \A n \in 1 .. Len(ds) : Describes(sz, su, has, parts[n], nms[n], ds[n])
  BY <1>1, DescribesMore
<1> QED
  BY <1>1, <1>2 DEF Holds

\* The words of one more function.
LEMMA HoldsAppend ==
  ASSUME NEW sy, NEW st, NEW has, NEW nm, NEW w, NEW ds \in Seq(Descs),
         Holds(sy, st, has, nm, w, ds),
         NEW part \in Seq(Words), NEW mine \in Seq(Nat), NEW d \in Descs,
         Describes(sy, st, has, part, mine, d)
  PROVE  Holds(sy, st, has, nm \o mine, w \o part, Append(ds, d))
<1>1. PICK parts, nms :
         /\ parts \in Seq(Seq(Words)) /\ nms \in Seq(Seq(Nat))
         /\ Len(parts) = Len(ds) /\ Len(nms) = Len(ds)
         /\ w = FlattenSeq(parts)
         /\ has => nm = FlattenSeq(nms)
         /\ \A n \in 1 .. Len(ds) : Describes(sy, st, has, parts[n], nms[n], ds[n])
  BY DEF Holds
<1> DEFINE ps == Append(parts, part)
           ns == Append(nms, mine)
           es == Append(ds, d)
<1>2. /\ ps \in Seq(Seq(Words)) /\ Len(ps) = Len(parts) + 1
      /\ \A n \in 1 .. Len(parts) : ps[n] = parts[n]
      /\ ps[Len(parts) + 1] = part
  BY <1>1, AppendProperties
<1>3. /\ ns \in Seq(Seq(Nat)) /\ Len(ns) = Len(nms) + 1
      /\ \A n \in 1 .. Len(nms) : ns[n] = nms[n]
      /\ ns[Len(nms) + 1] = mine
  BY <1>1, AppendProperties
<1>4. /\ Len(es) = Len(ds) + 1
      /\ \A n \in 1 .. Len(ds) : es[n] = ds[n]
      /\ es[Len(ds) + 1] = d
  BY AppendProperties
<1>5. FlattenSeq(ps) = w \o part
  BY <1>1, FlattenAppend
<1>6. has => FlattenSeq(ns) = nm \o mine
  BY <1>1, FlattenAppend
<1>7. Len(ds) \in Nat
  BY LenProperties
<1> HIDE DEF ps, ns, es
<1>8. ASSUME NEW n \in 1 .. Len(es)
      PROVE  Describes(sy, st, has, ps[n], ns[n], es[n])
  <2>1. CASE n \in 1 .. Len(ds)
    BY <1>1, <1>2, <1>3, <1>4, <2>1
  <2>2. CASE n = Len(ds) + 1
    BY <1>1, <1>2, <1>3, <1>4, <2>2
  <2> QED
    BY <1>4, <1>7, <2>1, <2>2
<1>9. Len(ps) = Len(es) /\ Len(ns) = Len(es)
  BY <1>1, <1>2, <1>3, <1>4
<1>10. Holds(sy, st, has, nm \o mine, w \o part, es)
  BY <1>2, <1>3, <1>5, <1>6, <1>8, <1>9 DEF Holds
<1> QED
  BY <1>10 DEF es

\* Without the words of the first function.
HoldsFirst(sy, st, has, nm, w, ds, part, mine, rest, later) ==
  /\ Describes(sy, st, has, part, mine, ds[1])
  /\ w = part \o rest /\ rest \in Seq(Words)
  /\ has => nm = mine \o later
  /\ later \in Seq(Nat)
  /\ Holds(sy, st, has, later, rest, Tail(ds))

\* The words of the functions of a graph begin with those of the first.
LEMMA HoldsTail ==
  ASSUME NEW sy, NEW st, NEW has, NEW nm, NEW w, NEW ds \in Seq(Descs), ds # <<>>,
         Holds(sy, st, has, nm, w, ds)
  PROVE  \E part, mine, rest, later : HoldsFirst(sy, st, has, nm, w, ds, part, mine, rest, later)
<1>1. PICK parts, nms :
         /\ parts \in Seq(Seq(Words)) /\ nms \in Seq(Seq(Nat))
         /\ Len(parts) = Len(ds) /\ Len(nms) = Len(ds)
         /\ w = FlattenSeq(parts)
         /\ has => nm = FlattenSeq(nms)
         /\ \A n \in 1 .. Len(ds) : Describes(sy, st, has, parts[n], nms[n], ds[n])
  BY DEF Holds
<1>2. Len(ds) \in Nat \ {0} /\ parts # <<>> /\ nms # <<>>
  BY <1>1, EmptySeq
<1> DEFINE ps == Tail(parts)
           ns == Tail(nms)
           es == Tail(ds)
<1>3. /\ ps \in Seq(Seq(Words)) /\ Len(ps) = Len(parts) - 1
      /\ \A n \in 1 .. Len(ps) : ps[n] = parts[n + 1]
  BY <1>1, <1>2, HeadTailProperties
<1>4. /\ ns \in Seq(Seq(Nat)) /\ Len(ns) = Len(nms) - 1
      /\ \A n \in 1 .. Len(ns) : ns[n] = nms[n + 1]
  BY <1>1, <1>2, HeadTailProperties
<1>5. /\ Len(es) = Len(ds) - 1
      /\ \A n \in 1 .. Len(es) : es[n] = ds[n + 1]
  BY HeadTailProperties
<1>6. w = parts[1] \o FlattenSeq(ps) /\ FlattenSeq(ps) \in Seq(Words)
  BY <1>1, <1>2, <1>3, FlattenFront, FlattenType
<1>7. has => nm = nms[1] \o FlattenSeq(ns)
  BY <1>1, <1>2, FlattenFront
<1>8. FlattenSeq(ns) \in Seq(Nat)
  BY <1>4, FlattenType
<1> HIDE DEF ps, ns, es
<1>9. \A n \in 1 .. Len(es) : Describes(sy, st, has, ps[n], ns[n], es[n])
  <2> SUFFICES ASSUME NEW n \in 1 .. Len(es)
               PROVE  Describes(sy, st, has, ps[n], ns[n], es[n])
    OBVIOUS
  <2>1. n \in 1 .. Len(ps) /\ n \in 1 .. Len(ns) /\ n + 1 \in 1 .. Len(ds)
    BY <1>1, <1>2, <1>3, <1>4, <1>5
  <2> QED
    BY <1>1, <1>3, <1>4, <1>5, <2>1
<1>10. Holds(sy, st, has, FlattenSeq(ns), FlattenSeq(ps), es)
  <2>1. Len(ps) = Len(es) /\ Len(ns) = Len(es)
    BY <1>1, <1>3, <1>4, <1>5
  <2> QED
    BY <1>3, <1>4, <1>9, <2>1 DEF Holds
<1>11. Describes(sy, st, has, parts[1], nms[1], ds[1])
  BY <1>1, <1>2
<1>12. HoldsFirst(sy, st, has, nm, w, ds, parts[1], nms[1], FlattenSeq(ps), FlattenSeq(ns))
  BY <1>6, <1>7, <1>8, <1>10, <1>11 DEF HoldsFirst, es
<1> QED
  BY <1>12


----------------------------------------------------------------------------
(* The tables and the bags of the writer.                                  *)

\* Each entry of a table is in it once.
Once(table) == \A m, n \in 1 .. Len(table) : table[m] = table[n] => m = n

\* Entering a name twice keeps one entry.
LEMMA InternGrows ==
  ASSUME NEW S, NEW table \in Seq(S), Once(table), NEW x \in S
  PROVE  /\ Intern(table, x) \in Seq(S) /\ Once(Intern(table, x))
         /\ Longer(table, Intern(table, x)) /\ x \in ToSet(Intern(table, x))
<1>1. Len(table) \in Nat /\ DOMAIN table = 1 .. Len(table)
  BY LenProperties
<1>2. CASE x \in ToSet(table)
  BY <1>1, <1>2 DEF Intern, Longer
<1>3. CASE x \notin ToSet(table)
  <2> DEFINE t == Append(table, x)
  <2>1. /\ t \in Seq(S) /\ Len(t) = Len(table) + 1
        /\ \A n \in 1 .. Len(table) : t[n] = table[n]
        /\ t[Len(table) + 1] = x
    BY AppendProperties
  <2>2. Intern(table, x) = t
    BY <1>3 DEF Intern
  <2>3. \A n \in 1 .. Len(table) : table[n] # x
    BY <1>1, <1>3 DEF ToSet
  <2> HIDE DEF t
  <2>4. Once(t)
    <3> SUFFICES ASSUME NEW m \in 1 .. Len(t), NEW n \in 1 .. Len(t), t[m] = t[n]
                 PROVE  m = n
      BY DEF Once
    <3>1. /\ m \in 1 .. Len(table) \/ m = Len(table) + 1
          /\ n \in 1 .. Len(table) \/ n = Len(table) + 1
      BY <1>1, <2>1
    <3> QED
      BY <2>1, <2>3, <3>1 DEF Once
  <2>5. x \in ToSet(t)
    <3>1. Len(table) + 1 \in DOMAIN t
      BY <1>1, <2>1, LenProperties
    <3> QED
      BY <2>1, <3>1 DEF ToSet
  <2>6. Longer(table, t)
    BY <1>1, <2>1 DEF Longer
  <2> QED
    BY <2>1, <2>2, <2>4, <2>5, <2>6
<1> QED
  BY <1>2, <1>3

\* A name is found at its index.
LEMMA IndexFound ==
  ASSUME NEW S, NEW table \in Seq(S), NEW x \in ToSet(table)
  PROVE  /\ IndexOf(table, x) \in 0 .. Len(table) - 1
         /\ table[IndexOf(table, x) + 1] = x
<1>1. Len(table) \in Nat /\ DOMAIN table = 1 .. Len(table)
  BY LenProperties
<1>2. \E n \in DOMAIN table : table[n] = x
  BY DEF ToSet
<1> DEFINE n == CHOOSE n \in DOMAIN table : table[n] = x
<1>3. n \in DOMAIN table /\ table[n] = x
  BY <1>2
<1>4. IndexOf(table, x) = n - 1
  BY DEF IndexOf
<1> HIDE DEF n
<1>5. n - 1 \in 0 .. Len(table) - 1 /\ (n - 1) + 1 = n
  BY <1>1, <1>3
<1> QED
  BY <1>3, <1>4, <1>5

LEMMA LongerTrans ==
  ASSUME NEW S, NEW a \in Seq(S), NEW b \in Seq(S), NEW c \in Seq(S), Longer(a, b), Longer(b, c)
  PROVE  Longer(a, c)
<1>1. Len(a) \in Nat /\ Len(b) \in Nat /\ Len(c) \in Nat
  BY LenProperties
<1>2. \A n \in 1 .. Len(a) : n \in 1 .. Len(b)
  BY <1>1 DEF Longer
<1> QED
  BY <1>1, <1>2 DEF Longer

LEMMA LongerSelf ==
  ASSUME NEW S, NEW a \in Seq(S)
  PROVE  Longer(a, a)
<1>1. Len(a) \in Nat
  BY LenProperties
<1> QED
  BY <1>1 DEF Longer

\* A table without duplicates is no longer than the set of names.
LEMMA OnceBound ==
  ASSUME NEW S, IsFiniteSet(S), NEW table \in Seq(S), Once(table)
  PROVE  Len(table) <= Cardinality(S)
<1>1. Len(table) \in Nat /\ table \in [1 .. Len(table) -> S]
  BY LenProperties
<1>2. table \in Injection(1 .. Len(table), S)
  BY <1>1 DEF Injection, IsInjective, Once
<1>3. Cardinality(1 .. Len(table)) <= Cardinality(S)
  BY <1>2, FS_Injection
<1>4. Cardinality(1 .. Len(table)) = Len(table)
  <2>1. 1 \in Int /\ Len(table) \in Int
    BY <1>1
  <2>2. Cardinality(1 .. Len(table)) = IF 1 > Len(table) THEN 0 ELSE Len(table) - 1 + 1
    BY <2>1, FS_Interval
  <2> QED
    BY <1>1, <2>2
<1> QED
  BY <1>3, <1>4


\* Different words are different nodes.
LEMMA DecodeOnce ==
  ASSUME NEW sy \in Seq(Globals), Once(sy), NEW f,
         NEW a, Good(a, Len(sy)), NEW b, Good(b, Len(sy)),
         Decode(sy, f, a) = Decode(sy, f, b)
  PROVE  a = b
<1>1. a \in Nat /\ b \in Nat /\ Len(sy) \in Nat
  BY LenProperties DEF Good, Words
<1>2. /\ a = 2 * (a \div 2) + (a % 2) /\ a \div 2 \in Nat /\ a % 2 \in {0, 1}
      /\ b = 2 * (b \div 2) + (b % 2) /\ b \div 2 \in Nat /\ b % 2 \in {0, 1}
  BY <1>1
<1>3. \A g, h, n : GlobalNode(g) # LocalNode(h, n)
  BY DEF GlobalNode, LocalNode
<1>4. \A h, m, n : LocalNode(h, m) = LocalNode(h, n) => m = n
  BY DEF LocalNode
<1>5. \A g, h : GlobalNode(g) = GlobalNode(h) => g = h
  BY DEF GlobalNode
<1>6. CASE a % 2 = 1 /\ b % 2 = 1
  <2>1. /\ (a \div 2) + 1 \in 1 .. Len(sy) /\ (b \div 2) + 1 \in 1 .. Len(sy)
    BY <1>1, <1>2, <1>6 DEF Good
  <2>2. sy[(a \div 2) + 1] = sy[(b \div 2) + 1]
    BY <1>5, <1>6 DEF Decode
  <2>3. (a \div 2) + 1 = (b \div 2) + 1
    BY <2>1, <2>2 DEF Once
  <2> QED
    BY <1>2, <1>6, <2>3
<1>7. CASE a % 2 = 0 /\ b % 2 = 0
  <2>1. a \div 2 = b \div 2
    BY <1>4, <1>7 DEF Decode
  <2> QED
    BY <1>2, <1>7, <2>1
<1>8. CASE a % 2 = 1 /\ b % 2 = 0
  BY <1>3, <1>8 DEF Decode
<1>9. CASE a % 2 = 0 /\ b % 2 = 1
  BY <1>3, <1>9 DEF Decode
<1> QED
  BY <1>2, <1>6, <1>7, <1>8, <1>9

LEMMA DecodeEdgeParts ==
  ASSUME NEW k \in Kinds, NEW ns, NEW sy, NEW f, NEW e, GoodEdge(k, e, ns)
  PROVE  /\ DecodeEdge(sy, f, e)[1] = Decode(sy, f, e[1])
         /\ DecodeEdge(sy, f, e)[2] = Decode(sy, f, e[2])
         /\ Components[k] = 3 => DecodeEdge(sy, f, e)[3] = e[3]
<1> DEFINE a == Decode(sy, f, e[1])
           b == Decode(sy, f, e[2])
           t == SubSeq(e, 3, Len(e))
           All == Words \cup {a, b}
           h == <<a, b>>
<1>1. e \in Seq(Words) /\ Len(e) = Components[k] /\ Components[k] \in {2, 3}
  BY KindsType DEF GoodEdge
<1>2. /\ t \in Seq(All)
      /\ Len(t) = IF 3 <= Len(e) THEN Len(e) - 3 + 1 ELSE 0
      /\ \A i \in 1 .. Len(e) - 3 + 1 : t[i] = e[3 + i - 1]
  <2>1. \A i \in 3 .. Len(e) : i \in 1 .. Len(e)
    BY <1>1
  <2>2. \A i \in 3 .. Len(e) : e[i] \in All
    <3>1. \A i \in 3 .. Len(e) : e[i] \in Words
      BY <1>1, <2>1, ElementOfSeq
    <3> QED
      BY <3>1
  <2>3. 3 \in Int /\ Len(e) \in Int
    BY <1>1
  <2> HIDE DEF All
  <2> QED
    BY <2>2, <2>3, SubSeqProperties
<1>3. h \in Seq(All) /\ Len(h) = 2 /\ h[1] = a /\ h[2] = b
  OBVIOUS
<1>4. DecodeEdge(sy, f, e) = h \o t
  BY DEF DecodeEdge
<1> HIDE DEF a, b, t, All, h
<1>5. \A i \in 1 .. Len(h) + Len(t) : (h \o t)[i] = IF i <= Len(h) THEN h[i] ELSE t[i - Len(h)]
  BY <1>2, <1>3, ConcatProperties
<1>6. (h \o t)[1] = a /\ (h \o t)[2] = b
  <2>1. Len(t) \in Nat
    BY <1>2, LenProperties
  <2>2. 1 \in 1 .. Len(h) + Len(t) /\ 2 \in 1 .. Len(h) + Len(t) /\ 1 <= Len(h) /\ 2 <= Len(h)
    BY <1>3, <2>1
  <2> QED
    BY <1>3, <1>5, <2>2
<1>7. Components[k] = 3 => (h \o t)[3] = e[3]
  <2> SUFFICES ASSUME Components[k] = 3
               PROVE  (h \o t)[3] = e[3]
    OBVIOUS
  <2>1. Len(t) = 1 /\ 1 \in 1 .. Len(e) - 3 + 1 /\ 3 + 1 - 1 = 3
    BY <1>1, <1>2
  <2>2. t[1] = e[3]
    BY <1>2, <2>1
  <2>3. 3 \in 1 .. Len(h) + Len(t) /\ ~(3 <= Len(h)) /\ 3 - Len(h) = 1
    BY <1>3, <2>1
  <2> QED
    BY <1>5, <2>2, <2>3
<1> QED
  BY <1>4, <1>6, <1>7 DEF a, b

\* Different edges decode to different edges: no symbol has two numbers.
LEMMA DecodeEdgeOnce ==
  ASSUME NEW k \in Kinds, NEW sy \in Seq(Globals), Once(sy), NEW f,
         NEW d, GoodEdge(k, d, Len(sy)), NEW e, GoodEdge(k, e, Len(sy)),
         DecodeEdge(sy, f, d) = DecodeEdge(sy, f, e)
  PROVE  d = e
<1>1. /\ d \in Seq(Words) /\ Len(d) = Components[k] /\ Components[k] \in {2, 3}
      /\ e \in Seq(Words) /\ Len(e) = Components[k]
      /\ Good(d[1], Len(sy)) /\ Good(d[2], Len(sy)) /\ Good(e[1], Len(sy)) /\ Good(e[2], Len(sy))
  BY KindsType DEF GoodEdge
<1>2. /\ DecodeEdge(sy, f, d)[1] = Decode(sy, f, d[1])
      /\ DecodeEdge(sy, f, d)[2] = Decode(sy, f, d[2])
      /\ Components[k] = 3 => DecodeEdge(sy, f, d)[3] = d[3]
  BY DecodeEdgeParts
<1>3. /\ DecodeEdge(sy, f, e)[1] = Decode(sy, f, e[1])
      /\ DecodeEdge(sy, f, e)[2] = Decode(sy, f, e[2])
      /\ Components[k] = 3 => DecodeEdge(sy, f, e)[3] = e[3]
  BY DecodeEdgeParts
<1>4. d[1] = e[1]
  BY <1>1, <1>2, <1>3, DecodeOnce
<1>5. d[2] = e[2]
  BY <1>1, <1>2, <1>3, DecodeOnce
<1>6. Components[k] = 3 => d[3] = e[3]
  BY <1>2, <1>3
<1>7. \A i \in 1 .. Len(d) : d[i] = e[i]
  BY <1>1, <1>4, <1>5, <1>6
<1> QED
  BY <1>1, <1>7, SeqEqual

\* A bag B of edges in words, and the bag T of what they say.
BagSays(k, sy, f, B, T) ==
  /\ \A c \in DOMAIN B : GoodEdge(k, c, Len(sy)) /\ B[c] \in Nat \ {0}
  /\ T = [x \in DOMAIN T |-> T[x]]
  /\ DOMAIN T = {DecodeEdge(sy, f, c) : c \in DOMAIN B}
  /\ \A c \in DOMAIN B : T[DecodeEdge(sy, f, c)] = B[c]

LEMMA BagSaysNone ==
  ASSUME NEW k, NEW sy, NEW f
  PROVE  BagSays(k, sy, f, EmptyBag, EmptyBag)
<1>1. DOMAIN EmptyBag = {} /\ EmptyBag = [x \in {} |-> 1]
  BY DEF EmptyBag, SetToBag
<1>2. EmptyBag = [x \in DOMAIN EmptyBag |-> EmptyBag[x]]
  BY <1>1
<1> QED
  BY <1>1, <1>2 DEF BagSays

\* The bag of edges keeps its meaning when the table of symbols grows.
LEMMA BagSaysMore ==
  ASSUME NEW sy \in Seq(Globals), NEW sz \in Seq(Globals), Longer(sy, sz), NEW f,
         NEW k, NEW B, NEW T, BagSays(k, sy, f, B, T)
  PROVE  BagSays(k, sz, f, B, T)
<1>1. \A c \in DOMAIN B : /\ GoodEdge(k, c, Len(sy)) /\ B[c] \in Nat \ {0}
                          /\ DecodeEdge(sz, f, c) = DecodeEdge(sy, f, c)
  BY DecodeSame DEF BagSays
<1>2. \A c \in DOMAIN B : GoodEdge(k, c, Len(sz))
  <2>1. Len(sy) \in Nat /\ Len(sz) \in Nat /\ Len(sy) <= Len(sz)
    BY LenProperties DEF Longer
  <2>2. ASSUME NEW c, Good(c, Len(sy))
        PROVE  Good(c, Len(sz))
    <3>1. c \in Nat
      BY <2>2 DEF Good, Words
    <3>2. c \div 2 \in Nat
      BY <3>1
    <3> QED
      BY <2>1, <2>2, <3>2 DEF Good
  <2> QED
    BY <1>1, <2>2 DEF GoodEdge
<1>3. {DecodeEdge(sz, f, c) : c \in DOMAIN B} = {DecodeEdge(sy, f, c) : c \in DOMAIN B}
  BY <1>1
<1> QED
  BY <1>1, <1>2, <1>3 DEF BagSays


\* The bag B with one more x.
With(B, x) == [e \in DOMAIN B \cup {x} |->
                 (IF e \in DOMAIN B THEN B[e] ELSE 0) + (IF e = x THEN 1 ELSE 0)]

LEMMA OneMore ==
  ASSUME NEW B, NEW x
  PROVE  B (+) SetToBag({x}) = With(B, x)
<1> DEFINE S == SetToBag({x})
<1>1. DOMAIN S = {x} /\ S[x] = 1
  BY DEF SetToBag
<1>2. B (+) S = [e \in (DOMAIN B) \cup (DOMAIN S) |->
                   (IF e \in DOMAIN B THEN B[e] ELSE 0) + (IF e \in DOMAIN S THEN S[e] ELSE 0)]
  BY DEF (+)
<1> HIDE DEF S
<1>3. \A e \in DOMAIN B \cup {x} : (IF e \in DOMAIN S THEN S[e] ELSE 0) = IF e = x THEN 1 ELSE 0
  BY <1>1
<1>4. B (+) S = [e \in DOMAIN B \cup {x} |->
                   (IF e \in DOMAIN B THEN B[e] ELSE 0) + (IF e = x THEN 1 ELSE 0)]
  BY <1>1, <1>2, <1>3
<1> QED
  BY <1>4 DEF S, With

\* It keeps it when the same edge is added to the code and to the description.
LEMMA BagSaysAdd ==
  ASSUME NEW k \in Kinds, NEW sy \in Seq(Globals), Once(sy), NEW f,
         NEW B, NEW T, BagSays(k, sy, f, B, T), NEW c, GoodEdge(k, c, Len(sy))
  PROVE  BagSays(k, sy, f, B (+) SetToBag({c}), T (+) SetToBag({DecodeEdge(sy, f, c)}))
<1> DEFINE D(e) == DecodeEdge(sy, f, e)
           B2 == B (+) SetToBag({c})
           T2 == T (+) SetToBag({D(c)})
<1>1. B2 = [e \in DOMAIN B \cup {c} |->
              (IF e \in DOMAIN B THEN B[e] ELSE 0) + (IF e = c THEN 1 ELSE 0)]
  <2>1. B (+) SetToBag({c}) = With(B, c)
    BY OneMore
  <2> QED
    BY <2>1 DEF With
<1>2. T2 = [e \in DOMAIN T \cup {D(c)} |->
              (IF e \in DOMAIN T THEN T[e] ELSE 0) + (IF e = D(c) THEN 1 ELSE 0)]
  <2>1. T (+) SetToBag({D(c)}) = With(T, D(c))
    BY OneMore
  <2> HIDE DEF D
  <2> QED
    BY <2>1 DEF With
<1>3. /\ \A e \in DOMAIN B : GoodEdge(k, e, Len(sy)) /\ B[e] \in Nat \ {0}
      /\ DOMAIN T = {D(e) : e \in DOMAIN B}
      /\ \A e \in DOMAIN B : T[D(e)] = B[e]
  BY DEF BagSays
<1>4. \A d, e : GoodEdge(k, d, Len(sy)) /\ GoodEdge(k, e, Len(sy)) /\ D(d) = D(e) => d = e
  BY DecodeEdgeOnce
<1> HIDE DEF B2, T2, D
<1>5. DOMAIN B2 = DOMAIN B \cup {c} /\ DOMAIN T2 = DOMAIN T \cup {D(c)}
  BY <1>1, <1>2
<1>6. \A e \in DOMAIN B2 : GoodEdge(k, e, Len(sy)) /\ B2[e] \in Nat \ {0}
  BY <1>1, <1>3, <1>5
<1>7. T2 = [x \in DOMAIN T2 |-> T2[x]]
  BY <1>2
<1>8. DOMAIN T2 = {D(e) : e \in DOMAIN B2}
  BY <1>3, <1>5
<1>9. ASSUME NEW e \in DOMAIN B2
      PROVE  T2[D(e)] = B2[e]
  <2>1. D(e) \in DOMAIN T2 /\ GoodEdge(k, e, Len(sy))
    BY <1>6, <1>8
  <2>2. D(e) = D(c) <=> e = c
    BY <1>4, <2>1
  <2>3. D(e) \in DOMAIN T <=> e \in DOMAIN B
    <3>1. ASSUME D(e) \in DOMAIN T
          PROVE  e \in DOMAIN B
      <4>1. PICK b \in DOMAIN B : D(e) = D(b)
        BY <1>3, <3>1
      <4>2. e = b
        BY <1>3, <1>4, <2>1, <4>1
      <4> QED
        BY <4>2
    <3> QED
      BY <1>3, <3>1
  <2>4. T2[D(e)] = (IF D(e) \in DOMAIN T THEN T[D(e)] ELSE 0) + (IF D(e) = D(c) THEN 1 ELSE 0)
    BY <1>2, <1>5, <2>1
  <2>5. B2[e] = (IF e \in DOMAIN B THEN B[e] ELSE 0) + (IF e = c THEN 1 ELSE 0)
    BY <1>1, <1>5
  <2>6. e \in DOMAIN B => T[D(e)] = B[e]
    BY <1>3
  <2> QED
    BY <2>2, <2>3, <2>4, <2>5, <2>6
<1>10. BagSays(k, sy, f, B2, T2)
  BY <1>6, <1>7, <1>8, <1>9 DEF BagSays, D
<1> QED
  BY <1>10 DEF B2, T2, D

\* Visiting one edge after the other makes up the bag.
LEMMA TallyNone ==
  ASSUME NEW sy, NEW f, NEW s
  PROVE  Tally(sy, f, s, 0) = EmptyBag
<1> DEFINE A == {DecodeEdge(sy, f, s[n]) : n \in 1 .. 0}
           F(x) == Cardinality({n \in 1 .. 0 : DecodeEdge(sy, f, s[n]) = x})
<1>1. A = {}
  OBVIOUS
<1> HIDE DEF A, F
<1>2. [x \in A |-> F(x)] = [x \in {} |-> 1]
  BY <1>1
<1> QED
  BY <1>2 DEF Tally, EmptyBag, SetToBag, A, F

\* One more edge of the file is one more edge of the bag.
LEMMA TallyStep ==
  ASSUME NEW sy, NEW f, NEW s, NEW m \in Nat
  PROVE  Tally(sy, f, s, m + 1)
           = Tally(sy, f, s, m) (+) SetToBag({DecodeEdge(sy, f, s[m + 1])})
<1> DEFINE D(n) == DecodeEdge(sy, f, s[n])
           At(n, x) == {j \in 1 .. n : D(j) = x}
           Dom(n) == {D(j) : j \in 1 .. n}
           T(n) == Tally(sy, f, s, n)
           y == D(m + 1)
<1>1. \A n : T(n) = [x \in Dom(n) |-> Cardinality(At(n, x))]
  BY DEF Tally
<1>2. T(m) (+) SetToBag({y}) = [x \in DOMAIN T(m) \cup {y} |->
        (IF x \in DOMAIN T(m) THEN T(m)[x] ELSE 0) + (IF x = y THEN 1 ELSE 0)]
  <2>1. T(m) (+) SetToBag({y}) = With(T(m), y)
    BY OneMore
  <2> HIDE DEF T, y
  <2> QED
    BY <2>1 DEF With
<1>3. 1 .. m + 1 = (1 .. m) \cup {m + 1} /\ m + 1 \notin 1 .. m
  OBVIOUS
<1>4. Dom(m + 1) = Dom(m) \cup {y}
  BY <1>3
<1>5. ASSUME NEW x
      PROVE  IsFiniteSet(At(m, x)) /\ Cardinality(At(m, x)) \in Nat
  <2>1. IsFiniteSet(1 .. m) /\ At(m, x) \in SUBSET (1 .. m)
    BY FS_Interval
  <2> HIDE DEF At
  <2> QED
    BY <2>1, FS_Subset, FS_CardinalityType
<1>6. ASSUME NEW x
      PROVE  Cardinality(At(m + 1, x)) = Cardinality(At(m, x)) + (IF x = y THEN 1 ELSE 0)
  <2>1. CASE x = y
    <3>1. At(m + 1, x) = At(m, x) \cup {m + 1} /\ m + 1 \notin At(m, x)
      BY <1>3, <2>1
    <3> HIDE DEF At, y
    <3> QED
      BY <1>5, <2>1, <3>1, FS_AddElement
  <2>2. CASE x # y
    <3>1. At(m + 1, x) = At(m, x)
      BY <1>3, <2>2
    <3> HIDE DEF At, y
    <3> QED
      BY <1>5, <2>2, <3>1
  <2> QED
    BY <2>1, <2>2
<1>7. ASSUME NEW x, x \notin Dom(m)
      PROVE  Cardinality(At(m, x)) = 0
  <2>1. At(m, x) = {}
    BY <1>7
  <2> HIDE DEF At
  <2> QED
    BY <2>1, FS_EmptySet
<1> HIDE DEF D, At, Dom, T, y
<1>8. /\ DOMAIN T(m) = Dom(m)
      /\ \A x \in Dom(m) : T(m)[x] = Cardinality(At(m, x))
  BY <1>1
<1>9. \A x \in Dom(m) \cup {y} :
        Cardinality(At(m + 1, x))
          = (IF x \in DOMAIN T(m) THEN T(m)[x] ELSE 0) + (IF x = y THEN 1 ELSE 0)
  BY <1>5, <1>6, <1>7, <1>8
<1>10. T(m + 1) = T(m) (+) SetToBag({y})
  BY <1>1, <1>2, <1>4, <1>8, <1>9
<1> QED
  BY <1>10 DEF T, y, D


\* Any order of the edges of a bag is the bag that it says.
LEMMA SortedSays ==
  ASSUME NEW k \in Kinds, NEW sy \in Seq(Globals), Once(sy), NEW f,
         NEW B, NEW T, BagSays(k, sy, f, B, T), NEW s \in Sorted(B)
  PROVE  GoodEdges(k, s, Len(sy)) /\ Tally(sy, f, s, Len(s)) = T
<1> DEFINE D(e) == DecodeEdge(sy, f, e)
<1>1. PICK n \in 0 .. MaxEdges : s \in [1 .. n -> DOMAIN B]
  BY DEF Sorted, BagToSet
<1>2. \A e \in DOMAIN B : Cardinality({j \in DOMAIN s : s[j] = e}) = B[e]
  BY DEF Sorted, BagToSet
<1>3. /\ \A e \in DOMAIN B : GoodEdge(k, e, Len(sy)) /\ B[e] \in Nat \ {0}
      /\ T = [x \in DOMAIN T |-> T[x]]
      /\ DOMAIN T = {D(e) : e \in DOMAIN B}
      /\ \A e \in DOMAIN B : T[D(e)] = B[e]
  BY DEF BagSays
<1>4. n \in Nat /\ n \in Words
  BY CodecAssumption, FitsAssumption, HalfAssumption DEF Words
<1>5. s \in Seq(DOMAIN B) /\ Len(s) = n /\ DOMAIN s = 1 .. n
  BY <1>1, <1>4, FunctionIsSeq
<1>6. GoodEdges(k, s, Len(sy))
  <2>1. \A j \in 1 .. n : s[j] \in DOMAIN B
    BY <1>1
  <2>2. \A j \in 1 .. n : GoodEdge(k, s[j], Len(sy))
    BY <1>3, <2>1
  <2>3. DOMAIN B \subseteq Seq(Words)
    BY <1>3 DEF GoodEdge
  <2>4. s \in Seq(Seq(Words))
    BY <1>5, <2>3, SeqMonotonic
  <2> QED
    BY <1>4, <1>5, <2>2, <2>4 DEF GoodEdges
<1>7. \A d, e : GoodEdge(k, d, Len(sy)) /\ GoodEdge(k, e, Len(sy)) /\ D(d) = D(e) => d = e
  BY DecodeEdgeOnce
<1> DEFINE Dom == {D(s[j]) : j \in 1 .. n}
           At(x) == {j \in 1 .. n : D(s[j]) = x}
<1>8. Tally(sy, f, s, Len(s)) = [x \in Dom |-> Cardinality(At(x))]
  BY <1>5 DEF Tally
<1> HIDE DEF D
<1>9. ASSUME NEW e \in DOMAIN B
      PROVE  D(e) \in Dom /\ Cardinality(At(D(e))) = T[D(e)]
  <2>1. At(D(e)) = {j \in DOMAIN s : s[j] = e}
    <3>1. \A j \in 1 .. n : s[j] \in DOMAIN B
      BY <1>1
    <3>2. \A j \in 1 .. n : D(s[j]) = D(e) <=> s[j] = e
      BY <1>3, <1>7, <3>1
    <3> QED
      BY <1>5, <3>2
  <2>2. Cardinality(At(D(e))) = B[e] /\ B[e] # 0
    BY <1>2, <1>3, <2>1
  <2>3. At(D(e)) # {}
    <3> HIDE DEF At
    <3> QED
      BY <2>2, FS_EmptySet
  <2>4. D(e) \in Dom
    BY <2>3
  <2> QED
    BY <1>3, <2>2, <2>4
<1>10. Dom = DOMAIN T
  <2>1. \A j \in 1 .. n : s[j] \in DOMAIN B
    BY <1>1
  <2>2. Dom \subseteq DOMAIN T
    BY <1>3, <2>1
  <2>3. \A e \in DOMAIN B : D(e) \in Dom
    BY <1>9
  <2> HIDE DEF Dom
  <2>4. DOMAIN T \subseteq Dom
    BY <1>3, <2>3
  <2> QED
    BY <2>2, <2>4
<1> HIDE DEF Dom, At
<1>11. \A x \in DOMAIN T : Cardinality(At(x)) = T[x]
  BY <1>3, <1>9
<1>12. [x \in Dom |-> Cardinality(At(x))] = T
  BY <1>3, <1>10, <1>11
<1> QED
  BY <1>6, <1>8, <1>12


----------------------------------------------------------------------------
(* The writer's own state.                                                 *)

Tables ==
  /\ debug \in BOOLEAN /\ sealed \in BOOLEAN /\ nfuns \in Nat
  /\ symbols \in Seq(Globals) /\ Once(symbols)
  /\ strings \in Seq(Strings) /\ Once(strings)
  /\ names \in Seq(0 .. Len(strings) - 1)

\* The record of the active writer, its words, and its bags of edges.
FwShape ==
  fw = [symbol |-> fw.symbol, comp |-> fw.comp, version |-> fw.version,
        locals |-> fw.locals,
        edges |-> [k \in Kinds |-> fw.edges[k]],
        said |-> [fun |-> fw.said.fun, sbom |-> fw.said.sbom, names |-> fw.said.names,
                  edges |-> [k \in Kinds |-> fw.said.edges[k]],
                  allocas |-> fw.said.allocas, locals |-> fw.said.locals]]

FwWords ==
  /\ fw.symbol \in 0 .. Len(symbols) - 1 /\ symbols[fw.symbol + 1] = fw.said.fun
  /\ fw.comp \in 0 .. Len(strings) - 1 /\ fw.version \in 0 .. Len(strings) - 1
  /\ fw.said.sbom = Known(<<strings[fw.comp + 1], strings[fw.version + 1]>>)
  /\ fw.locals \in 0 .. MaxLocals

FwBags == \A k \in Kinds : BagSays(k, symbols, fw.said.fun, fw.edges[k], fw.said.edges[k])

WriterInv == Tables /\ (fw # Nothing => FwShape /\ FwWords /\ FwBags)

\* What as_u32 asserts is so: indices and numbers of locals are words.
LEMMA TablesFit ==
  ASSUME Tables
  PROVE  /\ Len(symbols) \in Nat /\ Len(symbols) <= Half
         /\ Len(strings) \in Nat /\ Len(strings) <= 2 * Half
<1>1. Len(symbols) \in Nat /\ Len(strings) \in Nat
  BY LenProperties DEF Tables
<1>2. Len(symbols) <= Cardinality(Globals) /\ Len(strings) <= Cardinality(Strings)
  BY OnceBound, FitsAssumption DEF Tables
<1>3. Cardinality(Globals) \in Nat /\ Cardinality(Strings) \in Nat
  BY FS_CardinalityType, FitsAssumption
<1> QED
  BY <1>1, <1>2, <1>3, FitsAssumption, HalfAssumption

\* As many locals as their field in a node has room for can be numbered.
LEMMA LocalsFit == MaxLocals \in Nat /\ MaxLocals < Half
  BY HalfAssumption, LocalSizeAssumption DEF MaxLocals

\* decode_node undoes encode_node, which undoes the packing of the node.
LEMMA NodeCode ==
  ASSUME Tables, FwWords, NEW node \in Nodes
  PROVE  /\ Good(encode_node(Raw(node)), Len(symbols))
         /\ Decode(symbols, fw.said.fun, encode_node(Raw(node))) = node
<1>1. CASE node \in {GlobalNode(g) : g \in ToSet(symbols)}
  <2>1. PICK g \in ToSet(symbols) : node = GlobalNode(g)
    BY <1>1
  <2> DEFINE n == IndexOf(symbols, g)
  <2>2. n \in 0 .. Len(symbols) - 1 /\ symbols[n + 1] = g
    BY IndexFound DEF Tables
  <2>3. Raw(node) = PackSymbol(n)
    BY <2>1 DEF Raw, GlobalNode
  <2> HIDE DEF n
  <2>4. n \in Nat /\ (2 * n + 1) % 2 = 1 /\ (2 * n + 1) \div 2 = n
    BY <2>2, Halves
  <2>5. encode_node(Raw(node)) = 2 * n + 1
    BY <2>3, <2>4, SymbolUnpacked DEF encode_node
  <2>6. 2 * n + 1 \in Words /\ n < Len(symbols)
    BY <2>2, TablesFit, HalfAssumption DEF Words
  <2> QED
    BY <2>1, <2>2, <2>4, <2>5, <2>6 DEF Good, Decode
<1>2. CASE node \in {LocalNode(fw.said.fun, n) : n \in 0 .. fw.locals - 1}
  <2>1. PICK n \in 0 .. fw.locals - 1 : node = LocalNode(fw.said.fun, n)
    BY <1>2
  <2>2. node.locals = {n} /\ node.locals # {}
    BY <2>1 DEF LocalNode
  <2>3. (CHOOSE m \in node.locals : TRUE) = n
    BY <2>2
  <2>4. Raw(node) = PackLocal(fw.symbol, n)
    BY <2>2, <2>3 DEF Raw
  <2>5. n \in 0 .. MaxLocals - 1 /\ n \in Nat /\ n < Half /\ fw.symbol \in Nat
    <3>1. fw.locals \in 0 .. MaxLocals /\ fw.symbol \in 0 .. Len(symbols) - 1
      BY DEF FwWords
    <3> QED
      BY <3>1, LocalsFit, HalfAssumption
  <2>6. encode_node(Raw(node)) = 2 * n
    BY <2>4, <2>5, LocalUnpacked DEF encode_node
  <2>7. (2 * n) % 2 = 0 /\ (2 * n) \div 2 = n
    BY <2>5, Halves
  <2>8. 2 * n \in Words
    BY <2>5, HalfAssumption DEF Words
  <2> QED
    BY <2>1, <2>6, <2>7, <2>8 DEF Good, Decode
<1> QED
  BY <1>1, <1>2 DEF Nodes

\* What addEdge stores of an edge decodes to that edge.
LEMMA EdgeCode ==
  ASSUME Tables, FwWords, NEW k \in Kinds, NEW to \in Nodes, NEW from \in Nodes,
         NEW idx \in Index(k)
  PROVE  /\ GoodEdge(k, <<encode_node(Raw(to)), encode_node(Raw(from))>> \o idx, Len(symbols))
         /\ DecodeEdge(symbols, fw.said.fun, <<encode_node(Raw(to)), encode_node(Raw(from))>> \o idx)
              = <<to, from>> \o idx
<1> DEFINE a == encode_node(Raw(to))
           b == encode_node(Raw(from))
           h == <<a, b>>
           e == h \o idx
           ns == Len(symbols)
<1>1. /\ Good(a, ns) /\ Decode(symbols, fw.said.fun, a) = to
      /\ Good(b, ns) /\ Decode(symbols, fw.said.fun, b) = from
  BY NodeCode
<1>2. idx \in Seq(Words) /\ Len(idx) = Components[k] - 2 /\ Components[k] \in {2, 3}
  <2>1. CASE Components[k] = 3
    <3>1. PICK n \in Indices : idx = <<n>>
      BY <2>1 DEF Index
    <3>2. n \in Words
      BY CodecAssumption
    <3> QED
      BY <2>1, <3>1, <3>2
  <2>2. CASE Components[k] = 2
    <3>1. idx = <<>>
      BY <2>2 DEF Index
    <3> QED
      BY <2>2, <3>1, EmptySeq
  <2> QED
    BY <2>1, <2>2, KindsType
<1>3. h \in Seq(Words) /\ Len(h) = 2 /\ h[1] = a /\ h[2] = b
  BY <1>1 DEF Good
<1> HIDE DEF a, b, h
<1>4. /\ e \in Seq(Words) /\ Len(e) = Len(h) + Len(idx)
      /\ \A i \in 1 .. Len(h) : e[i] = h[i]
      /\ \A i \in 1 .. Len(idx) : e[Len(h) + i] = idx[i]
  BY <1>2, <1>3, CatWords
<1> HIDE DEF e
<1>5. Len(e) = Components[k] /\ e[1] = a /\ e[2] = b
  BY <1>2, <1>3, <1>4
<1>6. SubSeq(e, 2 + 1, 2 + Len(idx)) = idx
  BY <1>2, <1>3, <1>4, Slice
<1>7. SubSeq(e, 3, Len(e)) = idx
  <2>1. 2 + 1 = 3 /\ 2 + Len(idx) = Len(e)
    BY <1>2, <1>5
  <2> QED
    BY <1>6, <2>1
<1>8. GoodEdge(k, e, ns)
  BY <1>1, <1>4, <1>5 DEF GoodEdge
<1>9. DecodeEdge(symbols, fw.said.fun, e) = <<to, from>> \o idx
  BY <1>1, <1>5, <1>7 DEF DecodeEdge
<1> QED
  BY <1>8, <1>9 DEF e, h, a, b


LEMMA BagsMore ==
  ASSUME Tables, FwBags, symbols' \in Seq(Globals), Longer(symbols, symbols'),
         fw' = fw
  PROVE  FwBags'
<1>1. ASSUME NEW k \in Kinds
      PROVE  BagSays(k, symbols', fw.said.fun, fw.edges[k], fw.said.edges[k])
  BY BagSaysMore DEF Tables, FwBags
<1> QED
  BY <1>1 DEF FwBags

\* A bill of materials is known again from its two strings.
LEMMA BomStrings ==
  ASSUME NEW bom \in Boms
  PROVE  LET parts == IF bom = <<>> THEN <<Blank, Blank>> ELSE bom IN
         /\ parts[1] \in Strings /\ parts[2] \in Strings
         /\ Known(<<parts[1], parts[2]>>) = Known(bom)
<1>1. CASE bom = <<>>
  <2>1. Blank \in Strings
    BY DEF Strings
  <2>2. Blank \in ToSet(<<Blank, Blank>>) /\ Known(<<>>) = <<>>
    <3>1. 1 \in DOMAIN <<Blank, Blank>> /\ <<Blank, Blank>>[1] = Blank
      OBVIOUS
    <3> QED
      BY <3>1 DEF ToSet, Known
  <2> QED
    BY <1>1, <2>1, <2>2 DEF Known
<1>2. CASE bom # <<>>
  <2>1. bom = <<bom[1], bom[2]>>
    BY <1>2, CodecAssumption
  <2>2. bom[1] \in ToSet(bom) /\ bom[2] \in ToSet(bom)
    <3> DEFINE a == bom[1]
               b == bom[2]
    <3>1. bom = <<a, b>>
      BY <2>1
    <3> HIDE DEF a, b
    <3>2. DOMAIN bom = 1 .. 2
      BY <3>1
    <3>3. 1 \in DOMAIN bom /\ 2 \in DOMAIN bom
      BY <3>2
    <3> QED
      BY <3>3 DEF ToSet
  <2>3. ToSet(bom) \subseteq Strings
    BY DEF Strings
  <2> QED
    BY <1>2, <2>1, <2>2, <2>3
<1> QED
  BY <1>1, <1>2

\* Each operation of the writer keeps its tables and its current function.
LEMMA WriterSymbol ==
  ASSUME WriterInv, NEW g \in Globals, Symbol(g)
  PROVE  WriterInv' /\ Longer(symbols, symbols') /\ Longer(strings, strings')
<1>1. symbols' = Intern(symbols, g)
  BY DEF Symbol, Intern
<1>2. symbols' \in Seq(Globals) /\ Once(symbols') /\ Longer(symbols, symbols')
  BY <1>1, InternGrows DEF WriterInv, Tables
<1>3. UNCHANGED <<strings, names, nfuns, fw, sealed, debug>>
  BY DEF Symbol, Writing
<1>4. Tables'
  BY <1>2, <1>3 DEF WriterInv, Tables
<1>5. ASSUME fw' # Nothing
      PROVE  FwShape' /\ FwWords' /\ FwBags'
  <2>1. FwShape /\ FwWords /\ FwBags /\ Tables
    BY <1>3, <1>5 DEF WriterInv
  <2>2. FwShape'
    BY <1>3, <2>1 DEF FwShape
  <2>3. FwBags'
    BY <1>2, <1>3, <2>1, BagsMore
  <2>4. FwWords'
    <3>1. Len(symbols) \in Nat /\ Len(symbols') \in Nat /\ Len(symbols) <= Len(symbols')
      BY <1>2, <2>1, LenProperties DEF Tables, Longer
    <3>2. fw.symbol \in 0 .. Len(symbols') - 1 /\ fw.symbol + 1 \in 1 .. Len(symbols)
      BY <2>1, <3>1 DEF FwWords
    <3>3. symbols'[fw.symbol + 1] = fw.said.fun
      BY <1>2, <2>1, <3>2 DEF FwWords, Longer
    <3> QED
      BY <1>3, <2>1, <3>2, <3>3 DEF FwWords
  <2> QED
    BY <2>2, <2>3, <2>4
<1>6. Longer(strings, strings')
  BY <1>3, LongerSelf DEF WriterInv, Tables
<1> QED
  BY <1>2, <1>4, <1>5, <1>6 DEF WriterInv

LEMMA WriterBegin ==
  ASSUME WriterInv, NEW f \in Globals, BeginFunction(f)
  PROVE  WriterInv' /\ Longer(symbols, symbols') /\ Longer(strings, strings')
<1>1. PICK bom \in Boms :
        LET parts == IF bom = <<>> THEN <<Blank, Blank>> ELSE bom IN
        /\ symbols' = Intern(symbols, f)
        /\ strings' = Intern(Intern(strings, parts[1]), parts[2])
        /\ fw' = [symbol |-> IndexOf(symbols', f),
                  comp |-> IndexOf(strings', parts[1]),
                  version |-> IndexOf(strings', parts[2]),
                  locals |-> 0,
                  edges |-> NoEdges,
                  said |-> [fun |-> f, sbom |-> Known(bom), names |-> <<>>,
                            edges |-> NoEdges, allocas |-> 0, locals |-> 0]]
  BY DEF BeginFunction
<1> DEFINE parts == IF bom = <<>> THEN <<Blank, Blank>> ELSE bom
           mid == Intern(strings, parts[1])
<1>2. parts[1] \in Strings /\ parts[2] \in Strings /\ Known(<<parts[1], parts[2]>>) = Known(bom)
  BY BomStrings
<1> HIDE DEF parts
<1>3. /\ mid \in Seq(Strings) /\ Once(mid) /\ Longer(strings, mid) /\ parts[1] \in ToSet(mid)
  BY <1>2, InternGrows DEF WriterInv, Tables
<1> HIDE DEF mid
<1>4. strings' = Intern(mid, parts[2])
  BY <1>1 DEF parts, mid
<1>5. /\ strings' \in Seq(Strings) /\ Once(strings') /\ Longer(mid, strings')
      /\ parts[2] \in ToSet(strings')
  BY <1>2, <1>3, <1>4, InternGrows
<1>6. Longer(strings, strings')
  BY <1>3, <1>5, LongerTrans DEF WriterInv, Tables
<1>7. parts[1] \in ToSet(strings')
  <2>1. DOMAIN mid = 1 .. Len(mid) /\ DOMAIN strings' = 1 .. Len(strings') /\ Len(mid) \in Nat
        /\ Len(strings') \in Nat
    BY <1>3, <1>5, LenProperties
  <2>2. PICK n \in 1 .. Len(mid) : mid[n] = parts[1]
    BY <1>3, <2>1 DEF ToSet
  <2>3. n \in DOMAIN strings' /\ strings'[n] = parts[1]
    BY <1>5, <2>1, <2>2 DEF Longer
  <2> QED
    BY <2>3 DEF ToSet
<1>8. /\ symbols' \in Seq(Globals) /\ Once(symbols') /\ Longer(symbols, symbols')
      /\ f \in ToSet(symbols')
  BY <1>1, InternGrows DEF WriterInv, Tables
<1>9. UNCHANGED <<names, sealed, debug>> /\ nfuns' = nfuns + 1
  BY DEF BeginFunction, Writing
<1>10. Tables'
  <2>1. Len(strings) \in Nat /\ Len(strings') \in Nat /\ Len(strings) <= Len(strings')
    BY <1>5, <1>6, LenProperties DEF Longer, WriterInv, Tables
  <2>2. 0 .. Len(strings) - 1 \subseteq 0 .. Len(strings') - 1
    BY <2>1
  <2>3. names' \in Seq(0 .. Len(strings') - 1)
    BY <1>9, <2>2, SeqMonotonic DEF WriterInv, Tables
  <2> QED
    BY <1>5, <1>8, <1>9, <2>3 DEF WriterInv, Tables
<1>11. /\ fw'.symbol = IndexOf(symbols', f) /\ fw'.comp = IndexOf(strings', parts[1])
       /\ fw'.version = IndexOf(strings', parts[2]) /\ fw'.locals = 0 /\ fw'.edges = NoEdges
       /\ fw'.said.fun = f /\ fw'.said.sbom = Known(bom) /\ fw'.said.names = <<>>
       /\ fw'.said.edges = NoEdges
  BY <1>1 DEF parts
<1>12. FwWords'
  <2>1. /\ IndexOf(symbols', f) \in 0 .. Len(symbols') - 1
        /\ symbols'[IndexOf(symbols', f) + 1] = f
    BY <1>8, IndexFound
  <2>2. /\ IndexOf(strings', parts[1]) \in 0 .. Len(strings') - 1
        /\ strings'[IndexOf(strings', parts[1]) + 1] = parts[1]
    BY <1>5, <1>7, IndexFound
  <2>3. /\ IndexOf(strings', parts[2]) \in 0 .. Len(strings') - 1
        /\ strings'[IndexOf(strings', parts[2]) + 1] = parts[2]
    BY <1>5, IndexFound
  <2>4. 0 \in 0 .. MaxLocals
    BY LocalsFit
  <2> QED
    BY <1>2, <1>11, <2>1, <2>2, <2>3, <2>4 DEF FwWords
<1>13. FwBags'
  <2>1. \A k \in Kinds : NoEdges[k] = EmptyBag
    BY DEF NoEdges
  <2>2. \A k \in Kinds : BagSays(k, symbols', f, EmptyBag, EmptyBag)
    BY BagSaysNone
  <2> QED
    BY <1>11, <2>1, <2>2 DEF FwBags
<1>14. FwShape'
  <2>1. NoEdges = [k \in Kinds |-> NoEdges[k]]
    BY DEF NoEdges
  <2> QED
    BY <1>1, <2>1 DEF FwShape
<1> QED
  BY <1>6, <1>8, <1>10, <1>12, <1>13, <1>14 DEF WriterInv


\* A name in a table stays where it is in a longer one.
LEMMA LongerRange ==
  ASSUME NEW S, NEW a \in Seq(S), NEW b \in Seq(S), Longer(a, b)
  PROVE  0 .. Len(a) - 1 \subseteq 0 .. Len(b) - 1
<1>1. Len(a) \in Nat /\ Len(b) \in Nat /\ Len(a) <= Len(b)
  BY LenProperties DEF Longer
<1> QED
  BY <1>1

LEMMA WriterLocal ==
  ASSUME WriterInv, FreshLocal
  PROVE  WriterInv' /\ symbols' = symbols /\ Longer(strings, strings')
<1>0. Tables /\ fw # Nothing /\ FwShape /\ FwWords /\ FwBags /\ fw.locals < MaxLocals
  BY DEF WriterInv, FreshLocal
<1>1. PICK s \in LocalNames :
        /\ strings' = IF debug THEN Intern(strings, s) ELSE strings
        /\ names' = IF debug THEN Append(names, IndexOf(strings', s)) ELSE names
        /\ fw' = [fw EXCEPT !.locals = @ + 1,
                            !.said.names = IF debug THEN Append(@, s) ELSE @]
  BY DEF FreshLocal
<1>2. UNCHANGED <<symbols, nfuns, sealed, debug>>
  BY DEF FreshLocal, Writing
<1>3. s \in Strings
  BY DEF Strings
<1>4. strings' \in Seq(Strings) /\ Once(strings') /\ Longer(strings, strings')
  <2>1. CASE debug
    BY <1>0, <1>1, <1>3, <2>1, InternGrows DEF Tables
  <2>2. CASE ~debug
    BY <1>0, <1>1, <2>2, LongerSelf DEF Tables
  <2> QED
    BY <2>1, <2>2
<1>5. 0 .. Len(strings) - 1 \subseteq 0 .. Len(strings') - 1
  BY <1>0, <1>4, LongerRange DEF Tables
<1>6. names \in Seq(0 .. Len(strings') - 1)
  BY <1>0, <1>5, SeqMonotonic DEF Tables
<1>7. names' \in Seq(0 .. Len(strings') - 1)
  <2>1. CASE debug
    <3>1. s \in ToSet(strings')
      BY <1>0, <1>1, <1>3, <2>1, InternGrows DEF Tables
    <3>2. IndexOf(strings', s) \in 0 .. Len(strings') - 1
      BY <1>4, <3>1, IndexFound
    <3> QED
      BY <1>1, <1>6, <2>1, <3>2, AppendProperties
  <2>2. CASE ~debug
    BY <1>1, <1>6, <2>2
  <2> QED
    BY <2>1, <2>2
<1>8. Tables'
  BY <1>0, <1>2, <1>4, <1>7 DEF Tables
<1>9. /\ fw'.symbol = fw.symbol /\ fw'.comp = fw.comp /\ fw'.version = fw.version
      /\ fw'.locals = fw.locals + 1 /\ fw'.edges = fw.edges
      /\ fw'.said.fun = fw.said.fun /\ fw'.said.sbom = fw.said.sbom
      /\ fw'.said.edges = fw.said.edges
      /\ fw'.said.allocas = fw.said.allocas /\ fw'.said.locals = fw.said.locals
  BY <1>0, <1>1 DEF FwShape
<1>10. FwShape'
  <2>1. fw' = [symbol |-> fw.symbol, comp |-> fw.comp, version |-> fw.version,
               locals |-> fw.locals + 1, edges |-> [k \in Kinds |-> fw.edges[k]],
               said |-> [fun |-> fw.said.fun, sbom |-> fw.said.sbom, names |-> fw'.said.names,
                         edges |-> [k \in Kinds |-> fw.said.edges[k]],
                         allocas |-> fw.said.allocas, locals |-> fw.said.locals]]
    <3> DEFINE F == [k \in Kinds |-> fw.said.edges[k]]
               S == [fun |-> fw.said.fun, sbom |-> fw.said.sbom, names |-> fw.said.names,
                     edges |-> F,
                     allocas |-> fw.said.allocas, locals |-> fw.said.locals]
               E == [k \in Kinds |-> fw.edges[k]]
               N == IF debug THEN Append(fw.said.names, s) ELSE fw.said.names
               L == fw.locals + 1
    <3>1. fw = [symbol |-> fw.symbol, comp |-> fw.comp, version |-> fw.version,
                locals |-> fw.locals, edges |-> E, said |-> S]
      BY <1>0 DEF FwShape
    <3>2. fw' = [fw EXCEPT !.locals = L, !.said.names = N]
      BY <1>1
    <3>3. fw.said = S
      BY <1>0 DEF FwShape
    <3> HIDE DEF E, F, N, S, L
    <3>4. fw' = [fw EXCEPT !.locals = L, !.said = [fw.said EXCEPT !.names = N]]
      BY <3>2
    <3>5. fw' = [symbol |-> fw.symbol, comp |-> fw.comp, version |-> fw.version,
                 locals |-> L, edges |-> E, said |-> [S EXCEPT !.names = N]]
      <4> DEFINE M == [fw.said EXCEPT !.names = N]
                 a == fw.symbol
                 b == fw.comp
                 c == fw.version
                 n == fw.locals
      <4>1. /\ fw = [symbol |-> a, comp |-> b, version |-> c, locals |-> n, edges |-> E, said |-> S]
            /\ fw' = [fw EXCEPT !.locals = L, !.said = M]
        BY <3>1, <3>4
      <4>2. M = [S EXCEPT !.names = N]
        BY <3>3
      <4> HIDE DEF M, a, b, c, n
      <4>3. fw' = [symbol |-> a, comp |-> b, version |-> c, locals |-> L, edges |-> E, said |-> M]
        BY <4>1
      <4> QED
        BY <4>2, <4>3 DEF a, b, c
    <3>6. [S EXCEPT !.names = N]
            = [fun |-> fw.said.fun, sbom |-> fw.said.sbom, names |-> N, edges |-> F,
               allocas |-> fw.said.allocas, locals |-> fw.said.locals]
      BY DEF S
    <3>7. fw'.said.names = N
      BY <3>5, <3>6
    <3> QED
      BY <3>5, <3>6, <3>7 DEF E, F, L
  <2> QED
    BY <1>9, <2>1 DEF FwShape
<1>11. FwWords'
  <2>1. /\ fw.comp \in 0 .. Len(strings') - 1 /\ fw.version \in 0 .. Len(strings') - 1
    BY <1>0, <1>5 DEF FwWords
  <2>2. fw.comp + 1 \in 1 .. Len(strings) /\ fw.version + 1 \in 1 .. Len(strings)
    BY <1>0 DEF FwWords
  <2>3. strings'[fw.comp + 1] = strings[fw.comp + 1] /\ strings'[fw.version + 1] = strings[fw.version + 1]
    BY <1>4, <2>2 DEF Longer
  <2>4. fw.locals + 1 \in 0 .. MaxLocals
    <3> DEFINE l == fw.locals
    <3>1. l \in 0 .. MaxLocals /\ l < MaxLocals /\ MaxLocals \in Nat
      BY <1>0, LocalsFit DEF FwWords
    <3> HIDE DEF l
    <3>2. l + 1 \in 0 .. MaxLocals
      BY <3>1
    <3> QED
      BY <3>2 DEF l
  <2> QED
    BY <1>0, <1>2, <1>9, <2>1, <2>3, <2>4 DEF FwWords
<1>12. FwBags'
  BY <1>0, <1>2, <1>9 DEF FwBags
<1> QED
  BY <1>2, <1>4, <1>8, <1>10, <1>11, <1>12 DEF WriterInv

LEMMA WriterAdd ==
  ASSUME WriterInv, NEW k \in Kinds, AddEdge(k)
  PROVE  /\ WriterInv' /\ UNCHANGED gw
         /\ fw'.said.fun = fw.said.fun /\ fw'.said.names = fw.said.names
         /\ fw'.locals = fw.locals /\ fw' # Nothing
<1>0. Tables /\ fw # Nothing /\ FwShape /\ FwWords /\ FwBags
  BY DEF WriterInv, AddEdge
<1>1. PICK to \in Nodes, from \in Nodes, idx \in Index(k) :
       fw' = [fw EXCEPT
         !.edges[k] = @ (+) SetToBag({<<encode_node(Raw(to)), encode_node(Raw(from))>> \o idx}),
         !.said.edges[k] = @ (+) SetToBag({<<to, from>> \o idx})]
  BY DEF AddEdge
<1>2. UNCHANGED <<symbols, strings, names, words, nfuns, sealed, debug>>
  BY DEF AddEdge, Writing, gw
<1> DEFINE c == <<encode_node(Raw(to)), encode_node(Raw(from))>> \o idx
           x == <<to, from>> \o idx
<1>3. GoodEdge(k, c, Len(symbols)) /\ DecodeEdge(symbols, fw.said.fun, c) = x
  BY <1>0, EdgeCode
<1> HIDE DEF c, x
<1> DEFINE B == fw.edges[k] (+) SetToBag({c})
           T == fw.said.edges[k] (+) SetToBag({x})
<1>4. BagSays(k, symbols, fw.said.fun, B, T)
  <2>1. BagSays(k, symbols, fw.said.fun, fw.edges[k], fw.said.edges[k])
    BY <1>0 DEF FwBags
  <2>2. BagSays(k, symbols, fw.said.fun, fw.edges[k] (+) SetToBag({c}),
                fw.said.edges[k] (+) SetToBag({DecodeEdge(symbols, fw.said.fun, c)}))
    BY <1>0, <1>3, <2>1, BagSaysAdd DEF Tables
  <2> QED
    BY <1>3, <2>2
<1>5. fw' = [fw EXCEPT !.edges[k] = B, !.said.edges[k] = T]
  BY <1>1 DEF c, x
<1> HIDE DEF B, T
<1>6. /\ fw'.symbol = fw.symbol /\ fw'.comp = fw.comp /\ fw'.version = fw.version
      /\ fw'.locals = fw.locals
      /\ fw'.said.fun = fw.said.fun /\ fw'.said.sbom = fw.said.sbom
      /\ fw'.said.names = fw.said.names
      /\ fw'.said.allocas = fw.said.allocas /\ fw'.said.locals = fw.said.locals
      /\ fw'.edges = [j \in Kinds |-> IF j = k THEN B ELSE fw.edges[j]]
      /\ fw'.said.edges = [j \in Kinds |-> IF j = k THEN T ELSE fw.said.edges[j]]
  BY <1>0, <1>5 DEF FwShape
<1>7. fw' = [symbol |-> fw.symbol, comp |-> fw.comp, version |-> fw.version,
             locals |-> fw.locals, edges |-> fw'.edges,
             said |-> [fun |-> fw.said.fun, sbom |-> fw.said.sbom, names |-> fw.said.names,
                       edges |-> fw'.said.edges,
                       allocas |-> fw.said.allocas, locals |-> fw.said.locals]]
  <2> DEFINE F == [j \in Kinds |-> fw.said.edges[j]]
             S == [fun |-> fw.said.fun, sbom |-> fw.said.sbom, names |-> fw.said.names,
                   edges |-> F,
                   allocas |-> fw.said.allocas, locals |-> fw.said.locals]
             E == [j \in Kinds |-> fw.edges[j]]
  <2>1. fw = [symbol |-> fw.symbol, comp |-> fw.comp, version |-> fw.version,
              locals |-> fw.locals, edges |-> E, said |-> S]
    BY <1>0 DEF FwShape
  <2>2. fw.said = S /\ fw.edges = E /\ fw.said.edges = F
    BY <1>0 DEF FwShape
  <2> HIDE DEF E, F, S
  <2>3. fw' = [fw EXCEPT !.edges = [fw.edges EXCEPT ![k] = B],
                         !.said = [fw.said EXCEPT !.edges = [fw.said.edges EXCEPT ![k] = T]]]
    BY <1>5
  <2>4. fw' = [symbol |-> fw.symbol, comp |-> fw.comp, version |-> fw.version,
               locals |-> fw.locals, edges |-> [E EXCEPT ![k] = B],
               said |-> [S EXCEPT !.edges = [F EXCEPT ![k] = T]]]
    BY <2>1, <2>2, <2>3
  <2>5. [S EXCEPT !.edges = [F EXCEPT ![k] = T]]
          = [fun |-> fw.said.fun, sbom |-> fw.said.sbom, names |-> fw.said.names,
             edges |-> [F EXCEPT ![k] = T],
             allocas |-> fw.said.allocas, locals |-> fw.said.locals]
    BY DEF S
  <2>6. fw'.edges = [E EXCEPT ![k] = B] /\ fw'.said.edges = [F EXCEPT ![k] = T]
    BY <2>4, <2>5
  <2> QED
    BY <2>4, <2>5, <2>6
<1>8. FwShape'
  <2>1. /\ fw'.edges = [j \in Kinds |-> fw'.edges[j]]
        /\ fw'.said.edges = [j \in Kinds |-> fw'.said.edges[j]]
    BY <1>6
  <2> QED
    BY <1>6, <1>7, <2>1 DEF FwShape
<1>9. FwWords'
  BY <1>0, <1>2, <1>6 DEF FwWords
<1>10. FwBags'
  BY <1>0, <1>2, <1>4, <1>6 DEF FwBags
<1>11. Tables'
  BY <1>0, <1>2 DEF Tables
<1>12. fw' # Nothing
  <2>1. "symbol" \in DOMAIN fw' /\ "symbol" \notin DOMAIN Nothing
    BY <1>7 DEF Nothing
  <2> QED
    BY <2>1
<1> QED
  BY <1>2, <1>6, <1>8, <1>9, <1>10, <1>11, <1>12 DEF WriterInv, gw


----------------------------------------------------------------------------
(* What the writer has filed: while it writes, the descriptions of the     *)
(* graphs in the section and those of the current graph are all that was   *)
(* written, in this order.                                                 *)

Graphs == [symbols : Seq(Globals), strings : Seq(Strings), names : Seq(Nat),
           words : Seq(Words), nfuns : Nat, has_names : BOOLEAN]

GraphHolds(g, ds) ==
  g.nfuns = Len(ds) /\ Holds(g.symbols, g.strings, g.has_names, g.names, g.words, ds)

SectionHolds(secs) ==
  /\ section \in Seq(Graphs) /\ secs \in Seq(Seq(Descs)) /\ Len(secs) = Len(section)
  /\ \A n \in 1 .. Len(section) : GraphHolds(section[n], secs[n])

\* The names of the active function's locals.
Named(mine) ==
  /\ mine \in Seq(Nat) /\ Len(mine) = IF debug THEN fw.locals ELSE 0
  /\ \A n \in 1 .. Len(mine) : mine[n] < Len(strings)
  /\ fw.said.names = IF debug THEN [n \in 1 .. fw.locals |-> strings[mine[n] + 1]] ELSE <<>>

\* What is finished of the current graph.
ActiveHolds(ds, before, mine) ==
  /\ before \in Seq(Nat) /\ names = before \o mine /\ Named(mine)
  /\ Holds(symbols, strings, debug, before, words, ds)

CurrentHolds(ds) ==
  IF fw = Nothing
    THEN nfuns = Len(ds) /\ Holds(symbols, strings, debug, names, words, ds)
    ELSE nfuns = Len(ds) + 1 /\ \E before, mine : ActiveHolds(ds, before, mine)

Filed(ds, secs) ==
  /\ ds \in Seq(Descs) /\ CurrentHolds(ds) /\ SectionHolds(secs)
  /\ written = FlattenSeq(secs) \o ds

FiledInv == ~sealed => \E ds, secs : Filed(ds, secs)

LEMMA CatDescs ==
  /\ \A x, y \in Seq(Descs) : x \o y \in Seq(Descs) /\ Len(x \o y) = Len(x) + Len(y)
  /\ \A x, y, z \in Seq(Descs) : (x \o y) \o z = x \o (y \o z)
  /\ \A x \in Seq(Descs) : x \o <<>> = x /\ <<>> \o x = x
  /\ \A x, y \in Seq(Descs) : \A d \in Descs : Append(x \o y, d) = x \o Append(y, d)
<1>1. \A x, y \in Seq(Descs) : x \o y \in Seq(Descs) /\ Len(x \o y) = Len(x) + Len(y)
  BY ConcatProperties
<1>2. \A x, y, z \in Seq(Descs) : (x \o y) \o z = x \o (y \o z)
  BY ConcatAssociative
<1>3. \A x \in Seq(Descs) : x \o <<>> = x /\ <<>> \o x = x
  BY ConcatEmptySeq
<1>4. ASSUME NEW x \in Seq(Descs), NEW y \in Seq(Descs), NEW d \in Descs
      PROVE  Append(x \o y, d) = x \o Append(y, d)
  <2>1. Append(x \o y, d) = (x \o y) \o <<d>> /\ Append(y, d) = y \o <<d>>
    BY <1>1, AppendIsConcat
  <2>2. <<d>> \in Seq(Descs)
    OBVIOUS
  <2>3. (x \o y) \o <<d>> = x \o (y \o <<d>>)
    BY <1>2, <2>2
  <2> QED
    BY <2>1, <2>3
<1> QED
  BY <1>1, <1>2, <1>3, <1>4

\* What words of a function say is a description.
LEMMA DescribesType ==
  ASSUME NEW sy \in Seq(Globals), NEW st \in Seq(Strings), NEW has \in BOOLEAN,
         NEW part, NEW nm, NEW d, Describes(sy, st, has, part, nm, d)
  PROVE  d \in Descs /\ part \in Seq(Words)
<1>1. PICK h, es : /\ Valid(sy, st, has, h, nm, es)
                   /\ part = h \o Stream(es)
                   /\ d = DescOf(sy, st, has, h, nm, es)
  BY DEF Describes
<1>2. h \in Seq(Words) /\ nm \in Seq(Nat) /\ Lists(es, Len(sy))
  BY <1>1 DEF Valid
<1>3. es \in [Kinds -> Seq(Seq(Words))] /\ Stream(es) \in Seq(Words)
  BY <1>2, Encodings DEF Lists
<1>4. d \in Descs
  BY <1>1, <1>2, <1>3 DEF Descs
<1>5. part \in Seq(Words)
  BY <1>1, <1>2, <1>3, CatWords
<1> QED
  BY <1>4, <1>5

LEMMA HoldsType ==
  ASSUME NEW sy, NEW st, NEW has, NEW nm, NEW w, NEW ds, Holds(sy, st, has, nm, w, ds)
  PROVE  w \in Seq(Words)
  BY FlattenType DEF Holds

\* The section and what is before the active function stay as they are.
LEMMA FiledTables ==
  ASSUME Tables, Tables', Longer(symbols, symbols'), Longer(strings, strings'),
         debug' = debug, words' = words,
         NEW nm, NEW ds, Holds(symbols, strings, debug, nm, words, ds)
  PROVE  Holds(symbols', strings', debug', nm, words', ds)
<1>1. Holds(symbols', strings', debug, nm, words, ds)
  BY HoldsMore DEF Tables
<1> QED
  BY <1>1

LEMMA SectionSame ==
  ASSUME NEW secs, SectionHolds(secs), section' = section
  PROVE  SectionHolds(secs)'
  BY DEF SectionHolds

\* Each operation of the writer keeps what was filed; Finish adds the function's
\* words, WriteTo moves the graph to the section.
LEMMA FiledSymbol ==
  ASSUME WriterInv, FiledInv, NEW g \in Globals, Symbol(g)
  PROVE  FiledInv'
<1>0. ~sealed /\ UNCHANGED <<section, sealed, written, debug, words, fw, nfuns, names, strings>> /\ fw # Nothing
  BY DEF Symbol, Writing
<1>1. PICK ds, secs : Filed(ds, secs)
  BY <1>0 DEF FiledInv
<1>2. Tables /\ Tables' /\ Longer(symbols, symbols') /\ Longer(strings, strings')
  BY WriterSymbol DEF WriterInv
<1>3. PICK before, mine : ActiveHolds(ds, before, mine)
  BY <1>0, <1>1 DEF Filed, CurrentHolds
<1>4. Holds(symbols', strings', debug', before, words', ds)
  BY <1>0, <1>2, <1>3, FiledTables DEF ActiveHolds
<1>5. Named(mine)'
  BY <1>0, <1>3 DEF ActiveHolds, Named
<1>6. ActiveHolds(ds, before, mine)'
  BY <1>0, <1>3, <1>4, <1>5 DEF ActiveHolds
<1>7. CurrentHolds(ds)'
  BY <1>0, <1>1, <1>6 DEF Filed, CurrentHolds
<1>8. SectionHolds(secs)'
  BY <1>0, <1>1, SectionSame DEF Filed
<1>9. Filed(ds, secs)'
  BY <1>0, <1>1, <1>7, <1>8 DEF Filed
<1> QED
  BY <1>9 DEF FiledInv

LEMMA FiledBegin ==
  ASSUME WriterInv, FiledInv, NEW f \in Globals, BeginFunction(f)
  PROVE  FiledInv'
<1>0. ~sealed /\ UNCHANGED <<section, sealed, written, debug, words, names>> /\ fw = Nothing
      /\ nfuns' = nfuns + 1
  BY DEF BeginFunction, Writing
<1>1. PICK ds, secs : Filed(ds, secs)
  BY <1>0 DEF FiledInv
<1>2. Tables /\ Tables' /\ Longer(symbols, symbols') /\ Longer(strings, strings')
  BY WriterBegin DEF WriterInv
<1>3. nfuns = Len(ds) /\ Holds(symbols, strings, debug, names, words, ds)
  BY <1>0, <1>1 DEF Filed, CurrentHolds
<1>4. Holds(symbols', strings', debug', names, words', ds)
  BY <1>0, <1>2, <1>3, FiledTables
<1>5. "symbol" \in DOMAIN fw' /\ fw'.locals = 0 /\ fw'.said.names = <<>>
  BY DEF BeginFunction
<1>6. fw' # Nothing
  <2>1. "symbol" \notin DOMAIN Nothing
    BY DEF Nothing
  <2> QED
    BY <1>5, <2>1
<1> DEFINE none == <<>>
<1>7. none \in Seq(Nat) /\ Len(none) = 0 /\ names \o none = names /\ names \in Seq(Nat)
  <2>1. 0 .. Len(strings) - 1 \subseteq Nat
    OBVIOUS
  <2>2. names \in Seq(Nat)
    BY <1>2, <2>1, SeqMonotonic DEF Tables
  <2> QED
    BY <2>2, EmptySeq, ConcatEmptySeq
<1>8. Named(none)'
  <2>1. [n \in 1 .. 0 |-> strings'[none[n] + 1]] = <<>>
    BY SeqDef, EmptySeq
  <2>2. \A n \in 1 .. 0 : FALSE
    OBVIOUS
  <2> HIDE DEF none
  <2> QED
    BY <1>0, <1>2, <1>5, <1>7, <2>1, <2>2 DEF Named, Tables
<1> HIDE DEF none
<1>9. ActiveHolds(ds, names, none)'
  BY <1>0, <1>4, <1>7, <1>8 DEF ActiveHolds
<1>10. CurrentHolds(ds)'
  BY <1>0, <1>3, <1>6, <1>9 DEF CurrentHolds
<1>11. SectionHolds(secs)'
  BY <1>0, <1>1, SectionSame DEF Filed
<1>12. Filed(ds, secs)'
  BY <1>0, <1>1, <1>10, <1>11 DEF Filed
<1> QED
  BY <1>12 DEF FiledInv


LEMMA FiledLocal ==
  ASSUME WriterInv, FiledInv, FreshLocal
  PROVE  FiledInv'
<1>0. ~sealed /\ UNCHANGED <<section, sealed, written, debug, words, nfuns, symbols>> /\ fw # Nothing
  BY DEF FreshLocal, Writing
<1>1. PICK ds, secs : Filed(ds, secs)
  BY <1>0 DEF FiledInv
<1>2. Tables /\ Tables' /\ Longer(symbols, symbols') /\ Longer(strings, strings') /\ FwShape /\ FwWords
  BY <1>0, WriterLocal, LongerSelf DEF WriterInv, Tables
<1>3. nfuns = Len(ds) + 1 /\ \E before, mine : ActiveHolds(ds, before, mine)
  BY <1>0, <1>1 DEF Filed, CurrentHolds
<1>4. PICK before, mine : ActiveHolds(ds, before, mine)
  BY <1>3
<1>5. Holds(symbols', strings', debug', before, words', ds)
  BY <1>0, <1>2, <1>4, FiledTables DEF ActiveHolds
<1>6. PICK s \in LocalNames :
        /\ strings' = IF debug THEN Intern(strings, s) ELSE strings
        /\ names' = IF debug THEN Append(names, IndexOf(strings', s)) ELSE names
        /\ fw' = [fw EXCEPT !.locals = @ + 1,
                            !.said.names = IF debug THEN Append(@, s) ELSE @]
  BY DEF FreshLocal
<1>7. /\ fw'.locals = fw.locals + 1
      /\ fw'.said.names = IF debug THEN Append(fw.said.names, s) ELSE fw.said.names
  <2>1. "said" \in DOMAIN fw /\ "locals" \in DOMAIN fw /\ "names" \in DOMAIN fw.said
    BY <1>2 DEF FwShape
  <2> DEFINE N == IF debug THEN Append(fw.said.names, s) ELSE fw.said.names
  <2>2. fw' = [fw EXCEPT !.locals = fw.locals + 1, !.said.names = N]
    BY <1>6
  <2> HIDE DEF N
  <2>3. fw'.locals = fw.locals + 1 /\ fw'.said.names = N
    BY <2>1, <2>2
  <2> QED
    BY <2>3 DEF N
<1>8. fw' # Nothing
  <2>1. "symbol" \in DOMAIN fw' /\ "symbol" \notin DOMAIN Nothing
    BY <1>2, <1>6 DEF FwShape, Nothing
  <2> QED
    BY <2>1
<1>9. /\ mine \in Seq(Nat) /\ before \in Seq(Nat) /\ names = before \o mine
      /\ Len(mine) = IF debug THEN fw.locals ELSE 0
      /\ \A n \in 1 .. Len(mine) : mine[n] < Len(strings)
      /\ fw.said.names = IF debug THEN [n \in 1 .. fw.locals |-> strings[mine[n] + 1]] ELSE <<>>
  BY <1>4 DEF ActiveHolds, Named
<1>10. fw.locals \in Nat /\ debug \in BOOLEAN /\ Len(strings) \in Nat /\ Len(strings') \in Nat
       /\ Len(strings) <= Len(strings')
  BY <1>2, LenProperties DEF FwWords, Tables, Longer
<1>11. \E more : names' = before \o more /\ Named(more)'
  <2>1. CASE ~debug
    <3>1. Named(mine)'
      <4>1. \A n \in 1 .. Len(mine) : mine[n] < Len(strings')
        BY <1>9, <2>1
      <4> QED
        BY <1>0, <1>7, <1>9, <2>1, <4>1 DEF Named
    <3> QED
      BY <1>6, <1>9, <2>1, <3>1
  <2>2. CASE debug
    <3>1. s \in ToSet(strings') /\ strings' \in Seq(Strings)
      <4>1. s \in Strings
        BY DEF Strings
      <4> QED
        BY <1>2, <1>6, <2>2, <4>1, InternGrows DEF Tables
    <3>2. PICK x \in 0 .. Len(strings') - 1 : strings'[x + 1] = s /\ names' = Append(names, x)
      BY <1>6, <2>2, <3>1, IndexFound
    <3> DEFINE more == Append(mine, x)
               L == fw.locals
    <3>3. x \in Nat /\ x < Len(strings')
      BY <1>10, <3>2
    <3>4. /\ more \in Seq(Nat) /\ Len(more) = L + 1
          /\ \A n \in 1 .. L : more[n] = mine[n]
          /\ more[L + 1] = x
      <4>1. Len(mine) = L
        BY <1>9, <2>2
      <4> HIDE DEF L
      <4> QED
        BY <1>9, <3>3, <4>1, AppendProperties
    <3>5. names' = before \o more
      <4>1. names' = Append(before \o mine, x)
        BY <1>9, <3>2
      <4>2. before \o mine \in Seq(Nat)
        BY <1>9, ConcatProperties
      <4>3. Append(before \o mine, x) = (before \o mine) \o <<x>> /\ more = mine \o <<x>>
        BY <1>9, <3>3, <4>2, AppendIsConcat
      <4>4. <<x>> \in Seq(Nat)
        BY <3>3
      <4>5. (before \o mine) \o <<x>> = before \o (mine \o <<x>>)
        BY <1>9, <4>4, ConcatAssociative
      <4> QED
        BY <4>1, <4>3, <4>5
    <3> HIDE DEF more
    <3>6. \A n \in 1 .. L : mine[n] < Len(strings) /\ mine[n] \in Nat /\ mine[n] + 1 \in 1 .. Len(strings)
      <4>1. \A n \in 1 .. L : n \in 1 .. Len(mine)
        BY <1>9, <2>2
      <4>2. \A n \in 1 .. L : mine[n] < Len(strings) /\ mine[n] \in Nat
        BY <1>9, <4>1, ElementOfSeq
      <4> QED
        BY <1>10, <4>2
    <3>7. \A n \in 1 .. L : strings'[mine[n] + 1] = strings[mine[n] + 1]
      BY <1>2, <3>6 DEF Longer
    <3>8. \A n \in 1 .. L + 1 : n \in 1 .. L \/ n = L + 1
      BY <1>10
    <3>9. \A n \in 1 .. L + 1 : more[n] < Len(strings')
      <4>1. \A n \in 1 .. L : more[n] < Len(strings')
        BY <1>10, <3>4, <3>6
      <4> QED
        BY <3>3, <3>4, <3>8, <4>1
    <3> DEFINE old == [n \in 1 .. L |-> strings[mine[n] + 1]]
               new == [n \in 1 .. L + 1 |-> strings'[more[n] + 1]]
    <3>10. Append(old, s) = new
      <4>1. \A n \in 1 .. L : strings[mine[n] + 1] \in Strings
        BY <1>2, <3>6, ElementOfSeq DEF Tables
      <4>2. L \in Nat /\ old \in [1 .. L -> Strings]
        BY <1>10, <4>1
      <4>3. \A n \in 1 .. L : new[n] = old[n]
        BY <1>10, <3>4, <3>7
      <4>4. new[L + 1] = s
        BY <1>10, <3>2, <3>4
      <4>5. new \in [1 .. L + 1 -> Strings]
        <5>1. s \in Strings
          BY DEF Strings
        <5>2. \A n \in 1 .. L : old[n] \in Strings
          BY <4>2
        <5>3. \A n \in 1 .. L + 1 : new[n] \in Strings
          <6> HIDE DEF new, old, L
          <6> QED
            BY <3>8, <4>3, <4>4, <5>1, <5>2
        <5>4. new = [n \in 1 .. L + 1 |-> new[n]]
          OBVIOUS
        <5> HIDE DEF new
        <5> QED
          BY <5>3, <5>4
      <4> HIDE DEF old, new, L
      <4>6. /\ old \in Seq(Strings) /\ Len(old) = L
            /\ new \in Seq(Strings) /\ Len(new) = L + 1
        BY <4>2, <4>5, FunctionIsSeq
      <4>7. s \in Strings
        BY DEF Strings
      <4>8. /\ Append(old, s) \in Seq(Strings) /\ Len(Append(old, s)) = L + 1
            /\ \A n \in 1 .. L : Append(old, s)[n] = old[n]
            /\ Append(old, s)[L + 1] = s
        BY <4>6, <4>7, AppendProperties
      <4>9. \A n \in 1 .. L + 1 : Append(old, s)[n] = new[n]
        BY <3>8, <4>3, <4>4, <4>8
      <4> QED
        BY <4>6, <4>8, <4>9, SeqEqual
    <3>11. fw'.said.names = new
      BY <1>7, <1>9, <2>2, <3>10
    <3>12. Named(more)'
      <4>1. debug' = debug /\ fw'.locals = L + 1
        BY <1>0, <1>7
      <4>2. new = [n \in 1 .. fw'.locals |-> strings'[more[n] + 1]]
        BY <4>1
      <4>3. /\ more \in Seq(Nat) /\ Len(more) = fw'.locals
            /\ \A n \in 1 .. Len(more) : more[n] < Len(strings')
        BY <3>4, <3>9, <4>1
      <4> HIDE DEF new, L
      <4> QED
        BY <2>2, <3>11, <4>1, <4>2, <4>3 DEF Named
    <3> QED
      BY <3>5, <3>12
  <2> QED
    BY <2>1, <2>2
<1>12. PICK more : names' = before \o more /\ Named(more)'
  BY <1>11
<1>13. ActiveHolds(ds, before, more)'
  BY <1>0, <1>5, <1>9, <1>12 DEF ActiveHolds
<1>14. CurrentHolds(ds)'
  BY <1>0, <1>3, <1>8, <1>13 DEF CurrentHolds
<1>15. SectionHolds(secs)'
  BY <1>0, <1>1, SectionSame DEF Filed
<1>16. Filed(ds, secs)'
  BY <1>0, <1>1, <1>14, <1>15 DEF Filed
<1> QED
  BY <1>16 DEF FiledInv

LEMMA FiledAdd ==
  ASSUME WriterInv, FiledInv, NEW k \in Kinds, AddEdge(k)
  PROVE  FiledInv'
<1>0. ~sealed /\ UNCHANGED <<section, sealed, written, debug, symbols, strings, names, words, nfuns>>
      /\ fw # Nothing
  BY DEF AddEdge, Writing, gw
<1>1. PICK ds, secs : Filed(ds, secs)
  BY <1>0 DEF FiledInv
<1>2. fw' # Nothing /\ fw'.said.names = fw.said.names /\ fw'.locals = fw.locals
  BY WriterAdd
<1>3. nfuns = Len(ds) + 1 /\ \E before, mine : ActiveHolds(ds, before, mine)
  BY <1>0, <1>1 DEF Filed, CurrentHolds
<1>4. PICK before, mine : ActiveHolds(ds, before, mine)
  BY <1>3
<1>5. ActiveHolds(ds, before, mine)'
  BY <1>0, <1>2, <1>4 DEF ActiveHolds, Named
<1>6. CurrentHolds(ds)'
  BY <1>0, <1>2, <1>3, <1>5 DEF CurrentHolds
<1>7. SectionHolds(secs)'
  BY <1>0, <1>1, SectionSame DEF Filed
<1>8. Filed(ds, secs)'
  BY <1>0, <1>1, <1>6, <1>7 DEF Filed
<1> QED
  BY <1>8 DEF FiledInv


\* The words that finish makes of a function are what was said of it.
LEMMA FinishDescribes ==
  ASSUME WriterInv, fw # Nothing, NEW mine, Named(mine),
         NEW allocas \in 0 .. fw.locals, NEW e \in SortedKinds
  PROVE  /\ <<fw.symbol, fw.comp, fw.version, fw.locals, allocas>> \in Seq(Words)
         /\ Stream(e) \in Seq(Words)
         /\ Describes(symbols, strings, debug,
                      <<fw.symbol, fw.comp, fw.version, fw.locals, allocas>> \o Stream(e), mine,
                      [fw.said EXCEPT !.allocas = allocas, !.locals = fw.locals])
<1> DEFINE h == <<fw.symbol, fw.comp, fw.version, fw.locals, allocas>>
           d == [fw.said EXCEPT !.allocas = allocas, !.locals = fw.locals]
           f == fw.said.fun
<1>0. Tables /\ FwShape /\ FwWords /\ FwBags
  BY DEF WriterInv
<1>1. /\ Len(symbols) \in Nat /\ Len(symbols) <= Half
      /\ Len(strings) \in Nat /\ Len(strings) <= 2 * Half
      /\ Half \in Nat \ {0} /\ MaxLocals \in Nat /\ MaxLocals <= Half
  BY <1>0, TablesFit, HalfAssumption, LocalsFit
<1>2. /\ fw.symbol \in Nat /\ fw.symbol < Len(symbols) /\ symbols[fw.symbol + 1] = f
      /\ fw.comp \in Nat /\ fw.comp < Len(strings)
      /\ fw.version \in Nat /\ fw.version < Len(strings)
      /\ fw.locals \in Nat /\ fw.locals <= MaxLocals
      /\ allocas \in Nat /\ allocas <= fw.locals
      /\ fw.said.sbom = Known(<<strings[fw.comp + 1], strings[fw.version + 1]>>)
  <2> DEFINE a == fw.symbol
             b == fw.comp
             c == fw.version
             l == fw.locals
             m == Len(symbols)
             n == Len(strings)
  <2>1. /\ a \in 0 .. m - 1 /\ b \in 0 .. n - 1 /\ c \in 0 .. n - 1 /\ l \in 0 .. MaxLocals
        /\ allocas \in 0 .. l /\ m \in Nat /\ n \in Nat /\ MaxLocals \in Nat
    BY <1>0, <1>1 DEF FwWords
  <2> HIDE DEF a, b, c, l, m, n
  <2>2. /\ a \in Nat /\ a < m /\ b \in Nat /\ b < n /\ c \in Nat /\ c < n
        /\ l \in Nat /\ l <= MaxLocals /\ allocas \in Nat /\ allocas <= l
    BY <2>1
  <2> USE DEF a, b, c, l, m, n
  <2>3. symbols[a + 1] = f /\ fw.said.sbom = Known(<<strings[b + 1], strings[c + 1]>>)
    BY <1>0 DEF FwWords
  <2> QED
    BY <2>2, <2>3
<1>3. /\ fw.symbol \in Words /\ fw.comp \in Words /\ fw.version \in Words
      /\ fw.locals \in Words /\ allocas \in Words
  <2>1. \A n \in Nat : n < 2 * Half \/ n <= Half => n \in Words
    BY <1>1 DEF Words
  <2> DEFINE a == fw.symbol
             b == fw.comp
             c == fw.version
             l == fw.locals
             m == Len(symbols)
             n == Len(strings)
  <2>2. /\ a \in Nat /\ a < m /\ b \in Nat /\ b < n /\ c \in Nat /\ c < n
        /\ l \in Nat /\ l <= MaxLocals /\ allocas \in Nat /\ allocas <= l
        /\ m \in Nat /\ m <= Half /\ n \in Nat /\ n <= 2 * Half
        /\ Half \in Nat /\ MaxLocals \in Nat /\ MaxLocals <= Half
    BY <1>1, <1>2
  <2> HIDE DEF a, b, c, l, m, n
  <2>3. a <= Half /\ b < 2 * Half /\ c < 2 * Half /\ l <= Half /\ allocas <= Half
    BY <2>2
  <2>4. a \in Words /\ b \in Words /\ c \in Words /\ l \in Words /\ allocas \in Words
    BY <2>1, <2>2, <2>3
  <2> QED
    BY <2>4 DEF a, b, c, l
<1>4. /\ h \in Seq(Words) /\ Len(h) = 5 /\ h[1] = fw.symbol /\ h[2] = fw.comp
      /\ h[3] = fw.version /\ h[4] = fw.locals /\ h[5] = allocas
  BY <1>3
<1>5. ASSUME NEW k \in Kinds
      PROVE  /\ GoodEdges(k, e[k], Len(symbols))
             /\ Tally(symbols, f, e[k], Len(e[k])) = fw.said.edges[k]
  <2>1. e[k] \in Sorted(fw.edges[k])
    BY DEF SortedKinds
  <2>2. BagSays(k, symbols, f, fw.edges[k], fw.said.edges[k])
    BY <1>0 DEF FwBags
  <2> HIDE DEF f
  <2> QED
    BY <1>0, <2>1, <2>2, SortedSays DEF Tables
<1>6. Lists(e, Len(symbols))
  <2>1. \A k \in Kinds : e[k] \in Seq(Seq(Words))
    BY <1>5 DEF GoodEdges
  <2>2. e = [k \in Kinds |-> e[k]]
    BY DEF SortedKinds
  <2>3. e \in [Kinds -> Seq(Seq(Words))]
    BY <2>1, <2>2
  <2> QED
    BY <1>5, <2>3 DEF Lists
<1>7. /\ mine \in Seq(Nat)
      /\ debug => Len(mine) = fw.locals /\ \A n \in 1 .. fw.locals : mine[n] < Len(strings)
      /\ fw.said.names = IF debug THEN [n \in 1 .. fw.locals |-> strings[mine[n] + 1]] ELSE <<>>
  BY DEF Named
<1> HIDE DEF h
<1>8. Valid(symbols, strings, debug, h, mine, e)
  BY <1>2, <1>4, <1>6, <1>7 DEF Valid
<1>9. DescOf(symbols, strings, debug, h, mine, e) = d
  <2> DEFINE E == [k \in Kinds |-> Tally(symbols, f, e[k], Len(e[k]))]
             N == IF debug THEN [n \in 1 .. fw.locals |-> strings[mine[n] + 1]] ELSE <<>>
             B == Known(<<strings[fw.comp + 1], strings[fw.version + 1]>>)
  <2>1. E = [k \in Kinds |-> fw.said.edges[k]]
    BY <1>5
  <2>2. DescOf(symbols, strings, debug, h, mine, e)
          = [fun |-> f, sbom |-> B, names |-> N, edges |-> E, allocas |-> allocas,
             locals |-> fw.locals]
    BY <1>2, <1>4 DEF DescOf
  <2>3. fw.said = [fun |-> f, sbom |-> fw.said.sbom, names |-> fw.said.names,
                   edges |-> [k \in Kinds |-> fw.said.edges[k]],
                   allocas |-> fw.said.allocas, locals |-> fw.said.locals]
    BY <1>0 DEF FwShape
  <2>4. fw.said.sbom = B /\ fw.said.names = N
    BY <1>2, <1>7
  <2> HIDE DEF E, N, B, f
  <2>5. fw.said = [fun |-> f, sbom |-> B, names |-> N, edges |-> E,
                   allocas |-> fw.said.allocas, locals |-> fw.said.locals]
    BY <2>1, <2>3, <2>4
  <2> DEFINE S == fw.said
             a == fw.said.allocas
             l == fw.said.locals
             L == fw.locals
  <2>6. /\ S = [fun |-> f, sbom |-> B, names |-> N, edges |-> E, allocas |-> a, locals |-> l]
        /\ d = [S EXCEPT !.allocas = allocas, !.locals = L]
    BY <2>5
  <2> HIDE DEF S, a, l, L, d
  <2>7. d = [fun |-> f, sbom |-> B, names |-> N, edges |-> E, allocas |-> allocas, locals |-> L]
    BY <2>6
  <2> QED
    BY <2>2, <2>7 DEF L
<1>10. Describes(symbols, strings, debug, h \o Stream(e), mine, d)
  <2> HIDE DEF d
  <2> QED
    BY <1>8, <1>9 DEF Describes
<1>11. Stream(e) \in Seq(Words)
  BY <1>6, Encodings
<1> QED
  BY <1>4, <1>10, <1>11 DEF h, d

LEMMA FiledFinish ==
  ASSUME WriterInv, FiledInv, words \in Seq(Words), Finish
  PROVE  FiledInv'
<1>0. ~sealed /\ UNCHANGED <<section, sealed, debug, symbols, strings, names, nfuns>>
      /\ fw # Nothing /\ fw' = Nothing
  BY DEF Finish, Writing
<1>1. PICK ds, secs : Filed(ds, secs)
  BY <1>0 DEF FiledInv
<1>2. nfuns = Len(ds) + 1 /\ \E before, mine : ActiveHolds(ds, before, mine)
  BY <1>0, <1>1 DEF Filed, CurrentHolds
<1>3. PICK before, mine : ActiveHolds(ds, before, mine)
  BY <1>2
<1>4. /\ before \in Seq(Nat) /\ names = before \o mine /\ Named(mine) /\ mine \in Seq(Nat)
      /\ Holds(symbols, strings, debug, before, words, ds)
      /\ ds \in Seq(Descs) /\ SectionHolds(secs) /\ written = FlattenSeq(secs) \o ds
  BY <1>1, <1>3 DEF ActiveHolds, Filed, Named
<1>5. PICK allocas \in 0 .. fw.locals, e \in SortedKinds :
       /\ words' = words \o <<fw.symbol, fw.comp, fw.version, fw.locals, allocas>> \o Stream(e)
       /\ written' = Append(written, [fw.said EXCEPT !.allocas = allocas, !.locals = fw.locals])
  BY DEF Finish, Stream
<1> DEFINE h == <<fw.symbol, fw.comp, fw.version, fw.locals, allocas>>
           d == [fw.said EXCEPT !.allocas = allocas, !.locals = fw.locals]
           part == h \o Stream(e)
<1>6. /\ h \in Seq(Words) /\ Stream(e) \in Seq(Words)
      /\ Describes(symbols, strings, debug, part, mine, d)
  BY <1>0, <1>4, <1>5, FinishDescribes
<1>7. words' = words \o h \o Stream(e) /\ written' = Append(written, d)
  BY <1>5
<1> HIDE DEF h, d
<1>8. words' = words \o part
  <2>1. (words \o h) \o Stream(e) = words \o (h \o Stream(e))
    BY <1>6, ConcatAssociative
  <2> QED
    BY <1>7, <2>1
<1>9. d \in Descs /\ part \in Seq(Words)
  <2> HIDE DEF part
  <2> QED
    BY <1>6, DescribesType DEF WriterInv, Tables
<1> HIDE DEF part
<1>10. Holds(symbols, strings, debug, names, words', Append(ds, d))
  BY <1>4, <1>6, <1>8, <1>9, HoldsAppend
<1>11. Append(ds, d) \in Seq(Descs) /\ Len(Append(ds, d)) = Len(ds) + 1
  BY <1>4, <1>9, AppendProperties
<1>12. written' = FlattenSeq(secs) \o Append(ds, d)
  <2>1. FlattenSeq(secs) \in Seq(Descs)
    BY <1>4, FlattenType DEF SectionHolds
  <2>2. Append(FlattenSeq(secs) \o ds, d) = FlattenSeq(secs) \o Append(ds, d)
    BY <1>4, <1>9, <2>1, CatDescs
  <2> QED
    BY <1>4, <1>7, <2>2
<1>13. SectionHolds(secs)'
  BY <1>0, <1>4, SectionSame
<1> DEFINE es == Append(ds, d)
<1>14. /\ es \in Seq(Descs) /\ Len(es) = nfuns' /\ written' = FlattenSeq(secs) \o es
       /\ Holds(symbols', strings', debug', names', words', es)
  BY <1>0, <1>2, <1>10, <1>11, <1>12
<1>15. \E all : /\ all \in Seq(Descs) /\ Len(all) = nfuns' /\ written' = FlattenSeq(secs) \o all
                /\ Holds(symbols', strings', debug', names', words', all)
  BY <1>14
<1>16. PICK all : /\ all \in Seq(Descs) /\ Len(all) = nfuns' /\ written' = FlattenSeq(secs) \o all
                  /\ Holds(symbols', strings', debug', names', words', all)
  BY <1>15
<1>17. CurrentHolds(all)'
  BY <1>0, <1>16 DEF CurrentHolds
<1>18. Filed(all, secs)'
  BY <1>13, <1>16, <1>17 DEF Filed
<1> QED
  BY <1>18 DEF FiledInv

LEMMA WriterFinish ==
  ASSUME WriterInv, Finish
  PROVE  WriterInv' /\ symbols' = symbols /\ strings' = strings
  BY DEF Finish, Writing, WriterInv, Tables


LEMMA WriterWriteTo ==
  ASSUME WriterInv, WriteTo
  PROVE  WriterInv'
<1>1. /\ symbols' = <<>> /\ strings' = <<>> /\ names' = <<>> /\ nfuns' = 0
      /\ UNCHANGED <<debug, sealed, fw>> /\ fw = Nothing
  BY DEF WriteTo, Writing
<1> DEFINE e == <<>>
<1>2. e \in Seq(Globals) /\ e \in Seq(Strings) /\ e \in Seq(0 .. Len(e) - 1) /\ Len(e) = 0
  BY EmptySeq
<1>3. Once(e)
  BY <1>2 DEF Once
<1>4. symbols' = e /\ strings' = e /\ names' = e
  BY <1>1
<1>5. debug \in BOOLEAN /\ sealed \in BOOLEAN
  BY DEF WriterInv, Tables
<1> HIDE DEF e
<1>6. Tables'
  BY <1>1, <1>2, <1>3, <1>4, <1>5 DEF Tables
<1> QED
  BY <1>1, <1>6 DEF WriterInv

\* A graph more in the section, and one description more for it.
LEMMA SectionAppend ==
  ASSUME NEW secs, SectionHolds(secs), NEW g \in Graphs, NEW ds \in Seq(Descs), GraphHolds(g, ds),
         section' = Append(section, g)
  PROVE  \E all : /\ SectionHolds(all)'
                  /\ FlattenSeq(all) = FlattenSeq(secs) \o ds
<1>1. /\ section \in Seq(Graphs) /\ secs \in Seq(Seq(Descs)) /\ Len(secs) = Len(section)
      /\ \A n \in 1 .. Len(section) : GraphHolds(section[n], secs[n])
  BY DEF SectionHolds
<1> DEFINE t == Append(section, g)
           u == Append(secs, ds)
<1>2. /\ t \in Seq(Graphs) /\ Len(t) = Len(section) + 1 /\ Len(section) \in Nat
      /\ \A n \in 1 .. Len(section) : t[n] = section[n]
      /\ t[Len(section) + 1] = g
  BY <1>1, AppendProperties, LenProperties
<1>3. /\ u \in Seq(Seq(Descs)) /\ Len(u) = Len(secs) + 1
      /\ \A n \in 1 .. Len(secs) : u[n] = secs[n]
      /\ u[Len(secs) + 1] = ds
  BY <1>1, AppendProperties
<1>4. FlattenSeq(u) = FlattenSeq(secs) \o ds
  BY <1>1, FlattenAppend
<1>5. section' = t
  OBVIOUS
<1> HIDE DEF t, u
<1>6. \A n \in 1 .. Len(t) : GraphHolds(t[n], u[n])
  <2> SUFFICES ASSUME NEW n \in 1 .. Len(t)
               PROVE  GraphHolds(t[n], u[n])
    OBVIOUS
  <2>1. CASE n \in 1 .. Len(section)
    <3>1. t[n] = section[n] /\ u[n] = secs[n]
      BY <1>1, <1>2, <1>3, <2>1
    <3> QED
      BY <1>1, <2>1, <3>1
  <2>2. CASE n = Len(section) + 1
    <3>1. t[n] = g /\ u[n] = ds
      BY <1>1, <1>2, <1>3, <2>2
    <3> QED
      BY <3>1
  <2> QED
    BY <1>2, <2>1, <2>2
<1>7. Len(u) = Len(t)
  BY <1>1, <1>2, <1>3
<1>8. /\ section' \in Seq(Graphs) /\ u \in Seq(Seq(Descs)) /\ Len(u) = Len(section')
      /\ \A n \in 1 .. Len(section') : GraphHolds(section'[n], u[n])
  BY <1>2, <1>3, <1>5, <1>6, <1>7
<1>9. PICK all : /\ section' \in Seq(Graphs) /\ all \in Seq(Seq(Descs)) /\ Len(all) = Len(section')
                 /\ \A n \in 1 .. Len(section') : GraphHolds(section'[n], all[n])
                 /\ FlattenSeq(all) = FlattenSeq(secs) \o ds
  BY <1>4, <1>8
<1>10. SectionHolds(all)'
  BY <1>9 DEF SectionHolds, GraphHolds
<1> QED
  BY <1>9, <1>10

LEMMA FiledWriteTo ==
  ASSUME WriterInv, FiledInv, WriteTo
  PROVE  FiledInv'
<1>0. /\ ~sealed /\ UNCHANGED <<debug, sealed, fw, written>> /\ fw = Nothing
      /\ symbols' = <<>> /\ strings' = <<>> /\ names' = <<>> /\ words' = <<>> /\ nfuns' = 0
  BY DEF WriteTo, Writing
<1>1. PICK ds, secs : Filed(ds, secs)
  BY <1>0 DEF FiledInv
<1>2. /\ ds \in Seq(Descs) /\ SectionHolds(secs) /\ written = FlattenSeq(secs) \o ds
      /\ nfuns = Len(ds) /\ Holds(symbols, strings, debug, names, words, ds)
  BY <1>0, <1>1 DEF Filed, CurrentHolds
<1> DEFINE g == [symbols |-> symbols, strings |-> strings, names |-> names,
                 words |-> words, nfuns |-> nfuns, has_names |-> debug]
<1>3. section' = Append(section, g)
  BY DEF WriteTo
<1>4. g \in Graphs
  <2>1. Tables
    BY DEF WriterInv
  <2>2. words \in Seq(Words)
    BY <1>2, HoldsType
  <2>3. names \in Seq(Nat)
    <3>1. 0 .. Len(strings) - 1 \subseteq Nat
      OBVIOUS
    <3> QED
      BY <2>1, <3>1, SeqMonotonic DEF Tables
  <2> QED
    BY <2>1, <2>2, <2>3 DEF Tables, Graphs
<1>5. GraphHolds(g, ds)
  BY <1>2 DEF GraphHolds
<1> HIDE DEF g
<1>6. PICK all : SectionHolds(all)' /\ FlattenSeq(all) = FlattenSeq(secs) \o ds
  BY <1>2, <1>3, <1>4, <1>5, SectionAppend
<1> DEFINE e == <<>>
<1>7. e \in Seq(Descs) /\ Len(e) = 0 /\ Holds(e, e, debug, e, e, e)
  BY EmptySeq, HoldsNone
<1>8. FlattenSeq(all) \in Seq(Descs)
  <2>1. all \in Seq(Seq(Descs))
    BY <1>6 DEF SectionHolds
  <2> QED
    BY <2>1, FlattenType
<1>9. FlattenSeq(all) \o e = FlattenSeq(all)
  BY <1>8, CatDescs
<1>10. symbols' = e /\ strings' = e /\ names' = e /\ words' = e
  BY <1>0
<1> HIDE DEF e
<1>11. /\ e \in Seq(Descs) /\ nfuns' = Len(e) /\ written' = FlattenSeq(all) \o e
       /\ Holds(symbols', strings', debug', names', words', e)
  BY <1>0, <1>2, <1>6, <1>7, <1>9, <1>10
<1>12. CurrentHolds(e)'
  BY <1>0, <1>11 DEF CurrentHolds, e
<1>13. Filed(e, all)'
  BY <1>6, <1>11, <1>12 DEF Filed, e
<1> QED
  BY <1>13 DEF FiledInv



----------------------------------------------------------------------------
(* What the reader has read: the function being visited, those that are    *)
(* left of the open graph, and the graphs left in the section are all that *)
(* it has not yet reported, in this order.                                 *)

FrameHolds(fr) ==
  IF frame = Nothing THEN fr = <<>>
                     ELSE frame \in Graphs /\ fr \in Seq(Descs) /\ GraphHolds(frame, fr)

\* Of the function d, whose edges are es, at[k] of those of kind k were visited.
Visited(d, es, at) ==
  /\ d \in Descs /\ Lists(es, Len(frame.symbols)) /\ at \in [Kinds -> Nat]
  /\ fun.kind \in 1 .. Len(Components) + 1
  /\ \A k \in Kinds : /\ at[k] <= Len(es[k])
                      /\ k < fun.kind => at[k] = Len(es[k])
                      /\ k > fun.kind => at[k] = 0
  /\ fun.prev = IF fun.kind \in Kinds THEN Prev(es[fun.kind], at[fun.kind] + 1) ELSE 0
  /\ d.edges = [k \in Kinds |-> Tally(frame.symbols, d.fun, es[k], Len(es[k]))]
  /\ fun = [fun |-> d.fun, sbom |-> d.sbom, locals |-> d.locals, allocas |-> d.allocas,
            names |-> d.names,
            data |-> [k \in Kinds |-> Rest(es[k], at[k])],
            kind |-> fun.kind,
            prev |-> fun.prev,
            edges |-> [k \in Kinds |-> Tally(frame.symbols, d.fun, es[k], at[k])]]

FunHolds(now) ==
  IF fun = Nothing THEN now = <<>>
                   ELSE frame # Nothing /\ \E d, es, at : now = <<d>> /\ Visited(d, es, at)

Told(now, fr, secs) ==
  /\ reported \in Seq(Descs)
  /\ FunHolds(now) /\ FrameHolds(fr) /\ SectionHolds(secs)
  /\ written = reported \o (now \o (fr \o FlattenSeq(secs)))

ReaderInv ==
  /\ ~failed
  /\ IF sealed THEN fw = Nothing /\ \E now, fr, secs : Told(now, fr, secs)
               ELSE frame = Nothing /\ fun = Nothing /\ reported = <<>>

\* The four parts are sequences of descriptions.
LEMMA ToldTypes ==
  ASSUME NEW now, NEW fr, NEW secs, Told(now, fr, secs)
  PROVE  /\ now \in Seq(Descs) /\ fr \in Seq(Descs) /\ secs \in Seq(Seq(Descs))
         /\ FlattenSeq(secs) \in Seq(Descs)
<1>1. now \in Seq(Descs)
  <2>1. CASE fun = Nothing
    BY <2>1, EmptySeq DEF Told, FunHolds
  <2>2. CASE fun # Nothing
    <3>1. PICK d, es, at : now = <<d>> /\ Visited(d, es, at)
      BY <2>2 DEF Told, FunHolds
    <3>2. d \in Descs
      BY <3>1 DEF Visited
    <3> QED
      BY <3>1, <3>2
  <2> QED
    BY <2>1, <2>2
<1>2. fr \in Seq(Descs)
  BY EmptySeq DEF Told, FrameHolds
<1>3. secs \in Seq(Seq(Descs))
  BY DEF Told, SectionHolds
<1>4. FlattenSeq(secs) \in Seq(Descs)
  BY <1>3, FlattenType
<1> QED
  BY <1>1, <1>2, <1>3, <1>4

\* Records are not Nothing.
LEMMA SomeGraph == Nothing \notin Graphs
<1>1. ASSUME NEW g \in Graphs
      PROVE  g # Nothing
  <2>1. "symbols" \in DOMAIN g /\ "symbols" \notin DOMAIN Nothing
    BY DEF Graphs, Nothing
  <2> QED
    BY <2>1
<1> QED
  BY <1>1

LEMMA WriterSeal ==
  ASSUME WriterInv, FiledInv, ReaderInv, Seal
  PROVE  WriterInv' /\ FiledInv' /\ ReaderInv'
<1>0. /\ ~sealed /\ sealed' = TRUE /\ fw = Nothing /\ nfuns = 0
      /\ UNCHANGED <<debug, symbols, strings, names, words, nfuns, fw, section, written>>
      /\ UNCHANGED <<frame, fun, failed, reported>>
  BY DEF Seal, Writing, gw, reader
<1>1. PICK ds, secs : Filed(ds, secs)
  BY <1>0 DEF FiledInv
<1>2. /\ ds \in Seq(Descs) /\ SectionHolds(secs) /\ written = FlattenSeq(secs) \o ds
      /\ Len(ds) = 0
  BY <1>0, <1>1 DEF Filed, CurrentHolds
<1>3. ~failed /\ frame = Nothing /\ fun = Nothing /\ reported = <<>>
  BY <1>0 DEF ReaderInv
<1> DEFINE e == <<>>
<1>4. ds = e /\ e \in Seq(Descs)
  BY <1>2, EmptySeq
<1>5. FlattenSeq(secs) \in Seq(Descs)
  BY <1>2, FlattenType DEF SectionHolds
<1>6. written = e \o (e \o (e \o FlattenSeq(secs)))
  <2> DEFINE s == FlattenSeq(secs)
  <2>1. s \o e = s /\ e \o s = s
    BY <1>5, CatDescs
  <2>2. written = s \o e
    BY <1>2, <1>4
  <2> HIDE DEF s, e
  <2>3. written = e \o (e \o (e \o s))
    BY <2>1, <2>2
  <2> QED
    BY <2>3 DEF s
<1>7. Told(e, e, secs)'
  <2>1. SectionHolds(secs)'
    BY <1>0, <1>2, SectionSame
  <2>2. FunHolds(e)' /\ FrameHolds(e)'
    BY <1>0, <1>3 DEF FunHolds, FrameHolds
  <2>3. reported' = e /\ written' = written
    BY <1>0, <1>3
  <2> QED
    BY <1>4, <1>6, <2>1, <2>2, <2>3 DEF Told
<1>8. ReaderInv'
  BY <1>0, <1>3, <1>7 DEF ReaderInv
<1>9. WriterInv'
  BY <1>0 DEF WriterInv, Tables
<1>10. FiledInv'
  BY <1>0 DEF FiledInv
<1> QED
  BY <1>8, <1>9, <1>10

\* The reader leaves the writer alone.
LEMMA ReadingWriter ==
  ASSUME WriterInv, Reading
  PROVE  WriterInv' /\ FiledInv'
<1>1. sealed /\ UNCHANGED <<debug, symbols, strings, names, words, nfuns, fw, sealed, written>>
  BY DEF Reading, gw
<1>2. WriterInv'
  BY <1>1 DEF WriterInv, Tables, FwShape, FwWords, FwBags
<1> QED
  BY <1>1, <1>2 DEF FiledInv


\* Opening a graph takes the first one of the section (Reader.cpp FrameDecoder).
LEMMA ReadOpen ==
  ASSUME ReaderInv, OpenGraph
  PROVE  ReaderInv'
<1>0. /\ sealed /\ frame = Nothing /\ section # <<>>
      /\ frame' = Head(section) /\ section' = Tail(section)
      /\ UNCHANGED <<debug, fw, sealed, written, fun, failed, reported>>
  BY DEF OpenGraph, Reading
<1>1. PICK now, fr, secs : Told(now, fr, secs)
  BY <1>0 DEF ReaderInv
<1>2. /\ now = <<>> /\ fr = <<>> /\ fun = Nothing /\ reported \in Seq(Descs)
      /\ written = reported \o (now \o (fr \o FlattenSeq(secs)))
  BY <1>0, <1>1 DEF Told, FunHolds, FrameHolds
<1>3. /\ section \in Seq(Graphs) /\ secs \in Seq(Seq(Descs)) /\ Len(secs) = Len(section)
      /\ \A n \in 1 .. Len(section) : GraphHolds(section[n], secs[n])
  BY <1>1 DEF Told, SectionHolds
<1> DEFINE s == section
           t == Tail(section)
           u == Tail(secs)
           f == secs[1]
<1>4. /\ Len(s) \in Nat \ {0} /\ secs # <<>> /\ Head(s) = s[1] /\ s[1] \in Graphs
      /\ f \in Seq(Descs) /\ GraphHolds(s[1], f)
  <2>1. Len(s) \in Nat \ {0} /\ 1 \in 1 .. Len(s) /\ 1 \in 1 .. Len(secs)
    BY <1>0, <1>3, EmptySeq, LenProperties
  <2>2. secs # <<>> /\ Head(s) = s[1]
    BY <1>0, <1>3, <2>1, EmptySeq, HeadTailProperties
  <2>3. s[1] \in Graphs /\ f \in Seq(Descs)
    BY <1>3, <2>1, ElementOfSeq
  <2> QED
    BY <1>3, <2>1, <2>2, <2>3
<1>5. /\ t \in Seq(Graphs) /\ Len(t) = Len(s) - 1 /\ \A n \in 1 .. Len(t) : t[n] = s[n + 1]
  BY <1>0, <1>3, HeadTailProperties
<1>6. /\ u \in Seq(Seq(Descs)) /\ Len(u) = Len(secs) - 1 /\ \A n \in 1 .. Len(u) : u[n] = secs[n + 1]
  BY <1>3, <1>4, HeadTailProperties
<1>7. FlattenSeq(secs) = f \o FlattenSeq(u)
  BY <1>3, <1>4, FlattenFront
<1>8. section' = t /\ frame' = s[1]
  BY <1>0, <1>4
<1> HIDE DEF s, t, u, f
<1>9. \A n \in 1 .. Len(t) : GraphHolds(t[n], u[n])
  <2> SUFFICES ASSUME NEW n \in 1 .. Len(t)
               PROVE  GraphHolds(t[n], u[n])
    OBVIOUS
  <2>1. n \in 1 .. Len(u) /\ n + 1 \in 1 .. Len(s)
    BY <1>3, <1>4, <1>5, <1>6 DEF s
  <2>2. GraphHolds(s[n + 1], secs[n + 1])
    BY <1>3, <2>1 DEF s
  <2> QED
    BY <1>5, <1>6, <2>1, <2>2
<1>10. Len(u) = Len(t)
  BY <1>3, <1>5, <1>6 DEF s
<1>11. written = reported \o (now \o (f \o FlattenSeq(u)))
  <2>1. FlattenSeq(secs) \in Seq(Descs) /\ now \o (fr \o FlattenSeq(secs)) = FlattenSeq(secs)
    <3>1. FlattenSeq(secs) \in Seq(Descs)
      BY <1>3, FlattenType
    <3> DEFINE x == FlattenSeq(secs)
               e == <<>>
    <3>2. e \o x = x
      BY <3>1, CatDescs
    <3> HIDE DEF e, x
    <3>3. now = e /\ fr = e
      BY <1>2 DEF e
    <3>4. now \o (fr \o x) = x
      BY <3>2, <3>3
    <3> QED
      BY <3>1, <3>4 DEF x
  <2>2. f \o FlattenSeq(u) \in Seq(Descs)
    BY <1>7, <2>1
  <2> DEFINE y == f \o FlattenSeq(u)
             e == <<>>
  <2>3. e \o y = y
    BY <2>2, CatDescs
  <2>4. now = e
    BY <1>2
  <2>5. written = reported \o y
    BY <1>2, <1>7, <2>1
  <2> HIDE DEF y, e
  <2>6. written = reported \o (now \o y)
    BY <2>3, <2>4, <2>5
  <2> QED
    BY <2>6 DEF y
<1>12. /\ section' \in Seq(Graphs) /\ u \in Seq(Seq(Descs)) /\ Len(u) = Len(section')
       /\ \A n \in 1 .. Len(section') : GraphHolds(section'[n], u[n])
       /\ frame' \in Graphs /\ f \in Seq(Descs) /\ GraphHolds(frame', f)
       /\ frame' # Nothing
  BY <1>4, <1>5, <1>6, <1>8, <1>9, <1>10, SomeGraph
<1>13. PICK one, all :
         /\ section' \in Seq(Graphs) /\ all \in Seq(Seq(Descs)) /\ Len(all) = Len(section')
         /\ \A n \in 1 .. Len(section') : GraphHolds(section'[n], all[n])
         /\ one \in Seq(Descs) /\ GraphHolds(frame', one)
         /\ written = reported \o (now \o (one \o FlattenSeq(all)))
  BY <1>11, <1>12
<1>14. SectionHolds(all)'
  BY <1>13 DEF SectionHolds, GraphHolds
<1>15. FrameHolds(one)'
  BY <1>12, <1>13 DEF FrameHolds, GraphHolds
<1>16. FunHolds(now)'
  BY <1>0, <1>2 DEF FunHolds
<1>17. Told(now, one, all)'
  BY <1>0, <1>2, <1>13, <1>14, <1>15, <1>16 DEF Told
<1> QED
  BY <1>0, <1>17 DEF ReaderInv

\* A graph is closed when all its words are read: it holds no function any more.
LEMMA ReadClose ==
  ASSUME ReaderInv, CloseGraph
  PROVE  ReaderInv'
<1>0. /\ sealed /\ frame # Nothing /\ fun = Nothing /\ frame.nfuns = 0 /\ frame' = Nothing
      /\ UNCHANGED <<debug, fw, sealed, written, section, fun, failed, reported>>
  BY DEF CloseGraph, Reading
<1>1. PICK now, fr, secs : Told(now, fr, secs)
  BY <1>0 DEF ReaderInv
<1>2. fr = <<>> /\ now = <<>>
  BY <1>0, <1>1, EmptySeq DEF Told, FunHolds, FrameHolds, GraphHolds
<1>3. SectionHolds(secs)'
  BY <1>0, <1>1, SectionSame DEF Told
<1>4. FrameHolds(fr)' /\ FunHolds(now)'
  BY <1>0, <1>2 DEF FrameHolds, FunHolds
<1>5. Told(now, fr, secs)'
  BY <1>0, <1>1, <1>3, <1>4 DEF Told
<1> QED
  BY <1>0, <1>5 DEF ReaderInv

\* What is reported is the next description that was written.
LEMMA ReadReport ==
  ASSUME ReaderInv, Report
  PROVE  /\ ReaderInv'
         /\ Len(reported) < Len(written)
         /\ reported' = Append(reported, written[Len(reported) + 1])
<1>0. /\ sealed /\ fun # Nothing /\ fun.kind \notin Kinds /\ fun' = Nothing
      /\ reported' = Append(reported,
           [fun |-> fun.fun, sbom |-> fun.sbom, names |-> fun.names, edges |-> fun.edges,
            allocas |-> fun.allocas, locals |-> fun.locals])
      /\ UNCHANGED <<debug, fw, sealed, written, section, frame, failed>>
  BY DEF Report, Reading
<1>1. PICK now, fr, secs : Told(now, fr, secs)
  BY <1>0 DEF ReaderInv
<1>2. PICK d, es, at : now = <<d>> /\ Visited(d, es, at)
  BY <1>0, <1>1 DEF Told, FunHolds
<1>3. d \in Descs /\ d = [fun |-> d.fun, sbom |-> d.sbom, names |-> d.names, edges |-> d.edges,
                          allocas |-> d.allocas, locals |-> d.locals]
  <2>1. d \in Descs
    BY <1>2 DEF Visited
  <2>2. PICK a, b, c, h, nm, x : d = DescOf(a, b, c, h, nm, x)
    BY <2>1 DEF Descs
  <2> QED
    BY <2>1, <2>2 DEF DescOf
<1>4. fun.kind = Len(Components) + 1 /\ \A k \in Kinds : k < fun.kind
  BY <1>0, <1>2, KindsType DEF Visited
<1>5. /\ fun.fun = d.fun /\ fun.sbom = d.sbom /\ fun.names = d.names
      /\ fun.allocas = d.allocas /\ fun.locals = d.locals /\ fun.edges = d.edges
  <2>1. /\ fun.fun = d.fun /\ fun.sbom = d.sbom /\ fun.names = d.names
        /\ fun.allocas = d.allocas /\ fun.locals = d.locals
        /\ fun.edges = [k \in Kinds |-> Tally(frame.symbols, d.fun, es[k], at[k])]
    BY <1>2 DEF Visited
  <2>2. \A k \in Kinds : at[k] = Len(es[k])
    BY <1>2, <1>4 DEF Visited
  <2>3. d.edges = [k \in Kinds |-> Tally(frame.symbols, d.fun, es[k], Len(es[k]))]
    BY <1>2 DEF Visited
  <2> QED
    BY <2>1, <2>2, <2>3
<1>6. reported' = Append(reported, d)
  BY <1>0, <1>3, <1>5
<1> DEFINE rest == fr \o FlattenSeq(secs)
<1>7. reported \in Seq(Descs) /\ rest \in Seq(Descs) /\ written = reported \o (<<d>> \o rest)
  <2>1. fr \in Seq(Descs) /\ FlattenSeq(secs) \in Seq(Descs)
    BY <1>1, ToldTypes
  <2> QED
    BY <1>1, <1>2, <2>1, CatDescs DEF Told
<1> HIDE DEF rest
<1> DEFINE one == <<d>>
<1>8. one \in Seq(Descs) /\ Len(one) = 1 /\ one[1] = d
  BY <1>3
<1>9. reported' \in Seq(Descs) /\ reported' = reported \o one
  BY <1>3, <1>6, <1>7, AppendProperties, AppendIsConcat
<1> HIDE DEF one
<1>10. written = reported \o (one \o rest)
  BY <1>7 DEF one
<1>11. written = reported' \o rest
  BY <1>7, <1>8, <1>9, <1>10, CatDescs
<1>12. written[Len(reported) + 1] = d /\ Len(reported) < Len(written)
  <2> DEFINE x == one \o rest
             m == Len(reported)
             p == Len(rest)
  <2>1. /\ Len(x) = Len(one) + p
        /\ \A i \in 1 .. Len(one) + p : x[i] = IF i <= Len(one) THEN one[i] ELSE rest[i - Len(one)]
        /\ x \in Seq(Descs) /\ p \in Nat /\ m \in Nat
    BY <1>7, <1>8, ConcatProperties, LenProperties
  <2> HIDE DEF x, m, p
  <2>2. x[1] = d /\ Len(x) \in Nat /\ Len(x) > 0
    BY <1>8, <2>1
  <2>3. /\ Len(written) = Len(reported) + Len(x)
        /\ \A i \in 1 .. Len(reported) + Len(x) :
             written[i] = IF i <= Len(reported) THEN reported[i] ELSE x[i - Len(reported)]
    <3>1. written = reported \o x
      BY <1>10 DEF x
    <3>2. /\ Len(reported \o x) = Len(reported) + Len(x)
          /\ \A i \in 1 .. Len(reported) + Len(x) :
               (reported \o x)[i] = IF i <= Len(reported) THEN reported[i]
                                                         ELSE x[i - Len(reported)]
      BY <1>7, <2>1, ConcatProperties
    <3> QED
      BY <3>1, <3>2
  <2>4. Len(reported) = m
    BY DEF m
  <2>5. m + 1 \in 1 .. m + Len(x) /\ ~(m + 1 <= m) /\ (m + 1) - m = 1 /\ m < m + Len(x)
    BY <2>1, <2>2
  <2> QED
    BY <2>2, <2>3, <2>4, <2>5
<1> DEFINE e == <<>>
<1>13. e \in Seq(Descs) /\ e \o rest = rest
  BY <1>7, CatDescs, EmptySeq
<1>14. written = reported' \o (e \o (fr \o FlattenSeq(secs)))
  BY <1>11, <1>13 DEF rest
<1>15. FunHolds(e)' /\ FrameHolds(fr)'
  BY <1>0, <1>1 DEF FunHolds, FrameHolds, Told, GraphHolds
<1>16. SectionHolds(secs)'
  BY <1>0, <1>1, SectionSame DEF Told
<1>17. Told(e, fr, secs)'
  BY <1>0, <1>9, <1>14, <1>15, <1>16 DEF Told
<1>18. ReaderInv'
  BY <1>0, <1>17 DEF ReaderInv
<1> QED
  BY <1>6, <1>12, <1>18


\* What next_word and next_words take from the words of a function.
BeginsWith(w, h, es, rest) ==
  /\ \A i \in 1 .. 5 : w[i] = h[i] /\ h[i] \in Words
  /\ StartOf(w)[Len(Components) + 1] <= Len(w) + 1
  /\ Found(w, es)
  /\ SubSeq(w, StartOf(w)[Len(Components) + 1], Len(w)) = rest

\* The parts of the words of a function, followed by the words of others.
LEMMA FrontWords ==
  ASSUME NEW h \in Seq(Words), Len(h) = 5, NEW ns, NEW es, Lists(es, ns),
         NEW rest \in Seq(Words), NEW w, w = (h \o Stream(es)) \o rest
  PROVE  BeginsWith(w, h, es, rest)
<1> DEFINE x == Stream(es)
           p == h \o x
           n == Len(x)
<1>1. x \in Seq(Words) /\ n \in Nat
  BY Encodings, LenProperties
<1>2. /\ p \in Seq(Words) /\ Len(p) = 5 + n
      /\ \A i \in 1 .. 5 : p[i] = h[i]
      /\ \A i \in 1 .. n : p[5 + i] = x[i]
  <2> HIDE DEF x
  <2>1. /\ h \o x \in Seq(Words) /\ Len(h \o x) = Len(h) + Len(x)
        /\ \A i \in 1 .. Len(h) : (h \o x)[i] = h[i]
        /\ \A i \in 1 .. Len(x) : (h \o x)[Len(h) + i] = x[i]
    BY <1>1, CatWords, Zenon
  <2> QED
    BY <2>1
<1>3. w = p \o rest
  OBVIOUS
<1> HIDE DEF p
<1>4. /\ w \in Seq(Words) /\ Len(w) = (5 + n) + Len(rest) /\ Len(rest) \in Nat
      /\ \A i \in 1 .. Len(p) : w[i] = p[i]
      /\ \A i \in 1 .. Len(rest) : w[Len(p) + i] = rest[i]
  <2>1. /\ p \o rest \in Seq(Words) /\ Len(p \o rest) = Len(p) + Len(rest) /\ Len(rest) \in Nat
        /\ \A i \in 1 .. Len(p) : (p \o rest)[i] = p[i]
        /\ \A i \in 1 .. Len(rest) : (p \o rest)[Len(p) + i] = rest[i]
    BY <1>2, CatWords, Zenon
  <2> HIDE DEF n
  <2> QED
    BY <1>2, <1>3, <2>1
<1> HIDE DEF n
<1>5. \A i \in 1 .. 5 : w[i] = h[i] /\ h[i] \in Words
  <2>1. \A i \in 1 .. 5 : i \in 1 .. Len(p) /\ i \in 1 .. Len(h)
    BY <1>1, <1>2
  <2>2. \A i \in 1 .. Len(h) : h[i] \in Words
    BY ElementOfSeq
  <2> QED
    BY <1>2, <1>4, <2>1, <2>2
<1>6. \A i \in 1 .. n : w[5 + i] = x[i]
  <2>1. \A i \in 1 .. n : 5 + i \in 1 .. Len(p)
    BY <1>1, <1>2
  <2> QED
    BY <1>2, <1>4, <2>1
<1>7. Found(w, es)
  <2>1. 5 + n <= Len(w)
    BY <1>1, <1>4
  <2> QED
    BY <1>4, <1>6, <2>1, StartsFound DEF x, n
<1>8. StartOf(w)[Len(Components) + 1] = 6 + n
  BY <1>7 DEF Found, n, x
<1>9. 6 + n <= Len(w) + 1
  BY <1>1, <1>4
<1>10. SubSeq(w, 6 + n, Len(w)) = rest
  <2>1. 5 + n \in Nat /\ (5 + n) + Len(rest) <= Len(w) /\ (5 + n) + 1 = 6 + n
    BY <1>1, <1>4
  <2>2. \A i \in 1 .. Len(rest) : w[(5 + n) + i] = rest[i]
    BY <1>2, <1>4
  <2>3. SubSeq(w, (5 + n) + 1, (5 + n) + Len(rest)) = rest
    BY <1>4, <2>1, <2>2, Slice
  <2> QED
    BY <1>4, <2>1, <2>3
<1> QED
  BY <1>5, <1>7, <1>8, <1>9, <1>10 DEF BeginsWith

\* The names of a function's locals, and those left for the next.
LEMMA FrontNames ==
  ASSUME NEW mine \in Seq(Nat), NEW later \in Seq(Nat), NEW nm, nm = mine \o later
  PROVE  /\ nm \in Seq(Nat) /\ Len(mine) \in Nat /\ Len(nm) \in Nat /\ Len(mine) <= Len(nm)
         /\ \A n \in 1 .. Len(mine) : nm[n] = mine[n]
         /\ SubSeq(nm, Len(mine) + 1, Len(nm)) = later
<1>1. /\ mine \o later \in Seq(Nat) /\ Len(mine \o later) = Len(mine) + Len(later)
      /\ \A i \in 1 .. Len(mine) + Len(later) :
           (mine \o later)[i] = IF i <= Len(mine) THEN mine[i] ELSE later[i - Len(mine)]
  BY ConcatProperties
<1> DEFINE m == Len(mine)
           l == Len(later)
<1>2. m \in Nat /\ l \in Nat
  BY LenProperties
<1>3. /\ nm \in Seq(Nat) /\ Len(nm) = m + l
      /\ \A i \in 1 .. m + l : nm[i] = IF i <= m THEN mine[i] ELSE later[i - m]
  BY <1>1
<1> HIDE DEF m, l
<1>4. \A n \in 1 .. m : nm[n] = mine[n]
  BY <1>2, <1>3
<1>5. \A i \in 1 .. l : nm[m + i] = later[i]
  <2>1. \A i \in 1 .. l : m + i \in 1 .. m + l /\ ~(m + i <= m) /\ (m + i) - m = i
    BY <1>2
  <2> QED
    BY <1>3, <2>1
<1>6. SubSeq(nm, m + 1, m + l) = later
  <2>1. m + l <= Len(nm)
    BY <1>2, <1>3
  <2> QED
    BY <1>2, <1>3, <1>5, <2>1, Slice DEF l
<1>7. m <= m + l /\ m + l \in Nat
  BY <1>2
<1> QED
  BY <1>2, <1>3, <1>4, <1>6, <1>7 DEF m


\* Without names, the names do not matter.
LEMMA HoldsNameless ==
  ASSUME NEW sy, NEW st, NEW nm, NEW w, NEW ds, NEW other,
         Holds(sy, st, FALSE, nm, w, ds)
  PROVE  Holds(sy, st, FALSE, other, w, ds)
  BY DEF Holds

\* The first function of the open graph: its words, the names of its locals and
\* its edges, and what is left of the words and the names.
FirstFunction(fr, h, es, mine, rest, later) ==
  /\ Valid(frame.symbols, frame.strings, frame.has_names, h, mine, es)
  /\ fr[1] = DescOf(frame.symbols, frame.strings, frame.has_names, h, mine, es)
  /\ BeginsWith(frame.words, h, es, rest) /\ rest \in Seq(Words)
  /\ Holds(frame.symbols, frame.strings, frame.has_names, later, rest, Tail(fr))
  /\ later \in Seq(Nat)
  /\ frame.has_names => /\ Len(mine) <= Len(frame.names) /\ Len(mine) = h[4]
                        /\ \A n \in 1 .. Len(mine) : frame.names[n] = mine[n]
                        /\ SubSeq(frame.names, Len(mine) + 1, Len(frame.names)) = later

\* A graph that holds functions begins with the words of the first.
LEMMA FirstFound ==
  ASSUME frame \in Graphs, NEW fr \in Seq(Descs), GraphHolds(frame, fr), fr # <<>>
  PROVE  \E h, es, mine, rest, later : FirstFunction(fr, h, es, mine, rest, later)
<1> DEFINE sy == frame.symbols
           st == frame.strings
           has == frame.has_names
           nm == frame.names
           w == frame.words
<1>1. Holds(sy, st, has, nm, w, fr)
  BY DEF GraphHolds
<1> HIDE DEF sy, st, has, nm, w
<1>2. PICK part, mine, rest, later : HoldsFirst(sy, st, has, nm, w, fr, part, mine, rest, later)
  BY <1>1, HoldsTail
<1>3. /\ Describes(sy, st, has, part, mine, fr[1])
      /\ w = part \o rest /\ rest \in Seq(Words)
      /\ has => nm = mine \o later
      /\ later \in Seq(Nat) /\ Holds(sy, st, has, later, rest, Tail(fr))
  BY <1>2 DEF HoldsFirst
<1>4. PICK h, es : /\ Valid(sy, st, has, h, mine, es)
                   /\ part = h \o Stream(es)
                   /\ fr[1] = DescOf(sy, st, has, h, mine, es)
  BY <1>3 DEF Describes
<1>5. /\ h \in Seq(Words) /\ Len(h) = 5 /\ mine \in Seq(Nat) /\ Lists(es, Len(sy))
      /\ has => Len(mine) = h[4]
  BY <1>4 DEF Valid
<1>6. BeginsWith(w, h, es, rest)
  BY <1>3, <1>4, <1>5, FrontWords
<1>7. has => /\ Len(mine) <= Len(nm) /\ \A n \in 1 .. Len(mine) : nm[n] = mine[n]
             /\ SubSeq(nm, Len(mine) + 1, Len(nm)) = later
  BY <1>3, <1>5, FrontNames
<1>8. FirstFunction(fr, h, es, mine, rest, later)
  BY <1>3, <1>4, <1>5, <1>6, <1>7 DEF FirstFunction, sy, st, has, nm, w
<1> QED
  BY <1>8

\* The reader refuses none of it.
LEMMA FirstReadable ==
  ASSUME frame \in Graphs,
         NEW fr, NEW h, NEW es, NEW mine, NEW rest, NEW later,
         FirstFunction(fr, h, es, mine, rest, later)
  PROVE  Readable(frame.words)
<1> DEFINE sy == frame.symbols
           st == frame.strings
           has == frame.has_names
           nm == frame.names
           w == frame.words
<1>1. /\ Valid(sy, st, has, h, mine, es) /\ BeginsWith(w, h, es, rest)
      /\ has => /\ Len(mine) <= Len(nm) /\ Len(mine) = h[4]
                /\ \A n \in 1 .. Len(mine) : nm[n] = mine[n]
  BY DEF FirstFunction
<1> HIDE DEF sy, st, has, nm, w
<1>2. /\ h[1] < Len(sy) /\ h[2] < Len(st) /\ h[3] < Len(st) /\ h[5] <= h[4]
      /\ has => \A n \in 1 .. h[4] : mine[n] < Len(st)
  BY <1>1 DEF Valid
<1>3. /\ w[1] = h[1] /\ w[2] = h[2] /\ w[3] = h[3] /\ w[4] = h[4] /\ w[5] = h[5]
      /\ StartOf(w)[Len(Components) + 1] <= Len(w) + 1
  <2>1. \A i \in 1 .. 5 : w[i] = h[i]
    BY <1>1 DEF BeginsWith
  <2> QED
    BY <1>1, <2>1 DEF BeginsWith
<1>4. has => w[4] <= Len(nm) /\ \A n \in 1 .. w[4] : nm[n] < Len(st)
  BY <1>1, <1>2, <1>3
<1>5. /\ w[1] < Len(sy) /\ w[2] < Len(st) /\ w[3] < Len(st) /\ w[5] <= w[4]
  BY <1>2, <1>3
<1> QED
  BY <1>3, <1>4, <1>5 DEF Readable, sy, st, has, nm, w


\* What ReadFunction makes of it: the function to visit.
LEMMA FirstVisited ==
  ASSUME NEW d \in Descs, frame \in Graphs,
         NEW fr, NEW h, NEW es, NEW mine, NEW rest, NEW later,
         FirstFunction(fr, h, es, mine, rest, later), d = fr[1],
         NEW start, start = StartOf(frame.words),
         fun' = [fun |-> frame.symbols[frame.words[1] + 1],
                 sbom |-> Known(<<StringAt(frame.words[2]), StringAt(frame.words[3])>>),
                 locals |-> frame.words[4],
                 allocas |-> frame.words[5],
                 names |-> IF frame.has_names
                             THEN [n \in 1 .. frame.words[4] |-> StringAt(frame.names[n])]
                             ELSE <<>>,
                 data |-> [k \in Kinds |-> SubSeq(frame.words, start[k] + 1, start[k + 1] - 1)],
                 kind |-> 1,
                 prev |-> 0,
                 edges |-> NoEdges],
         frame'.symbols = frame.symbols
  PROVE  \E at : Visited(d, es, at)'
<1> DEFINE sy == frame.symbols
           st == frame.strings
           has == frame.has_names
           nm == frame.names
           w == frame.words
           N == IF has THEN [n \in 1 .. w[4] |-> st[nm[n] + 1]] ELSE <<>>
           D == [k \in Kinds |-> SubSeq(w, start[k] + 1, start[k + 1] - 1)]
           at == [k \in Kinds |-> 0]
<1>1. /\ Valid(sy, st, has, h, mine, es) /\ BeginsWith(w, h, es, rest)
      /\ d = DescOf(sy, st, has, h, mine, es)
      /\ has => /\ Len(mine) <= Len(nm) /\ Len(mine) = h[4]
                /\ \A n \in 1 .. Len(mine) : nm[n] = mine[n]
  BY DEF FirstFunction
<1>2. fun' = [fun |-> sy[w[1] + 1], sbom |-> Known(<<st[w[2] + 1], st[w[3] + 1]>>),
              locals |-> w[4], allocas |-> w[5], names |-> N, data |-> D,
              kind |-> 1, prev |-> 0, edges |-> NoEdges]
  BY DEF StringAt
<1>3. frame'.symbols = sy
  OBVIOUS
<1> HIDE DEF sy, st, has, nm, w, D
<1>4. w[1] = h[1] /\ w[2] = h[2] /\ w[3] = h[3] /\ w[4] = h[4] /\ w[5] = h[5]
  <2>1. \A i \in 1 .. 5 : w[i] = h[i]
    BY <1>1 DEF BeginsWith
  <2> QED
    BY <2>1
<1>5. /\ d.fun = sy[h[1] + 1] /\ d.sbom = Known(<<st[h[2] + 1], st[h[3] + 1]>>)
      /\ d.locals = h[4] /\ d.allocas = h[5]
      /\ d.names = IF has THEN [n \in 1 .. h[4] |-> st[mine[n] + 1]] ELSE <<>>
      /\ d.edges = [k \in Kinds |-> Tally(sy, sy[h[1] + 1], es[k], Len(es[k]))]
  BY <1>1 DEF DescOf
<1>6. N = d.names
  <2>1. CASE has
    <3>1. \A n \in 1 .. h[4] : st[nm[n] + 1] = st[mine[n] + 1]
      BY <1>1, <2>1
    <3>2. N = [n \in 1 .. h[4] |-> st[nm[n] + 1]]
      BY <1>4, <2>1
    <3> HIDE DEF N
    <3> QED
      BY <1>5, <2>1, <3>1, <3>2
  <2>2. CASE ~has
    BY <1>5, <2>2
  <2> QED
    BY <2>1, <2>2
<1>7. Lists(es, Len(sy)) /\ es \in [Kinds -> Seq(Seq(Words))]
  BY <1>1 DEF Valid, Lists
<1>8. D = [k \in Kinds |-> Rest(es[k], at[k])]
  <2>1. \A k \in Kinds : SubSeq(w, start[k] + 1, start[k + 1] - 1) = Rest(es[k], 0)
    BY <1>1 DEF BeginsWith, Found, w
  <2>2. \A k \in Kinds : at[k] = 0
    OBVIOUS
  <2> HIDE DEF at
  <2> QED
    BY <2>1, <2>2 DEF D
<1>9. NoEdges = [k \in Kinds |-> Tally(sy, d.fun, es[k], at[k])]
  <2>1. \A k \in Kinds : Tally(sy, d.fun, es[k], at[k]) = EmptyBag
    <3>1. \A k \in Kinds : at[k] = 0
      OBVIOUS
    <3> HIDE DEF at
    <3> QED
      BY <3>1, TallyNone
  <2> HIDE DEF at
  <2> QED
    BY <2>1 DEF NoEdges
<1>10. at \in [Kinds -> Nat] /\ \A k \in Kinds : at[k] = 0
  OBVIOUS
<1>11. /\ Len(Components) \in Nat \ {0} /\ Kinds = 1 .. Len(Components) /\ 1 \in Kinds
       /\ 1 \in 1 .. Len(Components) + 1
  BY KindsType
<1>12. \A k \in Kinds : Len(es[k]) \in Nat
  BY <1>7, LenProperties
<1>13. Prev(es[1], at[1] + 1) = 0
  BY <1>10, <1>11 DEF Prev
<1> HIDE DEF at, N
<1>14. fun' = [fun |-> d.fun, sbom |-> d.sbom, locals |-> d.locals, allocas |-> d.allocas,
               names |-> d.names, data |-> [k \in Kinds |-> Rest(es[k], at[k])],
               kind |-> 1, prev |-> 0,
               edges |-> [k \in Kinds |-> Tally(sy, d.fun, es[k], at[k])]]
  BY <1>2, <1>4, <1>5, <1>6, <1>8, <1>9
<1>15. \A k \in Kinds : /\ at[k] <= Len(es[k])
                        /\ k < 1 => at[k] = Len(es[k])
                        /\ k > 1 => at[k] = 0
  BY <1>10, <1>11, <1>12
<1>16. fun'.kind = 1 /\ fun'.prev = 0
  BY <1>14
<1>17. fun'.prev = IF fun'.kind \in Kinds THEN Prev(es[fun'.kind], at[fun'.kind] + 1) ELSE 0
  BY <1>11, <1>13, <1>16
<1>18. /\ Lists(es, Len(frame'.symbols))
       /\ d.edges = [k \in Kinds |-> Tally(frame'.symbols, d.fun, es[k], Len(es[k]))]
       /\ fun' = [fun |-> d.fun, sbom |-> d.sbom, locals |-> d.locals, allocas |-> d.allocas,
                  names |-> d.names, data |-> [k \in Kinds |-> Rest(es[k], at[k])],
                  kind |-> fun'.kind, prev |-> fun'.prev,
                  edges |-> [k \in Kinds |-> Tally(frame'.symbols, d.fun, es[k], at[k])]]
  BY <1>3, <1>5, <1>7, <1>14, <1>16
<1>19. PICK a : /\ a \in [Kinds -> Nat]
                /\ \A k \in Kinds : /\ a[k] <= Len(es[k])
                                    /\ k < 1 => a[k] = Len(es[k])
                                    /\ k > 1 => a[k] = 0
                /\ fun'.prev = IF fun'.kind \in Kinds THEN Prev(es[fun'.kind], a[fun'.kind] + 1)
                                                      ELSE 0
                /\ fun' = [fun |-> d.fun, sbom |-> d.sbom, locals |-> d.locals,
                           allocas |-> d.allocas, names |-> d.names,
                           data |-> [k \in Kinds |-> Rest(es[k], a[k])],
                           kind |-> fun'.kind, prev |-> fun'.prev,
                           edges |-> [k \in Kinds |-> Tally(frame'.symbols, d.fun, es[k], a[k])]]
  BY <1>10, <1>15, <1>17, <1>18
<1>20. Visited(d, es, a)'
  BY <1>11, <1>16, <1>18, <1>19 DEF Visited, Lists, Tally
<1> QED
  BY <1>20


\* What is left of the open graph.
LEMMA FirstTaken ==
  ASSUME frame \in Graphs, NEW fr \in Seq(Descs), GraphHolds(frame, fr), fr # <<>>,
         NEW h, NEW es, NEW mine, NEW rest, NEW later,
         FirstFunction(fr, h, es, mine, rest, later),
         frame' = [frame EXCEPT
           !.words = SubSeq(frame.words, StartOf(frame.words)[Len(Components) + 1], Len(frame.words)),
           !.names = NextNames(frame.words[4]),
           !.nfuns = @ - 1]
  PROVE  /\ FrameHolds(Tail(fr))' /\ frame' # Nothing /\ frame'.symbols = frame.symbols
<1> DEFINE sy == frame.symbols
           st == frame.strings
           has == frame.has_names
           nm == frame.names
           w == frame.words
           n == frame.nfuns
           N == NextNames(w[4])
           t == Tail(fr)
<1>1. /\ Valid(sy, st, has, h, mine, es) /\ BeginsWith(w, h, es, rest) /\ rest \in Seq(Words)
      /\ Holds(sy, st, has, later, rest, t) /\ later \in Seq(Nat)
      /\ has => Len(mine) = h[4] /\ SubSeq(nm, Len(mine) + 1, Len(nm)) = later
  BY DEF FirstFunction
<1>2. /\ sy \in Seq(Globals) /\ st \in Seq(Strings) /\ nm \in Seq(Nat) /\ has \in BOOLEAN /\ n \in Nat
      /\ frame = [symbols |-> sy, strings |-> st, names |-> nm, words |-> w, nfuns |-> n,
                  has_names |-> has]
  BY DEF Graphs
<1>3. n = Len(fr)
  BY DEF GraphHolds
<1>4. N = IF has THEN SubSeq(nm, w[4] + 1, Len(nm)) ELSE nm
  BY DEF NextNames
<1>5. SubSeq(w, StartOf(w)[Len(Components) + 1], Len(w)) = rest /\ w[4] = h[4]
  <2> HIDE DEF w
  <2>1. \A i \in 1 .. 5 : w[i] = h[i]
    BY <1>1 DEF BeginsWith
  <2> QED
    BY <1>1, <2>1 DEF BeginsWith
<1>6. frame' = [frame EXCEPT !.words = rest, !.names = N, !.nfuns = n - 1]
  BY <1>5
<1>7. t \in Seq(Descs) /\ Len(t) = Len(fr) - 1
  BY HeadTailProperties
<1>8. n - 1 \in Nat /\ n - 1 = Len(t)
  BY <1>2, <1>3, <1>7, EmptySeq
<1> HIDE DEF sy, st, has, nm, w, n, N, t
<1>9. has => N = later
  BY <1>1, <1>4, <1>5
<1>10. N \in Seq(Nat)
  BY <1>1, <1>2, <1>4, <1>9
<1>11. Holds(sy, st, has, N, rest, t)
  <2>1. CASE has
    BY <1>1, <1>9, <2>1
  <2>2. CASE ~has
    BY <1>1, <1>2, <2>2, HoldsNameless
  <2> QED
    BY <2>1, <2>2
<1>12. frame' = [symbols |-> sy, strings |-> st, names |-> N, words |-> rest, nfuns |-> n - 1,
                 has_names |-> has]
  BY <1>2, <1>6
<1>13. frame' \in Graphs
  BY <1>1, <1>2, <1>8, <1>10, <1>12 DEF Graphs
<1>14. GraphHolds(frame', t)
  <2>1. /\ frame'.symbols = sy /\ frame'.strings = st /\ frame'.names = N /\ frame'.words = rest
        /\ frame'.nfuns = n - 1 /\ frame'.has_names = has
    <3> DEFINE g == frame'
               m == n - 1
    <3>1. g = [symbols |-> sy, strings |-> st, names |-> N, words |-> rest, nfuns |-> m,
               has_names |-> has]
      BY <1>12
    <3> HIDE DEF g, m
    <3>2. /\ g.symbols = sy /\ g.strings = st /\ g.names = N /\ g.words = rest
          /\ g.nfuns = m /\ g.has_names = has
      BY <3>1, Zenon
    <3> QED
      BY <3>2 DEF g, m
  <2>2. Holds(frame'.symbols, frame'.strings, frame'.has_names, frame'.names, frame'.words, t)
    BY <1>11, <2>1
  <2> QED
    BY <1>8, <2>1, <2>2 DEF GraphHolds
<1>15. frame' # Nothing
  BY <1>13, SomeGraph
<1>16. FrameHolds(t)'
  BY <1>7, <1>13, <1>14, <1>15 DEF FrameHolds, GraphHolds, t
<1> QED
  BY <1>12, <1>15, <1>16 DEF t, sy

\* Reading a function passes every test and starts to visit the first function held.
LEMMA ReadFirst ==
  ASSUME ReaderInv, ReadFunction
  PROVE  ReaderInv'
<1>0. /\ sealed /\ frame # Nothing /\ fun = Nothing /\ frame.nfuns > 0
      /\ UNCHANGED <<debug, fw, sealed, written, section, reported>>
  BY DEF ReadFunction, Reading
<1>1. PICK now, fr, secs : Told(now, fr, secs)
  BY <1>0 DEF ReaderInv
<1>2. /\ now = <<>> /\ frame \in Graphs /\ fr \in Seq(Descs) /\ GraphHolds(frame, fr)
      /\ reported \in Seq(Descs) /\ written = reported \o (now \o (fr \o FlattenSeq(secs)))
  BY <1>0, <1>1 DEF Told, FunHolds, FrameHolds
<1>3. fr # <<>>
  BY <1>0, <1>2, EmptySeq DEF GraphHolds
<1>4. PICK h, es, mine, rest, later : FirstFunction(fr, h, es, mine, rest, later)
  BY <1>2, <1>3, FirstFound
<1>5. Readable(frame.words)
  BY <1>2, <1>4, FirstReadable
<1> DEFINE d == fr[1]
           t == Tail(fr)
<1>6. /\ failed' = failed
      /\ frame' = [frame EXCEPT
           !.words = SubSeq(frame.words, StartOf(frame.words)[Len(Components) + 1], Len(frame.words)),
           !.names = NextNames(frame.words[4]),
           !.nfuns = @ - 1]
  BY <1>5 DEF ReadFunction
<1>7. \E start :
        /\ start = StartOf(frame.words)
        /\ fun' = [fun |-> frame.symbols[frame.words[1] + 1],
                   sbom |-> Known(<<StringAt(frame.words[2]), StringAt(frame.words[3])>>),
                   locals |-> frame.words[4],
                   allocas |-> frame.words[5],
                   names |-> IF frame.has_names
                               THEN [n \in 1 .. frame.words[4] |-> StringAt(frame.names[n])]
                               ELSE <<>>,
                   data |-> [k \in Kinds |-> SubSeq(frame.words, start[k] + 1, start[k + 1] - 1)],
                   kind |-> 1,
                   prev |-> 0,
                   edges |-> NoEdges]
  BY <1>5 DEF ReadFunction
<1>8. FrameHolds(t)' /\ frame' # Nothing /\ frame'.symbols = frame.symbols
  BY <1>2, <1>3, <1>4, <1>6, FirstTaken
<1>9. d \in Descs /\ t \in Seq(Descs) /\ fr = <<d>> \o t
  <2>1. d \in Descs /\ t \in Seq(Descs) /\ Len(fr) \in Nat \ {0} /\ Len(t) = Len(fr) - 1
        /\ \A n \in 1 .. Len(t) : t[n] = fr[n + 1]
    BY <1>2, <1>3, EmptySeq, LenProperties, HeadTailProperties, ElementOfSeq
  <2> DEFINE one == <<d>>
             x == one \o t
  <2>2. one \in Seq(Descs) /\ Len(one) = 1 /\ one[1] = d
    BY <2>1
  <2> HIDE DEF one, t
  <2>3. /\ x \in Seq(Descs) /\ Len(x) = 1 + Len(t)
        /\ \A i \in 1 .. 1 + Len(t) : x[i] = IF i <= 1 THEN one[i] ELSE t[i - 1]
    <3>1. /\ one \o t \in Seq(Descs) /\ Len(one \o t) = Len(one) + Len(t)
          /\ \A i \in 1 .. Len(one) + Len(t) :
               (one \o t)[i] = IF i <= Len(one) THEN one[i] ELSE t[i - Len(one)]
      BY <2>1, <2>2, ConcatProperties, Zenon
    <3> QED
      BY <2>2, <3>1
  <2> HIDE DEF x
  <2>4. \A i \in 1 .. Len(fr) : fr[i] = x[i]
    <3> SUFFICES ASSUME NEW i \in 1 .. Len(fr)
                 PROVE  fr[i] = x[i]
      OBVIOUS
    <3>1. CASE i = 1
      BY <2>1, <2>2, <2>3, <3>1
    <3>2. CASE i # 1
      <4>1. i - 1 \in 1 .. Len(t) /\ i \in 1 .. 1 + Len(t) /\ ~(i <= 1) /\ (i - 1) + 1 = i
        BY <2>1, <3>2
      <4>2. t[i - 1] = fr[i]
        BY <2>1, <4>1
      <4> QED
        BY <2>3, <4>1, <4>2
    <3> QED
      BY <3>1, <3>2
  <2>5. Len(fr) = Len(x)
    BY <2>1, <2>3
  <2>6. fr = x
    BY <1>2, <2>3, <2>4, <2>5, SeqEqual
  <2> QED
    BY <2>1, <2>6 DEF x, one, t
<1>10. \E at : Visited(d, es, at)'
  BY <1>2, <1>4, <1>7, <1>8, <1>9, FirstVisited
<1>11. written = reported \o (<<d>> \o (t \o FlattenSeq(secs)))
  <2> DEFINE e == <<>>
             one == <<d>>
             F == FlattenSeq(secs)
  <2>1. one \in Seq(Descs) /\ t \in Seq(Descs) /\ F \in Seq(Descs)
    BY <1>1, <1>9, ToldTypes
  <2>2. fr = one \o t /\ written = reported \o (e \o (fr \o F))
    BY <1>2, <1>9
  <2> HIDE DEF e, one, F, t
  <2>3. fr \o F \in Seq(Descs) /\ fr \o F = one \o (t \o F)
    BY <1>2, <2>1, <2>2, CatDescs
  <2>4. e \o (fr \o F) = fr \o F
    BY <2>3, CatDescs DEF e
  <2>5. written = reported \o (one \o (t \o F))
    BY <2>2, <2>3, <2>4
  <2> QED
    BY <2>5 DEF one, F
<1> HIDE DEF t, d
<1>12. PICK left, x, at, y :
         /\ left = t /\ x = d /\ y = es /\ Visited(x, y, at)'
  BY <1>10
<1>13. fun' # Nothing
  <2>1. "fun" \in DOMAIN fun' /\ "fun" \notin DOMAIN Nothing
    BY <1>7 DEF Nothing
  <2> QED
    BY <2>1
<1>14. PICK one : one = <<x>>
  OBVIOUS
<1>15. FunHolds(one)'
  BY <1>8, <1>12, <1>13, <1>14 DEF FunHolds
<1>16. SectionHolds(secs)'
  BY <1>0, <1>1, SectionSame DEF Told
<1>17. written' = reported' \o (one \o (left \o FlattenSeq(secs))) /\ reported' \in Seq(Descs)
  BY <1>0, <1>2, <1>11, <1>12, <1>14
<1>18. FrameHolds(left)'
  BY <1>8, <1>12 DEF t, FrameHolds, GraphHolds
<1>19. Told(one, left, secs)'
  BY <1>15, <1>16, <1>17, <1>18 DEF Told
<1> QED
  BY <1>0, <1>6, <1>19 DEF ReaderInv


\* The words of the next edge of a kind, and those left.
NextEdge(k, s, m, d) ==
  /\ m + 1 \in 1 .. Len(s) /\ m \in Nat
  /\ d[1] = ToDelta(Prev(s, m + 1), s[m + 1][1])
  /\ d[2] = ToDelta(s[m + 1][1], s[m + 1][2])
  /\ SubSeq(d, 3, Components[k]) = SubSeq(s[m + 1], 3, Len(s[m + 1]))
  /\ SubSeq(d, Components[k] + 1, Len(d)) = Rest(s, m + 1)

\* The words left of a kind begin with those of its next edge.
LEMMA NextEdgeFound ==
  ASSUME NEW k \in Kinds, NEW ns, NEW s, GoodEdges(k, s, ns),
         NEW m \in Nat, m <= Len(s), NEW d, d = Rest(s, m), d # <<>>
  PROVE  NextEdge(k, s, m, d)
<1> DEFINE E == EncodeEdge(s, m + 1)
           R == Rest(s, m + 1)
           C == Components[k]
           t == SubSeq(E, 3, C)
<1>1. Len(s) \in Nat
  BY DEF GoodEdges, Words
<1>2. m # Len(s)
  BY RestLength
<1>3. m + 1 \in 1 .. Len(s) /\ m \in 0 .. Len(s) - 1 /\ m + 1 \in 0 .. Len(s)
  BY <1>1, <1>2
<1>4. d = E \o R
  BY <1>3, RestStep
<1>5. /\ E \in Seq(Words) /\ Len(E) = C
      /\ E[1] = ToDelta(Prev(s, m + 1), s[m + 1][1])
      /\ E[2] = ToDelta(s[m + 1][1], s[m + 1][2])
      /\ t = SubSeq(s[m + 1], 3, Len(s[m + 1]))
  <2> DEFINE n == m + 1
  <2>1. n \in 1 .. Len(s)
    BY <1>3
  <2> HIDE DEF n
  <2>2. /\ EncodeEdge(s, n) \in Seq(Words) /\ Len(EncodeEdge(s, n)) = Components[k]
        /\ EncodeEdge(s, n)[1] = ToDelta(Prev(s, n), s[n][1])
        /\ EncodeEdge(s, n)[2] = ToDelta(s[n][1], s[n][2])
        /\ SubSeq(EncodeEdge(s, n), 3, Components[k]) = SubSeq(s[n], 3, Len(s[n]))
    BY <2>1, EncodeEdgeType
  <2> QED
    BY <2>2, Zenon DEF n
<1>6. R \in Seq(Words)
  BY <1>3, RestType
<1>7. C \in {2, 3}
  BY KindsType
<1> HIDE DEF E, R, C
<1>8. /\ d \in Seq(Words) /\ Len(d) = C + Len(R) /\ Len(R) \in Nat
      /\ \A i \in 1 .. C : d[i] = E[i]
      /\ \A i \in 1 .. Len(R) : d[C + i] = R[i]
  <2>1. /\ E \o R \in Seq(Words) /\ Len(E \o R) = Len(E) + Len(R) /\ Len(R) \in Nat
        /\ \A i \in 1 .. Len(E) : (E \o R)[i] = E[i]
        /\ \A i \in 1 .. Len(R) : (E \o R)[Len(E) + i] = R[i]
    BY <1>5, <1>6, CatWords, Zenon
  <2> QED
    BY <1>4, <1>5, <2>1
<1>9. SubSeq(d, C + 1, Len(d)) = R
  <2>1. C \in Nat /\ C + Len(R) <= Len(d)
    BY <1>7, <1>8
  <2>2. SubSeq(d, C + 1, C + Len(R)) = R
    BY <1>6, <1>8, <2>1, Slice
  <2> QED
    BY <1>8, <2>2
<1>10. t \in Seq(Words) /\ Len(t) = C - 2 /\ \A i \in 1 .. Len(t) : t[i] = E[2 + i]
  <2>1. \A i \in 3 .. C : E[i] \in Words
    <3>1. \A i \in 3 .. C : i \in 1 .. Len(E)
      BY <1>5, <1>7
    <3> QED
      BY <1>5, <3>1, ElementOfSeq
  <2>2. 3 \in Int /\ C \in Int
    BY <1>7
  <2>3. /\ t \in Seq(Words) /\ Len(t) = IF 3 <= C THEN C - 3 + 1 ELSE 0
        /\ \A i \in 1 .. C - 3 + 1 : t[i] = E[3 + i - 1]
    BY <2>1, <2>2, SubSeqProperties
  <2> HIDE DEF t
  <2>4. Len(t) = C - 2
    BY <1>7, <2>3
  <2>5. \A i \in 1 .. Len(t) : i \in 1 .. C - 3 + 1 /\ 3 + i - 1 = 2 + i
    BY <1>7, <2>4
  <2> QED
    BY <2>3, <2>4, <2>5
<1> HIDE DEF t
<1>11. SubSeq(d, 3, C) = t
  <2>1. \A i \in 1 .. Len(t) : d[2 + i] = t[i]
    <3>1. \A i \in 1 .. Len(t) : 2 + i \in 1 .. C
      BY <1>7, <1>10
    <3> QED
      BY <1>8, <1>10, <3>1
  <2>2. 2 + Len(t) = C /\ 2 + Len(t) <= Len(d) /\ 2 + 1 = 3
    BY <1>7, <1>8, <1>10
  <2>3. SubSeq(d, 2 + 1, 2 + Len(t)) = t
    BY <1>8, <1>10, <2>1, <2>2, Slice
  <2> QED
    BY <2>2, <2>3
<1>12. d[1] = E[1] /\ d[2] = E[2]
  BY <1>7, <1>8
<1> QED
  BY <1>3, <1>5, <1>9, <1>11, <1>12 DEF NextEdge, R, C


\* Visited, of the next state.
LEMMA VisitedThen ==
  ASSUME NEW d \in Descs, NEW es, NEW at \in [Kinds -> Nat],
         Lists(es, Len(frame'.symbols)),
         fun'.kind \in 1 .. Len(Components) + 1,
         \A k \in Kinds : /\ at[k] <= Len(es[k])
                          /\ k < fun'.kind => at[k] = Len(es[k])
                          /\ k > fun'.kind => at[k] = 0,
         fun'.prev = IF fun'.kind \in Kinds THEN Prev(es[fun'.kind], at[fun'.kind] + 1) ELSE 0,
         d.edges = [k \in Kinds |-> Tally(frame'.symbols, d.fun, es[k], Len(es[k]))],
         fun' = [fun |-> d.fun, sbom |-> d.sbom, locals |-> d.locals, allocas |-> d.allocas,
                 names |-> d.names,
                 data |-> [k \in Kinds |-> Rest(es[k], at[k])],
                 kind |-> fun'.kind,
                 prev |-> fun'.prev,
                 edges |-> [k \in Kinds |-> Tally(frame'.symbols, d.fun, es[k], at[k])]]
  PROVE  Visited(d, es, at)'
  BY DEF Visited, Lists, Tally

LEMMA VisitedSame ==
  ASSUME NEW d, NEW es, NEW at, Visited(d, es, at), fun' = fun, frame' = frame
  PROVE  Visited(d, es, at)'
<1>1. d \in Descs /\ at \in [Kinds -> Nat]
  BY DEF Visited
<1>2. Lists(es, Len(frame'.symbols))
  BY DEF Visited
<1>3. fun'.kind \in 1 .. Len(Components) + 1
  BY DEF Visited
<1>4. \A k \in Kinds : /\ at[k] <= Len(es[k])
                       /\ k < fun'.kind => at[k] = Len(es[k])
                       /\ k > fun'.kind => at[k] = 0
  BY DEF Visited
<1>5. fun'.prev = IF fun'.kind \in Kinds THEN Prev(es[fun'.kind], at[fun'.kind] + 1) ELSE 0
  BY DEF Visited
<1>6. d.edges = [k \in Kinds |-> Tally(frame'.symbols, d.fun, es[k], Len(es[k]))]
  BY DEF Visited
<1>7. fun' = [fun |-> d.fun, sbom |-> d.sbom, locals |-> d.locals, allocas |-> d.allocas,
              names |-> d.names,
              data |-> [k \in Kinds |-> Rest(es[k], at[k])],
              kind |-> fun'.kind,
              prev |-> fun'.prev,
              edges |-> [k \in Kinds |-> Tally(frame'.symbols, d.fun, es[k], at[k])]]
  <2>1. fun = [fun |-> d.fun, sbom |-> d.sbom, locals |-> d.locals, allocas |-> d.allocas,
               names |-> d.names,
               data |-> [k \in Kinds |-> Rest(es[k], at[k])],
               kind |-> fun.kind,
               prev |-> fun.prev,
               edges |-> [k \in Kinds |-> Tally(frame.symbols, d.fun, es[k], at[k])]]
    BY DEF Visited
  <2> QED
    BY <2>1, Zenon
<1> QED
  BY <1>1, <1>2, <1>3, <1>4, <1>5, <1>6, <1>7, VisitedThen, Zenon

\* Visiting the next edge of the kind.
LEMMA VisitNext ==
  ASSUME fun # Nothing, frame \in Graphs, NEW d, NEW es, NEW at, Visited(d, es, at),
         VisitEdge
  PROVE  /\ failed' = failed /\ fun' # Nothing /\ \E a : Visited(d, es, a)'
<1> DEFINE k == fun.kind
           sy == frame.symbols
           s == es[k]
           m == at[k]
           w == fun.data[k]
           to == FromDelta(fun.prev, w[1])
           from == FromDelta(to, w[2])
           f == d.fun
<1>0. k \in Kinds /\ w # <<>> /\ frame' = frame
  BY DEF VisitEdge
<1>1. /\ d \in Descs /\ Lists(es, Len(sy)) /\ at \in [Kinds -> Nat]
      /\ \A j \in Kinds : /\ at[j] <= Len(es[j])
                          /\ j < k => at[j] = Len(es[j])
                          /\ j > k => at[j] = 0
      /\ fun.prev = Prev(s, m + 1)
      /\ d.edges = [j \in Kinds |-> Tally(sy, f, es[j], Len(es[j]))]
      /\ fun = [fun |-> f, sbom |-> d.sbom, locals |-> d.locals, allocas |-> d.allocas,
                names |-> d.names, data |-> [j \in Kinds |-> Rest(es[j], at[j])],
                kind |-> k, prev |-> fun.prev,
                edges |-> [j \in Kinds |-> Tally(sy, f, es[j], at[j])]]
      /\ k \in 1 .. Len(Components) + 1
  BY <1>0 DEF Visited
<1>2. GoodEdges(k, s, Len(sy)) /\ m \in Nat /\ m <= Len(s)
  BY <1>0, <1>1 DEF Lists
<1>3. w = Rest(s, m) /\ fun.fun = f
  BY <1>0, <1>1
<1> DEFINE n == m + 1
           e == s[n]
<1>4. /\ n \in 1 .. Len(s) /\ n \in Nat /\ w[1] = ToDelta(Prev(s, n), e[1])
      /\ w[2] = ToDelta(e[1], e[2])
      /\ SubSeq(w, 3, Components[k]) = SubSeq(e, 3, Len(e))
      /\ SubSeq(w, Components[k] + 1, Len(w)) = Rest(s, n)
  <2>1. NextEdge(k, s, m, w)
    <3> HIDE DEF k, s, m, w, sy
    <3> QED
      BY <1>0, <1>2, <1>3, NextEdgeFound
  <2>2. m + 1 \in Nat
    BY <1>2
  <2> QED
    BY <2>1, <2>2 DEF NextEdge
<1>5. /\ GoodEdge(k, e, Len(sy)) /\ e[1] \in Words /\ e[2] \in Words
  BY <1>2, <1>4 DEF GoodEdges, GoodEdge, Good
<1>6. Prev(s, n) \in Words
  <2> HIDE DEF n, s, k, sy
  <2> QED
    BY <1>0, <1>2, <1>4, EncodeEdgeType
<1>7. to = e[1] /\ from = e[2]
  <2>1. to = FromDelta(Prev(s, n), ToDelta(Prev(s, n), e[1]))
    BY <1>1, <1>4
  <2> DEFINE p == Prev(s, n)
             a == e[1]
             b == e[2]
  <2>2. p \in Words /\ a \in Words /\ b \in Words
    BY <1>5, <1>6
  <2>3. to = FromDelta(p, ToDelta(p, a))
    BY <2>1
  <2>4. from = FromDelta(to, ToDelta(a, b))
    BY <1>4
  <2> HIDE DEF p, a, b, to, from
  <2>5. to = a
    BY <2>2, <2>3, DeltaRoundTrip
  <2>6. from = b
    BY <2>2, <2>4, <2>5, DeltaRoundTrip
  <2> QED
    BY <2>5, <2>6 DEF a, b
<1>8. Decodable(to) /\ Decodable(from)
  BY <1>5, <1>7 DEF GoodEdge, Good, Decodable
<1>9. /\ decode_node(to) = Decode(sy, f, e[1]) /\ decode_node(from) = Decode(sy, f, e[2])
  BY <1>3, <1>7 DEF decode_node, Decode
<1> DEFINE x == DecodeEdge(sy, f, e)
<1>10. <<decode_node(to), decode_node(from)>> \o SubSeq(w, 3, Components[k]) = x
  BY <1>4, <1>9 DEF DecodeEdge
<1> DEFINE r == Rest(s, n)
<1>11. /\ failed' = failed
       /\ fun' = [fun EXCEPT !.prev = from, !.data[k] = r, !.edges[k] = @ (+) SetToBag({x})]
  <2>1. /\ failed' = failed
        /\ fun' = [fun EXCEPT
                 !.prev = from,
                 !.data[k] = SubSeq(w, Components[k] + 1, Len(w)),
                 !.edges[k] = @ (+) SetToBag({<<decode_node(to), decode_node(from)>>
                                                \o SubSeq(w, 3, Components[k])})]
    BY <1>8 DEF VisitEdge
  <2> HIDE DEF w, to, from, x, r, n, e
  <2> QED
    BY <1>4, <1>10, <2>1 DEF r
<1> DEFINE a2 == [at EXCEPT ![k] = n]
           D == [j \in Kinds |-> Rest(es[j], at[j])]
           T == [j \in Kinds |-> Tally(sy, f, es[j], at[j])]
           D2 == [D EXCEPT ![k] = r]
           T2 == [T EXCEPT ![k] = @ (+) SetToBag({x})]
<1>12. fun' = [fun |-> f, sbom |-> d.sbom, locals |-> d.locals, allocas |-> d.allocas,
               names |-> d.names, data |-> D2, kind |-> k, prev |-> from, edges |-> T2]
  <2> DEFINE A == d.sbom
             B == d.locals
             C == d.allocas
             E == d.names
             p == fun.prev
             kk == k
             g == fun
             y == SetToBag({x})
  <2>1. g = [fun |-> f, sbom |-> A, locals |-> B, allocas |-> C, names |-> E, data |-> D,
             kind |-> kk, prev |-> p, edges |-> T]
    BY <1>1
  <2>2. fun' = [g EXCEPT !.prev = from, !.data[kk] = r, !.edges[kk] = @ (+) y]
    BY <1>11
  <2> HIDE DEF A, B, C, E, p, kk, g, y, D, T, from, r, f
  <2>3. fun' = [fun |-> f, sbom |-> A, locals |-> B, allocas |-> C, names |-> E,
                data |-> [D EXCEPT ![kk] = r], kind |-> kk, prev |-> from,
                edges |-> [T EXCEPT ![kk] = @ (+) y]]
    BY <2>1, <2>2
  <2> QED
    BY <2>3 DEF A, B, C, E, kk, y
<1>13. /\ a2 \in [Kinds -> Nat] /\ a2[k] = n /\ \A j \in Kinds : j # k => a2[j] = at[j]
  BY <1>0, <1>1, <1>4
<1>14. D2 = [j \in Kinds |-> Rest(es[j], a2[j])]
  <2>1. \A j \in Kinds : D2[j] = IF j = k THEN r ELSE Rest(es[j], at[j])
    <3> HIDE DEF r, k
    <3> QED
      OBVIOUS
  <2>2. D2 = [j \in Kinds |-> D2[j]]
    <3> HIDE DEF r, k
    <3> QED
      OBVIOUS
  <2> HIDE DEF D2, a2, n
  <2>3. \A j \in Kinds : D2[j] = Rest(es[j], a2[j])
    BY <1>13, <2>1
  <2> QED
    BY <2>2, <2>3
<1>15. T2 = [j \in Kinds |-> Tally(sy, f, es[j], a2[j])]
  <2> DEFINE y == SetToBag({x})
  <2>1. Tally(sy, f, s, n) = Tally(sy, f, s, m) (+) y
    <3> HIDE DEF s, m, sy, f
    <3> QED
      BY <1>2, TallyStep
  <2>2. /\ T2 = [j \in Kinds |-> T2[j]]
        /\ \A j \in Kinds : T2[j] = IF j = k THEN T[j] (+) y ELSE T[j]
    <3> DEFINE F(j) == Tally(sy, f, es[j], at[j])
    <3>1. T = [j \in Kinds |-> F(j)]
      OBVIOUS
    <3>2. T2 = [T EXCEPT ![k] = @ (+) y]
      OBVIOUS
    <3> HIDE DEF y, k, F, T, T2
    <3> QED
      BY <3>1, <3>2
  <2>3. \A j \in Kinds : T[j] = Tally(sy, f, es[j], at[j])
    OBVIOUS
  <2> HIDE DEF y, T, T2, a2, n, x
  <2>4. \A j \in Kinds : T2[j] = Tally(sy, f, es[j], a2[j])
    BY <1>13, <2>1, <2>2, <2>3
  <2> QED
    BY <2>2, <2>4
<1>16. from = Prev(s, n + 1)
  <2>1. n + 1 # 1 /\ (n + 1) - 1 = n
    BY <1>4
  <2> HIDE DEF n
  <2> QED
    BY <1>7, <2>1 DEF Prev
<1>17. \A j \in Kinds : /\ a2[j] <= Len(es[j])
                        /\ j < k => a2[j] = Len(es[j])
                        /\ j > k => a2[j] = 0
  <2>1. Kinds \subseteq Nat /\ n <= Len(s)
    BY <1>2, <1>4, KindsType
  <2> HIDE DEF a2, n
  <2> QED
    BY <1>0, <1>1, <1>13, <2>1
<1>18. fun'.kind = k /\ fun'.prev = from
  <2> HIDE DEF k, from, D2, T2
  <2> QED
    BY <1>12
<1>19. fun'.prev = IF fun'.kind \in Kinds THEN Prev(es[fun'.kind], a2[fun'.kind] + 1) ELSE 0
  <2> HIDE DEF a2, n, from
  <2> QED
    BY <1>0, <1>13, <1>16, <1>18
<1>20. frame'.symbols = sy
  BY <1>0
<1>21. fun' = [fun |-> f, sbom |-> d.sbom, locals |-> d.locals, allocas |-> d.allocas,
               names |-> d.names, data |-> [j \in Kinds |-> Rest(es[j], a2[j])],
               kind |-> fun'.kind, prev |-> fun'.prev,
               edges |-> [j \in Kinds |-> Tally(sy, f, es[j], a2[j])]]
  <2> HIDE DEF k, from, D2, T2, a2
  <2> QED
    BY <1>12, <1>14, <1>15, <1>18
<1> HIDE DEF a2, k, from, D2, T2, sy
<1>22. /\ a2 \in [Kinds -> Nat] /\ fun'.kind \in 1 .. Len(Components) + 1
       /\ \A j \in Kinds : /\ a2[j] <= Len(es[j])
                           /\ j < fun'.kind => a2[j] = Len(es[j])
                           /\ j > fun'.kind => a2[j] = 0
  BY <1>1, <1>13, <1>17, <1>18
<1>23. PICK a : a = a2
  OBVIOUS
<1>24. Visited(d, es, a)'
  <2>1. d \in Descs /\ a \in [Kinds -> Nat]
    BY <1>1, <1>22, <1>23
  <2>2. Lists(es, Len(frame'.symbols))
    BY <1>1, <1>20
  <2>3. fun'.kind \in 1 .. Len(Components) + 1
    BY <1>22
  <2>4. \A j \in Kinds : /\ a[j] <= Len(es[j])
                         /\ j < fun'.kind => a[j] = Len(es[j])
                         /\ j > fun'.kind => a[j] = 0
    BY <1>22, <1>23, Zenon
  <2>5. fun'.prev = IF fun'.kind \in Kinds THEN Prev(es[fun'.kind], a[fun'.kind] + 1) ELSE 0
    BY <1>19, <1>23
  <2>6. d.edges = [j \in Kinds |-> Tally(frame'.symbols, d.fun, es[j], Len(es[j]))]
    BY <1>1, <1>20
  <2>7. fun' = [fun |-> d.fun, sbom |-> d.sbom, locals |-> d.locals, allocas |-> d.allocas,
                names |-> d.names,
                data |-> [j \in Kinds |-> Rest(es[j], a[j])],
                kind |-> fun'.kind,
                prev |-> fun'.prev,
                edges |-> [j \in Kinds |-> Tally(frame'.symbols, d.fun, es[j], a[j])]]
    BY <1>20, <1>21, <1>23
  <2> QED
    BY <2>1, <2>2, <2>3, <2>4, <2>5, <2>6, <2>7, VisitedThen, Zenon
<1>25. fun' # Nothing
  <2>1. "fun" \in DOMAIN fun' /\ "fun" \notin DOMAIN Nothing
    BY <1>21 DEF Nothing
  <2> QED
    BY <2>1
<1> QED
  BY <1>11, <1>24, <1>25


\* Where no words are left of a kind, all its edges were visited.
LEMMA NoneLeft ==
  ASSUME NEW k \in Kinds, NEW ns, NEW s, GoodEdges(k, s, ns),
         NEW m \in Nat, m <= Len(s), Rest(s, m) = <<>>
  PROVE  m = Len(s)
<1> SUFFICES ASSUME m # Len(s)
             PROVE  FALSE
  OBVIOUS
<1> DEFINE E == EncodeEdge(s, m + 1)
           R == Rest(s, m + 1)
<1>1. Len(s) \in Nat
  BY DEF GoodEdges, Words
<1>2. m + 1 \in 1 .. Len(s) /\ m \in 0 .. Len(s) - 1 /\ m + 1 \in 0 .. Len(s)
  BY <1>1
<1>3. E \in Seq(Words) /\ Len(E) \in {2, 3}
  <2>1. Len(E) = Components[k] /\ E \in Seq(Words)
    BY <1>2, EncodeEdgeType
  <2> QED
    BY <2>1, KindsType
<1>4. R \in Seq(Words) /\ Rest(s, m) = E \o R
  BY <1>2, RestType, RestStep
<1> HIDE DEF E, R
<1>5. Len(E \o R) = Len(E) + Len(R) /\ Len(R) \in Nat
  BY <1>3, <1>4, CatWords
<1>6. Len(E \o R) = 0
  <2>1. E \o R = <<>>
    BY <1>4
  <2>2. Len(<<>>) = 0
    OBVIOUS
  <2> QED
    BY <2>1, <2>2, Zenon
<1> DEFINE a == Len(E)
           b == Len(R)
<1>7. a \in {2, 3} /\ b \in Nat /\ a + b = 0
  BY <1>3, <1>5, <1>6
<1> HIDE DEF a, b
<1> QED
  BY <1>7

\* The next kind starts with a running value of 0.
LEMMA VisitKind ==
  ASSUME fun # Nothing, NEW d, NEW es, NEW at, Visited(d, es, at), NextKind
  PROVE  fun' # Nothing /\ Visited(d, es, at)'
<1> DEFINE k == fun.kind
           sy == frame.symbols
           f == d.fun
           D == [j \in Kinds |-> Rest(es[j], at[j])]
           T == [j \in Kinds |-> Tally(sy, f, es[j], at[j])]
<1>0. k \in Kinds /\ fun.data[k] = <<>> /\ frame' = frame
      /\ fun' = [fun EXCEPT !.kind = @ + 1, !.prev = 0]
  BY DEF NextKind
<1>1. /\ d \in Descs /\ Lists(es, Len(sy)) /\ at \in [Kinds -> Nat]
      /\ \A j \in Kinds : /\ at[j] <= Len(es[j])
                          /\ j < k => at[j] = Len(es[j])
                          /\ j > k => at[j] = 0
      /\ d.edges = [j \in Kinds |-> Tally(sy, f, es[j], Len(es[j]))]
      /\ fun = [fun |-> f, sbom |-> d.sbom, locals |-> d.locals, allocas |-> d.allocas,
                names |-> d.names, data |-> D, kind |-> k, prev |-> fun.prev, edges |-> T]
  BY DEF Visited
<1>2. at[k] = Len(es[k])
  <2>1. fun.data[k] = Rest(es[k], at[k])
    BY <1>0, <1>1
  <2>2. GoodEdges(k, es[k], Len(sy)) /\ at[k] \in Nat /\ at[k] <= Len(es[k])
    BY <1>0, <1>1 DEF Lists
  <2> HIDE DEF k, sy
  <2> QED
    BY <1>0, <2>1, <2>2, NoneLeft
<1>3. /\ Kinds = 1 .. Len(Components) /\ Len(Components) \in Nat
  BY KindsType
<1>4. fun' = [fun |-> f, sbom |-> d.sbom, locals |-> d.locals, allocas |-> d.allocas,
              names |-> d.names, data |-> D, kind |-> k + 1, prev |-> 0, edges |-> T]
  <2> DEFINE A == d.sbom
             B == d.locals
             C == d.allocas
             E == d.names
             p == fun.prev
             g == fun
             kk == k
  <2>1. g = [fun |-> f, sbom |-> A, locals |-> B, allocas |-> C, names |-> E, data |-> D,
             kind |-> kk, prev |-> p, edges |-> T]
    BY <1>1
  <2>2. fun' = [g EXCEPT !.kind = kk + 1, !.prev = 0]
    BY <1>0
  <2> HIDE DEF A, B, C, E, p, g, kk, D, T, f
  <2>3. fun' = [fun |-> f, sbom |-> A, locals |-> B, allocas |-> C, names |-> E, data |-> D,
                kind |-> kk + 1, prev |-> 0, edges |-> T]
    BY <2>1, <2>2
  <2> QED
    BY <2>3 DEF A, B, C, E, kk
<1>5. fun'.kind = k + 1 /\ fun'.prev = 0
  <2> HIDE DEF k, D, T, f
  <2> QED
    BY <1>4
<1>6. frame'.symbols = sy
  BY <1>0
<1>7. fun' # Nothing
  <2>1. "fun" \in DOMAIN fun' /\ "fun" \notin DOMAIN Nothing
    BY <1>4 DEF Nothing
  <2> QED
    BY <2>1
<1>8. fun'.kind \in 1 .. Len(Components) + 1 /\ k \in Nat
  BY <1>0, <1>3, <1>5
<1>9. ASSUME NEW j \in Kinds
      PROVE  /\ at[j] <= Len(es[j])
             /\ j < k + 1 => at[j] = Len(es[j])
             /\ j > k + 1 => at[j] = 0
  <2>1. j \in Nat
    BY <1>3
  <2>2. j < k + 1 => j < k \/ j = k
    BY <1>8, <2>1
  <2>3. j > k + 1 => j > k
    BY <1>8, <2>1
  <2> HIDE DEF k
  <2> QED
    BY <1>1, <1>2, <2>2, <2>3
<1>10. k + 1 \in Kinds => Prev(es[k + 1], at[k + 1] + 1) = 0
  <2> SUFFICES ASSUME k + 1 \in Kinds
               PROVE  Prev(es[k + 1], at[k + 1] + 1) = 0
    OBVIOUS
  <2>1. at[k + 1] = 0
    <3>1. k + 1 > k
      BY <1>8
    <3> QED
      BY <1>1, <3>1
  <2> QED
    BY <2>1 DEF Prev
<1>11. Visited(d, es, at)'
  <2>1. d \in Descs /\ at \in [Kinds -> Nat]
    BY <1>1
  <2>2. Lists(es, Len(frame'.symbols))
    BY <1>1, <1>6
  <2>3. \A j \in Kinds : /\ at[j] <= Len(es[j])
                         /\ j < fun'.kind => at[j] = Len(es[j])
                         /\ j > fun'.kind => at[j] = 0
    BY <1>5, <1>9
  <2>4. fun'.prev = IF fun'.kind \in Kinds THEN Prev(es[fun'.kind], at[fun'.kind] + 1) ELSE 0
    BY <1>5, <1>10
  <2>5. d.edges = [j \in Kinds |-> Tally(frame'.symbols, d.fun, es[j], Len(es[j]))]
    BY <1>1, <1>6
  <2>6. fun' = [fun |-> d.fun, sbom |-> d.sbom, locals |-> d.locals, allocas |-> d.allocas,
                names |-> d.names,
                data |-> [j \in Kinds |-> Rest(es[j], at[j])],
                kind |-> fun'.kind,
                prev |-> fun'.prev,
                edges |-> [j \in Kinds |-> Tally(frame'.symbols, d.fun, es[j], at[j])]]
    <3> HIDE DEF k
    <3> QED
      BY <1>4, <1>5, <1>6
  <2> QED
    BY <1>8, <2>1, <2>2, <2>3, <2>4, <2>5, <2>6, VisitedThen, Zenon
<1> QED
  BY <1>7, <1>11

\* Neither VisitEdge nor NextKind leaves the function.
LEMMA ReadVisit ==
  ASSUME ReaderInv, VisitEdge \/ NextKind
  PROVE  ReaderInv'
<1>0. /\ sealed /\ fun # Nothing
      /\ UNCHANGED <<debug, fw, sealed, written, section, frame, reported>>
  BY DEF VisitEdge, NextKind, Reading
<1>1. PICK now, fr, secs : Told(now, fr, secs)
  BY <1>0 DEF ReaderInv
<1>2. PICK d, es, at : now = <<d>> /\ Visited(d, es, at)
  BY <1>0, <1>1 DEF Told, FunHolds
<1>3. frame # Nothing /\ frame \in Graphs
  BY <1>0, <1>1 DEF Told, FunHolds, FrameHolds
<1>4. failed' = failed /\ fun' # Nothing /\ \E a : Visited(d, es, a)'
  <2>1. CASE VisitEdge
    BY <1>0, <1>2, <1>3, <2>1, VisitNext
  <2>2. CASE NextKind
    <3>1. failed' = failed
      BY <2>2 DEF NextKind
    <3>2. fun' # Nothing /\ Visited(d, es, at)'
      BY <1>0, <1>2, <2>2, VisitKind
    <3> QED
      BY <3>1, <3>2
  <2> QED
    BY <2>1, <2>2
<1>5. PICK a : Visited(d, es, a)'
  BY <1>4
<1>6. FunHolds(now)'
  BY <1>0, <1>2, <1>3, <1>4, <1>5 DEF FunHolds
<1>7. FrameHolds(fr)'
  BY <1>0, <1>1 DEF Told, FrameHolds, GraphHolds
<1>8. SectionHolds(secs)'
  BY <1>0, <1>1, SectionSame DEF Told
<1>9. Told(now, fr, secs)'
  BY <1>0, <1>1, <1>6, <1>7, <1>8 DEF Told
<1> QED
  BY <1>0, <1>4, <1>9 DEF ReaderInv



----------------------------------------------------------------------------
(* The invariant of the codec.                                             *)

Flags == words \in Seq(Words) /\ failed \in BOOLEAN

CodecInv == WriterInv /\ FiledInv /\ ReaderInv /\ Flags

LEMMA CodecInit == Init => CodecInv
<1> SUFFICES ASSUME Init
             PROVE  CodecInv
  OBVIOUS
<1> DEFINE e == <<>>
<1>1. /\ debug \in BOOLEAN /\ nfuns = 0 /\ fw = Nothing /\ sealed = FALSE
      /\ symbols = e /\ strings = e /\ names = e /\ words = e /\ section = e
      /\ frame = Nothing /\ fun = Nothing /\ failed = FALSE /\ written = e /\ reported = <<>>
  BY DEF Init
<1>2. /\ e \in Seq(Globals) /\ e \in Seq(Strings) /\ e \in Seq(0 .. Len(e) - 1) /\ e \in Seq(Words)
      /\ e \in Seq(Descs) /\ e \in Seq(Graphs) /\ e \in Seq(Seq(Descs)) /\ Len(e) = 0
  BY EmptySeq
<1>3. Once(e)
  BY <1>2 DEF Once
<1>4. Holds(e, e, debug, e, e, e)
  BY HoldsNone
<1>5. FlattenSeq(e) \o e = e
  BY FlattenEmpty, <1>2, CatDescs
<1> HIDE DEF e
<1>6. WriterInv
  BY <1>1, <1>2, <1>3 DEF WriterInv, Tables
<1>7. SectionHolds(e)
  BY <1>1, <1>2 DEF SectionHolds
<1>8. CurrentHolds(e)
  BY <1>1, <1>2, <1>4 DEF CurrentHolds
<1>9. Filed(e, e)
  BY <1>1, <1>2, <1>5, <1>7, <1>8 DEF Filed
<1>10. FiledInv
  BY <1>9 DEF FiledInv
<1>11. ReaderInv
  BY <1>1 DEF ReaderInv
<1>12. Flags
  BY <1>1, <1>2 DEF Flags
<1> QED
  BY <1>6, <1>10, <1>11, <1>12 DEF CodecInv

\* A step of the writer that is not Seal leaves the reader and its words alone.
LEMMA WritingReader ==
  ASSUME ReaderInv, failed \in BOOLEAN, Writing, sealed' = sealed, FiledInv'
  PROVE  ReaderInv' /\ Flags'
<1>1. ~sealed /\ ~sealed' /\ UNCHANGED <<frame, fun, failed, reported>>
  BY DEF Writing, reader
<1>2. ReaderInv'
  BY <1>1 DEF ReaderInv
<1>3. PICK ds, secs : Filed(ds, secs)'
  BY <1>1 DEF FiledInv
<1>4. CurrentHolds(ds)'
  BY <1>3 DEF Filed
<1>5. words' \in Seq(Words)
  <2>1. CASE fw' = Nothing
    <3>1. Holds(symbols', strings', debug', names', words', ds)
      BY <1>4, <2>1 DEF CurrentHolds, Holds
    <3> QED
      BY <3>1, HoldsType
  <2>2. CASE fw' # Nothing
    <3>1. PICK before, mine : ActiveHolds(ds, before, mine)'
      BY <1>4, <2>2 DEF CurrentHolds
    <3>2. Holds(symbols', strings', debug', before, words', ds)
      BY <3>1 DEF ActiveHolds
    <3> QED
      BY <3>2, HoldsType
  <2> QED
    BY <2>1, <2>2
<1> QED
  BY <1>1, <1>2, <1>5 DEF Flags

\* The steps of the writer and those of the reader keep the invariant.
LEMMA CodecWrite ==
  ASSUME CodecInv, Write
  PROVE  CodecInv'
<1>1. WriterInv /\ FiledInv /\ ReaderInv /\ words \in Seq(Words) /\ failed \in BOOLEAN
  BY DEF CodecInv, Flags
<1>2. CASE FreshLocal
  <2>1. WriterInv' /\ FiledInv'
    BY <1>1, <1>2, WriterLocal, FiledLocal
  <2>2. Writing /\ sealed' = sealed
    BY <1>2 DEF FreshLocal
  <2> QED
    BY <1>1, <2>1, <2>2, WritingReader DEF CodecInv
<1>3. CASE Finish
  <2>1. WriterInv' /\ FiledInv'
    BY <1>1, <1>3, WriterFinish, FiledFinish
  <2>2. Writing /\ sealed' = sealed
    BY <1>3 DEF Finish
  <2> QED
    BY <1>1, <2>1, <2>2, WritingReader DEF CodecInv
<1>4. CASE WriteTo
  <2>1. WriterInv' /\ FiledInv'
    BY <1>1, <1>4, WriterWriteTo, FiledWriteTo
  <2>2. Writing /\ sealed' = sealed
    BY <1>4 DEF WriteTo
  <2> QED
    BY <1>1, <2>1, <2>2, WritingReader DEF CodecInv
<1>5. CASE Seal
  <2>1. WriterInv' /\ FiledInv' /\ ReaderInv'
    BY <1>1, <1>5, WriterSeal
  <2>2. words' = words /\ failed' = failed
    BY <1>5 DEF Seal, Writing, gw, reader
  <2> QED
    BY <1>1, <2>1, <2>2 DEF CodecInv, Flags
<1>6. ASSUME NEW g \in Globals, Symbol(g)
      PROVE  CodecInv'
  <2>1. WriterInv' /\ FiledInv'
    BY <1>1, <1>6, WriterSymbol, FiledSymbol
  <2>2. Writing /\ sealed' = sealed
    BY <1>6 DEF Symbol
  <2> QED
    BY <1>1, <2>1, <2>2, WritingReader DEF CodecInv
<1>7. ASSUME NEW f \in Globals, BeginFunction(f)
      PROVE  CodecInv'
  <2>1. WriterInv' /\ FiledInv'
    BY <1>1, <1>7, WriterBegin, FiledBegin
  <2>2. Writing /\ sealed' = sealed
    BY <1>7 DEF BeginFunction
  <2> QED
    BY <1>1, <2>1, <2>2, WritingReader DEF CodecInv
<1>8. ASSUME NEW k \in Kinds, AddEdge(k)
      PROVE  CodecInv'
  <2>1. WriterInv' /\ FiledInv'
    BY <1>1, <1>8, WriterAdd, FiledAdd
  <2>2. Writing /\ sealed' = sealed
    BY <1>8 DEF AddEdge
  <2> QED
    BY <1>1, <2>1, <2>2, WritingReader DEF CodecInv
<1> QED
  BY <1>2, <1>3, <1>4, <1>5, <1>6, <1>7, <1>8 DEF Write

LEMMA CodecRead ==
  ASSUME CodecInv, Read
  PROVE  CodecInv'
<1>1. WriterInv /\ ReaderInv /\ words \in Seq(Words) /\ failed \in BOOLEAN
  BY DEF CodecInv, Flags
<1>2. Reading
  BY DEF Read, OpenGraph, ReadFunction, VisitEdge, NextKind, Report, CloseGraph
<1>3. ReaderInv'
  BY <1>1, ReadOpen, ReadFirst, ReadVisit, ReadReport, ReadClose DEF Read
<1>4. WriterInv' /\ FiledInv'
  BY <1>1, <1>2, ReadingWriter
<1>5. words' = words /\ failed' \in BOOLEAN
  <2>1. words' = words
    BY <1>2 DEF Reading, gw
  <2>2. failed' = failed \/ failed' = TRUE
    BY DEF Read, OpenGraph, ReadFunction, VisitEdge, NextKind, Report, CloseGraph
  <2> QED
    BY <1>1, <2>1, <2>2
<1> QED
  BY <1>1, <1>3, <1>4, <1>5 DEF CodecInv, Flags

LEMMA CodecStep == CodecInv /\ [Next]_vars => CodecInv'
<1> SUFFICES ASSUME CodecInv, [Next]_vars
             PROVE  CodecInv'
  OBVIOUS
<1>1. CASE Next
  BY <1>1, CodecWrite, CodecRead DEF Next
<1>2. CASE UNCHANGED vars
  <2>1. UNCHANGED <<debug, symbols, strings, names, words, nfuns, fw, section, sealed, frame, fun,
                    failed, reported, written>>
    BY <1>2 DEF vars, gw, reader
  <2>2. WriterInv'
    BY <2>1 DEF CodecInv, WriterInv, Tables, FwShape, FwWords, FwBags
  <2>3. FiledInv'
    <3> SUFFICES ASSUME ~sealed
                 PROVE  FiledInv'
      BY <2>1 DEF FiledInv
    <3>1. PICK ds, secs : Filed(ds, secs)
      BY DEF CodecInv, FiledInv
    <3>2. SectionHolds(secs)'
      BY <2>1, <3>1, SectionSame DEF Filed
    <3>3. CurrentHolds(ds)'
      BY <2>1, <3>1 DEF Filed, CurrentHolds, ActiveHolds, Named
    <3>4. Filed(ds, secs)'
      BY <2>1, <3>1, <3>2, <3>3 DEF Filed
    <3> QED
      BY <3>4 DEF FiledInv
  <2>4. ReaderInv'
    <3>1. CASE ~sealed
      BY <2>1, <3>1 DEF CodecInv, ReaderInv
    <3>2. CASE sealed
      <4>1. PICK now, fr, secs : Told(now, fr, secs)
        BY <3>2 DEF CodecInv, ReaderInv
      <4>2. SectionHolds(secs)'
        BY <2>1, <4>1, SectionSame DEF Told
      <4>3. FrameHolds(fr)'
        BY <2>1, <4>1 DEF Told, FrameHolds, GraphHolds
      <4>4. FunHolds(now)'
        <5>1. CASE fun = Nothing
          BY <2>1, <4>1, <5>1 DEF Told, FunHolds
        <5>2. CASE fun # Nothing
          <6>1. PICK d, es, at : now = <<d>> /\ Visited(d, es, at)
            BY <4>1, <5>2 DEF Told, FunHolds
          <6>2. Visited(d, es, at)'
            BY <2>1, <6>1, VisitedSame
          <6> QED
            BY <2>1, <4>1, <5>2, <6>1, <6>2 DEF Told, FunHolds
        <5> QED
          BY <5>1, <5>2
      <4>5. Told(now, fr, secs)'
        BY <2>1, <4>1, <4>2, <4>3, <4>4 DEF Told
      <4> QED
        BY <2>1, <3>2, <4>5 DEF CodecInv, ReaderInv
    <3> QED
      BY <3>1, <3>2
  <2> QED
    BY <2>1, <2>2, <2>3, <2>4 DEF CodecInv, Flags
<1> QED
  BY <1>1, <1>2

\* Every reachable state satisfies the invariant of the codec: what was written
\* and not yet reported is exactly what the current graph, the section, the open
\* graph and the function being visited (Writer.cpp, Reader.cpp) still encode.
THEOREM CodecInvariant == Spec => []CodecInv
  BY CodecInit, CodecStep, PTL DEF Spec

\* The reader refuses nothing that the writer wrote, for any width of words, any
\* kinds of edges, and whatever order the writer's sort leaves the edges in
\* (the BRACELET_ENSUREs of Reader.cpp).
THEOREM NothingRefused == Spec => []ReadsAll
<1>1. CodecInv => ReadsAll
  BY DEF CodecInv, ReaderInv, ReadsAll
<1> QED
  BY <1>1, CodecInvariant, PTL


LEMMA CodecTypes == CodecInv => TypeOK
<1> SUFFICES ASSUME CodecInv
             PROVE  TypeOK
  OBVIOUS
<1>0. WriterInv /\ FiledInv /\ ReaderInv /\ Flags /\ Tables
  BY DEF CodecInv, WriterInv
<1>1. ASSUME fw # Nothing
      PROVE  /\ fw.symbol \in 0 .. Len(symbols) - 1
             /\ {fw.comp, fw.version} \subseteq 0 .. Len(strings) - 1
             /\ fw.locals \in 0 .. MaxLocals
             /\ \A k \in Kinds : BagToSet(fw.edges[k]) \subseteq Seq(Words)
  <2>1. FwWords /\ FwBags
    BY <1>0, <1>1 DEF WriterInv
  <2>2. /\ fw.symbol \in 0 .. Len(symbols) - 1
        /\ fw.comp \in 0 .. Len(strings) - 1 /\ fw.version \in 0 .. Len(strings) - 1
        /\ fw.locals \in 0 .. MaxLocals
    BY <2>1 DEF FwWords
  <2>3. ASSUME NEW k \in Kinds
        PROVE  BagToSet(fw.edges[k]) \subseteq Seq(Words)
    <3>1. \A c \in DOMAIN fw.edges[k] : GoodEdge(k, c, Len(symbols))
      BY <2>1 DEF FwBags, BagSays
    <3> QED
      BY <3>1 DEF GoodEdge, BagToSet
  <2> QED
    BY <2>2, <2>3
<1>2. \E secs : SectionHolds(secs)
  <2>1. CASE sealed
    BY <1>0, <2>1 DEF ReaderInv, Told
  <2>2. CASE ~sealed
    BY <1>0, <2>2 DEF FiledInv, Filed
  <2> QED
    BY <2>1, <2>2
<1>3. ASSUME NEW n \in DOMAIN section
      PROVE  section[n].words \in Seq(Words)
  <2>1. section \in Seq(Graphs)
    BY <1>2 DEF SectionHolds
  <2>2. section[n] \in Graphs
    BY <2>1, LenProperties, ElementOfSeq
  <2> QED
    BY <2>2 DEF Graphs
<1>4. ASSUME fun # Nothing
      PROVE  fun.prev \in Words
  <2>1. sealed
    BY <1>0, <1>4 DEF ReaderInv
  <2>2. PICK now, fr, secs : Told(now, fr, secs)
    BY <1>0, <2>1 DEF ReaderInv
  <2>3. PICK d, es, at : Visited(d, es, at)
    BY <1>4, <2>2 DEF Told, FunHolds
  <2> DEFINE k == fun.kind
             s == es[k]
             m == at[k]
  <2>4. CASE k \notin Kinds
    <3>1. fun.prev = 0
      BY <2>3, <2>4 DEF Visited
    <3> QED
      BY <3>1, HalfAssumption DEF Words
  <2>5. CASE k \in Kinds
    <3>1. fun.prev = Prev(s, m + 1)
      BY <2>3, <2>5 DEF Visited
    <3>2. GoodEdges(k, s, Len(frame.symbols)) /\ m \in Nat /\ m <= Len(s)
      BY <2>3, <2>5 DEF Visited, Lists
    <3> HIDE DEF s, m, k
    <3>3. CASE m = 0
      <4>1. Prev(s, m + 1) = 0
        BY <3>3 DEF Prev
      <4> QED
        BY <3>1, <4>1, HalfAssumption DEF Words
    <3>4. CASE m # 0
      <4>1. m + 1 # 1 /\ (m + 1) - 1 = m /\ m \in 1 .. Len(s)
        <5>1. Len(s) \in Nat
          BY <3>2 DEF GoodEdges, Words
        <5> QED
          BY <3>2, <3>4, <5>1
      <4>2. Prev(s, m + 1) = s[m][2]
        BY <4>1 DEF Prev
      <4>3. GoodEdge(k, s[m], Len(frame.symbols))
        BY <3>2, <4>1 DEF GoodEdges
      <4> QED
        BY <3>1, <4>2, <4>3 DEF GoodEdge, Good
    <3> QED
      BY <3>3, <3>4
  <2> QED
    BY <2>4, <2>5
<1>5. /\ debug \in BOOLEAN /\ symbols \in Seq(Globals) /\ strings \in Seq(Strings)
      /\ names \in Seq(0 .. Len(strings) - 1) /\ words \in Seq(Words) /\ nfuns \in Nat
      /\ sealed \in BOOLEAN /\ failed \in BOOLEAN
  BY <1>0 DEF Tables, Flags
<1> QED
  BY <1>1, <1>3, <1>4, <1>5 DEF TypeOK

\* Numbers of symbols and strings stay in their tables, and whatever the writer
\* stores or the reader computes from it is a word (Writer.cpp as_u32).
THEOREM TypeCorrect == Spec => []TypeOK
  BY CodecInvariant, CodecTypes, PTL


----------------------------------------------------------------------------
(* The codec implements what it promises.                                  *)

\* Without a description, nothing changes that the promise is about.
LEMMA CodecPromise == CodecInv /\ [Next]_vars => [Promise!Next]_Promise!vars
<1> SUFFICES ASSUME CodecInv, [Next]_vars
             PROVE  [Promise!Next]_Promise!vars
  OBVIOUS
<1>0. WriterInv /\ FiledInv /\ ReaderInv
  BY DEF CodecInv
<1>1. CASE Finish
  <2>1. ~sealed /\ UNCHANGED <<sealed, reported>>
    BY <1>1 DEF Finish, Writing, reader
  <2>2. PICK d : written' = Append(written, d)
    BY <1>1 DEF Finish
  <2>3. written \in Seq(Descs)
    <3>1. PICK ds, secs : Filed(ds, secs)
      BY <1>0, <2>1 DEF FiledInv
    <3>2. FlattenSeq(secs) \in Seq(Descs)
      BY <3>1, FlattenType DEF Filed, SectionHolds
    <3> QED
      BY <3>1, <3>2, CatDescs DEF Filed
  <2>4. written' # <<>> /\ Last(written') = d
    <3> DEFINE S == Descs \cup {d}
               t == Append(written, d)
    <3>1. written \in Seq(S)
      BY <2>3, SeqMonotonic
    <3>2. d \in S
      OBVIOUS
    <3> HIDE DEF S
    <3>3. t \in Seq(S) /\ Len(t) = Len(written) + 1 /\ t[Len(written) + 1] = d /\ Len(written) \in Nat
      BY <3>1, <3>2, AppendProperties, LenProperties
    <3>4. written' = t
      BY <2>2
    <3>5. t # <<>>
      <4>1. Len(t) # Len(<<>>)
        <5>1. Len(<<>>) = 0
          OBVIOUS
        <5> HIDE DEF t
        <5> QED
          BY <3>3, <5>1
      <4> HIDE DEF t
      <4> QED
        BY <4>1
    <3>6. Last(t) = d
      <4> HIDE DEF t
      <4> QED
        BY <3>3 DEF Last
    <3> HIDE DEF t
    <3> QED
      BY <3>4, <3>5, <3>6
  <2>5. Promise!Describe
    BY <2>1, <2>2, <2>4 DEF Promise!Describe, Promise!Last, Last
  <2> QED
    BY <2>5 DEF Promise!Next
<1>2. CASE Seal
  BY <1>2 DEF Seal, Writing, reader, Promise!Next, Promise!Seal
<1>3. CASE Report
  <2>1. /\ Len(reported) < Len(written)
        /\ reported' = Append(reported, written[Len(reported) + 1])
    BY <1>0, <1>3, ReadReport
  <2>2. sealed /\ UNCHANGED <<written, sealed>>
    BY <1>3 DEF Report, Reading
  <2> QED
    BY <2>1, <2>2 DEF Promise!Next, Promise!Report
<1>4. CASE FreshLocal \/ WriteTo
  BY <1>4 DEF FreshLocal, WriteTo, Writing, reader, Promise!vars
<1>5. CASE \E g \in Globals : Symbol(g) \/ BeginFunction(g)
  BY <1>5 DEF Symbol, BeginFunction, Writing, reader, Promise!vars
<1>6. CASE \E k \in Kinds : AddEdge(k)
  BY <1>6 DEF AddEdge, Writing, reader, Promise!vars
<1>7. CASE OpenGraph \/ ReadFunction \/ VisitEdge \/ NextKind \/ CloseGraph
  BY <1>7 DEF OpenGraph, ReadFunction, VisitEdge, NextKind, CloseGraph, Reading, Promise!vars
<1>8. CASE UNCHANGED vars
  BY <1>8 DEF vars, reader, Promise!vars
<1> QED
  BY <1>1, <1>2, <1>3, <1>4, <1>5, <1>6, <1>7, <1>8 DEF Next, Write, Read

LEMMA InitPromise == Init => Promise!Init
  BY DEF Init, Promise!Init

\* The codec implements EdgeGraph: a reader is told of each function, in the
\* order of the file, exactly what the compiler described - name, bill of
\* materials, names of locals, and the same bag of edges of each kind - for
\* every program, order of edges and number of graphs.
THEOREM GraphImplemented == Spec => ImplementsGraph
<1>1. Spec => Promise!Spec
  BY InitPromise, CodecPromise, CodecInvariant, PTL DEF Spec, Promise!Spec
<1> QED
  BY <1>1 DEF ImplementsGraph
=============================================================================
