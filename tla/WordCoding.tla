----------------------------- MODULE WordCoding -----------------------------
(***************************************************************************)
(* The 32-bit arithmetic of the edge codec (Edges/Encoding.h and the loops *)
(* in Edges/Writer.cpp and Edges/Reader.cpp), for words of any even number *)
(* of values: differences of node numbers, which wrap, and zigzag, which   *)
(* maps small negative differences to small words.  And the 64 bits of a   *)
(* Node (Edges/Edges.h): a symbol above, a local below, 0 being neither.   *)
(***************************************************************************)
EXTENDS Integers

CONSTANTS
  Half,      \* 2^31: the words are 0 .. 2 * Half - 1
  LocalSize  \* 2^16: values of the field for a local in a node

ASSUME HalfAssumption == Half \in Nat \ {0}
ASSUME LocalSizeAssumption == LocalSize \in 1 .. Half

Words == 0 .. 2 * Half - 1

\* n as a word, for an n that is at most one wrap away.
Wrap(n) == IF n < 0 THEN n + 2 * Half
           ELSE IF n >= 2 * Half THEN n - 2 * Half ELSE n

\* A word read as an int32_t.
Signed(w) == IF w < Half THEN w ELSE w - 2 * Half

\* (2 * x) ^ (x >> 31): the sign moves to the lowest bit.
zigzag_encode(w) == IF Signed(w) >= 0 THEN 2 * Signed(w) ELSE -(2 * Signed(w)) - 1

\* (x >> 1) ^ -(x & 1)
zigzag_decode(z) == IF z % 2 = 0 THEN z \div 2 ELSE Wrap(-(z \div 2) - 1)

\* Mutant: the difference does not wrap.
ToDeltaUnwrapped(prev, number) == zigzag_encode(number - prev)

\* What the writer stores for a number that follows prev, and what the reader
\* makes of it.
ToDelta(prev, number) == zigzag_encode(Wrap(number - prev))
FromDelta(prev, delta) == Wrap(prev + zigzag_decode(delta))

\* Node::symbol and Node::local; that n + 1 is below LocalSize is asserted.
PackSymbol(s) == (s + 1) * LocalSize
PackLocal(s, n) == ((s + 1) * LocalSize) + (n + 1)

\* The parts of a node; -1 if it has no local.
SymbolOf(raw) == (raw \div LocalSize) - 1
LocalOf(raw) == (raw % LocalSize) - 1
=============================================================================
