---------------------------- MODULE MCEdgesCodec ----------------------------
(***************************************************************************)
(* A small instance of EdgesCodec, in words of two bits: the node numbers  *)
(* of two symbols and a local use all of them, so that their differences   *)
(* wrap as those of 2^31 nodes do; and the arithmetic of WordCoding        *)
(* against the operators of the code, on all words.                        *)
(***************************************************************************)
EXTENDS EdgesCodec, Bitwise

CONSTANTS x, y

\* The globals differ only in their names.
Symmetry == Permutations(Globals)

\* None, one whose component is also the name of a local, one without a version.
MCBoms == {<<>>, <<x, y>>, <<x, Blank>>}

MCComponents == <<2, 3>>

\* x >> 31 of an int32_t: all ones or zero.
SignBits(w) == IF Signed(w) < 0 THEN 2 * Half - 1 ELSE 0

ASSUME ZigzagIsTheCode ==
  \A w \in Words :
    /\ zigzag_encode(w) = ((2 * w) % (2 * Half)) ^^ SignBits(w)
    /\ zigzag_decode(w) = (w \div 2) ^^ ((2 * Half - (w & 1)) % (2 * Half))

\* (symbol << 16) | local_idx, m_raw >> 16 and m_raw & 0xffff
ASSUME PackingIsTheCode ==
  \A s \in 0 .. 2 * Half, n \in 0 .. MaxLocals - 1 :
    /\ PackLocal(s, n) = (s + 1) * LocalSize | (n + 1)
    /\ LocalOf(PackLocal(s, n)) = (PackLocal(s, n) & (LocalSize - 1)) - 1
=============================================================================
