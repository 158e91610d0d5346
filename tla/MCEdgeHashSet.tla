--------------------------- MODULE MCEdgeHashSet ---------------------------
(***************************************************************************)
(* A small instance of EdgeHashSet: a table of two slots that grows to     *)
(* four and to eight, and four edges with every assignment of three hash   *)
(* values, of which two collide in tables of up to four slots.  With four  *)
(* attempts, some sequences do not reach all slots and some are exhausted. *)
(***************************************************************************)
EXTENDS EdgeHashSet

\* A permutation of 0 .. 7 that is not a shift.
MCMix == [h \in 0 .. HashMod - 1 |-> (5 * h + 3) % HashMod]
=============================================================================
