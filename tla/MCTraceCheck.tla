---------------------------- MODULE MCTraceCheck ----------------------------
(***************************************************************************)
(* Two threads, two sites (s1 is in the core dump), one block, and one     *)
(* address of a library that is loaded later, for TraceCheck.              *)
(***************************************************************************)
EXTENDS TraceCheck, TLC

CONSTANTS s1, s2, lib

Symmetry == Permutations(Threads)

Pairs == {s1} \X {s1, lib}
MCStatic == {Pairs \ {<<s1, s1>>}}
=============================================================================
