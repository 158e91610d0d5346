----------------------------- MODULE MCVhMalloc -----------------------------
(***************************************************************************)
(* Small instances of VhMalloc: two threads, one trace site, and slabs of  *)
(* two elements, so that slabs fill up, come back to the free list and     *)
(* are marked in one region by both threads at once.                       *)
(***************************************************************************)
EXTENDS VhMalloc, TLC

\* Threads differ in nothing but their names.
ThreadSymmetry == Permutations(Threads)
=============================================================================
