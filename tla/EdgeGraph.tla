----------------------------- MODULE EdgeGraph -----------------------------
(***************************************************************************)
(* What the edge codec promises the analyses: a reader of the object files *)
(* is told of the functions the compiler described, one after the other,   *)
(* each with what was said of it.  EdgesCodec implements it.               *)
(***************************************************************************)
EXTENDS Naturals, Sequences, SequencesExt

VARIABLES
  written,   \* descriptions of functions, in the order of the file
  reported,  \* what the reader was told so far
  sealed     \* the object file is written

vars == <<written, reported, sealed>>

Init == written = <<>> /\ reported = <<>> /\ sealed = FALSE

\* One description is added, whatever it says.
Describe ==
  /\ ~sealed
  /\ written' # <<>>
  /\ written' = Append(written, Last(written'))
  /\ UNCHANGED <<reported, sealed>>

Seal == ~sealed /\ sealed' = TRUE /\ UNCHANGED <<written, reported>>

Report ==
  /\ sealed
  /\ Len(reported) < Len(written)
  /\ reported' = Append(reported, written[Len(reported) + 1])
  /\ UNCHANGED <<written, sealed>>

Next == Describe \/ Seal \/ Report

Spec == Init /\ [][Next]_vars
=============================================================================
