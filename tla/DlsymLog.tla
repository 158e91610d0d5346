------------------------------ MODULE DlsymLog ------------------------------
(***************************************************************************)
(* What the dlsym runtime promises the analyses that later read a process  *)
(* image: a grow-only set of the addresses that the dlsym() calls of one   *)
(* call site returned, of which a snapshot of the process sees all that    *)
(* was recorded before it and nothing else.  DlsymPages implements it.     *)
(***************************************************************************)
CONSTANTS
  Threads,  \* threads of the instrumented program
  Symbols,  \* addresses that dlsym() may return
  NULL      \* the result of a dlsym() that found nothing

VARIABLES
  pending,  \* pending[t] is the address t is recording, or a no-call marker
  log,      \* addresses recorded so far
  view      \* what the analysis recovered, or a not-yet marker

vars == <<pending, log, view>>

NoCall == [call |-> FALSE]
Recording(s) == [call |-> TRUE, sym |-> s]
NoView == [taken |-> FALSE]
Recovered(S) == [taken |-> TRUE, syms |-> S]

Init ==
  /\ pending = [t \in Threads |-> NoCall]
  /\ log = {}
  /\ view = NoView

\* The program's dlsym() returned s, and the instrumentation records it.
Begin(t) ==
  /\ pending[t] = NoCall
  /\ \E s \in Symbols \cup {NULL} :
       pending' = [pending EXCEPT ![t] = Recording(s)]
  /\ UNCHANGED <<log, view>>

\* The record takes effect in one indivisible step.  A NULL points nowhere and
\* leaves nothing to recover.
Record(t) ==
  /\ pending[t] # NoCall
  /\ view = NoView
  /\ log' = log \cup ({pending[t].sym} \ {NULL})
  /\ pending' = [pending EXCEPT ![t] = NoCall]
  /\ UNCHANGED view

\* The analysis of the frozen process ends with the whole log in hand.
Recover ==
  /\ view = NoView
  /\ view' = Recovered(log)
  /\ UNCHANGED <<pending, log>>

Next == Recover \/ \E t \in Threads : Begin(t) \/ Record(t)

Spec == Init /\ [][Next]_vars
=============================================================================
