------------------------------ MODULE TraceSet ------------------------------
(***************************************************************************)
(* What a thread's trace buffer promises the instrumented code: a set of   *)
(* trace edges to which a call adds an edge, answering whether the edge is *)
(* new, until the thread's buffer is closed.  EdgeHashSet implements it.   *)
(***************************************************************************)
CONSTANTS
  Edges,
  Free       \* not an edge

VARIABLES
  recorded,  \* edges that were added
  open,      \* FALSE before and after the lifetime of the buffer
  arg,       \* the edge a call is about to add, Free when there is no call
  answers    \* answers[e] is what the last call for e said, or "none"

vars == <<recorded, open, arg, answers>>

Init ==
  /\ recorded = {} /\ open = TRUE /\ arg = Free
  /\ answers = [e \in Edges |-> "none"]

Add(e) == open /\ arg = Free /\ arg' = e /\ UNCHANGED <<recorded, open, answers>>

\* The call takes effect and returns.
Added(e) ==
  /\ arg = e
  /\ arg' = Free
  /\ recorded' = recorded \cup {e}
  /\ answers' = [answers EXCEPT ![e] = IF e \in recorded THEN "old" ELSE "new"]
  /\ UNCHANGED open

\* Other thread-local destructors may still trace when the buffer is gone.
AddClosed(e) ==
  /\ ~open
  /\ answers' = [answers EXCEPT ![e] = "old"]
  /\ UNCHANGED <<recorded, open, arg>>

Close ==
  /\ open /\ arg = Free
  /\ open' = FALSE
  /\ UNCHANGED <<recorded, arg, answers>>

Next == Close \/ \E e \in Edges : Add(e) \/ Added(e) \/ AddClosed(e)

Spec == Init /\ [][Next]_vars
=============================================================================
