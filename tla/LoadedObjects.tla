--------------------------- MODULE LoadedObjects ---------------------------
(***************************************************************************)
(* What the tracing runtime promises about the question "does this address *)
(* belong to a loaded ELF object?": answers come from a set of objects     *)
(* that only grows, that never runs ahead of the loader, and that holds a  *)
(* library before the dlopen() of it returns.  ElfSegments implements it.  *)
(***************************************************************************)
CONSTANTS
  Threads,
  Objects,   \* ELF objects that may be loaded
  Main,      \* the objects a process starts with
  Outside    \* an address in no object

VARIABLES
  loaded,    \* objects the loader has mapped
  known,     \* objects that answers are based on
  call,      \* call[t] is the call t is in
  answer     \* the last answer t was given

vars == <<loaded, known, call, answer>>

Idle == [op |-> "none"]
Opening(S) == [op |-> "dlopen", opened |-> S]
Asking(a) == [op |-> "ask", addr |-> a]

Init ==
  /\ loaded = Main
  /\ known = {}
  /\ call = [t \in Threads |-> Idle]
  /\ answer = [t \in Threads |-> FALSE]

\* The loader maps an object, or fails to: S is what t now waits to be known.
Open(t) ==
  /\ call[t] = Idle
  /\ \E S \in {{}} \cup {{o} : o \in Objects} :
       /\ loaded' = loaded \cup S
       /\ call' = [call EXCEPT ![t] = Opening(S)]
  /\ UNCHANGED <<known, answer>>

Opened(t) ==
  /\ \E S \in SUBSET known : call[t] = Opening(S)
  /\ call' = [call EXCEPT ![t] = Idle]
  /\ UNCHANGED <<loaded, known, answer>>

Learn ==
  /\ known' \in SUBSET loaded
  /\ known \cup Main \subseteq known'
  /\ UNCHANGED <<loaded, call, answer>>

Ask(t) ==
  /\ call[t] = Idle
  /\ \E a \in Objects \cup {Outside} : call' = [call EXCEPT ![t] = Asking(a)]
  /\ UNCHANGED <<loaded, known, answer>>

Answer(t) ==
  /\ Main \subseteq known
  /\ \E a \in Objects \cup {Outside} :
       /\ call[t] = Asking(a)
       /\ answer' = [answer EXCEPT ![t] = a \in known]
  /\ call' = [call EXCEPT ![t] = Idle]
  /\ UNCHANGED <<loaded, known>>

Next == Learn \/ \E t \in Threads : Open(t) \/ Opened(t) \/ Ask(t) \/ Answer(t)

Spec == Init /\ [][Next]_vars
=============================================================================
