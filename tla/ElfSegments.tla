---------------------------- MODULE ElfSegments ----------------------------
(***************************************************************************)
(* The cache of loaded ELF segments (Tracing/Runtime/elf_segments.cpp) and *)
(* the dlopen() that refreshes it (exports.cpp).  The cache is an atomic   *)
(* pointer to an immutable set.  rescan() lists the loaded objects, and    *)
(* replaces the pointer by compare-and-swap unless nothing changed; the    *)
(* set it replaces is leaked, because readers may still be in it.          *)
(*                                                                         *)
(* A pointer is the position of its set in `published`, 0 for nullptr: a   *)
(* set that was published is never freed, so its address is never reused.  *)
(* An object stands for its segments, and the hash of a set for the set.   *)
(* dlclose() does nothing, so the loader never unmaps an object.  What a   *)
(* library's constructors do inside dlopen() is among the things another   *)
(* thread may do at that point.                                            *)
(***************************************************************************)
EXTENDS Naturals, Sequences

CONSTANTS
  Threads,
  Objects,   \* ELF objects that may be loaded
  Main,      \* the objects a process starts with: the program, its libraries
  Outside    \* an address in no object (UINTPTR_MAX never gets to the cache)

ASSUME MainAssumption == Main \subseteq Objects /\ Main # {}
ASSUME OutsideAssumption == Outside \notin Objects

VARIABLES
  loaded,    \* the objects dl_iterate_phdr() lists
  published, \* the sets that ELF_SEGMENTS pointed to, the last one current
  pc,        \* where each thread is
  opened,    \* what its dlopen() loaded: one object, or none
  asked,     \* the address it asks about, when it asks
  old,       \* rescan's local `old`
  scan,      \* rescan's local `new_intervals`
  answer     \* what its last pointerIsInElfSegment() returned

locals == <<opened, asked, old, scan>>
vars == <<loaded, published, pc, locals, answer>>

NoAddress == [asks |-> FALSE]
Address(a) == [asks |-> TRUE, addr |-> a]
Current == Len(published)                  \* ELF_SEGMENTS.load()
Known == IF Current = 0 THEN {} ELSE published[Current]

Init ==
  /\ loaded = Main
  /\ published = <<>>
  /\ pc = [t \in Threads |-> "idle"]
  /\ opened = [t \in Threads |-> {}]
  /\ asked = [t \in Threads |-> NoAddress]
  /\ old = [t \in Threads |-> 0]
  /\ scan = [t \in Threads |-> {}]
  /\ answer = [t \in Threads |-> FALSE]

Goto(t, from, to) == pc[t] = from /\ pc' = [pc EXCEPT ![t] = to]

(***************************************************************************)
(* dlopen() and pointerIsInElfSegment().                                   *)
(***************************************************************************)
\* The underlying dlopen() maps an object, or fails; rescan() runs either way.
Dlopen(t) ==
  /\ Goto(t, "idle", "load")
  /\ \E S \in {{}} \cup {{o} : o \in Objects} :
       /\ loaded' = loaded \cup S
       /\ opened' = [opened EXCEPT ![t] = S]
  /\ UNCHANGED <<published, asked, old, scan, answer>>

DlopenReturns(t) ==
  /\ asked[t] = NoAddress
  /\ Goto(t, "done", "idle")
  /\ opened' = [opened EXCEPT ![t] = {}]
  /\ UNCHANGED <<loaded, published, asked, old, scan, answer>>

Ask(t) ==
  /\ Goto(t, "idle", "ask")
  /\ \E a \in Objects \cup {Outside} :
       asked' = [asked EXCEPT ![t] = Address(a)]
  /\ UNCHANGED <<loaded, published, opened, old, scan, answer>>

\* The first question of all finds no set yet and makes one.
AskFirst(t) ==
  /\ Current = 0
  /\ Goto(t, "ask", "load")
  /\ UNCHANGED <<loaded, published, locals, answer>>

\* A set is immutable: what is found in it is settled when it is loaded.
Answers(t) ==
  /\ asked[t] # NoAddress
  /\ answer' = [answer EXCEPT ![t] = asked[t].addr \in Known]
  /\ asked' = [asked EXCEPT ![t] = NoAddress]
  /\ UNCHANGED <<loaded, published, opened, old, scan>>

AskCached(t) == Current # 0 /\ Goto(t, "ask", "idle") /\ Answers(t)
AskRescanned(t) == Goto(t, "done", "idle") /\ Answers(t)

(***************************************************************************)
(* rescan().                                                               *)
(***************************************************************************)
LoadOld(t) ==
  /\ Goto(t, "load", "scan")
  /\ old' = [old EXCEPT ![t] = Current]
  /\ UNCHANGED <<loaded, published, opened, asked, scan, answer>>

\* dl_iterate_phdr() holds the loader's lock for the whole iteration.
Scan(t) ==
  /\ Goto(t, "scan", "publish")
  /\ scan' = [scan EXCEPT ![t] = loaded]
  /\ UNCHANGED <<loaded, published, opened, asked, old, answer>>

\* Mutant: sets are not compared.
NeverUnchanged(t) == FALSE

Unchanged(t) == old[t] # 0 /\ scan[t] = published[old[t]]

\* rescan() returns; its locals are gone.
Return(t) ==
  /\ Goto(t, "publish", "done")
  /\ old' = [old EXCEPT ![t] = 0]
  /\ scan' = [scan EXCEPT ![t] = {}]
  /\ UNCHANGED <<loaded, opened, asked, answer>>

KeepSet(t) == Unchanged(t) /\ Return(t) /\ UNCHANGED published

\* Mutant: the new set is never stored.
PublishNothing(t) ==
  ~Unchanged(t) /\ Current = old[t] /\ Return(t) /\ UNCHANGED published

Publish(t) ==
  /\ ~Unchanged(t)
  /\ Current = old[t]
  /\ Return(t)
  /\ published' = Append(published, scan[t])

\* Mutant: a lost race ends the rescan, as if the winner had seen as much.
PublishFailsGivesUp(t) ==
  ~Unchanged(t) /\ Current # old[t] /\ Return(t) /\ UNCHANGED published

\* Mutant: old keeps what it expected.
PublishFailsStale(t) ==
  /\ ~Unchanged(t) /\ Current # old[t]
  /\ Goto(t, "publish", "scan")
  /\ UNCHANGED <<loaded, published, locals, answer>>

\* Another set came first; old now points to it, and the loop starts over.
PublishFails(t) ==
  /\ ~Unchanged(t)
  /\ Current # old[t]
  /\ Goto(t, "publish", "scan")
  /\ old' = [old EXCEPT ![t] = Current]
  /\ UNCHANGED <<loaded, published, opened, asked, scan, answer>>

Rescan(t) ==
  \/ LoadOld(t) \/ Scan(t) \/ KeepSet(t) \/ Publish(t) \/ PublishFails(t)

Continue(t) ==
  \/ Rescan(t) \/ DlopenReturns(t)
  \/ AskFirst(t) \/ AskCached(t) \/ AskRescanned(t)

Next == \E t \in Threads : Dlopen(t) \/ Ask(t) \/ Continue(t)

\* A thread inside one of the functions keeps running.
Spec == Init /\ [][Next]_vars /\ \A t \in Threads : WF_vars(Continue(t))

-----------------------------------------------------------------------------
Addresses == Objects \cup {Outside}

\* Types; a set was published when an asking thread comes back from rescan().
TypeOK ==
  /\ loaded \in SUBSET Objects
  /\ published \in Seq(SUBSET Objects)
  /\ pc \in [Threads -> {"idle", "ask", "load", "scan", "publish", "done"}]
  /\ opened \in [Threads -> SUBSET Objects]
  /\ asked \in [Threads -> {Address(a) : a \in Addresses} \cup {NoAddress}]
  /\ old \in [Threads -> 0 .. Current]
  /\ scan \in [Threads -> SUBSET Objects]
  /\ answer \in [Threads -> BOOLEAN]
  /\ \A t \in Threads : pc[t] = "done" => Current # 0

\* Each published set strictly contains the one before it, and the loader knows
\* all of its objects: concurrent rescans never bring an older scan back, and
\* as every replaced set is leaked, no more sets are leaked than objects loaded.
StrictGrowth ==
  /\ \A i, j \in 1 .. Current :
       i < j => published[i] \subseteq published[j] /\ published[i] # published[j]
  /\ \A i \in 1 .. Current : Main \subseteq published[i] /\ published[i] \subseteq loaded

\* What a thread knows inside rescan().
RescanOK ==
  \A t \in Threads :
    /\ opened[t] \subseteq loaded
    /\ pc[t] = "publish" =>
         /\ Main \cup opened[t] \subseteq scan[t] /\ scan[t] \subseteq loaded
         /\ old[t] # 0 => published[old[t]] \subseteq scan[t]
    /\ pc[t] = "done" => opened[t] \subseteq Known
    /\ pc[t] \in {"idle", "ask"} => opened[t] = {}
    /\ pc[t] = "idle" => asked[t] = NoAddress
    /\ pc[t] = "ask" => asked[t] # NoAddress
    /\ asked[t] # NoAddress => opened[t] = {}

\* The inductive invariant.
Inv == TypeOK /\ Main \subseteq loaded /\ StrictGrowth /\ RescanOK

\* rescan() is repeated only when another thread published a larger set, so
\* dlopen() and pointerIsInElfSegment() return whatever the others do.
CallsReturn == \A t \in Threads : pc[t] # "idle" ~> pc[t] = "idle"

PromisedCall ==
  [t \in Threads |->
     IF pc[t] = "idle" THEN [op |-> "none"]
     ELSE IF asked[t] # NoAddress THEN [op |-> "ask", addr |-> asked[t].addr]
     ELSE [op |-> "dlopen", opened |-> opened[t]]]

Promise == INSTANCE LoadedObjects WITH known <- Known, call <- PromisedCall

\* Answers come from a set that only grows, that is never ahead of the loader,
\* and that holds a library once its dlopen() returned, although a rescan that
\* started earlier may finish later (elf_segments_test asks only one thread).
ImplementsObjects == Promise!Spec
=============================================================================
