----------------------------- MODULE DlsymPages -----------------------------
(***************************************************************************)
(* braceletReachabilityDlsymPageInsert (dlsym_runtime.c): the threads of   *)
(* an instrumented program record what dlsym() returned at one call site   *)
(* in a list of pages that starts at *Dst.  The list is lock free: a slot  *)
(* is claimed with a fetch-and-add and a new page is put in front with a   *)
(* compare-and-swap.  At any moment the process may be frozen and its      *)
(* image handed to an analysis that walks the list (bracelet-edges.cpp     *)
(* and the points-to template c.txt).                                      *)
(*                                                                         *)
(* Every shared access is one action; what happens in between is private   *)
(* to the thread.  Pages are addresses: one that was unmapped may be       *)
(* returned again by a later mmap(), of any thread.                        *)
(***************************************************************************)
EXTENDS Naturals, Sequences

CONSTANTS
  Threads,   \* threads that reach the call site
  Symbols,   \* addresses that dlsym() may return
  NULL,
  Pages,     \* addresses that mmap() may return
  PageCap,   \* slots of a page (2046 in the code)
  MaxCalls   \* bound: calls each thread makes

ASSUME PageCapAssumption  == PageCap \in Nat \ {0}
ASSUME MaxCallsAssumption == MaxCalls \in Nat
ASSUME NullAssumption     == NULL \notin Symbols \cup Pages

VARIABLES
  head,      \* *Dst
  next,      \* next[p], count[p], pointers[p]: the fields of the page at p
  count,
  pointers,
  mapped,    \* addresses that are mapped for pages
  pc,        \* where each thread is in the function
  sym,       \* its argument Symbol
  cur,       \* its local Page
  fresh,     \* its local Allocated
  idx,       \* its local Idx
  calls,     \* calls it made
  phase,     \* "running", then "frozen" (a snapshot) or "aborted" (no memory)
  rcur,      \* the reader's page variable
  emitted,   \* addresses the reader emitted an edge to
  published, \* history: the pages in the order in which they became the head
  filled     \* history: the slots <<page, index>> that were stored to

shared == <<head, next, count, pointers, mapped, published, filled>>
reader == <<rcur, emitted>>
vars == <<shared, pc, sym, cur, fresh, idx, calls, phase, reader>>

Slots == 0 .. PageCap - 1
PageOrNull == Pages \cup {NULL}
Steps == {"idle", "load", "claim", "store", "map", "cas", "unmap"}

Init ==
  /\ head = NULL
  /\ next = [p \in Pages |-> NULL]
  /\ count = [p \in Pages |-> 0]
  /\ pointers = [p \in Pages |-> [i \in Slots |-> NULL]]
  /\ mapped = {}
  /\ pc = [t \in Threads |-> "idle"]
  /\ sym = [t \in Threads |-> NULL]
  /\ cur = [t \in Threads |-> NULL]
  /\ fresh = [t \in Threads |-> NULL]
  /\ idx = [t \in Threads |-> 0]
  /\ calls = [t \in Threads |-> 0]
  /\ phase = "running"
  /\ rcur = NULL
  /\ emitted = {}
  /\ published = <<>>
  /\ filled = {}

(***************************************************************************)
(* The insertion.                                                          *)
(***************************************************************************)
\* t takes the step `to`, out of `from`, in a process that runs.
Goto(t, from, to) ==
  /\ phase = "running"
  /\ pc[t] = from
  /\ pc' = [pc EXCEPT ![t] = to]

\* The loop's first test: a thread with no page goes on to map one.
Enter(p) == IF p = NULL THEN "map" ELSE "claim"

Call(t) ==
  /\ calls[t] < MaxCalls
  /\ Goto(t, "idle", "load")
  /\ calls' = [calls EXCEPT ![t] = @ + 1]
  /\ \E s \in Symbols \cup {NULL} : sym' = [sym EXCEPT ![t] = s]
  /\ UNCHANGED <<shared, cur, fresh, idx, phase, reader>>

Load(t) ==
  /\ Goto(t, "load", Enter(head))
  /\ cur' = [cur EXCEPT ![t] = head]
  /\ UNCHANGED <<shared, sym, fresh, idx, calls, phase, reader>>

\* Mutant: one slot too many (<= for <).
ClaimOnePastEnd(t) ==
  LET p == cur[t] IN
  /\ Goto(t, "claim", IF count[p] <= PageCap THEN "store" ELSE "map")
  /\ idx' = [idx EXCEPT ![t] = count[p]]
  /\ count' = [count EXCEPT ![p] = @ + 1]
  /\ UNCHANGED <<head, next, pointers, mapped, published, filled,
                 sym, cur, fresh, calls, phase, reader>>

\* fetch_add: the count moves on even when the page is full already.
Claim(t) ==
  LET p == cur[t] IN
  /\ Goto(t, "claim", IF count[p] < PageCap THEN "store" ELSE "map")
  /\ idx' = [idx EXCEPT ![t] = count[p]]
  /\ count' = [count EXCEPT ![p] = @ + 1]
  /\ UNCHANGED <<head, next, pointers, mapped, published, filled,
                 sym, cur, fresh, calls, phase, reader>>

\* Mutant: the slot is the last one counted, not the one that was claimed.
StoreAtCount(t) ==
  LET last == count[cur[t]] - 1 IN
  /\ Goto(t, "store", "idle")
  /\ pointers' = [pointers EXCEPT ![cur[t]][last] = sym[t]]
  /\ filled' = filled \cup {<<cur[t], last>>}
  /\ UNCHANGED <<head, next, count, mapped, published,
                 sym, cur, fresh, idx, calls, phase, reader>>

\* The call returns: its locals are gone.
Store(t) ==
  /\ Goto(t, "store", "idle")
  /\ pointers' = [pointers EXCEPT ![cur[t]][idx[t]] = sym[t]]
  /\ filled' = filled \cup {<<cur[t], idx[t]>>}
  /\ sym' = [sym EXCEPT ![t] = NULL]
  /\ cur' = [cur EXCEPT ![t] = NULL]
  /\ fresh' = [fresh EXCEPT ![t] = NULL]
  /\ idx' = [idx EXCEPT ![t] = 0]
  /\ UNCHANGED <<head, next, count, mapped, published, calls, phase, reader>>

\* Mutant: the new page is not linked to the list.
MapUnlinked(t) ==
  /\ Goto(t, "map", "cas")
  /\ \E p \in Pages \ mapped :
       /\ mapped' = mapped \cup {p}
       /\ fresh' = [fresh EXCEPT ![t] = p]
       /\ next' = [next EXCEPT ![p] = NULL]
       /\ count' = [count EXCEPT ![p] = 0]
       /\ pointers' = [pointers EXCEPT ![p] = [i \in Slots |-> NULL]]
  /\ UNCHANGED <<head, published, filled, sym, cur, idx, calls, phase, reader>>

\* mmap() of a page that no one else can reach yet, cleared and linked.
MapPage(t) ==
  /\ Goto(t, "map", "cas")
  /\ \E p \in Pages \ mapped :
       /\ mapped' = mapped \cup {p}
       /\ fresh' = [fresh EXCEPT ![t] = p]
       /\ next' = [next EXCEPT ![p] = cur[t]]
       /\ count' = [count EXCEPT ![p] = 0]
       /\ pointers' = [pointers EXCEPT ![p] = [i \in Slots |-> NULL]]
  /\ UNCHANGED <<head, published, filled, sym, cur, idx, calls, phase, reader>>

\* mmap() fails: perror() and abort() end the whole process.
MapFails(t) ==
  /\ phase = "running"
  /\ pc[t] = "map"
  /\ phase' = "aborted"
  /\ UNCHANGED <<shared, pc, sym, cur, fresh, idx, calls, reader>>

\* Mutant: a plain store in place of the compare-and-swap.
StorePublishes(t) ==
  /\ Goto(t, "cas", "claim")
  /\ head' = fresh[t]
  /\ cur' = [cur EXCEPT ![t] = fresh[t]]
  /\ published' = Append(published, fresh[t])
  /\ UNCHANGED <<next, count, pointers, mapped, filled,
                 sym, fresh, idx, calls, phase, reader>>

CasPublishes(t) ==
  /\ head = cur[t]
  /\ Goto(t, "cas", "claim")
  /\ head' = fresh[t]
  /\ cur' = [cur EXCEPT ![t] = fresh[t]]
  /\ published' = Append(published, fresh[t])
  /\ UNCHANGED <<next, count, pointers, mapped, filled,
                 sym, fresh, idx, calls, phase, reader>>

\* Mutant: the page of the lost race is not given back.
CasFailsLeaks(t) ==
  /\ head # cur[t]
  /\ Goto(t, "cas", "claim")
  /\ cur' = [cur EXCEPT ![t] = head]
  /\ UNCHANGED <<shared, sym, fresh, idx, calls, phase, reader>>

\* Mutant: Page stays what it was, so the next attempt fails as well.
CasFailsStale(t) ==
  /\ head # cur[t]
  /\ Goto(t, "cas", "unmap")
  /\ UNCHANGED <<shared, sym, cur, fresh, idx, calls, phase, reader>>

\* Another page came first; Expected now holds it.
CasFails(t) ==
  /\ head # cur[t]
  /\ Goto(t, "cas", "unmap")
  /\ cur' = [cur EXCEPT ![t] = head]
  /\ UNCHANGED <<shared, sym, fresh, idx, calls, phase, reader>>

\* Mutant: Page = Expected comes before munmap(), which is passed Page.
UnmapExpected(t) ==
  /\ Goto(t, "unmap", Enter(cur[t]))
  /\ mapped' = mapped \ {cur[t]}
  /\ UNCHANGED <<head, next, count, pointers, published, filled,
                 sym, cur, fresh, idx, calls, phase, reader>>

Unmap(t) ==
  /\ Goto(t, "unmap", Enter(cur[t]))
  /\ mapped' = mapped \ {fresh[t]}
  /\ UNCHANGED <<head, next, count, pointers, published, filled,
                 sym, cur, fresh, idx, calls, phase, reader>>

Insert(t) ==
  \/ Load(t) \/ Claim(t) \/ Store(t)
  \/ MapPage(t) \/ MapFails(t)
  \/ CasPublishes(t) \/ CasFails(t) \/ Unmap(t)

(***************************************************************************)
(* The snapshot and its reader.                                            *)
(***************************************************************************)
\* Every thread stops where it is; the reader starts from *Dst.
Freeze ==
  /\ phase = "running"
  /\ phase' = "frozen"
  /\ rcur' = head
  /\ UNCHANGED <<shared, pc, sym, cur, fresh, idx, calls, emitted>>

\* Slots of p the reader looks at: the count may exceed the capacity.
Claimed(p) == {i \in Slots : i < count[p]}

\* One turn of the reader's loop: all claimed slots, whatever they hold.
ReadPage ==
  /\ phase = "frozen"
  /\ rcur # NULL
  /\ emitted' = emitted \cup {pointers[rcur][i] : i \in Claimed(rcur)}
  /\ rcur' = next[rcur]
  /\ UNCHANGED <<shared, pc, sym, cur, fresh, idx, calls, phase>>

Next == Freeze \/ ReadPage \/ \E t \in Threads : Call(t) \/ Insert(t)

\* A thread inside the function keeps running, and a reader keeps reading.
Fairness == WF_vars(ReadPage) /\ \A t \in Threads : WF_vars(Insert(t))

Spec == Init /\ [][Next]_vars /\ Fairness

-----------------------------------------------------------------------------
\* Types; no NULL page is accessed and a store stays within the page's array.
TypeOK ==
  /\ head \in PageOrNull
  /\ next \in [Pages -> PageOrNull]
  /\ count \in [Pages -> Nat]
  /\ pointers \in [Pages -> [Slots -> Symbols \cup {NULL}]]
  /\ mapped \in SUBSET Pages
  /\ pc \in [Threads -> Steps]
  /\ sym \in [Threads -> Symbols \cup {NULL}]
  /\ cur \in [Threads -> PageOrNull]
  /\ fresh \in [Threads -> PageOrNull]
  /\ idx \in [Threads -> Nat]
  /\ \A t \in Threads :
       /\ pc[t] \in {"claim", "store"} => cur[t] # NULL
       /\ pc[t] \in {"cas", "unmap"} => fresh[t] # NULL
       /\ pc[t] = "store" => idx[t] \in Slots
  /\ calls \in [Threads -> 0 .. MaxCalls]
  /\ phase \in {"running", "frozen", "aborted"}
  /\ rcur \in PageOrNull
  /\ emitted \in SUBSET (Symbols \cup {NULL})
  /\ published \in Seq(Pages)

PublishedPages == {published[i] : i \in DOMAIN published}

\* Threads whose Allocated page no other thread can reach.
Owners == {t \in Threads : pc[t] \in {"cas", "unmap"}}

\* Threads that hold a slot they are about to fill, and the slot.
Fillers == {t \in Threads : pc[t] = "store"}
SlotOf(t) == <<cur[t], idx[t]>>

\* Every mapped page is in the list or belongs to exactly one thread, which has
\* not offered it yet or is about to give it back: a lost race leaks nothing,
\* and no thread touches a page that was, or may be, unmapped (dlsym_runtime.c
\* unmaps the page of the thread that loses the compare-and-swap).
PagesOwned ==
  /\ PublishedPages \subseteq mapped
  /\ \A t \in Owners : fresh[t] \in mapped \ PublishedPages
  /\ \A p \in mapped \ PublishedPages : \E t \in Owners : fresh[t] = p
  /\ \A t, u \in Owners : t # u => fresh[t] # fresh[u]
  /\ \A t \in Threads : pc[t] \in {"claim", "store"} => cur[t] \in PublishedPages

\* The slots that a reader looks at are the ones already stored to and, beside
\* them, one for each thread between its fetch-and-add and its store, no two of
\* which share a slot: an empty slot is never a lost record, and no record is
\* stored over another.
SlotsOwned ==
  /\ UNION {{<<p, i>> : i \in Claimed(p)} : p \in PublishedPages}
       = filled \cup {SlotOf(t) : t \in Fillers}
  /\ \A t \in Fillers : SlotOf(t) \notin filled
  /\ \A t, u \in Fillers : t # u => SlotOf(t) # SlotOf(u)

\* A page only gets a successor when all its slots were claimed, so the list is
\* as short as the number of records allows even when several threads find
\* the head full at the same time and each map a page.
NoPageAbandoned ==
  \A i \in 1 .. Len(published) - 1 : count[published[i]] > PageCap

(***************************************************************************)
(* The inductive invariant behind the three properties above and behind    *)
(* the refinement below, one named part per aspect of the list.            *)
(***************************************************************************)
\* The list from *Dst along next is `published`, latest page first.
ListLinked ==
  /\ head = IF published = <<>> THEN NULL ELSE published[Len(published)]
  /\ \A i \in DOMAIN published :
       next[published[i]] = IF i = 1 THEN NULL ELSE published[i - 1]
  /\ \A i, j \in DOMAIN published : published[i] = published[j] => i = j

\* SlotsOwned slot by slot; a slot of the list not stored to yet is empty.
SlotsExact ==
  /\ \A s \in filled : \E p \in PublishedPages : \E i \in Claimed(p) : s = <<p, i>>
  /\ \A p \in PublishedPages : \A i \in Claimed(p) :
       <<p, i>> \in filled \/ \E t \in Fillers : SlotOf(t) = <<p, i>>
  /\ \A p \in PublishedPages : \A i \in Slots :
       <<p, i>> \notin filled => pointers[p][i] = NULL
  /\ \A t \in Fillers : idx[t] \in Claimed(cur[t]) /\ SlotOf(t) \notin filled
  /\ \A t, u \in Fillers : t # u => SlotOf(t) # SlotOf(u)

\* What a thread knows of its local pages on its way round the loop.
LocalPages ==
  \A t \in Threads :
    /\ pc[t] \in {"map", "cas", "unmap"} => cur[t] \in PublishedPages \cup {NULL}
    /\ pc[t] \in {"map", "cas"} /\ cur[t] # NULL => count[cur[t]] > PageCap
    /\ pc[t] = "cas" => /\ next[fresh[t]] = cur[t]
                        /\ count[fresh[t]] = 0
                        /\ pointers[fresh[t]] = [i \in Slots |-> NULL]

\* The reader stands before page k of the list and emitted what is behind it.
ReaderAt(k) ==
  /\ rcur = IF k = 0 THEN NULL ELSE published[k]
  /\ \A s \in emitted : \E j \in k + 1 .. Len(published) :
       \E i \in Claimed(published[j]) : s = pointers[published[j]][i]
  /\ \A j \in k + 1 .. Len(published) :
       \A i \in Claimed(published[j]) : pointers[published[j]][i] \in emitted

ReaderOnList ==
  IF phase = "frozen" THEN \E k \in 0 .. Len(published) : ReaderAt(k)
                      ELSE emitted = {}

Inv == /\ TypeOK /\ PagesOwned /\ ListLinked /\ LocalPages
       /\ SlotsExact /\ NoPageAbandoned /\ ReaderOnList

\* A call returns, whatever the other threads do, unless the process stops.
CallsReturn ==
  \A t \in Threads : pc[t] # "idle" ~> (pc[t] = "idle" \/ phase # "running")

\* The reader's walk of a frozen list ends: the pages form no cycle.
ReaderEnds == phase = "frozen" ~> (phase = "frozen" /\ rcur = NULL)

(***************************************************************************)
(* The pages implement the log: a record takes effect at its store, and    *)
(* the walk over the frozen pages, page by page, recovers the whole log    *)
(* and nothing that is not in it.                                          *)
(***************************************************************************)
LoggedPending ==
  [t \in Threads |-> IF pc[t] = "idle" THEN [call |-> FALSE]
                                       ELSE [call |-> TRUE, sym |-> sym[t]]]
LoggedSymbols == {pointers[s[1]][s[2]] : s \in filled} \ {NULL}
LoggedView == IF phase = "frozen" /\ rcur = NULL
                THEN [taken |-> TRUE, syms |-> emitted \ {NULL}]
                ELSE [taken |-> FALSE]

Log == INSTANCE DlsymLog WITH
         pending <- LoggedPending, log <- LoggedSymbols, view <- LoggedView

ImplementsLog == Log!Spec
=============================================================================
