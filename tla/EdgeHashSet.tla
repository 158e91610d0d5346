---------------------------- MODULE EdgeHashSet ----------------------------
(***************************************************************************)
(* EdgeHashSet (Tracing/Runtime/edge_hash_set.h): the open-addressing hash *)
(* set in which a thread keeps the trace edges it observed.  The table is  *)
(* a shared mapping of a trace file, so whatever it holds when the process *)
(* is killed or copied is what the analysis reads.  To grow, the table is  *)
(* rehashed in place: the low bit of an edge's trace site tells under      *)
(* which table size ("epoch") it was placed.                               *)
(*                                                                         *)
(* One thread owns a table, so calls do not interleave; every store to the *)
(* mapping is a step of its own, because the file can be read between any  *)
(* two.  A 16-byte edge is stored in one step.                             *)
(***************************************************************************)
EXTENDS Naturals, FiniteSets, FiniteSetsExt

CONSTANTS
  Edges,      \* trace edges (site, value), the site without its low bit
  Free,       \* an all-zero slot
  Log2Init,   \* log2_initial_buffer_size (10 in trace_runtime.cpp)
  HashMod,    \* number of hash values (2^64 in the code)
  EdgeHashes, \* bound: the hash values that edges have
  Mix,        \* the Murmur64 finaliser, a permutation of the hash values
  Attempts,   \* attempts of one index sequence (1024 in the code)
  MaxCount    \* bound: the largest table

Hashes == 0 .. HashMod - 1

\* 1 << k
Pow2[k \in Nat] == IF k = 0 THEN 1 ELSE 2 * Pow2[k - 1]

ASSUME SizeAssumption ==
  /\ Log2Init \in Nat /\ HashMod \in Nat \ {0}
  /\ Attempts \in Nat /\ MaxCount \in Nat /\ Pow2[Log2Init] <= MaxCount
  /\ EdgeHashes \subseteq Hashes
  /\ Mix \in [Hashes -> Hashes]
ASSUME FreeAssumption == Free \notin [edge : Edges, epoch : {0, 1}]

VARIABLES
  hash,       \* edge_hash, the same for both epochs; fixed
  edges,      \* the mapping: a slot is Free or an edge with its epoch
  inserted,   \* inserted_edges
  threshold,  \* resize_threshold
  epoch,
  open,       \* is_ready()
  pc,         \* where the current call is
  arg,        \* its argument, Free when idle
  i,          \* increase_size: the slot being rehashed
  j,          \* resize_insert: the slot the edge goes to
  tmp,        \* std::swap: the edge that is in neither slot
  recorded,   \* history: edges for which add_edge returned true
  answers     \* history: the last answer for each edge

table == <<edges, inserted, threshold, epoch>>
locals == <<arg, i, j, tmp>>
vars == <<hash, table, open, pc, locals, recorded, answers>>

EdgeCount == Cardinality(DOMAIN edges)
Present(s) == edges[s] # Free
EdgeAt(s, e) == Present(s) /\ edges[s].edge = e     \* edge_equal
Stamped(e) == [edge |-> e, epoch |-> epoch]         \* edge_set_epoch

(***************************************************************************)
(* The index sequence: Trail[k] takes a hash to that of attempt k.         *)
(* Attempts count down from a multiple of four; the second attempt, and    *)
(* each fourth one after it, mixes the hash, the others add one.           *)
(***************************************************************************)
Trail ==
  LET trail[k \in 0 .. Attempts] ==
        IF k = 0 THEN [h \in Hashes |-> h]
        ELSE LET prev == trail[k - 1]
             IN [h \in Hashes |->
                   IF (Attempts - k + 1) % 4 = 3 THEN Mix[prev[h]] ELSE (prev[h] + 1) % HashMod]
  IN [k \in 1 .. Attempts |-> trail[k]]

Index(e, k) == Trail[k][hash[e]] % EdgeCount

\* The slots that e's sequence visits before its attempts are exhausted, which
\* need not be all.
SlotsOf(e) == {Index(e, k) : k \in 1 .. Attempts}

\* The slot where a loop over e's sequence stops, if it stops at slots in S.
Stops(e, S) == {k \in 1 .. Attempts : Index(e, k) \in S}
CanStop(e, S) == Stops(e, S) # {}
FirstStop(e, S) == Index(e, Min(Stops(e, S)))

\* Mutant: add_edge and resize_insert do not compare edges.
FreeStops(e) == {s \in DOMAIN edges : ~Present(s)}

\* add_edge's loop stops at a free slot and at the edge itself.
AddStops(e) == {s \in DOMAIN edges : ~Present(s) \/ EdgeAt(s, e)}

\* Mutant: edges still to be rehashed are passed over like the others.
ResizeStopsNoEvict(e) == AddStops(e)

\* resize_insert's loop stops also at an edge that is still to be rehashed.
ResizeStops(e) == AddStops(e) \cup {s \in DOMAIN edges : Present(s) /\ edges[s].epoch # epoch}

Threshold(n) == (n * 3) \div 4

Init ==
  /\ hash \in [Edges -> EdgeHashes]
  /\ edges = [s \in 0 .. Pow2[Log2Init] - 1 |-> Free]
  /\ inserted = 0
  /\ threshold = Threshold(Pow2[Log2Init])
  /\ epoch = 0
  /\ open = TRUE
  /\ pc = "idle"
  /\ arg = Free /\ i = 0 /\ j = 0 /\ tmp = Free
  /\ recorded = {}
  /\ answers = [e \in Edges |-> "none"]

(***************************************************************************)
(* add_edge.                                                               *)
(***************************************************************************)
\* The call in progress ends with the answer ans.
Return(ans) ==
  /\ pc' = "idle"
  /\ answers' = [answers EXCEPT ![arg] = ans]
  /\ arg' = Free
  /\ UNCHANGED <<hash, threshold, epoch, open, i, j, tmp>>

Add(e) ==
  /\ pc = "idle" /\ open
  /\ inserted >= threshold => 2 * EdgeCount <= MaxCount
  /\ arg' = e
  /\ pc' = IF inserted >= threshold THEN "grow" ELSE "probe"
  /\ UNCHANGED <<hash, table, open, i, j, tmp, recorded, answers>>

AddClosed(e) ==
  /\ pc = "idle" /\ ~open
  /\ answers' = [answers EXCEPT ![e] = "old"]
  /\ UNCHANGED <<hash, table, open, pc, locals, recorded>>

Probe ==
  /\ pc = "probe" /\ inserted < threshold
  /\ CanStop(arg, AddStops(arg))
  /\ LET s == FirstStop(arg, AddStops(arg)) IN
       \/ /\ ~Present(s)
          /\ edges' = [edges EXCEPT ![s] = Stamped(arg)]
          /\ inserted' = inserted + 1
          /\ recorded' = recorded \cup {arg}
          /\ Return("new")
       \/ /\ Present(s)
          /\ Return("old")
          /\ UNCHANGED <<edges, inserted, recorded>>

(***************************************************************************)
(* increase_size and resize_insert.                                        *)
(***************************************************************************)
\* Mutant: the table grows by one slot.
GrowByOne ==
  /\ pc = "grow"
  /\ epoch' = 1 - epoch
  /\ edges' = [s \in 0 .. EdgeCount |-> IF s < EdgeCount THEN edges[s] ELSE Free]
  /\ i' = 0
  /\ pc' = "rehash"
  /\ UNCHANGED <<hash, inserted, threshold, open, arg, j, tmp, recorded, answers>>

\* The file is extended with zeros and mapped again; no edge has moved yet.
Grow ==
  /\ pc = "grow"
  /\ epoch' = 1 - epoch
  /\ edges' = [s \in 0 .. 2 * EdgeCount - 1 |-> IF s < EdgeCount THEN edges[s] ELSE Free]
  /\ i' = 0
  /\ pc' = "rehash"
  /\ UNCHANGED <<hash, inserted, threshold, open, arg, j, tmp, recorded, answers>>

Stale(s) == Present(s) /\ edges[s].epoch # epoch

\* resize_insert has nothing to do for slot i: on to the next one.
SkipSlot ==
  /\ pc = "rehash" /\ 2 * i < EdgeCount /\ ~Stale(i)
  /\ i' = i + 1
  /\ UNCHANGED <<hash, table, open, pc, arg, j, tmp, recorded, answers>>

\* Mutant: the edge is not marked before a place is looked for.
StampSlotNot ==
  /\ pc = "rehash" /\ 2 * i < EdgeCount /\ Stale(i)
  /\ pc' = "relocate"
  /\ UNCHANGED <<hash, table, open, locals, recorded, answers>>

\* The edge is marked as rehashed where it is, then a new place is looked for.
StampSlot ==
  /\ pc = "rehash" /\ 2 * i < EdgeCount /\ Stale(i)
  /\ edges' = [edges EXCEPT ![i].epoch = epoch]
  /\ pc' = "relocate"
  /\ UNCHANGED <<hash, inserted, threshold, epoch, open, locals, recorded, answers>>

\* The place found is slot i itself: the edge stays.
Stay ==
  LET e == edges[i].edge IN
  /\ pc = "relocate"
  /\ CanStop(e, ResizeStops(e))
  /\ LET s == FirstStop(e, ResizeStops(e)) IN EdgeAt(s, e) /\ ~Stale(s)
  /\ pc' = "rehash"
  /\ i' = i + 1
  /\ UNCHANGED <<hash, table, open, arg, j, tmp, recorded, answers>>

\* Mutant: the edge is assigned to its place, not swapped with what is there.
BeginSwapLosing ==
  LET e == edges[i].edge
      s == FirstStop(e, ResizeStops(e)) IN
  /\ pc = "relocate"
  /\ CanStop(e, ResizeStops(e))
  /\ Stale(s)
  /\ edges' = [edges EXCEPT ![s] = edges[i]]
  /\ pc' = "clear"
  /\ UNCHANGED <<hash, inserted, threshold, epoch, open, locals, recorded, answers>>

\* The place holds an edge that is still to be rehashed.  std::swap moves the
\* edge out, the other one to slot i, and the edge to its place.
BeginSwap ==
  LET e == edges[i].edge
      s == FirstStop(e, ResizeStops(e)) IN
  /\ pc = "relocate"
  /\ CanStop(e, ResizeStops(e))
  /\ Stale(s)
  /\ tmp' = edges[i]
  /\ j' = s
  /\ edges' = [edges EXCEPT ![i] = edges[s]]
  /\ pc' = "swap"
  /\ UNCHANGED <<hash, inserted, threshold, epoch, open, arg, i, recorded, answers>>

EndSwap ==
  /\ pc = "swap"
  /\ edges' = [edges EXCEPT ![j] = tmp]
  /\ tmp' = Free /\ j' = 0
  /\ pc' = "rehash"
  /\ UNCHANGED <<hash, inserted, threshold, epoch, open, arg, i, recorded, answers>>

\* The place is free: the edge is copied there, then slot i is cleared.
CopyEdge ==
  LET e == edges[i].edge
      s == FirstStop(e, ResizeStops(e)) IN
  /\ pc = "relocate"
  /\ CanStop(e, ResizeStops(e))
  /\ ~Present(s)
  /\ edges' = [edges EXCEPT ![s] = Stamped(e)]
  /\ pc' = "clear"
  /\ UNCHANGED <<hash, inserted, threshold, epoch, open, locals, recorded, answers>>

ClearSlot ==
  /\ pc = "clear"
  /\ edges' = [edges EXCEPT ![i] = Free]
  /\ i' = i + 1
  /\ pc' = "rehash"
  /\ UNCHANGED <<hash, inserted, threshold, epoch, open, arg, j, tmp, recorded, answers>>

\* Mutant: update_resize_threshold is forgotten.
EndGrowSameThreshold ==
  /\ pc = "rehash" /\ 2 * i = EdgeCount
  /\ i' = 0
  /\ pc' = "probe"
  /\ UNCHANGED <<hash, table, open, arg, j, tmp, recorded, answers>>

\* The whole old half was visited.
EndGrow ==
  /\ pc = "rehash" /\ 2 * i = EdgeCount
  /\ threshold' = Threshold(EdgeCount)
  /\ i' = 0
  /\ pc' = "probe"
  /\ UNCHANGED <<hash, edges, inserted, epoch, open, arg, j, tmp, recorded, answers>>

\* The thread ends: its table is unmapped, the file stays as it is.
Close ==
  /\ pc = "idle" /\ open
  /\ open' = FALSE
  /\ UNCHANGED <<hash, table, pc, locals, recorded, answers>>

Resize == \/ Grow \/ SkipSlot \/ StampSlot \/ Stay
          \/ BeginSwap \/ EndSwap \/ CopyEdge \/ ClearSlot \/ EndGrow

Next == \/ Close \/ Probe \/ Resize
        \/ \E e \in Edges : Add(e) \/ AddClosed(e)

\* A thread inside add_edge keeps running.
Spec == Init /\ [][Next]_vars /\ WF_vars(Probe \/ Resize)

-----------------------------------------------------------------------------
Slot == {Free} \cup [edge : Edges, epoch : {0, 1}]

\* Types; a table's size is a power of two and indices stay inside it.
TypeOK ==
  /\ hash \in [Edges -> EdgeHashes]
  /\ \E k \in Log2Init .. MaxCount : DOMAIN edges = 0 .. Pow2[k] - 1
  /\ \A s \in DOMAIN edges : edges[s] \in Slot
  /\ inserted \in Nat /\ threshold \in Nat /\ epoch \in {0, 1}
  /\ open \in BOOLEAN
  /\ pc \in {"idle", "probe", "grow", "rehash", "relocate", "swap", "clear"}
  /\ arg \in Edges \cup {Free}
  /\ i \in Nat /\ j \in DOMAIN edges /\ tmp \in Slot
  /\ pc \in {"relocate", "swap", "clear"} => i \in DOMAIN edges
  /\ recorded \in SUBSET Edges
  /\ answers \in [Edges -> {"none", "new", "old"}]

\* What a reader of the trace file sees (it drops the low bit and zero slots).
OnDisk == {edges[s].edge : s \in {r \in DOMAIN edges : Present(r)}}

\* The file holds every edge recorded and no other at every moment of a resize,
\* except for one edge while std::swap holds it in a register.
FileKeepsEdges ==
  /\ OnDisk \subseteq recorded
  /\ recorded \ OnDisk \subseteq (IF pc = "swap" THEN {tmp.edge} ELSE {})

\* Between calls every edge lies, under the current epoch, where its own index
\* sequence first finds a place: the next add of it finds it, so no edge is
\* stored twice, and inserted_edges counts the edges.
Findable ==
  pc = "idle" =>
    /\ \A s \in DOMAIN edges : Present(s) =>
         LET e == edges[s].edge IN
         /\ edges[s].epoch = epoch
         /\ CanStop(e, AddStops(e)) /\ FirstStop(e, AddStops(e)) = s
    /\ inserted = Cardinality({s \in DOMAIN edges : Present(s)})

\* The assertion behind the last attempt of an index sequence is about to fail.
Exhausted ==
  \/ pc = "probe" /\ ~CanStop(arg, AddStops(arg))
  \/ pc = "relocate" /\ ~CanStop(edges[i].edge, ResizeStops(edges[i].edge))

\* The assertion after a resize does not fail.  The one behind the last attempt
\* fails only if the attempts visit no more slots than there are other edges in
\* the table, for which threshold leaves a quarter of it free.
AssertionsHold ==
  /\ pc = "probe" => inserted < threshold
  /\ Exhausted =>
       \/ pc = "probe" /\ Cardinality(SlotsOf(arg)) <= inserted
       \/ pc = "relocate" /\ Cardinality(SlotsOf(edges[i].edge)) < inserted

\* add_edge returns or runs out of attempts, although resize_insert is repeated
\* on one slot until it evicts no more.
AddReturns == pc # "idle" ~> pc = "idle" \/ Exhausted

Promise == INSTANCE TraceSet

\* add_edge answers true exactly once for each edge, across all resizes.
ImplementsSet == Promise!Spec
=============================================================================
