------------------------------ MODULE VhMalloc ------------------------------
(***************************************************************************)
(* The tracing runtime's allocator (Tracing/Runtime/vhmalloc.cpp), which   *)
(* knows for every address the tag of the allocation it lies in.  Each     *)
(* thread allocates from a pool of its own; any thread may free.  A pool   *)
(* is a list of slabs, of which those with free elements form a second     *)
(* list, and the element to hand out is chosen at random.  A two-level map *)
(* from addresses to slabs, shared by all pools and read without a lock,   *)
(* finds the slab of a pointer.                                            *)
(*                                                                         *)
(* What a pool's lock protects is changed in one step; the stores to the   *)
(* shared map are steps of their own, which other pools' locks do not      *)
(* exclude.  Bounds of the model: one size class, so a pool is named by    *)
(* its thread; a slab is one page.  free_tail, which is never read, and    *)
(* an allocation from a signal handler inside malloc() are left out, and   *)
(* threads do not exit.                                                    *)
(***************************************************************************)
EXTENDS Naturals, FiniteSets, FiniteSetsExt, Sequences

CONSTANTS
  Threads,
  Regions,       \* 1 GiB regions in which mmap() puts slabs
  Tags,          \* trace sites that tag allocations
  Untagged,      \* the tag of a new allocation (the maximal one in the code)
  Empty,         \* the tag of a free element (0 in the code)
  Unlocked,      \* no thread
  Overprovision, \* elements of a pool that stay free (3 in the code)
  SlabCap,       \* elements of a slab
  MaxSlabs       \* bound: slabs of all pools together

ASSUME PoolAssumption ==
  /\ Overprovision \in Nat \ {0} /\ SlabCap \in Nat /\ MaxSlabs \in Nat
  /\ 2 * Overprovision <= SlabCap
  /\ Unlocked \notin Threads
  /\ Untagged # Empty /\ {Untagged, Empty} \cap Tags = {}

Nil == 0                        \* a null pointer to a slab or to a table
Slabs == 1 .. MaxSlabs          \* slabs, numbered as they are made
Elements == 0 .. SlabCap - 1

VARIABLES
  made,      \* number of slabs
  owner,     \* owner[s]: the thread whose pool s belongs to
  region,    \* region[s]: where mmap() put the objects of s
  ids,       \* ids[s][i]: the tag of element i of s
  free,      \* free[s]: its free elements; poolFree[t]: those of t's pool
  poolFree,
  head,      \* head[t]: the first slab of the free list of t's pool
  free_next, \* the links of the free lists
  free_prev,
  lock,      \* lock[t]: the thread that holds the lock of t's pool
  slabMap,   \* slabMap[r]: region r's table, named by the slab it was made for
  entries,   \* <<table, slab>>: the table's entry for the page of slab is set
  pc,        \* where each thread is
  table,     \* markSlab's local `region`
  ptr,       \* the element <<slab, i>> it allocated or frees, or NoPtr
  held,      \* history: the program's allocations, each with its tag
  aborted    \* an assertion failed

counts == <<free, poolFree>>
freeList == <<head, free_next, free_prev>>
map == <<slabMap, entries>>
vars == <<made, owner, region, ids, counts, freeList, lock, map,
          pc, table, ptr, held, aborted>>

NoPtr == <<Nil, 0>>

Init ==
  /\ made = 0
  /\ owner = [s \in Slabs |-> Unlocked]
  /\ region = [s \in Slabs |-> Nil]
  /\ ids = [s \in Slabs |-> [i \in Elements |-> Empty]]
  /\ free = [s \in Slabs |-> 0]
  /\ poolFree = [t \in Threads |-> 0]
  /\ head = [t \in Threads |-> Nil]
  /\ free_next = [s \in Slabs |-> Nil]
  /\ free_prev = [s \in Slabs |-> Nil]
  /\ lock = [t \in Threads |-> Unlocked]
  /\ slabMap = [r \in Regions |-> Nil]
  /\ entries = {}
  /\ pc = [t \in Threads |-> "idle"]
  /\ table = [t \in Threads |-> Nil]
  /\ ptr = [t \in Threads |-> NoPtr]
  /\ held = {}
  /\ aborted = FALSE

Goto(t, from, to) == ~aborted /\ pc[t] = from /\ pc' = [pc EXCEPT ![t] = to]

\* getSlab of an address in slab s: s, or Nil.
GetSlab(s) == IF <<slabMap[region[s]], s>> \in entries THEN s ELSE Nil

(***************************************************************************)
(* The free list of a pool.                                                *)
(***************************************************************************)
\* f with the value v at s, if s is a slab at all.
SetAt(f, s, v) == IF s = Nil THEN f ELSE [f EXCEPT ![s] = v]

\* Slab s goes between a and b; t's list starts with s if a is Nil.
LinkFree(t, a, s, b) ==
  /\ free_next' = SetAt([free_next EXCEPT ![s] = b], a, s)
  /\ free_prev' = SetAt([free_prev EXCEPT ![s] = a], b, s)
  /\ head' = IF a = Nil THEN [head EXCEPT ![t] = s] ELSE head

\* The slabs before s on its pool's list of all slabs, where new slabs go to
\* the front, that have free elements.  makeFree looks for the nearest.
FreeBefore(s) == {r \in s + 1 .. made : owner[r] = owner[s] /\ free[r] > 0}

\* Mutant: the slab always goes to the front.
MakeFreeFirst(s) == LinkFree(owner[s], Nil, s, head[owner[s]])

MakeFree(s) ==
  IF FreeBefore(s) = {} THEN LinkFree(owner[s], Nil, s, head[owner[s]])
  ELSE LET r == Min(FreeBefore(s)) IN LinkFree(owner[s], r, s, free_next[r])

MakeFull(s) ==
  LET a == free_prev[s]
      b == free_next[s]
  IN /\ free_next' = SetAt(free_next, a, b)
     /\ free_prev' = SetAt(free_prev, b, a)
     /\ head' = IF a = Nil THEN [head EXCEPT ![owner[s]] = b] ELSE head

\* The slabs of t's free list, in the order of the list.
FreeList(t) ==
  LET from[k \in 0 .. MaxSlabs] ==   \* at most k slabs from a given one on
        IF k = 0 THEN [s \in 0 .. MaxSlabs |-> <<>>]
        ELSE LET rest == from[k - 1]
             IN [s \in 0 .. MaxSlabs |->
                   IF s = Nil THEN <<>> ELSE <<s>> \o rest[free_next[s]]]
  IN from[MaxSlabs][head[t]]

\* The element at an offset into the free elements of a list of slabs, which
\* are counted slab by slab with free[s], and then one by one with ids[s].
FreeIds(s) == {i \in Elements : ids[s][i] = Empty}
At(list, offset) ==
  LET before[k \in 0 .. Len(list)] == IF k = 0 THEN 0 ELSE before[k - 1] + free[list[k]]
      k == Min({n \in 1 .. Len(list) : offset < before[n]})
      rest == offset - before[k - 1]
      s == list[k]
  IN <<s, CHOOSE i \in FreeIds(s) : Cardinality({j \in FreeIds(s) : j < i}) = rest>>

(***************************************************************************)
(* xxmalloc, then the tag that instrumented code sets.                     *)
(***************************************************************************)
\* The bound: each thread that may still make a slab finds one left.
Malloc(t) ==
  /\ Goto(t, "idle", "lock")
  /\ poolFree[t] <= Overprovision =>
       made + Cardinality({u \in Threads : pc[u] \in {"lock", "new"}}) < MaxSlabs
  /\ UNCHANGED <<made, owner, region, ids, counts, freeList, lock, map,
                 table, ptr, held, aborted>>

LockPool(t) ==
  /\ lock[t] = Unlocked
  /\ lock' = [lock EXCEPT ![t] = t]
  /\ Goto(t, "lock", IF poolFree[t] <= Overprovision THEN "new" ELSE "pick")
  /\ UNCHANGED <<made, owner, region, ids, counts, freeList, map,
                 table, ptr, held, aborted>>

\* allocateSlab: mmap() puts the slab anywhere; markSlab looks up the region.
NewSlab(t) ==
  LET s == made + 1 IN
  /\ s <= MaxSlabs
  /\ made' = s
  /\ owner' = [owner EXCEPT ![s] = t]
  /\ free' = [free EXCEPT ![s] = SlabCap]
  /\ poolFree' = [poolFree EXCEPT ![t] = @ + SlabCap]
  /\ \E r \in Regions :
       /\ region' = [region EXCEPT ![s] = r]
       /\ table' = [table EXCEPT ![t] = slabMap[r]]
       /\ Goto(t, "new", IF slabMap[r] = Nil THEN "map" ELSE "mark")
  /\ ptr' = [ptr EXCEPT ![t] = <<s, 0>>]
  /\ UNCHANGED <<ids, freeList, lock, map, held, aborted>>

\* A table for the region is mapped and stored, whatever is there by now.
MapRegion(t) ==
  LET s == ptr[t][1] IN
  /\ Goto(t, "map", "mark")
  /\ table' = [table EXCEPT ![t] = s]
  /\ slabMap' = [slabMap EXCEPT ![region[s]] = s]
  /\ UNCHANGED <<made, owner, region, ids, counts, freeList, lock, entries,
                 ptr, held, aborted>>

MarkSlab(t) ==
  LET s == ptr[t][1] IN
  /\ Goto(t, "mark", "pick")
  /\ entries' = entries \cup {<<table[t], s>>}
  /\ LinkFree(t, Nil, s, head[t])
  /\ table' = [table EXCEPT ![t] = Nil]
  /\ ptr' = [ptr EXCEPT ![t] = NoPtr]
  /\ UNCHANGED <<made, owner, region, ids, counts, lock, slabMap, held, aborted>>

\* Mutant: the slab's count of free elements is forgotten.
PickKeepsCount(t) ==
  /\ Goto(t, "pick", "return")
  /\ \E offset \in 0 .. poolFree[t] - 1 :
       LET o == At(FreeList(t), offset) IN
       /\ ids' = [ids EXCEPT ![o[1]][o[2]] = Untagged]
       /\ ptr' = [ptr EXCEPT ![t] = o]
  /\ poolFree' = [poolFree EXCEPT ![t] = @ - 1]
  /\ lock' = [lock EXCEPT ![t] = Unlocked]
  /\ UNCHANGED <<made, owner, region, free, freeList, map, table, held, aborted>>

\* A free element is chosen at random, and the lock released.
Pick(t) ==
  /\ Goto(t, "pick", "return")
  /\ \E offset \in 0 .. poolFree[t] - 1 :
       LET o == At(FreeList(t), offset)
           s == o[1]
       IN /\ ids' = [ids EXCEPT ![s][o[2]] = Untagged]
          /\ free' = [free EXCEPT ![s] = @ - 1]
          /\ ptr' = [ptr EXCEPT ![t] = o]
          /\ IF free[s] = 1 THEN MakeFull(s) ELSE UNCHANGED freeList
  /\ poolFree' = [poolFree EXCEPT ![t] = @ - 1]
  /\ lock' = [lock EXCEPT ![t] = Unlocked]
  /\ UNCHANGED <<made, owner, region, map, table, held, aborted>>

\* Code that is not instrumented does not tag what it allocates.
Return(t) ==
  /\ Goto(t, "return", "idle")
  /\ held' = held \cup {<<ptr[t], Untagged>>}
  /\ ptr' = [ptr EXCEPT ![t] = NoPtr]
  /\ UNCHANGED <<made, owner, region, ids, counts, freeList, lock, map, table, aborted>>

\* setTag asserts that the pointer lies in a slab and has no tag yet.
MayTag(t) == GetSlab(ptr[t][1]) # Nil /\ ids[ptr[t][1]][ptr[t][2]] = Untagged

SetTag(t) ==
  /\ Goto(t, "return", "idle")
  /\ MayTag(t)
  /\ \E tag \in Tags :
       /\ ids' = [ids EXCEPT ![ptr[t][1]][ptr[t][2]] = tag]
       /\ held' = held \cup {<<ptr[t], tag>>}
  /\ ptr' = [ptr EXCEPT ![t] = NoPtr]
  /\ UNCHANGED <<made, owner, region, counts, freeList, lock, map, table, aborted>>

SetTagFails(t) ==
  /\ ~aborted /\ pc[t] = "return" /\ ~MayTag(t)
  /\ aborted' = TRUE
  /\ UNCHANGED <<made, owner, region, ids, counts, freeList, lock, map,
                 pc, table, ptr, held>>

(***************************************************************************)
(* xxfree.                                                                 *)
(***************************************************************************)
\* A pointer in no slab that is found is ignored.
Free(t) ==
  \E h \in held :
    /\ held' = held \ {h}
    /\ IF GetSlab(h[1][1]) = Nil
         THEN Goto(t, "idle", "idle") /\ UNCHANGED ptr
         ELSE Goto(t, "idle", "free") /\ ptr' = [ptr EXCEPT ![t] = h[1]]
    /\ UNCHANGED <<made, owner, region, ids, counts, freeList, lock, map, table, aborted>>

\* Mutant: the element keeps its tag.
DeallocateKeepsTag(t) ==
  LET s == ptr[t][1] IN
  /\ Goto(t, "free", "idle")
  /\ lock[owner[s]] = Unlocked
  /\ free' = [free EXCEPT ![s] = @ + 1]
  /\ poolFree' = [poolFree EXCEPT ![owner[s]] = @ + 1]
  /\ IF free[s] = 0 THEN MakeFree(s) ELSE UNCHANGED freeList
  /\ ptr' = [ptr EXCEPT ![t] = NoPtr]
  /\ UNCHANGED <<made, owner, region, ids, lock, map, table, held, aborted>>

\* Takes the lock of the pool the slab belongs to, and releases it.
Deallocate(t) ==
  LET s == ptr[t][1] IN
  /\ Goto(t, "free", "idle")
  /\ lock[owner[s]] = Unlocked
  /\ ids' = [ids EXCEPT ![s][ptr[t][2]] = Empty]
  /\ free' = [free EXCEPT ![s] = @ + 1]
  /\ poolFree' = [poolFree EXCEPT ![owner[s]] = @ + 1]
  /\ IF free[s] = 0 THEN MakeFree(s) ELSE UNCHANGED freeList
  /\ ptr' = [ptr EXCEPT ![t] = NoPtr]
  /\ UNCHANGED <<made, owner, region, lock, map, table, held, aborted>>

Continue(t) ==
  \/ LockPool(t) \/ NewSlab(t) \/ MapRegion(t) \/ MarkSlab(t) \/ Pick(t)
  \/ Return(t) \/ SetTag(t) \/ SetTagFails(t) \/ Deallocate(t)

Next == \E t \in Threads : Malloc(t) \/ Free(t) \/ Continue(t)

Spec == Init /\ [][Next]_vars

-----------------------------------------------------------------------------
Element == Slabs \X Elements
TagOrNone == Tags \cup {Untagged, Empty}

\* Types; the counts stay within what the slabs hold.
TypeOK ==
  /\ made \in 0 .. MaxSlabs
  /\ owner \in [Slabs -> Threads \cup {Unlocked}]
  /\ region \in [Slabs -> Regions \cup {Nil}]
  /\ ids \in [Slabs -> [Elements -> TagOrNone]]
  /\ free \in [Slabs -> 0 .. SlabCap]
  /\ poolFree \in [Threads -> 0 .. SlabCap * MaxSlabs]
  /\ head \in [Threads -> 0 .. MaxSlabs]
  /\ free_next \in [Slabs -> 0 .. MaxSlabs]
  /\ free_prev \in [Slabs -> 0 .. MaxSlabs]
  /\ lock \in [Threads -> Threads \cup {Unlocked}]
  /\ slabMap \in [Regions -> 0 .. MaxSlabs]
  /\ entries \in SUBSET (Slabs \X Slabs)
  /\ pc \in [Threads -> {"idle", "lock", "new", "map", "mark", "pick", "return", "free"}]
  /\ table \in [Threads -> 0 .. MaxSlabs]
  /\ ptr \in [Threads -> Element \cup {NoPtr}]
  /\ held \in SUBSET (Element \X TagOrNone)
  /\ aborted \in BOOLEAN

SlabsOf(t) == {s \in 1 .. made : owner[s] = t}
FreeElements(t) == {o \in SlabsOf(t) \X Elements : ids[o[1]][o[2]] = Empty}

\* While its lock is free, a pool's free list holds its slabs with free elements,
\* latest first and linked both ways, its counts are exact, and Overprovision
\* elements are free once it has a slab: frees by any thread, which put slabs
\* back in the middle of the list, leave nothing for allocate to trip over.
PoolsExact ==
  \A t \in Threads : lock[t] = Unlocked =>
    LET list == FreeList(t) IN
    /\ {list[k] : k \in DOMAIN list} = {s \in SlabsOf(t) : free[s] > 0}
    /\ \A k \in DOMAIN list :
         /\ k > 1 => list[k] < list[k - 1]
         /\ free_prev[list[k]] = IF k = 1 THEN Nil ELSE list[k - 1]
    /\ \A s \in SlabsOf(t) : free[s] = Cardinality(FreeIds(s))
    /\ poolFree[t] = Cardinality(FreeElements(t))
    /\ SlabsOf(t) # {} => poolFree[t] >= Overprovision

\* Allocations that threads are about to return or to tag, or to free.
InFlight == {t \in Threads : pc[t] \in {"return", "free"}}

\* A slab that getSlab does not find, because its region's table was replaced.
Lost(s) == GetSlab(s) = Nil

\* An element has a tag exactly as long as the program holds it, the tag its
\* holder gave it, and no element is in two hands, except that an element of a
\* lost slab is never free again.
HeldExact ==
  /\ \A h \in held : ids[h[1][1]][h[1][2]] = h[2]
  /\ \A g, h \in held : g[1] = h[1] => g = h
  /\ \A t \in InFlight : ids[ptr[t][1]][ptr[t][2]] # Empty
                         /\ \A h \in held : h[1] # ptr[t]
  /\ \A t, u \in InFlight : t # u => ptr[t] # ptr[u]
  /\ \A o \in (1 .. made) \X Elements :
       ids[o[1]][o[2]] # Empty => \/ \E h \in held : h[1] = o
                                  \/ \E t \in InFlight : ptr[t] = o
                                  \/ Lost(o[1])

\* vhmalloc.cpp:362 asserts that what instrumented code just allocated lies in a
\* slab that getSlab finds.
TagFindsSlab == ~aborted
=============================================================================
