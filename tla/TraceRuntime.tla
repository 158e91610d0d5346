---------------------------- MODULE TraceRuntime ----------------------------
(***************************************************************************)
(* A traced program.  The pass (BraceletReachability.cpp) gives nodes a    *)
(* trace site, lets allocations be tagged with theirs, and inserts calls   *)
(* that show pointers at a site to the runtime (trace_runtime.cpp,         *)
(* exports.cpp).  The runtime records edges from the site to what the      *)
(* pointer points into: the tag of an allocation, or an address in a       *)
(* loaded ELF object.  Every thread has a table of its own in a file.      *)
(*                                                                         *)
(* A word is an address, at the grain of elements of the allocator and of  *)
(* symbols, and whether it is a pointer into the object that lies there.   *)
(* Other words have addresses as well: pointers to what has been freed,    *)
(* pointers one past the end of the element before, and numbers.  The      *)
(* runtime cannot tell them from pointers.                                 *)
(***************************************************************************)
EXTENDS Integers, Sequences, FiniteSets

CONSTANTS
    Threads, Sites,
    Blocks,      \* elements of the tagging allocator
    MainObject,  \* addresses in objects loaded from the start
    Library,     \* addresses in a library the program may dlopen()
    Untagged,    \* the tag of an allocation nobody tagged, UINT64_MAX
    Empty,       \* the tag of a free element, 0
    Sizes,       \* byte sizes of the aggregates the program passes
    Threshold,   \* resize_threshold of a new table
    MaxShown     \* bound: values shown to the runtime

ASSUME RuntimeAssumption ==
    /\ {Untagged, Empty} \cap (Sites \cup MainObject \cup Library) = {}
    /\ Untagged # Empty /\ Sites \cap (MainObject \cup Library) = {}
    /\ MainObject \cap Library = {}
    /\ Blocks \cap (MainObject \cup Library \cup {Empty}) = {}
    /\ Threshold \in Nat \ {0} /\ MaxShown \in Nat /\ Sizes \subseteq Nat \ (0..7)

VARIABLES
    tag,       \* of every block
    mapped,    \* blocks whose slab is in slabMap
    origin,    \* history: the site whose allocation is in a block, Untagged if it has none
    known,     \* blocks the program has pointers to
    loaded,    \* addresses of loaded objects
    scanned,   \* those the runtime knows to be in ELF segments
    pc,        \* what each thread does in the runtime
    table,     \* TL_BUFFER: edges of each thread
    epoch, threshold,
    open,      \* the thread's table exists
    shownCount,
    shown,     \* history: edges of pointers that threads with an open table showed
    aliased,   \* history: edges that other words had by their address while being shown
    observed,  \* history: edges of pointers that the runtime found and has to record
    aborted,   \* an assertion failed
    stage      \* "run" until the core dump is taken

heap == <<tag, mapped, origin, known>>
tables == <<table, epoch, threshold>>
history == <<shown, aliased, observed>>
runtimeVars == <<heap, loaded, scanned, pc, tables, open, shownCount, history, aborted, stage>>

Idle == [at |-> "idle"]
Max2(a, b) == IF a > b THEN a ELSE b

RuntimeInit ==
    /\ tag = [b \in Blocks |-> Empty]
    /\ mapped = Blocks
    /\ origin = [b \in Blocks |-> Empty]
    /\ known = {}
    /\ loaded = MainObject /\ scanned = MainObject
    /\ pc = [t \in Threads |-> Idle]
    /\ table = [t \in Threads |-> {}]
    /\ epoch = [t \in Threads |-> 0]
    /\ threshold = [t \in Threads |-> Threshold]
    /\ open = [t \in Threads |-> TRUE]
    /\ shownCount = 0
    /\ shown = {} /\ aliased = {} /\ observed = {} /\ aborted = FALSE
    /\ stage = "run"

At(t, at) == stage = "run" /\ ~aborted /\ pc[t].at = at
Goto(t, state) == pc' = [pc EXCEPT ![t] = state]

----------------------------------------------------------------------------
(* Words and allocations.                                                  *)

Addresses == Blocks \cup MainObject \cup Library \cup {Empty}

(* What a program may show: pointers into what is allocated and loaded,    *)
(* and words that have any address without being such a pointer.           *)
Values ==
    [addr : known \cup loaded, into : {TRUE}] \cup [addr : Addresses, into : {FALSE}]

(* Whose allocation lies at an address; symbols are their own. *)
Occupant(a) == IF a \in Blocks THEN origin[a] ELSE a

Showing(t) == pc[t].at \in {"lookup", "add"}

(* The words of p that the runtime has not looked at. *)
Ahead(p) == {k \in DOMAIN p.words : IF p.at = "add" THEN k > p.k ELSE k >= p.k}

(* Edges that words being shown get when an allocation of s is put in b. *)
Coincidences(b, s) ==
    {<<pc[t].site, s>> :
        t \in {u \in Threads : /\ Showing(u) /\ open[u]
                              /\ \E k \in Ahead(pc[u]) : pc[u].words[k].addr = b}}

(* malloc() of instrumented code or of braceletTraceAllocaAllocate(). *)
Malloc(t) ==
    /\ At(t, "idle")
    /\ \E b \in Blocks, s \in Sites :
         /\ tag[b] = Empty
         /\ tag' = [tag EXCEPT ![b] = Untagged]
         /\ origin' = [origin EXCEPT ![b] = s]
         /\ aliased' = aliased \cup Coincidences(b, s)
         /\ Goto(t, [at |-> "tag", block |-> b, site |-> s])
    /\ UNCHANGED <<mapped, known, loaded, scanned, tables, open, shownCount, shown, observed,
                   aborted, stage>>

(* braceletTraceTagAllocation(), with the assertions of setTag(): the slab *)
(* is found and nobody has tagged the element.  Only then does the program *)
(* have the pointer.                                                       *)
TagAllocation(t) ==
    /\ At(t, "tag")
    /\ LET b == pc[t].block
       IN  IF b \in mapped /\ tag[b] = Untagged
           THEN /\ tag' = [tag EXCEPT ![b] = pc[t].site]
                /\ known' = known \cup {b}
                /\ UNCHANGED aborted
           ELSE aborted' = TRUE /\ UNCHANGED <<tag, known>>
    /\ Goto(t, Idle)
    /\ UNCHANGED <<mapped, origin, loaded, scanned, tables, open, shownCount, history, stage>>

(* An allocation of a library that was not compiled with the pass. *)
ForeignMalloc(t) ==
    /\ At(t, "idle")
    /\ \E b \in Blocks :
         /\ tag[b] = Empty
         /\ tag' = [tag EXCEPT ![b] = Untagged]
         /\ origin' = [origin EXCEPT ![b] = Untagged]
         /\ aliased' = aliased \cup Coincidences(b, Untagged)
         /\ known' = known \cup {b}
    /\ UNCHANGED <<mapped, loaded, scanned, pc, tables, open, shownCount, shown, observed, aborted,
                   stage>>

(* From now on no word is a pointer into b. *)
Strayed(p, b) ==
    IF p.at \in {"lookup", "add"}
    THEN [p EXCEPT !.words = [k \in DOMAIN p.words |->
              IF p.words[k].addr = b THEN [addr |-> b, into |-> FALSE] ELSE p.words[k]]]
    ELSE p

(* Mutant: the tag of a free element is kept. *)
ClearedKeeps(b) == tag
(* deallocate() clears the tag; an element whose slab is not found is      *)
(* never free again.                                                       *)
Cleared(b) == IF b \in mapped THEN [tag EXCEPT ![b] = Empty] ELSE tag

(* free() or, when a function returns, braceletTraceAllocaFree(), whatever *)
(* other threads are showing.                                              *)
Free(t) ==
    /\ At(t, "idle")
    /\ \E b \in known :
         /\ tag' = Cleared(b)
         /\ origin' = [origin EXCEPT ![b] = Empty]
         /\ known' = known \ {b}
         /\ pc' = [u \in Threads |-> Strayed(pc[u], b)]
    /\ UNCHANGED <<mapped, loaded, scanned, tables, open, shownCount, history, aborted, stage>>

(* Two threads make the first slabs of a region of slabMap at a time, and  *)
(* one of the region's tables is lost with what is entered in it.          *)
LoseSlab ==
    /\ stage = "run" /\ ~aborted
    /\ \E b \in mapped : mapped' = mapped \ {b}
    /\ UNCHANGED <<tag, origin, known, loaded, scanned, pc, tables, open, shownCount, history,
                   aborted, stage>>

----------------------------------------------------------------------------
(* Libraries.                                                              *)

(* The real dlopen() maps the library and runs its constructors ... *)
Dlopen(t) ==
    /\ At(t, "idle") /\ loaded = MainObject
    /\ loaded' = MainObject \cup Library
    /\ UNCHANGED <<heap, scanned, pc, tables, open, shownCount, history, aborted, stage>>
(* ... and the runtime's rescans before it returns. *)
Rescan(t) ==
    /\ At(t, "idle") /\ scanned # loaded
    /\ scanned' = loaded
    /\ UNCHANGED <<heap, loaded, pc, tables, open, shownCount, history, aborted, stage>>

----------------------------------------------------------------------------
(* Tracing.                                                                *)

(* traceValue(): a pointer or an integer of its size is one word, values   *)
(* below that size are skipped, others are shown in memory.  A buffer has  *)
(* a word in every 8 bytes.                                                *)
Show(t, site, words, size, buffer) ==
    /\ shownCount < MaxShown
    /\ shownCount' = shownCount + 1
    /\ LET edges(into) == {<<site, Occupant(words[k].addr)>> :
                              k \in {j \in DOMAIN words : open[t] /\ words[j].into = into}}
       IN  shown' = shown \cup edges(TRUE) /\ aliased' = aliased \cup edges(FALSE)
    /\ Goto(t, [at |-> "lookup", site |-> site, words |-> words, size |-> size, k |-> 1,
                buffer |-> buffer])
    /\ UNCHANGED <<heap, loaded, scanned, tables, open, observed, aborted, stage>>

TraceWord(t) ==
    /\ At(t, "idle")
    /\ \E s \in Sites, v \in Values : Show(t, s, <<v>>, 8, FALSE)

TraceBuffer(t) ==
    /\ At(t, "idle")
    /\ \E s \in Sites, size \in Sizes : \E words \in [1..(size \div 8) -> Values] :
         Show(t, s, words, size, TRUE)

(* The loop condition of traceBuffer(): idx + sizeof(uintptr_t) < size. *)
MoreWords(p) == IF p.buffer THEN (p.k - 1) * 8 + 8 < p.size ELSE p.k = 1

(* value_to_maybe_node(), which divides addresses by the size of elements. *)
MaybeNode(v) ==
    IF v.addr \in scanned THEN v.addr
    ELSE IF v.addr \in mapped THEN tag[v.addr]
    ELSE Empty

(* Before word k of what p shows. *)
Looking(p, k) == [at |-> "lookup", site |-> p.site, words |-> p.words, size |-> p.size, k |-> k,
                  buffer |-> p.buffer]

Lookup(t) ==
    /\ At(t, "lookup")
    /\ LET p == pc[t]
           v == p.words[p.k]
       IN  IF ~MoreWords(p) THEN Goto(t, Idle) /\ UNCHANGED observed
           ELSE IF MaybeNode(v) = Empty THEN Goto(t, Looking(p, p.k + 1)) /\ UNCHANGED observed
           ELSE /\ Goto(t, [at |-> "add", site |-> p.site, words |-> p.words, size |-> p.size,
                            k |-> p.k, buffer |-> p.buffer, node |-> MaybeNode(v)])
                /\ observed' = IF open[t] /\ v.into
                               THEN observed \cup {<<p.site, Occupant(v.addr)>>} ELSE observed
    /\ UNCHANGED <<heap, loaded, scanned, tables, open, shownCount, shown, aliased, aborted, stage>>

(* Mutant: the table never grows. *)
ResizeNever(t) == FALSE
(* A table grows when it is three quarters full. *)
Resize(t) == Cardinality(table[t]) >= threshold[t]

(* add_edge() of EdgeHashSet.  A growing table marks every edge with the   *)
(* other epoch.                                                            *)
AddEdge(t) ==
    /\ At(t, "add")
    /\ LET p == pc[t]
       IN  /\ IF open[t]
              THEN /\ table' = [table EXCEPT ![t] = @ \cup {<<p.site, p.node>>}]
                   /\ epoch' = [epoch EXCEPT ![t] = IF Resize(t) THEN 1 - @ ELSE @]
                   /\ threshold' = [threshold EXCEPT ![t] = IF Resize(t) THEN 2 * @ ELSE @]
              ELSE UNCHANGED tables
           /\ Goto(t, Looking(p, p.k + 1))
    /\ UNCHANGED <<heap, loaded, scanned, open, shownCount, history, aborted, stage>>

(* The destructor of the thread's table; other destructors may still trace. *)
ThreadExit(t) ==
    /\ At(t, "idle") /\ open[t]
    /\ open' = [open EXCEPT ![t] = FALSE]
    /\ UNCHANGED <<heap, loaded, scanned, pc, tables, shownCount, history, aborted, stage>>

(* The core dump; the process does not go on. *)
Stop ==
    /\ stage = "run"
    /\ stage' = "stopped"
    /\ UNCHANGED <<heap, loaded, scanned, pc, tables, open, shownCount, history, aborted>>

ThreadStep(t) ==
    \/ Malloc(t) \/ TagAllocation(t) \/ ForeignMalloc(t) \/ Free(t)
    \/ Dlopen(t) \/ Rescan(t)
    \/ TraceWord(t) \/ TraceBuffer(t) \/ Lookup(t) \/ AddEdge(t) \/ ThreadExit(t)

----------------------------------------------------------------------------
(* Properties                                                              *)

Nodes == Sites \cup MainObject \cup Library \cup {Untagged}

(* Types; the assertion of add_edge(): a table that has just grown has     *)
(* room; and those of setTag(), which hold unless a slab was lost.         *)
RuntimeOK ==
    /\ tag \in [Blocks -> Sites \cup {Untagged, Empty}]
    /\ known \subseteq Blocks /\ mapped \subseteq Blocks /\ scanned \subseteq loaded
    /\ \A t \in Threads :
         /\ table[t] \subseteq Sites \X Nodes
         /\ Cardinality(table[t]) <= threshold[t]
    /\ aborted => mapped # Blocks

(* A recorded edge was true at some moment between the call that shows the *)
(* word and the lookup, whoever freed, allocated and tagged in between:    *)
(* the word pointed into an allocation of that site, or to that address,   *)
(* or was no pointer and the allocation happened to lie at its address.    *)
(* Untagged says nothing: a lookup may come before the tag.                *)
RecordsTruthful ==
    \A t \in Threads : \A e \in table[t] : e \in shown \cup aliased \/ e[2] = Untagged

(* BraceletReachability.cpp, of full tracing: "Trace indirect callees,     *)
(* arguments, and stores."  A thread about to return from the runtime has  *)
(* recorded what it was shown and is still a pointer to what can be found. *)
ShownRecorded ==
    \A t \in Threads :
        LET p == pc[t]
        IN  p.at = "lookup" /\ ~MoreWords(p) /\ open[t] =>
                \A k \in DOMAIN p.words :
                    p.words[k].into /\ p.words[k].addr \notin Library
                            /\ MaybeNode(p.words[k]) # Empty
                        => <<p.site, MaybeNode(p.words[k])>> \in table[t]
=============================================================================
