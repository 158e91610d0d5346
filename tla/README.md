# Bracelet in TLA+

Bracelet decides whether a vulnerable function of a C/C++ program can be reached. A modified clang
embeds a graph of value-flow edges into every object file; the instrumented program runs, records what it
learns at run time (results of `dlsym`, trace edges), and is snapshotted; offline tools read the edges
out of the core files, compute call graph and points-to sets, and classify vulnerabilities.

This directory holds TLA+ modules that model the parts of it in which order, concurrency, interruption or
representation matter, TLC configurations that check them on small instances, and TLAPS proofs. Paths
below are relative to the repository.

## 1. Inventory

| Component | State it keeps | Operations | Interacts with | Hard behaviour | What makes it correct |
|---|---|---|---|---|---|
| dlsym runtime `src/BraceletReachability/dlsym_runtime.c` | per call site, a list of pages with a count and 2046 slots | insert after each `dlsym()` | called by code the LLVM pass inserts; read from core files | lock-free by several threads, frozen anywhere, address reuse | nothing lost, leaked or stored twice; the reader ends and sees exactly what was recorded |
| edge hash set `src/Tracing/Runtime/edge_hash_set.h` | per thread, an open-addressing table in a mapped file | `add_edge`, growth by rehashing in place | called by the trace runtime; file read by PointsTo | killed or copied between any two stores; resize in place; late calls after destruction | file holds all recorded edges; each edge reported new once; loops end |
| ELF segment cache `src/Tracing/Runtime/elf_segments.cpp` | atomic pointer to an immutable set | `rescan`, `pointerIsInElfSegment`; `dlopen`/`dlclose` wrappers in `exports.cpp` | loader (`dl_iterate_phdr`), trace runtime | compare-and-swap races of scans of different age | cache only grows, is never ahead of the loader, holds what a returned `dlopen` loaded |
| tagging allocator `src/Tracing/Runtime/vhmalloc.cpp` | per thread 26 pools of slabs, free lists, tags; a shared two-level slab map | malloc, free, set tag, look up | the program, trace runtime | pool locks against a map without one; frees from other threads; random placement | counts and lists exact; a tag per live element; lookup finds what was allocated |
| trace runtime `trace_runtime.cpp` | none of its own | `traceWord`, `traceBuffer`, tag allocation | the three above | stale lookups; last word of a buffer | the edge recorded names the object the word points into |
| edge codec `src/Edges` | writer: symbol and string tables, locals, edges; reader: cursors | add edge, finish function, write; read | LLVM pass; all readers | shared running delta, 32-bit wrap, 16-bit locals, arrays split by counts | what is read is what was written |
| LLVM pass `src/BraceletReachability/BraceletReachability.cpp` | per module maps of values to nodes | visit each instruction, instrument | codec, runtimes | one edge kind per instruction kind | every flow of a pointer has its edge |
| object parsing `src/ObjectParsing` | section and segment tables | resolve pointers, copy data, visit sections | readers | overlapping files, relocations | a read returns what the process had |
| bracelet-edges `src/bracelet-edges/bracelet-edges.cpp` | open fact files | visit edges, print | codec, scripts | symbols recorded twice, call sites per compilation unit, errors in the middle | a directory is that of the last record, complete |
| points-to `src/PointsTo` | argument counts, node tables, trace | emit C for SVF, check trace | codec, SVF, trace files | merging of argument counts, unresolved nodes | points-to sets cover what was traced |
| older points-to `src/bracelet_scripts/points_to` | dictionaries | same in Python | SVF | as above | as above |
| runtime format `src/RuntimeFormat` | none | generate readers, simplify traces | runtime, readers | the epoch bit of a trace site | one record per edge |
| Datalog call graph `bracelet_reachability/gen_rules*.py`, `overrides.c`, ... | relations | rules | souffle | fixpoint, overrides | call graph closed under the rules |
| rule runners `run_rules.py`, `run_it*.py` | facts and output files, cached binary | run, time out, rerun | souffle | interrupted runs, appended files, timeouts | outputs are those of one complete run |
| queries `cg_lib.py`, `cg_slice.py` | graph | path from main | triage | cycles | a path is reported iff one exists |
| triage `entrypoint.py`, ... | list of vulnerabilities | filter, merge, report | all of the above | merge order, shared records | reachable wins over unreachable |
| snapshots `snapshot_handler.py`, `run_base/snapshot.py` | process list, dead set | dump, archive | gdb, ecfs | processes that exit in between | every live process is dumped once |
| utilities `Subprocess`, `tempfile`, `Result` | none | spawn, clean up | tools | none | - |

`PROJECT.json` has the same list with a status for each, and the hazards, each at its line.

## 2. What is modelled

| Module | Models | Abstract specification |
|---|---|---|
| `DlsymPages` | the dlsym page list, the snapshot, the reader of the frozen list | `DlsymLog` |
| `EdgeHashSet` | the hash set in the trace file | `TraceSet` |
| `ElfSegments` | the segment cache and `dlopen` | `LoadedObjects` |
| `VhMalloc` | the allocator, tags and the slab map | - |
| `EdgesCodec` over `WordCoding` | the writer of edge files, the file, its reader | `EdgeGraph` |
| `PassEdges` | the LLVM pass's visitor, the C code written from its edges, and the run of the program | the run: what pointers it really has |
| `PointsToEmit` | the points-to generator: two passes over the edges, the work directory, the result file | the join of all that edges say of a symbol |
| `TraceRuntime` | trace points, tags and tables of a traced program | the history of what the program showed |
| `TraceCheck`, which extends it | the core dump and the check of traces against points-to sets | the same |
| `FactsFiles` | `bracelet-edges`: relocations, names, fact files, call sites | the records of the object |

`TraceRuntime` composes three of the components by what they promise: the segment cache is `scanned`, the set
of `LoadedObjects`; the allocator is a tag per block, cleared by `free`; the hash set is a set per thread that
answers as `TraceSet`, with its epoch bit. What the allocator does not promise is there too: a slab may be lost (`LoseSlab`, the
finding `vhmalloc_tag`), after which its elements are not found, not freed, and fail the assertion of `setTag`. `TraceCheck` composes the traced program with its checker. `PassEdges`
composes pass, generator and solver. An arrow of the pipeline that no module crosses is the file between pass and generator:
`EdgesCodec` is that arrow.

The grain is one shared access per action. Local computation between two accesses is merged into the
access before it; the locals of a call are reset when it returns, so that states do not differ in dead values.
History variables (marked in the modules) appear in no guard. Definitions whose comment begins with "Mutant:"
are plausible bugs; no specification uses them, and each property is known to fail when one of them replaces
the definition it stands before.

### `DlsymPages`

Per thread, `pc` is the place in `braceletReachabilityDlsymPageInsert`: `load` (`atomic_load` of `*Dst`),
`claim` (`fetch_add`, and the test of its result), `store`, `map` (`mmap`, `memset`, link), `cas`, `unmap`.
A page is an address; `mapped` says which are mapped, `MapPage` may return any address that is not, so
the ABA case is there. `MapFails` is the `perror`/`abort` path. `Freeze` stops all threads where they are, as
gdb does, and `ReadPage` is one turn of the loop of `bracelet-edges`: the count capped at the capacity,
all slots below it, then `next`. The memory orders (acquire/release on `*Dst`, relaxed in pages) are not
modelled: gdb stops every thread before it reads memory, so the reader needs no ordering, and inside the
process a thread reads of a page only its `count`, by atomic read-modify-write, after an acquire of the
pointer.

The refinement to `DlsymLog` says that a record takes effect at its store, and that the finished walk of a
frozen list yields the log, no more and no less (NULL results excepted, which point nowhere).

### `EdgeHashSet`

One thread owns the table, so calls are sequential. What is interleaved is the outside: every action leaves a
state of the file that a reader may find. `Add` begins a call; `Probe` is the loop of `add_edge` up to its
store; `Grow` is `ftruncate` and `mremap`; then, slot by slot, `SkipSlot`, `StampSlot` (the edge is marked
with the new epoch where it lies), and according to where its sequence leads `Stay`, `BeginSwap`/`EndSwap`,
or `CopyEdge`/`ClearSlot`. `EndGrow` sets the threshold. `Close` is the destructor; calls after it (`AddClosed`)
return false. The hash of an edge is an arbitrary value, chosen in `Init`, so collisions of every kind occur; the
index sequence is the code's, with its four-beat of three increments and one mix, over a small permutation
instead of Murmur's finaliser, which is one on 64 bits.
A 16-byte slot is stored in one step: a torn edge is not modelled, nor is a failing `ftruncate`, which aborts.

`FileKeepsEdges` allows one edge to be missing while `std::swap` has it in a register. The code's comment
("TODO: if the process exits right here, we'll have lost edge", `edge_hash_set.h:153`) stands after the
swap, where the other edge is already in the slot being rehashed: at that point nothing is missing. The one
moment at which something is missing lies inside the swap.

An index sequence has `Attempts` attempts (1024 in the code) and no guarantee to reach every slot: with 2048 slots it cannot. When
all its slots are taken by other edges, the loop ends at `assert(0)` (line 89), and `Exhausted` is that state. `AssertionsHold` says
that the assertion after a resize (line 63) never fails, and this one only when the sequence visits no more slots than there are other edges in the table, which the
load limit of three quarters makes a matter of the hash and of nothing else: no stale stamp, half-done swap or earlier eviction can bring
it about. `AddReturns` accepts that end. How probable it is, the model does not say. The instance has 4 attempts, so that both
happen: sequences that reach their slot, and exhausted ones.

### `ElfSegments`

A pointer to a set is modelled as the position of the set in the sequence of all sets that were ever current.
That is exact because replaced sets are leaked, never freed, so an address never comes back. An object stands
for its `PT_LOAD` segments, and the 128-bit hash of a set for the set (no collisions). `dlopen` loads
one object or fails; library constructors that trace inside it run between `Dlopen` and `LoadOld`, where
other threads may run as well, so what they may see is covered by what another thread may see.
`UINTPTR_MAX` is refused before the cache is read.

### `VhMalloc`

What a pool's lock protects happens in one action (`Pick`, `Deallocate`), except for the way through
`allocateSlab`, where the slab map is touched: `NewSlab` (slab header, counts, `mmap`, read of
`slabMap[offset]`), `MapRegion` (store of a new table), `MarkSlab` (the entry in the table and the lists). The
choice among free elements is any offset, since `rand_r` may give any. Tags are set after `malloc` returned
(`SetTag`), without a lock, by instrumented code only (`Return` is the other case). Bounds: one size class (so one
pool per thread), one page per slab, lookups in one step, threads that do not exit and no `malloc` inside
`malloc`. `free_tail` is written and never read in the code, and left out. There is no fairness and no liveness:
a `pthread_mutex` promises none.

### `EdgesCodec`

`WordCoding` is the arithmetic on words, for words of `2 * Half` values (2^32 in the code). `EdgesCodec` has the writer, one graph
(one comdat group) and in it one function at a time, as `has_active_function_writer` asserts: `BeginFunction`
is the constructor of `FunctionWriter`, `Symbol` is `GraphWriter::symbol` of a new global, then `FreshLocal`,
`AddEdge`, `Finish`; `WriteTo` puts the graph into the object file. `words` is `function_data`, word for
word. The reader takes `words` apart with the tests of the code (`Readable`, `Decodable`), each of which
leads to `failed`, then visits the edges of one kind after the other: a callback may visit fewer
kinds, in any order, and each visit has its own running value, so this one sees all that any other sees. The sort in `finish` uses a comparison that is no strict weak ordering, so `Finish` takes
any order of the edges. A `Node` of the writer is a word (`Raw`, by `PackSymbol` and `PackLocal`) of which `encode_node`
takes the parts (`SymbolOf`, `LocalOf`); the lower field has `LocalSize` values (2^16), and `MaxLocals` is the limit that
`Node::local` asserts. With assertions off, a function of more locals would run into the symbol: outside the model. A symbol
fits its 48 bits, since it is below `Half`. The nodes that the reader reports are pairs. The count of
allocas is any number up to that of the locals, as the pass passes it.

Taken as given: zstd and streamvbyte return what they were given, the linker resolves a symbol to the global
it names, and graphs in a section are found one by one. Of a bill of materials with an empty component or version (a function's file may have one in the
table passed to the pass) the reader reports none (`Reader.cpp:416`): `Known` says so in
the description that is compared, so `ImplementsGraph` holds up to that.

### `PassEdges`

A program is a record of functions, each a sequence of instructions with operands that are registers,
arguments, symbols, data, or constant aggregates. `VisitGlobals`, `EnterFunction` (the constructor of
`EdgeVisitor`: allocas, the va_list of a variadic function, parameters), one action per kind of `visit*` method and
`FinishFunction` run the pass over it; `writer` is the `FunctionWriter` with the map `Locals`. `NodeOf` is
`node()`, and makes a local on first use, so the order in which operands are looked up decides the numbers as it does
in the code. The constructors of `Edge` assert that there are two nodes (`Whole`): a null constant as an operand of `memcpy`, `va_copy` or as callee stops the
pass (`asserted`). An aggregate constant in an aggregate is flattened: the code gives it a node of its own, which is assigned to the outer one, so what
flows in is the same; an aggregate without pointers has no node, and is data here.

After a call of `dlsym`, the pass inserts one of `braceletReachabilityDlsymPageInsert` behind it. Whether the visitor then visits that call, and gives
it edges, is decided by LLVM's `InstVisitor`, which is not in the repository. Comments at two such places (`BraceletReachability.cpp:517` and `:523`) say that inserted
calls are visited; `InstVisitor` as released steps to the next instruction before it visits one. `VisitCall` allows both (`VisitInserted`),
so `FlowsCovered` does not depend on the answer. `WriteC` is the generator, which refuses a conflict of argument counts. The C code is the set of copies between
its variables (`Copies`), a line of `templates/c.txt` each, and `Propagate` is a round of an Andersen analysis over
it; the analysis, SVF, is external. Then the program runs (`Run*`): any instruction of a function that was called may
execute next, which is more than control flow allows and all that a flow-insensitive analysis may assume.
A call through a pointer happens only if its type is the callee's, or has no prototype and passes what the callee takes (`CallDefined`); any other is undefined in C.
`FlowsCovered` compares the two, at every moment of the run, for every register and memory cell. It is the
statement `checkPointsToAgainstTrace` tests on one recorded run, and what `doc/src/points-to.md:130-132` claims of the emitted C code.

`ProgramsAssumption` is what LLVM's verifier and linker guarantee: operands are constants of known symbols, registers or arguments;
the results of two allocas differ; `va_start` stands in a variadic function only; a call has as many arguments as its type asks.

Left out, because the code leaves them out as well and the run would be uncovered: inline assembly that yields pointers,
intrinsics other than those modelled, and calls through a pointer with a number of arguments that the callee does not have.
`malloc` is called directly; the other overrides are not in the model. Files, SBOM data and debug names have no part in the flow.

### `PointsToEmit`

One run of the tool after the other. `VisitEdge` takes the edges of a description in any order, though the
reader has one, since hash tables and the sort of the writer decide it. Its effects are calls of `setNargs`,
each an action (`SetNargs`), so a refusal may come between any two of them. `WritePrelude` ends `initial_pass`; `WriteFunction` writes a C file per description and
`WriteMissing` what is left of `declared_functions`. A C file is the pair of the run and of the description it was written from;
files of earlier runs stay if `--tmp` names the directory (`kept`). `Make` and `PointsTo` are external commands that may
fail. `SavePts` is the condition of `main()`. An object says nothing else than its edges and names; there is one override.

### `TraceRuntime` and `TraceCheck`

A thread calls into the runtime with one or several words at a site (`TraceWord`, `TraceBuffer`); between the lookup of a word
(`Lookup`) and the store of the edge (`AddEdge`) other threads allocate, free, tag, load libraries and record. The runtime gets words, not pointers: it divides any address in
a page of a slab by the size of the elements (`getElementIndex`, `vhmalloc.cpp:162-172`) and reports the tag of the element that the address falls into. So a
word is modelled as an address with a flag that the runtime does not see (`into`): whether it is a pointer into the object that lies there.
The address is given by the element or symbol it falls into. Words without the flag may have any address at any time; they stand for a legal pointer one past the end of the element
before, a pointer to memory that was freed (by value, in an aggregate, say), and an integer that equals an address. Element sizes are powers of two
and slabs are whole pages, so every address in a slab's pages falls into an element and the assertion of `getElementIndex` cannot fail.

`Free` has no guard but that the program has the pointer: other threads may be showing it, and the words they show stray from then on (`Strayed`). An element may be freed, reused and
tagged anew between the moment a thread shows a word, the lookup and the store. `LoseSlab` takes a slab out of the map; `TagAllocation` has both assertions of `setTag` (lines 362 and 365).
`ForeignMalloc` is an allocation of code without instrumentation, whose tag stays `UINT64_MAX`; tagging NULL is left out. `Dlopen` maps a library and runs its constructors; `Rescan` follows at any later time.
`ThreadExit` destroys the table while trace points of other destructors may still come.

`tag` is what the allocator has. The history variables say what is true of the program: `origin` whose allocation is in a block; `shown` the edges of pointers that were
shown; `aliased` the edges that other words had by their address, at some time between the call that shows them and the lookup; `observed` those edges of pointers that the runtime
found. `RecordsTruthful` says that a recorded edge is of `shown` or `aliased` (or its target is the tag of an untagged allocation): nothing recorded names a
former owner of a block that was gone before the word was shown, a library that was not loaded, or another site. It is the
reason why tags and segments may be read without a lock.

`TakeCore` stops the program where it is, and gives the check each entry of each table with its epoch bit.
`ReadEntry` is one turn of the loop over entries, in any order, and `Conclude` the result. `VerdictExact` relates the verdict
to what the program did. Success means that every edge found and written before the dump is static. An edge reported missing was one of the program's pointers, or one that another word had by the
coincidence of its address: a false alarm is possible, of this kind and of no other. What a thread was about to record when the core was taken, and what the runtime could not find, may be missed.
The static relation of the instance has all edges that the check may compare but one, and a site that the core dump does not list leads to an error, as in the code. Threads are symmetric.

### `FactsFiles`

`Work` is all that `mainResult()` has to do for the object and `at` how far it is: per graph, the resolution of its pointers
(`LoadSymbols`), and per record `EnterFunction`, its edges in any order (`VisitStaticEdge`, `VisitDlsym`) and `ExitFunction`; then trace sites, labels and inlined
subroutines of each DWARF unit. An address is a number and a pointer a symbol with an addend. `RelocateSymbol` adds the addend and gives the result
the symbol's name unless it has one (`StaticObject.cpp:276-295`), so addresses inside one symbol share its name (`Test.cpp:81-93`), and local functions that the object refers to by section and offset have the
section's. An address outside the section fails a `CHECK` (line 283) and aborts the run. External symbols get addresses in a section that does not exist, whatever the addend.
`NamesRight` says what is left of uniqueness: every resolved pointer has a name, and a name is that of a symbol from which a pointer that was read leads to just this address.

In a core dump each `Dlsym` edge has a page pointer of its own, which leads to a list of pages (`prog.pages`); the assignments are those of its own list. A list may become unreadable
in the middle: the assignments up to there are written, then the run fails, without the line of the edge itself; a page pointer that is a local fails before any line.
A directory has one field per table that matters: edges of all kinds,
what is said of nodes (`IsAlloca`, `IsSymbol`, `EnclosingFunctionForLocal`, `DebugTable`), SBOM, instructions, call sites, inlined
functions. A visit that fails for want of a name leaves some lines of its last edge in the code, and none here: that edge stays in `todo`. `Starred`
and `ValueName` are formatting of the nodes described. DWARF units and line tables are given by the program; so are names that lldb finds. `ProgramsAssumption` is what compiler, linker and
the dlsym runtime guarantee of an object: functions that are described are defined, the nodes of a record are pointers of a graph before it,
addresses lie below `ExternSection`, a core dump resolves every symbol, and slots of a page above its count are NULL.

`CallsitesKept` says that a file of call sites or inlined functions is one unit's, whole. It accepts that a second unit that has the same function truncates what the first one wrote; that
loss is in the code, and the property says no more than that it is never a partial one or a mixture.

`AddressMap` follows the code where `--pretty-edges` meets labels: the visitor still has the function entered last and
debug data of a buffer that was freed when `readEdges` returned, so the run may abort (`printDebugNode`) or, if all labels are of that function, go on.

## 3. What the runs check

| Run | Instance | States | Shows |
|---|---|---|---|
| `dlsym_pages` | 2 threads, 2 calls each, 3 addresses, pages of 1 slot | 284 478 | type and memory safety; `PagesOwned` (each mapped page is in the list or has one owner), `SlotsOwned` (claimed slots are filled or about to be), `NoPageAbandoned`; calls return, the reader ends; `DlsymLog` is implemented |
| `edge_hash_set` | 4 edges, hash values {0, 3, 4} of 0..7, table of 2, growing to 8, 4 attempts | 399 717 | `FileKeepsEdges`, `Findable`, `AssertionsHold`; calls return or exhaust their attempts; `TraceSet` is implemented |
| `elf_segments` | 2 threads, a program and two libraries | 104 997 | `StrictGrowth`; calls return; `LoadedObjects` is implemented |
| `vhmalloc` | 2 threads, 3 slabs of 2 elements, 2 regions, 1 tag | 1 194 384 | `PoolsExact`, `HeldExact` |
| `edges_codec` | 2 functions in 1 or 2 graphs, 1 local each, 2 edges in all, 2 kinds of edges (2 and 3 components), words of 2 bits (`LocalSize` is 2) | 8 263 745 | type (a number stored is a word); `ReadsAll`; `EdgeGraph` is implemented |
| `vhmalloc_tag` | the same | - | a violation of `TagFindsSlab`, see below |
| `pass_edges` | 609 programs: 2 functions, up to 7 instructions each, a global with an initializer | 111 010 | `FlowsCovered`; `SuppliesDeclared` and `AllocasNumberedFirst` (what the C template relies on) |
| `points_to` | 11 objects, an override, 2 runs with every choice of options | 176 977 | `InitialPassIsJoin`, `BodiesCompile`, `MissingExact`, `PtsAreCurrent` |
| `points_to_stale` | the same | - | a violation of `MissingStayExtern`, see below |
| `trace_check` | 2 threads, 1 block, 2 sites of which the core dump lists one, a library of 1 address, a table of threshold 1, 1 word or buffer shown in all, buffers of 20 bytes | 3 146 307 | `RecordsTruthful`, `VerdictExact` |
| `trace_buffer` | the same with buffers of 16 bytes | - | a violation of `ShownRecorded`, see below |
| `facts_files` | 2 functions (one also by section and offset) in 2 graphs, one recorded twice, addends inside and outside sections, static or core dump, 2 dlsym sites with lists of 0 to 2 pages of which one may be unreadable, 1 or 2 units, pretty names or not | 65 336 | `NamesRight`, `LastRecordWins`, `NodesDescribed`, `CallsitesKept` |

Why the bounds are enough to meet the cases: pages of one slot make every second insertion map a page, so
two threads lose races, give pages back and reuse addresses; more slots only lengthen the way there. Four edges
in a table with threshold 3/4 force two resizes, with evictions in both; hashes 0 and 4 collide in tables of
two and four slots and part in one of eight. Two libraries allow a rescan to lose a race, to win the next, and to
find a set equal to its own. Three slabs of two elements, one always kept free, give a thread two
slabs, of which the older may become full and free again in the middle of the list, while the other thread
frees into it. Two regions give the map shared and separate tables. In words of two bits, the numbers of two
symbols and a local take all values, so differences wrap; two edges of one kind share a running value, and of two
kinds must not; a second function in the graph, or a second graph, finds every cursor where the first left it.
The two globals are symmetric.

The programs of `pass_edges` are of five families, each a frame with places at which each of several instructions is tried:
memory (stores, loads, copies, aggregates), calls (direct, through a pointer, without prototype), two arguments, variadic
functions, and `dlsym`. They have every instruction kind, pointers that travel through a chain of four variables, and calls
that the generator refuses. The objects of `points_to` conflict in argument counts, in kind (stored to and called), agree in
all ways, are described twice, and override or call `malloc`; two runs suffice for a directory with a past. In `trace_check` one block is freed, allocated and
tagged anew by the other thread while a thread is before a lookup or between lookup and store; a word without the flag at its address is at the same time the pointer past the end of a neighbour, the dangling pointer and
the number. One word or buffer suffices for that: what comes later only adds to tables. A buffer of 20 bytes has two words, both within the loop bound, so a table of threshold 1 grows, and both epochs
appear. `edge_hash_set` has 4 attempts for tables of up to 8 slots. The graphs of `facts_files` lie in one section or two, so
external symbols are numbered by one read or two, in both orders; two page pointers make it visible whose pages an edge gets.

Deadlock is checked in `elf_segments`. The other systems may stop: calls are bounded (`dlsym_pages`), a closed
table or a full one ends additions (`edge_hash_set`: additions that would exceed `MaxCount` are not begun), slabs are
bounded and an assertion may have ended the process (`vhmalloc`), the reader ends with the file (`edges_codec`), and the
tools end with their result (`points_to`, `trace_check`, `facts_files`) or a program with its last instruction (`pass_edges`).

### Fairness

`DlsymPages` and `ElfSegments` assume that a thread inside a function is scheduled again (weak fairness per
thread), as any preemptive scheduler does. Both loops are lock-free, not wait-free: `CallsReturn` of
`DlsymPages` holds because the number of calls is bounded, so a thread cannot lose races forever; that
of `ElfSegments` holds without such a bound, because every lost race means that a larger set was published and
there are finitely many objects. `EdgeHashSet` assumes that the owner of the table keeps running.
No fairness is assumed of calls, snapshots or deaths. The pass and the tools are sequential programs without a loop that waits, so
termination says nothing there and no liveness is stated.

### Findings

`vhmalloc_tag`: two threads that make the first slabs in one 1 GiB region both read NULL from `slabMap`, both
map a table, and the later store (`vhmalloc.cpp:109`) replaces a table in which the other thread enters its
slab. Pool locks do not exclude this, since each thread has its own pools. `getSlab` of the slab then returns NULL;
`setTag` asserts the contrary (`vhmalloc.cpp:362`) of a pointer just allocated. `HeldExact` shows the rest
of the damage: elements of a lost slab are never free again, and nothing else goes wrong.

`trace_buffer`: the loop of `traceBuffer` (`trace_runtime.cpp:38`) runs while `idx + 8 < size`, so the last word of an aggregate
whose size is a multiple of eight is never looked at, though the pass asks for arguments and stores to be traced
(`BraceletReachability.cpp:89`). Traces are a lower bound for the check, so it stays sound: it misses unsoundness there. With 20
bytes, `ShownRecorded` holds.

`points_to_stale`: with a `--tmp` directory that an earlier run with `--conservative` used, a run without it links the bodies that
were synthesized then, and reports the functions missing at the same time; `doc/src/points-to.md:229` says they remain extern. `svf.Makefile:1` takes `*.c`.

Other disagreements, met while modelling and not stated as properties:

* `doc/src/points-to.md:293` and `:315` say that `--trace-dir` implies `--save-pts`. `main.cpp:64` does so only with `--tmp`; without both, the tool runs SVF and then
  fails with "Cannot open points-to results". `SavePts` and `LoadPts` have that.
* `doc/src/points-to.md:182-184` speaks of the maximum of the argument counts; `setNargs` refuses different ones (`PointsTo.cpp:199`), which is
  what `InitialPassIsJoin` states.
* `emitC` writes `globals.c` (`PointsTo.cpp:331-346`) and `writeFunctions` truncates it (`:208`); only the second text counts.
* `bracelet-trace-simplify.cpp:16` compares sites with their epoch bit, which `tracing.py` and the check mask, so an edge may be kept twice.
* `doc/src/points-to.md` calls any edge "witnessed dynamically but absent from the static result" unsoundness in the pipeline. The runtime may witness an edge that the program never had:
  a pointer one past the end of an allocation that fills its element falls into the next one (`vhmalloc.cpp:162-172`). `VerdictExact` states what remains.
* A comment at `edge_hash_set.h:153` and comments at `BraceletReachability.cpp:517` and `:523` are discussed in section 2.
* A NULL slot in a dlsym page is an assignment from symbol NULL in `bracelet-edges`, and skipped by `templates/c.txt:110`; with
  `--pretty-edges` it fails the run.

## 4. What is proved

For all values of the constants, under the `ASSUME`s in the modules (which TLC evaluates in the runs):

* `DlsymPagesProofs`: `TypeCorrect`, `PagesAreOwned`, `SlotsAreOwned`, `PagesAreFilled`, and
  `PagesImplementLog`, the refinement of `DlsymLog`.
* `ElfSegmentsProofs`: `TypeCorrect`, `SetsGrow`, and `SegmentsImplementObjects`, the refinement of
  `LoadedObjects`.
* `EdgeHashSetProofs`: `TypeCorrect`, `FileCorrect` (`FileKeepsEdges`), `FindsEdges` (`Findable`), `NoAssertionFails` (`AssertionsHold`), and
  `ImplementsTraceSet`, the refinement of `TraceSet`; for any edges, hash function, permutation, sizes and number of attempts, without a hypothesis about
  the index sequences. `NoAssertionFails` therefore does not say that attempts suffice, which is false for some hash functions; it says that they are exhausted only when every slot the sequence leads to is taken by another edge.
* `VhMallocProofs`: `TypeCorrect`, `PoolsStayExact` (`PoolsExact`) and `HeldStayExact` (`HeldExact`), for any number of threads, slabs, regions
  and tags, and any size of slabs.
* `SoundnessProofs`: `PointsToSound` (`FlowsCovered`), that points-to sets computed from the edges of the pass cover whatever a
  program does, `SuppliesWithinCalls` (`SuppliesDeclared`), `AllocasFirst` (`AllocasNumberedFirst`) and `PassTyped` (`TypeOK`), for any program that `ProgramsAssumption` allows;
  `Truthful` (`RecordsTruthful`) and `Exact` (`VerdictExact`), that what is recorded or reported as missing was true of a word while it was shown, if only by coincidence of addresses, and that success means no edge found and written is lacking,
  with words of every kind, frees at any time and lost slabs, for any number of threads, sites, blocks, sizes, and `AssertionsHold` (`CheckTypeOK`: `setTag` fails only after a slab was lost).
* `ToolsProofs`: `PassJoins`, that the initial pass of the generator joins or refuses, for any objects and overrides; `TypeCorrect`, `Compiles` (`BodiesCompile`),
  `ExactMissing` (`MissingExact`) and `CurrentPts` (`PtsAreCurrent`), of the second pass and of the directory it leaves, over any number of runs. `Compiles` is about
  the C files that a run wrote from a description, and `CurrentPts` about the relation that a run loads; files that earlier runs left in the directory and that `make` links as well are covered by neither (finding `points_to_stale`).
  Of `bracelet-edges`, for any object: `FactsTyped` (`FactsTypeOK`), `SymbolsNamed` (`NamesRight`), `LastWins` (`LastRecordWins`), `NodesAreDescribed` (`NodesDescribed`) and
  `UnitsKept` (`CallsitesKept`).
* `DataInduction`: no theorem about the system, but what proofs about recursive functions need. The library's induction
  theorems take a predicate as a parameter, which the provers cannot instantiate; here induction is over sets of numbers (`NatSetInduction`) and
  recursion over steps given as functions (`NatRecursion`, `BoundedRecursion`), both derived from the well-foundedness of strict subsets of finite sets.
  `Trail` and `Pow2` of `EdgeHashSet` and `FreeList` of `VhMalloc` are functions that return functions for this reason.
* `EdgesCodecProofs`: `ZigzagRoundTrip` and `DeltaRoundTrip`, by cases on the sign; `NodeRoundTrip` (the parts of a packed node are what was put in); `CodecInvariant`, `NothingRefused` (`ReadsAll`), `TypeCorrect`
  and `GraphImplemented`, the refinement of `EdgeGraph`; for any width of words, any kinds of edges (at least one), any globals, names and bills of
  materials, any bounds. `FitsAssumption` is what `as_u32` asserts of the lengths of tables (`Writer.cpp:60`), and that twice
  an index of a symbol fits a word, which `encode_node` relies on and nothing asserts: an object would need 2^31 of them. Of locals, `LocalSizeAssumption` says so (2^16 is at most 2^31). TLC evaluates, on all words
  of the instance, that the definitions agree with the shifts and exclusive ors of `Encoding.h` (`ZigzagIsTheCode`) and with the masks of `Edges.h` (`PackingIsTheCode`).

The argument for the page list. `PagesOwned` alone is not inductive: that the winner of the compare-and-swap
continues the list rests on what it put into its page before, and that a count stays above the capacity rests
on who may still reset it. The invariant `Inv` therefore says how the list is linked (`ListLinked`: along `next`,
the pages are `published` in reverse), what a thread knows of its local pages at each place (`LocalPages`: the
page it saw full is full, its own page is empty and links to the head it expects), and for each slot who fills
it (`SlotsExact`). Page addresses may be reused, yet a published page is never unmapped, so an expected
head that is still the head is the same page: this is where ABA is excluded. For the refinement, `ReaderOnList`
says that the reader stands before some page k and has emitted exactly the slots of the pages after k in
publication order (those in front of it in the list). The step at which the walk ends maps to the one step `Recover`, all
others to a stutter.

The argument for the cache. `RescanOK` records that a scan holds everything the set behind `old` held: `old` is
loaded before the scan. When the compare-and-swap succeeds, `old` is still current, so the new set contains the
current one, and differs from it by the comparison. `StrictGrowth` follows, and with it that an object
loaded by a thread's own `dlopen` is known when its rescan returns, whichever way it returned.

The argument for the initial pass. The property speaks of the end; during the pass, `Said` is the set of facts that the descriptions before
the current one, and the visited edges of it, have stated. `SaidIsJoined` says that all of it except the calls still to be made is below
`node_states`, `StatesSaid` that `node_states` holds nothing else, `CheckedSaid` that a node whose name will not be looked
up again had its override stated, and `Reading` that the running maximum of argument numbers is that of the visited edges.
A fact is stated when its edge is visited and true of `node_states` once its call is made; at the end `Said` is all the object says (`JoinReached`),
and a refusal exhibits two facts of it in conflict.

The argument for points-to sets has three stages. While the pass visits and has not stopped at an assertion (then nothing follows), `VisitInv` says of every function entered that its writer is `Numbered` (two values
never share a number, new numbers are above old ones) and that for every instruction visited the edges between the nodes of its operands are
there (`Done`). Neither is disturbed by what is visited later, since a writer only grows (`Grows`): this is what the lemmas on `NodeOf`, the loops over operands and
`FreshLocal` are for, and the induction over the loops needs `DataInduction`. `AllocasNumberedFirst` follows from the constructor alone being able to number allocations. Once all is visited, the
generator has compared argument counts (`Agreed`), the sets are `Seeded` with what symbols and allocations are, and when solved `Closed` under every edge; of
Andersen's fixpoint nothing else is used, so any sound solver will do. While the program runs, `RegSafe`, `MemSafe` and `PendingSafe` say that registers, cells and the results
of calls that wait lie in the sets; each kind of instruction takes safe values to safe values, because its edges are `Done` and the sets `Closed`. A call is the hard case: the number of a supplied argument is that
of the callee's type, the last one of a variadic call stands for all further ones, and the generator's refusal is what makes both ends agree.

The argument for traces. `TagsRight`: of every block in the slab map, the tag is that of its origin, or `UINT64_MAX` if nobody has tagged it yet; of a block the program has a pointer to it is the origin's.
Words being shown are not assumed to stay what they were: `StrayedIs` follows what `Free` makes of them, and only those that are still pointers lead to live blocks (`HeldAll`). `Due` says instead that for each word not yet looked at, the edge from its
site to whatever lies at its address now is in `shown` or `aliased`: `Show` puts it there, and so does every later allocation at that address (`Coincidences`). A lookup finds what lies
at the address or nothing (`WhatLiesThere`), so the edge it yields is one of those, and as the histories only grow it stays one (`StaysJustified`, `SeenStays`), whoever frees or reuses the block
before it is stored. `Seen`: tables hold such edges, and every edge in `observed` is in a table or is about
to be added by the thread that observed it. Losing a slab only makes lookups find less (`LossStep`); that `setTag` asserts only after such a loss is `AssertedLoss` and `AssertedHeap`. After the core dump, `Checked` says that the entries still to be read and those
compared together are the tables, that `missing_edges` are exactly the compared ones that are comparable and not static, and that no site was unknown so far; the verdict follows.

The argument for the hash set. A slot is `Settled` when its edge is stamped with the current epoch and not in the middle of a move. A settled edge is
led to by its sequence over settled slots (`Leads`), and that is kept: `resize_insert` passes only settled slots, and a settled slot is
not written again before the table grows. When the loop over the slots is through, all are settled, which is `Findable`. Edges that are not settled need not be
findable, only present (`FileKeepsEdges`): two copies exist only while `CopyEdge` has written one and `ClearSlot` not yet removed the other, and one edge is in
no slot only during a swap. Counting (`inserted` is the number of occupied slots) gives a free slot in the table whenever one is looked for; an index sequence that ends without one has met a
settled slot of another edge at each of its places, and these are at most as many as `inserted` counts.

The argument for the allocator. What `FreeList` computes by following links is said without recursion by `Lists`: in the set of slabs on the list, `head` is the highest,
`free_next` the next lower one and `free_prev` the next higher one. `LinkIn` and `LinkOut` keep that for an insertion in front and a removal
anywhere, `FreeListIs` recovers the sequence. A slab being made is its maker's alone until it is linked (`Making`, `Fresh`), and its table of the map is either read by all or
lost to all: `Lost` is stable. The tag of an element is changed only by the thread that has it in hand or by `Deallocate`, under the lock of its pool, so `HeldExact` needs of
other threads only that no element is in two hands.

The argument for the codec. `ReadsAll` needs to know what the words still to be read are, so `CodecInv` says what they encode: `written` is `reported`, then the
function being visited, then those left in the open graph, then those in the section, then those of the graph being written; each part describes the words
that hold it (`Visited`, `FrameHolds`, `SectionHolds`, `Filed`). A function's words are described relative to tables that still grow: tables are
appended to, never changed, so what words say stays said (`DescribesMore`). Words are taken off a flattened sequence by `Rest` and `Stretch`, whose lemmas say that after n edges what is left
is the encoding of the other edges (`RestStep`), whose first word differs from the running value by what `DeltaRoundTrip` undoes. Edges are a bag in the description and a sequence in
the file: `Tally` is the bag of the first n edges as decoded, `TallyStep` adds one, and `SortedSays` says that after the last it is the bag described, whatever
order the sort left. At `Report` the visited function is the first of `written` not yet reported, which is the step of `EdgeGraph`.

The argument for the second pass. `EInv` says of each file of the directory that this run wrote which description it is of, the last one so far, and
that `missing` has what was neither described nor overridden. Bodies agree with the prelude because each states facts that are below the
join of the first pass. Of earlier runs nothing is needed but that their files carry their own number.

The argument for fact files. A node of a record is written as an address, and two things can go wrong with it. Addresses of external symbols are invented
while the file is read: `NamesInv` says that the invented numbers have no gaps and no doubles, so the next one, the size of the table, is new, and a symbol numbered once keeps
its address (`AddressStays`). An address below is inside the section of the pointer it came from (`PlaceIs`), so it cannot be taken for an invented one, and its first name is kept; `NamedBy`, a part of
`NamesInv`, says that each pointer read has a name and that each name goes back to a pointer read. A pointer outside its section stops the run, and nothing after it counts (`RelocateNone`). `LoadedInv` says that every symbol a record may mention was numbered before. The other is that
directories are truncated and shared between records: `Directories` says that a directory holds the lines of the edges of the last record that was begun for it, up to those in `todo`, and nothing of earlier
ones; it is stated with the addresses of now, which is why those must not change. `Files` and `SeenInv` say what a node in `SeenNodes` stands for: it has its line in
the directory that is open, not in any directory ever. `UnitsInv` says that a file of call sites is empty or the part of one unit passed so far, nonempty if one of them is.

Model-checked only: liveness (`CallsReturn`, `ReaderEnds`, `AddReturns`), which the provers do not reach. Every invariant and action property that a passing
run checks is proved. The proofs of the refinements are of the safety part, which is all the abstract specifications have.

## 5. Not modelled

* Parsing of ELF, core and DWARF formats, address translation through sections, compression, generated readers, SARIF
  output, build scripts: sequential, and their difficulty lies in formats, not in states.
* The Datalog rules and the runners around souffle: the rules are a second points-to analysis next to the one in
  `PassEdges`, and their solver, its files and what a timeout leaves of them are outside this repository. Facts that an interrupted run left in files, and a compiled binary reused by its presence, are what is hard there.
* The triage and query scripts: sequential filters over loaded data; `merge_vulns` is a maximum over three values.
* The snapshot server and its socket: its failure modes are those of gdb and of `/proc`.
* The older points-to scripts: replaced by `src/PointsTo`.
* Weak memory: every atomic of the runtimes is modelled as sequentially consistent; section 2 says why that is enough for the page list, and
  the segment cache publishes an immutable set with release and reads it with acquire.

## 6. What could follow

1. A second size class and thread exit in `VhMalloc`: pools that die with their thread while slabs live on.
2. `merge_vulns` and the rules of `gen_rules_simple.py` as operators against reference definitions.
