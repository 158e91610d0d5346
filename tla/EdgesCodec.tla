----------------------------- MODULE EdgesCodec -----------------------------
(***************************************************************************)
(* The edge files (Edges/Writer, Edges/Reader): the compiler describes the *)
(* functions of a module in graphs, one per comdat group, each a stream of *)
(* words with tables of symbols, strings and names of locals beside it;    *)
(* the tools read the graphs of a linked program back.                     *)
(*                                                                         *)
(* A graph's writers share nothing with those of other graphs, so graphs   *)
(* are written one after the other.  zstd, streamvbyte and LLVM's globals  *)
(* are taken to return what was put in, and the linker to resolve a symbol *)
(* to the global it names.                                                 *)
(***************************************************************************)
EXTENDS WordCoding, Sequences, SequencesExt, FiniteSets, Bags

CONSTANTS
  Globals,    \* functions and variables of the module
  LocalNames, \* names of locals
  Boms,       \* bills of materials: none, <<>>, or a component and its version
  Blank,      \* the empty string
  Components, \* Components[k]: NUM_COMPONENTS of edge kind k, 2 or 3
  Indices,    \* third components
  MaxGraphs,  \* bounds: graphs, edges of all functions
  MaxEdges

ASSUME CodecAssumption ==
  /\ Components \in Seq({2, 3}) /\ Components # <<>>
  /\ \A bom \in Boms : bom = <<>> \/ bom = <<bom[1], bom[2]>>
  /\ Indices \subseteq Words
  /\ MaxGraphs \in Nat /\ MaxEdges \in Nat

VARIABLES
  debug,    \* record_debug_data; fixed
  symbols,  \* GraphWriter: symbols_in_order, strings by index, local_names,
  strings,  \* function_data and num_functions
  names,
  words,
  nfuns,
  fw,       \* the active FunctionWriter, or Nothing
  section,  \* the graphs written to the object file
  sealed,   \* the file is complete
  frame,    \* the reader: its Frame, or Nothing
  fun,      \* the ConcreteFunctionInfo whose edges are visited, or Nothing
  failed,   \* a BRACELET_ENSURE failed
  written,  \* history: descriptions finished; that of fw is fw.said
  reported  \* history: what the callback learned of each function

gw == <<symbols, strings, names, words, nfuns>>
reader == <<frame, fun, failed, reported>>
vars == <<debug, gw, fw, section, sealed, reader, written>>

Nothing == [none |-> TRUE]
Kinds == DOMAIN Components
NoEdges == [k \in Kinds |-> EmptyBag]
Strings == LocalNames \cup {Blank} \cup UNION {ToSet(bom) : bom \in Boms}

\* as_u32 asserts that the lengths of the tables are words. The shift of
\* encode_node leaves `Half` values for the index of a symbol, which is taken
\* for granted.
ASSUME FitsAssumption ==
  /\ IsFiniteSet(Globals) /\ Cardinality(Globals) <= Half
  /\ IsFiniteSet(Strings) /\ Cardinality(Strings) <= 2 * Half
  /\ MaxEdges < 2 * Half

\* Tables that number their entries in the order of the first use, from 0.
Intern(table, x) == IF x \in ToSet(table) THEN table ELSE Append(table, x)
IndexOf(table, x) == (CHOOSE n \in DOMAIN table : table[n] = x) - 1

Init ==
  /\ debug \in BOOLEAN
  /\ symbols = <<>> /\ strings = <<>> /\ names = <<>> /\ words = <<>> /\ nfuns = 0
  /\ fw = Nothing
  /\ section = <<>> /\ sealed = FALSE
  /\ frame = Nothing /\ fun = Nothing /\ failed = FALSE
  /\ written = <<>> /\ reported = <<>>

(***************************************************************************)
(* The writer.                                                             *)
(***************************************************************************)
Writing == ~sealed /\ UNCHANGED <<debug, reader>>

\* GraphWriter::symbol of a global not numbered yet.
Symbol(g) ==
  /\ Writing
  /\ fw # Nothing
  /\ g \notin ToSet(symbols)
  /\ symbols' = Append(symbols, g)
  /\ UNCHANGED <<strings, names, words, nfuns, fw, section, sealed, written>>

\* Of a bill of materials with an empty part the file says no more than of none.
Known(bom) == IF Blank \in ToSet(bom) THEN <<>> ELSE bom

\* A function is described once, in the graph of its comdat group.
BeginFunction(f) ==
  /\ Writing
  /\ fw = Nothing
  /\ \A n \in DOMAIN written : written[n].fun # f
  /\ Len(section) < MaxGraphs
  /\ \E bom \in Boms :
       LET parts == IF bom = <<>> THEN <<Blank, Blank>> ELSE bom IN
       /\ symbols' = Intern(symbols, f)
       /\ strings' = Intern(Intern(strings, parts[1]), parts[2])
       /\ fw' = [symbol |-> IndexOf(symbols', f),
                 comp |-> IndexOf(strings', parts[1]),
                 version |-> IndexOf(strings', parts[2]),
                 locals |-> 0,
                 edges |-> NoEdges,
                 said |-> [fun |-> f, sbom |-> Known(bom), names |-> <<>>,
                           edges |-> NoEdges, allocas |-> 0, locals |-> 0]]
  /\ nfuns' = nfuns + 1
  /\ UNCHANGED <<names, words, section, sealed, written>>

\* Node::local asserts that the index of a local fits its field.
MaxLocals == LocalSize - 1

\* Names of locals are kept, for all functions together, when debugging.
FreshLocal ==
  /\ Writing
  /\ fw # Nothing
  /\ fw.locals < MaxLocals
  /\ \E s \in LocalNames :
       /\ strings' = IF debug THEN Intern(strings, s) ELSE strings
       /\ names' = IF debug THEN Append(names, IndexOf(strings', s)) ELSE names
       /\ fw' = [fw EXCEPT !.locals = @ + 1,
                           !.said.names = IF debug THEN Append(@, s) ELSE @]
  /\ UNCHANGED <<symbols, words, nfuns, section, sealed, written>>

\* Nodes: a global, or a local of the function.
GlobalNode(g) == [of |-> g, locals |-> {}]
LocalNode(f, n) == [of |-> f, locals |-> {n}]

\* The 64 bits that stand for a node in the graph's writer.
Raw(node) ==
  IF node.locals # {} THEN PackLocal(fw.symbol, CHOOSE n \in node.locals : TRUE)
  ELSE PackSymbol(IndexOf(symbols, node.of))

encode_node(raw) ==
  IF LocalOf(raw) # -1 THEN 2 * LocalOf(raw) ELSE 2 * SymbolOf(raw) + 1

Nodes == {GlobalNode(g) : g \in ToSet(symbols)}
           \cup {LocalNode(fw.said.fun, n) : n \in 0 .. fw.locals - 1}

\* The third component of an edge, where its kind has one.
Index(k) == IF Components[k] = 3 THEN {<<n>> : n \in Indices} ELSE {<<>>}

Count(edges) == MapThenSumSet(LAMBDA k : BagCardinality(edges[k]), Kinds)
CountAll == Count(fw.edges) + MapThenSumSet(LAMBDA n : Count(written[n].edges), DOMAIN written)

AddEdge(k) ==
  /\ Writing
  /\ fw # Nothing
  /\ CountAll < MaxEdges
  /\ \E to, from \in Nodes, idx \in Index(k) :
       fw' = [fw EXCEPT
         !.edges[k] = @ (+) SetToBag({<<encode_node(Raw(to)), encode_node(Raw(from))>> \o idx}),
         !.said.edges[k] = @ (+) SetToBag({<<to, from>> \o idx})]
  /\ UNCHANGED <<gw, section, sealed, written>>

\* One kind's edges in the stream: how many, then for each the two differences
\* of a running value, which `from` continues where `to` left it, and the index.
Prev(edges, n) == IF n = 1 THEN 0 ELSE edges[n - 1][2]
EncodeEdge(edges, n) ==
  <<ToDelta(Prev(edges, n), edges[n][1]), ToDelta(edges[n][1], edges[n][2])>>
    \o SubSeq(edges[n], 3, Len(edges[n]))
Encode(edges) == <<Len(edges)>> \o FlattenSeq([n \in DOMAIN edges |-> EncodeEdge(edges, n)])

\* The sort of a kind's edges uses a comparison that is no strict weak ordering:
\* all that is known of its result is that it has the same edges.
Sorted(edges) == {s \in UNION {[1 .. n -> BagToSet(edges)] : n \in 0 .. MaxEdges} :
                    \A e \in BagToSet(edges) :
                      Cardinality({n \in DOMAIN s : s[n] = e}) = edges[e]}
SortedKinds == {s \in [Kinds -> UNION {Sorted(fw.edges[k]) : k \in Kinds}] :
                  \A k \in Kinds : s[k] \in Sorted(fw.edges[k])}

Finish ==
  /\ Writing
  /\ fw # Nothing
  /\ \E allocas \in 0 .. fw.locals, e \in SortedKinds :
       /\ words' = words \o <<fw.symbol, fw.comp, fw.version, fw.locals, allocas>>
                     \o FlattenSeq([k \in Kinds |-> Encode(e[k])])
       /\ written' = Append(written, [fw.said EXCEPT !.allocas = allocas, !.locals = fw.locals])
  /\ fw' = Nothing
  /\ UNCHANGED <<symbols, strings, names, nfuns, section, sealed>>

\* writeTo; the writer of the next graph starts with empty tables.
WriteTo ==
  /\ Writing
  /\ fw = Nothing
  /\ nfuns > 0
  /\ Len(section) < MaxGraphs
  /\ section' = Append(section, [symbols |-> symbols, strings |-> strings, names |-> names,
                                 words |-> words, nfuns |-> nfuns, has_names |-> debug])
  /\ symbols' = <<>> /\ strings' = <<>> /\ names' = <<>> /\ words' = <<>> /\ nfuns' = 0
  /\ UNCHANGED <<fw, sealed, written>>

\* The object files are complete and linked.
Seal ==
  /\ Writing
  /\ fw = Nothing /\ nfuns = 0 /\ section # <<>>
  /\ sealed' = TRUE
  /\ UNCHANGED <<gw, fw, section, written>>

(***************************************************************************)
(* The reader.                                                             *)
(***************************************************************************)
Reading == sealed /\ ~failed /\ UNCHANGED <<debug, gw, fw, sealed, written>>

\* consumeOneGraph: the tables, the stream, and the functions it holds.
OpenGraph ==
  /\ Reading
  /\ frame = Nothing /\ section # <<>>
  /\ frame' = Head(section)
  /\ section' = Tail(section)
  /\ UNCHANGED <<fun, failed, reported>>

\* Mutant: one name too many is passed over.
NextNamesOneMore(n) == IF frame.has_names THEN SubSeq(frame.names, n + 2, Len(frame.names))
                                          ELSE frame.names

\* next_locals: the names that remain for the functions after one of n locals.
NextNames(n) == IF frame.has_names THEN SubSeq(frame.names, n + 1, Len(frame.names))
                                   ELSE frame.names

\* next_word and next_words for the edges of each kind: where kind k starts, or
\* a place behind the end of the stream.
StartOf(w) ==
  LET start[k \in 1 .. Len(Components) + 1] ==
        IF k = 1 THEN 6
        ELSE IF start[k - 1] > Len(w) THEN Len(w) + 2
        ELSE start[k - 1] + 1 + Components[k - 1] * w[start[k - 1]]
  IN start

\* What must hold of the stream for a function to be read from it.
Readable(w) ==
  LET end == StartOf(w)[Len(Components) + 1] IN
  /\ end <= Len(w) + 1
  /\ w[1] < Len(frame.symbols)
  /\ w[2] < Len(frame.strings) /\ w[3] < Len(frame.strings)
  /\ w[5] <= w[4]
  /\ frame.has_names =>
       /\ w[4] <= Len(frame.names)
       /\ \A n \in 1 .. w[4] : frame.names[n] < Len(frame.strings)

StringAt(n) == frame.strings[n + 1]

\* readEdges, up to the callback for the next function.
ReadFunction ==
  LET w == frame.words
      start == StartOf(w) IN
  /\ Reading
  /\ frame # Nothing /\ fun = Nothing
  /\ frame.nfuns > 0
  /\ IF Readable(w)
       THEN /\ fun' = [fun |-> frame.symbols[w[1] + 1],
                      sbom |-> Known(<<StringAt(w[2]), StringAt(w[3])>>),
                      locals |-> w[4],
                      allocas |-> w[5],
                      names |-> IF frame.has_names
                                  THEN [n \in 1 .. w[4] |-> StringAt(frame.names[n])]
                                  ELSE <<>>,
                      data |-> [k \in Kinds |-> SubSeq(w, start[k] + 1, start[k + 1] - 1)],
                      kind |-> 1,
                      prev |-> 0,
                      edges |-> NoEdges]
            /\ frame' = [frame EXCEPT
                 !.words = SubSeq(w, start[Len(Components) + 1], Len(w)),
                 !.names = NextNames(w[4]),
                 !.nfuns = @ - 1]
            /\ UNCHANGED failed
       ELSE failed' = TRUE /\ UNCHANGED <<frame, fun>>
  /\ UNCHANGED <<section, reported>>

decode_node(n) ==
  IF n % 2 = 1 THEN GlobalNode(frame.symbols[(n \div 2) + 1])
               ELSE LocalNode(fun.fun, n \div 2)
Decodable(n) == n % 2 = 1 => n \div 2 < Len(frame.symbols)

\* One edge of the kind being visited (visitEdgesInner).
VisitEdge ==
  LET k == fun.kind
      d == fun.data[k]
      to == FromDelta(fun.prev, d[1])
      from == FromDelta(to, d[2]) IN
  /\ Reading
  /\ fun # Nothing
  /\ k \in Kinds /\ d # <<>>
  /\ IF Decodable(to) /\ Decodable(from)
       THEN /\ fun' = [fun EXCEPT
                 !.prev = from,
                 !.data[k] = SubSeq(d, Components[k] + 1, Len(d)),
                 !.edges[k] = @ (+) SetToBag({<<decode_node(to), decode_node(from)>>
                                                \o SubSeq(d, 3, Components[k])})]
            /\ UNCHANGED failed
       ELSE failed' = TRUE /\ UNCHANGED fun
  /\ UNCHANGED <<section, frame, reported>>

\* Mutant: the running value is not reset.
NextKindKeepsPrev ==
  /\ Reading
  /\ fun # Nothing /\ fun.kind \in Kinds /\ fun.data[fun.kind] = <<>>
  /\ fun' = [fun EXCEPT !.kind = @ + 1]
  /\ UNCHANGED <<section, frame, failed, reported>>

\* Each kind has a running value of its own.
NextKind ==
  /\ Reading
  /\ fun # Nothing /\ fun.kind \in Kinds /\ fun.data[fun.kind] = <<>>
  /\ fun' = [fun EXCEPT !.kind = @ + 1, !.prev = 0]
  /\ UNCHANGED <<section, frame, failed, reported>>

\* The callback returns, having seen every edge.
Report ==
  /\ Reading
  /\ fun # Nothing /\ fun.kind \notin Kinds
  /\ reported' = Append(reported,
       [fun |-> fun.fun, sbom |-> fun.sbom, names |-> fun.names, edges |-> fun.edges,
        allocas |-> fun.allocas, locals |-> fun.locals])
  /\ fun' = Nothing
  /\ UNCHANGED <<section, frame, failed>>

CloseGraph ==
  /\ Reading
  /\ frame # Nothing /\ fun = Nothing
  /\ frame.nfuns = 0
  /\ frame' = Nothing
  /\ UNCHANGED <<section, fun, failed, reported>>

Write ==
  \/ FreshLocal \/ Finish \/ WriteTo \/ Seal
  \/ \E g \in Globals : Symbol(g) \/ BeginFunction(g)
  \/ \E k \in Kinds : AddEdge(k)

Read == \/ OpenGraph \/ ReadFunction \/ VisitEdge \/ NextKind \/ Report \/ CloseGraph

Next == Write \/ Read

Spec == Init /\ [][Next]_vars

-----------------------------------------------------------------------------
\* Types; a number in the stream is a word.
TypeOK ==
  /\ debug \in BOOLEAN
  /\ symbols \in Seq(Globals) /\ strings \in Seq(Strings)
  /\ names \in Seq(0 .. Len(strings) - 1)
  /\ words \in Seq(Words)
  /\ nfuns \in Nat
  /\ fw # Nothing =>
       /\ fw.symbol \in 0 .. Len(symbols) - 1
       /\ {fw.comp, fw.version} \subseteq 0 .. Len(strings) - 1
       /\ fw.locals \in 0 .. MaxLocals
       /\ \A k \in Kinds : BagToSet(fw.edges[k]) \subseteq Seq(Words)
  /\ \A n \in DOMAIN section : section[n].words \in Seq(Words)
  /\ sealed \in BOOLEAN /\ failed \in BOOLEAN
  /\ fun # Nothing => fun.prev \in Words

\* The reader refuses nothing that the writer wrote: every count, index and
\* node number that it tests is in range, function after function.
ReadsAll == ~failed

Promise == INSTANCE EdgeGraph

\* The reader is told of each function, in the order of the file, exactly what
\* was written of it: name, bill of materials, names and number of locals, and
\* of each kind the same edges between the same nodes with the same indices.
ImplementsGraph == Promise!Spec
=============================================================================
