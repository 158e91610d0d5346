----------------------------- MODULE FactsFiles -----------------------------
(***************************************************************************)
(* bracelet-edges: the edges of an object, static or a core dump, written  *)
(* as fact files, a directory for every function.  The state is the        *)
(* program's position, its symbol tables, and what is in the files.        *)
(*                                                                         *)
(* `prog' describes the object.  `place' gives the address of a symbol, or *)
(* Extern, and `extent' the first and last address of its section.         *)
(* `contents' are the edge sections as they are read: graphs, of which     *)
(* only the section of their table of pointers is of interest, each        *)
(* followed by its records: a function, its number of allocas, whether the *)
(* names of its locals are there, its SBOM component, and edges            *)
(* <<kind, to, from>> between <<pointer, local>>, a local of -1 being the  *)
(* symbol itself.  A pointer is <<symbol, addend>>: a local function may   *)
(* be given as its section and an offset.  `relocations' are the pointers  *)
(* of a section, in order.  `pages' are the lists of dlsym pages, by the   *)
(* page pointer of a call site; `ranges' the instructions of a source      *)
(* location; `units' the labels and inlined subroutines of each DWARF      *)
(* unit; `lldb' the names of addresses.  The lines of a visit that fails   *)
(* for want of a name are left out, and so is any order of the edges of a  *)
(* record.                                                                 *)
(***************************************************************************)
EXTENDS Integers, Sequences, FiniteSets, SequencesExt

CONSTANTS
    Programs,
    PageSize    \* pointers of a dlsym page, 2046 in the code

NULL == 0
Extern == -1
ExternSection == 1000   \* an address beyond all sections of the file
NoPC == -1
Nothing == [fn |-> NULL, allocas |-> 0, locals |-> FALSE]

(* What the compiler, the linker and the dlsym runtime guarantee: a        *)
(* function that is described is defined; the nodes of a record are        *)
(* pointers of its graph, which the file has before it; a core dump has no *)
(* symbol without an address; slots of a page that are not counted are     *)
(* empty.                                                                  *)
Places(p) == {p.place[s] : s \in DOMAIN p.place} \ {Extern}
IsPointer(p, q) == q = <<q[1], q[2]>> /\ q[1] \in DOMAIN p.place /\ q[2] \in Int
IsNode(p, k, n) ==
    /\ n = <<n[1], n[2]>> /\ n[2] \in Nat \cup {-1}
    /\ \E j \in 1..k : p.contents[j].op = "graph" /\ n[1] \in ToSet(p.relocations[p.contents[j].arg])
IsRecord(p, k, rec) ==
    /\ IsNode(p, k, <<rec.fn, -1>>) /\ p.place[rec.fn[1]] # Extern
    /\ rec.allocas \in Nat /\ rec.locals \in BOOLEAN
    /\ \A e \in rec.edges :
          /\ e = <<e[1], e[2], e[3]>> /\ \A n \in {e[2], e[3]} : IsNode(p, k, n)
          /\ p.core /\ e[1] = "Dlsym" /\ e[3][2] = -1 => e[3][1] \in DOMAIN p.pages
IsPage(p, page) ==
    /\ page.slots \in Seq(Places(p) \cup {NULL}) /\ Len(page.slots) = PageSize
    /\ page.count \in Nat /\ \A i \in DOMAIN page.slots : i > page.count => page.slots[i] = NULL
IsSection(p, section) ==
    /\ section \in DOMAIN p.relocations
    /\ p.relocations[section] \in Seq(ToSet(p.relocations[section]))
    /\ \A q \in ToSet(p.relocations[section]) : IsPointer(p, q)
IsUnit(u) == \A l \in u.labels : l.fn \in Nat
ASSUME ProgramsAssumption ==
    /\ PageSize \in Nat
    /\ \A p \in Programs :
        /\ p.core \in BOOLEAN /\ p.pretty \in BOOLEAN
        /\ Places(p) \subseteq 0..ExternSection - 1
        /\ \A s \in DOMAIN p.place : p.extent[s][1] \in Nat /\ p.extent[s][2] \in 0..ExternSection - 1
        /\ p.core => Extern \notin {p.place[s] : s \in DOMAIN p.place}
        /\ p.contents \in Seq(ToSet(p.contents)) /\ p.sites \in Seq(ToSet(p.sites))
        /\ p.units \in Seq(ToSet(p.units)) /\ \A k \in DOMAIN p.units : IsUnit(p.units[k])
        /\ \A k \in DOMAIN p.contents :
              \/ p.contents[k].op = "graph" /\ IsSection(p, p.contents[k].arg)
              \/ p.contents[k].op = "record" /\ IsRecord(p, k, p.contents[k].arg)
        /\ \A q \in DOMAIN p.pages :
              /\ p.pages[q].readable \in BOOLEAN
              /\ \A page \in ToSet(p.pages[q].pages) : IsPage(p, page)

VARIABLES
    prog,
    at,            \* what mainResult() does next
    todo,          \* edges of the entered record still to visit
    status,        \* "running", "visiting" a record, "done", "failed" with an error, or "aborted"
    relocated,     \* sections whose relocations a static object has read
    externs,       \* extern_symbol_indices
    symbol_names,  \* of a static object
    entered,       \* the visitor's function, num_allocas and debug_data
    SeenNodes,
    facts,         \* directory of a function |-> its files
    trace_sites    \* files of trace sites

objectVars == <<relocated, externs, symbol_names>>
visitorVars == <<entered, SeenNodes>>
factsVars == <<prog, at, todo, status, objectVars, visitorVars, facts, trace_sites>>

Put(f, x, v) == [y \in DOMAIN f \cup {x} |-> IF y = x THEN v ELSE f[y]]

Each(op, s) == [k \in DOMAIN s |-> [op |-> op, arg |-> s[k]]]
(* All that mainResult() has to do, in order. *)
Work == prog.contents \o Each("site", prog.sites)
        \o Each("labels", prog.units) \o Each("inlines", prog.units)
Item == Work[at].arg

FactsInit ==
    /\ prog \in Programs
    /\ at = 1 /\ todo = {} /\ status = "running"
    /\ relocated = {} /\ externs = <<>> /\ symbol_names = <<>>
    /\ entered = Nothing /\ SeenNodes = {}
    /\ facts = <<>> /\ trace_sites = {}

Doing(op) == status = "running" /\ at \in DOMAIN Work /\ Work[at].op = op
Advance == at' = at + 1 /\ UNCHANGED status
Stop(how) == status' = how /\ UNCHANGED at

----------------------------------------------------------------------------
(* Addresses and names.                                                    *)

(* Mutant: the offset of an external symbol is never set. *)
ExternIndexZero(st) == 0
ExternIndex(st) == Cardinality(DOMAIN st.externs)

(* The address must be in the symbol's section, or just past its end.      *)
Inside(q) ==
    \/ prog.place[q[1]] = Extern
    \/ prog.place[q[1]] + q[2] \in prog.extent[q[1]][1]..prog.extent[q[1]][2]

(* A relocation of a static object: an external symbol gets an index of    *)
(* its own in a section that does not exist, whatever the addend; any      *)
(* other gets its address and the addend.  The first name of an address is *)
(* kept.                                                                   *)
RelocateSymbol(st, q) ==
    LET s == q[1]
        new == prog.place[s] = Extern /\ s \notin DOMAIN st.externs
        ix == IF new THEN Put(st.externs, s, ExternIndex(st)) ELSE st.externs
        a == IF prog.place[s] = Extern THEN ExternSection + ix[s] ELSE prog.place[s] + q[2]
    IN  IF st.aborted \/ ~Inside(q) THEN [st EXCEPT !.aborted = TRUE]
        ELSE [externs |-> ix,
              aborted |-> new /\ a \in DOMAIN st.names,
              names |-> IF a \in DOMAIN st.names THEN st.names ELSE Put(st.names, a, s)]
Relocated(section) ==
    LET pointers == prog.relocations[section]
        after[k \in 0..Len(pointers)] ==
            IF k = 0 THEN [externs |-> externs, aborted |-> FALSE, names |-> symbol_names]
            ELSE RelocateSymbol(after[k - 1], pointers[k])
    IN  after[Len(pointers)]

(* Mutant: an external symbol is not placed in the section of its own. *)
AddressRaw(q) == IF prog.place[q[1]] = Extern THEN externs[q[1]] ELSE prog.place[q[1]] + q[2]
Address(q) == IF prog.place[q[1]] = Extern THEN ExternSection + externs[q[1]] ELSE prog.place[q[1]] + q[2]
Node(n) == <<Address(n[1]), n[2]>>

(* symbolName() *)
Names == IF prog.core THEN prog.lldb ELSE symbol_names
Named(a) == a \in DOMAIN Names

(* The pointers of a graph are resolved before its records are read. *)
LoadSymbols ==
    /\ Doing("graph")
    /\ LET R == Relocated(Item)
       IN  IF prog.core \/ Item \in relocated THEN Advance /\ UNCHANGED objectVars
           ELSE IF R.aborted THEN Stop("aborted") /\ UNCHANGED objectVars
           ELSE /\ Advance
                /\ relocated' = relocated \cup {Item}
                /\ externs' = R.externs
                /\ symbol_names' = R.names
    /\ UNCHANGED <<prog, todo, visitorVars, facts, trace_sites>>

----------------------------------------------------------------------------
(* A record.                                                               *)

NoFacts == [edges |-> {}, nodes |-> {}, sbom |-> {}, instructions |-> {},
            FastNodeInstructions |-> {}, InlineFunctions |-> {}]

(* Mutant: files are opened to append. *)
OpenedAppending(a) == IF a \in DOMAIN facts THEN facts[a] ELSE NoFacts
(* Opening a table truncates it. *)
Opened(a) == NoFacts

EnterFunction ==
    /\ Doing("record")
    /\ LET a == Address(Item.fn)
       IN  /\ entered' = [fn |-> a, allocas |-> Item.allocas, locals |-> Item.locals]
           /\ IF ~Named(a) THEN Stop("failed") /\ UNCHANGED <<todo, SeenNodes, facts>>
              ELSE /\ Stop("visiting")
                   /\ SeenNodes' = {}
                   /\ todo' = Item.edges
                   /\ facts' = Put(facts, a, [Opened(a) EXCEPT !.sbom = @ \cup Item.sbom])
    /\ UNCHANGED <<prog, objectVars, trace_sites>>

(* Mutant: the symbol of a local is not described. *)
DescribedAlone(N) == N
(* emitNodeInfo() describes a node after its symbol. *)
Described(N) == N \cup {<<n[1], -1>> : n \in N}

(* IsAlloca, IsSymbol, EnclosingFunctionForLocal and DebugTable of a node. *)
NodeLine(n) ==
    [node |-> n,
     alloca |-> n[2] \in 0..(entered.allocas - 1),
     enclosing |-> IF n[2] >= 0 THEN entered.fn ELSE NULL,
     name |-> IF Named(n[1]) THEN Names[n[1]] ELSE "none"]

(* emitAddresses(): every address from the start of a range to its end. *)
InstructionLines(n) ==
    IF prog.core /\ entered.locals /\ n \in DOMAIN prog.ranges
    THEN {<<a, n>> : a \in UNION {range[1]..range[2] : range \in prog.ranges[n]}} ELSE {}

Ends(E) == UNION {{x[2], x[3]} : x \in E}
(* Pretty names exist only of addresses with a name. *)
Nameless(E) == prog.pretty /\ \E n \in Ends(E) : ~Named(n[1])

(* Edges E are written, and what is not yet known of their nodes. *)
WriteLines(E) ==
    LET new == Described(Ends(E)) \ SeenNodes
    IN  /\ SeenNodes' = SeenNodes \cup new
        /\ facts' = [facts EXCEPT ![entered.fn].edges = @ \cup E,
                                  ![entered.fn].nodes = @ \cup {NodeLine(n) : n \in new},
                                  ![entered.fn].instructions =
                                      @ \cup UNION {InstructionLines(n) : n \in new}]
Fail == status' = "failed" /\ UNCHANGED <<todo, facts, SeenNodes>>

(* The lines of an edge e: edges E. *)
PrintEdges(e, E) ==
    IF Nameless(E) THEN Fail ELSE WriteLines(E) /\ todo' = todo \ {e} /\ UNCHANGED status

VisitStaticEdge ==
    /\ status = "visiting"
    /\ \E e \in todo : e[1] # "Dlsym" /\ PrintEdges(e, {<<e[1], Node(e[2]), Node(e[3])>>})
    /\ UNCHANGED <<prog, at, objectVars, entered, trace_sites>>

(* The pages that a page pointer leads to in a core dump: as many as can   *)
(* be read.  In a static object it is NULL.                                *)
PageList(q) == IF prog.core THEN prog.pages[q] ELSE [readable |-> TRUE, pages |-> <<>>]
PagePointers(q) ==
    UNION {{page.slots[i] : i \in {j \in 1..PageSize : j <= page.count}} : page \in ToSet(PageList(q).pages)}
Assigns(e) == {<<"Assign", Node(e[2]), <<a, -1>>>> : a \in PagePointers(e[3][1])}

(* A dlsym edge adds an assignment of every pointer in the pages of its    *)
(* own page pointer, up to where they cannot be read.                      *)
VisitDlsym ==
    /\ status = "visiting"
    /\ \E e \in todo :
         /\ e[1] = "Dlsym"
         /\ IF e[3][2] # -1 THEN Fail
            ELSE IF PageList(e[3][1]).readable
            THEN PrintEdges(e, Assigns(e) \cup {<<"Dlsym", Node(e[2]), Node(e[3])>>})
            ELSE IF Nameless(Assigns(e)) THEN Fail
            ELSE WriteLines(Assigns(e)) /\ status' = "failed" /\ UNCHANGED todo
    /\ UNCHANGED <<prog, at, objectVars, entered, trace_sites>>

ExitFunction ==
    /\ status = "visiting" /\ todo = {}
    /\ status' = "running" /\ at' = at + 1
    /\ UNCHANGED <<prog, todo, objectVars, visitorVars, facts, trace_sites>>

----------------------------------------------------------------------------
(* After the records.                                                      *)

(* A section of trace sites, which may not be readable. *)
DumpTraceSites ==
    /\ Doing("site")
    /\ trace_sites' = trace_sites \cup {Item.start}
    /\ IF Item.readable THEN Advance ELSE Stop("failed")
    /\ UNCHANGED <<prog, todo, objectVars, visitorVars, facts>>

(* Labels with an address; the others are of an abstract subroutine. *)
CULabels(unit) == {l \in unit.labels : l.low # NoPC}

(* Mutant: one call site of each function. *)
OfFunctionFirst(S, a) == {CHOOSE x \in S : x.fn = a}
OfFunction(S, a) == {x \in S : x.fn = a}
(* Functions of S that have a directory. *)
Present(S) == {x.fn : x \in S} \cap DOMAIN facts

(* Pretty names of locals are looked up in the function entered last, whose *)
(* debug data is gone when it is the right one.                             *)
PrettyLocals(S) == prog.pretty /\ entered.locals /\ Present(S) # {}

(* FastNodeInstructions of a unit. *)
AddressMap ==
    /\ Doing("labels")
    /\ LET L == CULabels(Item)
           written == [a \in DOMAIN facts |->
               IF a \in Present(L)
               THEN [facts[a] EXCEPT !.FastNodeInstructions =
                        {<<l.low, <<a, l.local>>>> : l \in OfFunction(L, a)}]
               ELSE facts[a]]
       IN  IF \E l \in L : l.fn = NULL THEN Stop("failed") /\ UNCHANGED facts
           ELSE \/ Stop("aborted") /\ PrettyLocals(L) /\ UNCHANGED facts
                \/ Advance /\ facts' = written
                   /\ (PrettyLocals(L) => Present(L) \subseteq {entered.fn})
    /\ UNCHANGED <<prog, todo, objectVars, visitorVars, trace_sites>>

(* InlineFunctions of a unit. *)
InlineEdges ==
    /\ Doing("inlines")
    /\ LET I == Item.inlines
       IN  facts' = [a \in DOMAIN facts |->
               IF a \in Present(I)
               THEN [facts[a] EXCEPT !.InlineFunctions = {i.name : i \in OfFunction(I, a)}]
               ELSE facts[a]]
    /\ Advance
    /\ UNCHANGED <<prog, todo, objectVars, visitorVars, trace_sites>>

Return ==
    /\ status = "running" /\ at \notin DOMAIN Work
    /\ status' = "done"
    /\ UNCHANGED <<prog, at, todo, objectVars, visitorVars, facts, trace_sites>>

FactsNext ==
    \/ LoadSymbols \/ EnterFunction \/ VisitStaticEdge \/ VisitDlsym \/ ExitFunction
    \/ DumpTraceSites \/ AddressMap \/ InlineEdges \/ Return

FactsSpec == FactsInit /\ [][FactsNext]_factsVars

----------------------------------------------------------------------------
(* Properties                                                              *)

(* Addresses that pointers of the object resolve to. *)
Resolved ==
    {prog.place[q[1]] + q[2] :
        q \in {r \in UNION {ToSet(prog.relocations[k]) : k \in DOMAIN prog.relocations} :
                  prog.place[r[1]] # Extern}}

(* Types; every address is one of the object's, of an external symbol, or  *)
(* NULL.                                                                   *)
FactsTypeOK ==
    LET addresses == Resolved \cup Places(prog) \cup {NULL}
                     \cup {ExternSection + externs[s] : s \in DOMAIN externs}
    IN  /\ status \in {"running", "visiting", "done", "failed", "aborted"}
        /\ \A a \in DOMAIN facts : \A e \in facts[a].edges :
             \A n \in {e[2], e[3]} : n[1] \in addresses /\ n[2] \in Nat \cup {-1}
        /\ DOMAIN externs \subseteq {s \in DOMAIN prog.place : prog.place[s] = Extern}

(* Pointers of the sections that a static object has read. *)
ReadPointers == UNION {ToSet(prog.relocations[section]) : section \in relocated}

(* Whatever sections are read in whatever order: an external symbol has an *)
(* address of its own, which bears its name; every pointer that was read   *)
(* has a name, and every name is that of a symbol which a pointer that was *)
(* read adds its addend to for just this address (several addresses, such  *)
(* as those of local functions given by their section, may share a name).  *)
(* No assertion is hit but that a pointer stays in its section.            *)
NamesRight ==
    /\ \A s, t \in DOMAIN externs : externs[s] = externs[t] => s = t
    /\ \A s \in DOMAIN externs :
          /\ ExternSection + externs[s] \in DOMAIN symbol_names
          /\ symbol_names[ExternSection + externs[s]] = s
    /\ \A q \in ReadPointers : Address(q) \in DOMAIN symbol_names
    /\ \A a \in DOMAIN symbol_names : \E q \in ReadPointers : q[1] = symbol_names[a] /\ Address(q) = a
    /\ status = "aborted" => prog.pretty \/ \E q \in ToSet(prog.relocations[Item]) : ~Inside(q)

Records == {k \in DOMAIN prog.contents : prog.contents[k].op = "record"}
Rec(k) == prog.contents[k].arg
Dir(k) == Address(Rec(k).fn)
LastRecords == {k \in Records : \A j \in Records : Dir(j) = Dir(k) => j <= k}

(* What dlsym() returned at the call site of an edge before the core was   *)
(* dumped.                                                                 *)
Dlsyms(e) ==
    IF prog.core THEN (UNION {ToSet(page.slots) : page \in ToSet(prog.pages[e[3][1]].pages)}) \ {NULL} ELSE {}

(* doc/src/metadata.md: "the last metadata record observed 'winning'": a   *)
(* directory holds the edges of one record, with those of each dlsym()     *)
(* call for what that call returned, and nothing of records before.        *)
LastRecordWins ==
    status = "done" =>
        /\ DOMAIN facts = {Dir(k) : k \in Records}
        /\ \A k \in LastRecords :
             LET static == {<<e[1], Node(e[2]), Node(e[3])>> : e \in Rec(k).edges}
                 dynamic == UNION {{<<"Assign", Node(e[2]), <<a, -1>>>> : a \in Dlsyms(e)} :
                                      e \in {d \in Rec(k).edges : d[1] = "Dlsym"}}
                 files == facts[Dir(k)]
             IN  /\ {e \in files.edges : e[3] # <<NULL, -1>> \/ e \in static} = static \cup dynamic
                 /\ files.sbom = Rec(k).sbom

(* The rules join edges with tables about nodes: every node of an edge in  *)
(* a finished directory is described there, by the last record.            *)
NodesDescribed ==
    /\ \A a \in DOMAIN facts \ (IF todo = {} THEN {} ELSE {entered.fn}) :
         \A e \in facts[a].edges : \A n \in {e[2], e[3]} :
            /\ \E line \in facts[a].nodes : line.node = n
            /\ \E line \in facts[a].nodes : line.node = <<n[1], -1>>
    /\ status = "done" =>
         \A k \in LastRecords : \A line \in facts[Dir(k)].nodes :
            line.node[2] >= 0 => /\ line.alloca = (line.node[2] < Rec(k).allocas)
                                 /\ line.enclosing = Dir(k)

(* A file of call sites or inlined functions is that of one unit, whole:   *)
(* if only one describes the function, nothing is lost.                    *)
IsOneOf(file, parts) == IF parts \subseteq {{}} THEN file = {} ELSE file \in parts \ {{}}
Callsites(a, u) == {<<l.low, <<a, l.local>>>> : l \in {x \in u.labels : x.fn = a /\ x.low # NoPC}}
Inlined(a, u) == {i.name : i \in {x \in u.inlines : x.fn = a}}
CallsitesKept ==
    status = "done" => \A a \in DOMAIN facts :
        /\ IsOneOf(facts[a].FastNodeInstructions, {Callsites(a, u) : u \in ToSet(prog.units)})
        /\ IsOneOf(facts[a].InlineFunctions, {Inlined(a, u) : u \in ToSet(prog.units)})
=============================================================================
