---------------------------- MODULE MCFactsFiles ----------------------------
(***************************************************************************)
(* Objects for FactsFiles: functions f (perhaps in two units, as a weak    *)
(* symbol is) and g (also given as an offset in its section), library      *)
(* functions x and y, a weak symbol w that nothing defines, and the page   *)
(* pointers of two call sites of dlsym().                                  *)
(***************************************************************************)
EXTENDS FactsFiles, TLC

F == <<"f", 0>>
G == <<"g", 0>>
InText == <<"text", 10>>    \* g
Stray == <<"text", 90>>     \* outside its section
X == <<"x", 0>>
InX == <<"x", 4>>
Y == <<"y", 0>>
W == <<"w", 0>>
Page1 == <<"bss", 0>>
Page2 == <<"bss", 8>>

Sym(q) == <<q, -1>>
Record(fn, allocas, sbom, edges) == [fn |-> fn, allocas |-> allocas, sbom |-> sbom, edges |-> edges]

First == Record(F, 1, {"libf"}, {<<"Assign", <<F, 0>>, Sym(InText)>>, <<"Store", <<F, 0>>, <<F, 1>>>>})
Second == Record(F, 0, {}, {<<"Call", <<F, 0>>, Sym(X)>>, <<"Assign", <<F, 1>>, <<F, 0>>>>})
Dynamic == Record(G, 0, {}, {<<"Dlsym", <<G, 0>>, Sym(Page1)>>, <<"Dlsym", <<G, 1>>, Sym(Page2)>>,
                             <<"Call", <<G, 0>>, Sym(Y)>>})
Wrong == Record(G, 0, {}, {<<"Dlsym", <<G, 0>>, <<G, 1>>>>})
Weak == Record(InText, 0, {"libg"}, {<<"Call", <<InText, 0>>, Sym(W)>>, <<"Call", <<InText, 0>>, Sym(InX)>>})

(* A graph and the records that follow it. *)
Graph(section, locals, records) ==
    <<[op |-> "graph", arg |-> section]>>
    \o [k \in DOMAIN records |-> [op |-> "record", arg |-> records[k] @@ [locals |-> locals]]]

FirstPointers == {<<F, InText, X, InX, W>>, <<F, InText, X, Stray, InX, W>>}
SecondPointers == <<Y, Page1, Page2, G, F, X>>

(* Two graphs, in one section or in two. *)
Graphs(locals) ==
    {[contents |-> Graph(1, locals, r1) \o Graph(k, TRUE, r2),
      relocations |-> IF k = 1 THEN <<pointers \o SecondPointers>> ELSE <<pointers, SecondPointers>>] :
        k \in {1, 2}, pointers \in FirstPointers, r1 \in {<<First>>, <<First, Weak>>, <<Second, First>>},
        r2 \in {<<>>, <<Second>>, <<Dynamic, Second>>, <<Dynamic>>, <<Wrong>>}}

Label(low, fn, local) == [low |-> low, fn |-> fn, local |-> local]
Inline(fn, name) == [fn |-> fn, name |-> name]
UnitF == [labels |-> {Label(10, 10, 0), Label(11, 10, 1), Label(NoPC, NULL, 0)},
          inlines |-> {Inline(10, "x"), Inline(10, "y")}]
UnitG == [labels |-> {Label(20, 20, 0), Label(12, 10, 0)}, inlines |-> {Inline(20, "x")}]
UnitLost == [labels |-> {Label(13, NULL, 0)}, inlines |-> {}]
Units == {<<UnitF>>, <<UnitF, UnitG>>, <<UnitG, UnitF>>, <<UnitG, UnitLost>>}

Page(count, slots) == [count |-> count, slots |-> slots]
List(readable, pages) == [readable |-> readable, pages |-> pages]
(* What the two page pointers lead to. *)
Pages ==
    {(Page1 :> first) @@ (Page2 :> second) :
        first \in {List(TRUE, <<>>), List(TRUE, <<Page(3, <<30, 10>>)>>), List(FALSE, <<Page(2, <<31, 30>>)>>)},
        second \in {List(TRUE, <<Page(1, <<20, 0>>), Page(2, <<10, 30>>)>>), List(TRUE, <<Page(2, <<30, 0>>)>>)}}

EmptyPages == {(Page1 :> List(TRUE, <<>>)) @@ (Page2 :> List(TRUE, <<>>))}

Place(core) ==
    [f |-> 10, g |-> 20, text |-> 10, bss |-> 40,
     x |-> IF core THEN 30 ELSE Extern, y |-> IF core THEN 31 ELSE Extern,
     w |-> IF core THEN NULL ELSE Extern]
Extent ==
    [f |-> <<10, 29>>, g |-> <<10, 29>>, text |-> <<10, 29>>, bss |-> <<40, 56>>,
     x |-> <<30, 39>>, y |-> <<30, 39>>, w |-> <<0, 0>>]

Object(core, pretty, graphs, pages, units, sites) ==
    [core |-> core, pretty |-> pretty, contents |-> graphs.contents, relocations |-> graphs.relocations,
     pages |-> pages, units |-> units, sites |-> sites, place |-> Place(core), extent |-> Extent,
     ranges |-> (<<10, 0>> :> {<<10, 12>>, <<20, 21>>}),
     lldb |-> (10 :> "f") @@ (20 :> "g") @@ (30 :> "x") @@ (31 :> "y") @@ (40 :> "page") @@ (48 :> "page")]

Sites == {<<>>, <<[start |-> 50, readable |-> TRUE], [start |-> 60, readable |-> FALSE]>>}

MCPrograms ==
    {Object(TRUE, pretty, graphs, pages, units, <<[start |-> 50, readable |-> TRUE]>>) :
        pretty \in BOOLEAN, graphs \in Graphs(TRUE), pages \in Pages, units \in Units}
    \cup {Object(core, FALSE, graphs, pages, units, sites) :
        core \in BOOLEAN, graphs \in Graphs(FALSE), pages \in EmptyPages, units \in Units, sites \in Sites}
=============================================================================
