--------------------------- MODULE MCPointsToEmit ---------------------------
(***************************************************************************)
(* Small objects for PointsToEmit: functions f, g and a data symbol d of   *)
(* the object, and malloc, which has an override.                          *)
(***************************************************************************)
EXTENDS PointsToEmit

S(x) == <<x, -1>>
L(x, k) == <<x, k>>
Edge(kind, a, b, n) == [kind |-> kind, a |-> a, b |-> b, n |-> n]
Desc(f, E) == [fn |-> f, edges |-> E]
Names == [x \in {"f", "g", "d", "malloc"} |-> x]
Object(fns) == [fns |-> fns, name |-> Names]

CallG(n) == Edge("Call", L("f", 0), S("g"), n)
CallMalloc(n) == Edge("Call", L("f", 1), S("malloc"), n)
CallLocal == Edge("Call", L("f", 2), L("f", 0), 1)
StoreD == Edge("Store", S("d"), S("g"), 0)
StoreF == Edge("Store", S("f"), S("d"), 0)
Takes(f, k) == Edge("ArgumentDefinition", L(f, k), S(f), k)
AssignD(f) == Edge("Assign", L(f, 0), S("d"), 0)

F1 == Desc("f", {CallG(1), CallMalloc(1), StoreD})
F2 == Desc("f", {CallG(2), CallLocal})
F3 == Desc("f", {Takes("f", 1), CallMalloc(1), AssignD("f")})
G1 == Desc("g", {Takes("g", 0), AssignD("g")})
G2 == Desc("g", {Takes("g", 1), Takes("g", 0)})
G0 == Desc("g", {StoreF})
M0 == Desc("malloc", {Takes("malloc", 0)})

MCObjects ==
    {Object(<<F1>>), Object(<<F1, G1>>), Object(<<G1, F1>>), Object(<<F1, G2>>), Object(<<F2, G2>>),
     Object(<<F2>>), Object(<<F3, G0>>), Object(<<M0, F1>>), Object(<<F3, F3>>), Object(<<F1, F2>>),
     Object(<<G2, Desc("g", {Takes("g", 1), StoreD})>>)}
MCOverrides == [malloc |-> 1]
=============================================================================
