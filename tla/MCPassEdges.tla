---------------------------- MODULE MCPassEdges ----------------------------
(***************************************************************************)
(* Programs of a few instructions for PassEdges.  Every family has a fixed *)
(* frame and some positions at which each of several instructions is tried.*)
(***************************************************************************)
EXTENDS PassEdges

R(x) == <<"reg", x>>
A(k) == <<"arg", k>>
S(x) == <<"sym", x>>
Data == <<"data">>
Agg(x, y) == <<"agg", <<x, y>>>>

Alloca(r) == [op |-> "alloca", into |-> R(r)]
Store(p, v) == [op |-> "store", to |-> p, val |-> v]
Load(r, p) == [op |-> "load", into |-> R(r), from |-> p]
Atomic(r, p, v) == [op |-> "atomic", into |-> R(r), to |-> p, val |-> v]
Assign(r, vs) == [op |-> "assign", into |-> R(r), ops |-> vs]
Copy(d, s) == [op |-> "copy", to |-> d, from |-> s]
Vastart(l) == [op |-> "vastart", to |-> l]
Ret(v) == [op |-> "ret", val |-> v]
Fixed(n) == [n |-> n, vararg |-> FALSE]
Variadic(n) == [n |-> n, vararg |-> TRUE]
Call(r, f, vs, type) == [op |-> "call", into |-> R(r), callee |-> f, args |-> vs, type |-> type]
Asm == [op |-> "asm"]

Fun(n, vararg, body) == [params |-> n, vararg |-> vararg, body |-> body]
Program(main, f, init, dlsyms) ==
    [order |-> <<"main", "f">>, globals |-> <<"g">>, init |-> init, dlsyms |-> dlsyms,
     fun |-> [main |-> Fun(0, FALSE, main), f |-> f]]

NoFunction == Fun(0, FALSE, <<Ret(Data)>>)
Globals == [g |-> Data]

(* Memory: two allocations of main and a global. *)
MemoryPrograms ==
    {Program(<<Alloca("a"), Alloca("b"), i, j, k>>, NoFunction, init, {}) :
        i \in {Store(R("a"), R("b")), Store(R("a"), Agg("g", "f")), Store(S("g"), R("a")), Asm},
        j \in {Assign("r", <<R("a")>>), Assign("r", <<R("b"), S("g")>>), Atomic("r", R("a"), R("b")),
               Copy(R("b"), R("a")), Copy(S("g"), R("a")), Copy(R("b"), Data)},
        k \in {Load("s", R("a")), Load("s", R("b")), Load("s", R("r")), Load("s", S("g")), Store(R("r"), R("a"))},
        init \in {Globals, [g |-> S("f")], [g |-> Agg("f", "g")]}}

(* Calls, direct and through a pointer, of a function of one parameter;    *)
(* one through a declaration without prototype.                            *)
CallPrograms ==
    {Program(<<Alloca("a"), i, j, k>>, Fun(1, FALSE, <<Alloca("c"), l, Ret(v)>>), [g |-> S("f")], {}) :
        i \in {Load("p", S("g")), Assign("p", <<S("f"), R("a")>>)},
        j \in {Call("r", S("f"), <<R("a")>>, Fixed(1)), Call("r", R("p"), <<S("g")>>, Fixed(1)),
               Call("r", S("f"), <<R("a")>>, Variadic(0)), Call("r", R("p"), <<S("g")>>, Variadic(1)),
               Call("r", S("malloc"), <<Data>>, Fixed(1)), Call("r", Data, <<>>, Fixed(0))},
        k \in {Store(R("r"), R("a")), Call("s", R("p"), <<R("r")>>, Fixed(1))},
        l \in {Store(A(0), R("c")), Load("x", A(0)), Store(R("c"), A(0))},
        v \in {A(0), R("x"), R("c")}}

(* Two parameters; the second call is refused by the generator. *)
TwoPrograms ==
    {Program(<<Alloca("a"), Alloca("b"), i>>, Fun(2, FALSE, <<Store(A(1), A(0)), Ret(A(1))>>), Globals, {}) :
        i \in {Call("r", S("f"), <<R("a"), R("b")>>, Fixed(2)), Call("r", S("f"), <<Data, R("b")>>, Fixed(2)),
               Call("r", S("f"), <<R("a"), R("b")>>, Variadic(0))}}

(* Variadic functions: va_start, va_copy, and loads of the arguments. *)
VariadicPrograms ==
    {Program(<<Alloca("a"), Alloca("b"), i>>,
             Fun(1, TRUE, <<Alloca("l"), Alloca("m"), Vastart(R("l")), j, Load("s", R(v)), Load("x", R("s")), Ret(R("x"))>>),
             Globals, {}) :
        i \in {Call("r", S("f"), <<R("a")>>, Variadic(1)), Call("r", S("f"), <<R("a"), R("b")>>, Variadic(1)),
               Call("r", S("f"), <<Data, R("a"), S("g")>>, Variadic(1))},
        j \in {Copy(R("m"), R("l")), Store(A(0), R("l")), Asm},
        v \in {"l", "m"}}

(* Functions found by dlsym(). *)
DlsymPrograms ==
    {Program(<<Alloca("a"), Call("p", S("dlsym"), <<Data, S("g")>>, Fixed(2)), i, j>>,
             Fun(1, FALSE, <<Store(A(0), S("f")), Ret(A(0))>>), Globals, d) :
        i \in {Call("r", R("p"), <<R("a")>>, Fixed(1)), Store(S("g"), R("p"))},
        j \in {Load("s", R("a")), Call("s", R("p"), <<S("g")>>, Fixed(1))},
        d \in {{}, {"f"}, {"f", "main"}}}

AllPrograms == MemoryPrograms \cup CallPrograms \cup TwoPrograms \cup VariadicPrograms \cup DlsymPrograms
=============================================================================
