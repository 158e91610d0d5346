----------------------------- MODULE PassEdges -----------------------------
(***************************************************************************)
(* From instructions to points-to sets.  The LLVM pass                     *)
(* (BraceletReachability.cpp) visits a program and emits edges; the        *)
(* points-to generator (PointsTo.cpp, templates/c.txt) writes the edges of *)
(* a function as C statements, and SVF computes the points-to sets of the  *)
(* C variables.  Then the program runs: what a register or a memory cell   *)
(* holds at any moment must be in the set of its node.                     *)
(*                                                                         *)
(* A program is a record: `order' lists its functions, `fun' gives each    *)
(* its number of parameters, whether it is variadic, and its body,         *)
(* `globals' lists the global variables, of which `init' gives the         *)
(* initializers, and `dlsyms' is what dlsym() returned before the snapshot *)
(* was taken.                                                              *)
(* Operands: <<"reg", name>>, <<"arg", i>>, <<"sym", name>>, <<"data">>    *)
(* (a constant without a pointer, null, an aggregate of such constants)    *)
(* and <<"agg", symbols>> (an aggregate or expression with pointers, those *)
(* of the aggregates in it included: the pass gives each of these that has *)
(* several a node of its own, which is assigned to the outer one).         *)
(***************************************************************************)
EXTENDS Integers, Sequences, FiniteSets, TLC, FiniteSetsExt, SequencesExt

CONSTANT Programs

Operands(I) ==
    CASE I.op \in {"alloca", "asm"} -> {}
      [] I.op \in {"store", "atomic"} -> {I.to, I.val}
      [] I.op = "load" -> {I.from}
      [] I.op = "assign" -> ToSet(I.ops)
      [] I.op = "call" -> ToSet(I.args)
      [] I.op = "ret" -> {I.val}
      [] I.op = "copy" -> {I.to, I.from}
      [] I.op = "vastart" -> {I.to}

(* What LLVM's verifier and the linker guarantee. Symbols are defined, but *)
(* a call may name any; a call passes the arguments its type has.          *)
IsConstant(p, v) ==
    LET symbols == ToSet(p.order) \cup ToSet(p.globals)
    IN  \/ v = <<"data">>
        \/ v = <<"sym", v[2]>> /\ v[2] \in symbols
        \/ v = <<"agg", v[2]>> /\ v[2] \in Seq(symbols) \ {<<>>}
IsRegister(v) == v = <<"reg", v[2]>>
IsOperand(p, v) == IsConstant(p, v) \/ IsRegister(v) \/ v = <<"arg", v[2]>>
IsSequence(s) == s \in Seq(ToSet(s))
WellTyped(I) ==
    /\ I.type.n \in Nat /\ I.type.vararg \in BOOLEAN
    /\ I.type.n = Len(I.args) \/ (I.type.vararg /\ I.type.n < Len(I.args))
IsInstruction(p, F, I) ==
    /\ I.op \in {"alloca", "asm", "store", "load", "atomic", "assign", "call", "ret", "copy", "vastart"}
    /\ I.op = "assign" => IsSequence(I.ops)
    /\ I.op = "call" => IsSequence(I.args) /\ WellTyped(I)
                          /\ (IsOperand(p, I.callee) \/ I.callee = <<"sym", I.callee[2]>>)
    /\ I.op = "vastart" => F.vararg
    /\ I.op \in {"alloca", "load", "atomic", "assign", "call"} => IsRegister(I.into)
    /\ \A v \in Operands(I) : IsOperand(p, v)
IsFunction(p, F) ==
    /\ F.params \in Nat /\ F.vararg \in BOOLEAN /\ IsSequence(F.body)
    /\ \A i \in DOMAIN F.body : IsInstruction(p, F, F.body[i])
    /\ \A i, j \in DOMAIN F.body :
          F.body[i].op = "alloca" /\ F.body[j].op = "alloca" /\ F.body[i].into = F.body[j].into => i = j
ASSUME ProgramsAssumption ==
    \A p \in Programs :
        /\ p.order # <<>> /\ IsSequence(p.order) /\ IsInjective(p.order)
        /\ {"bracelet_reachability_globals", "dlsym"} \cap ToSet(p.order) = {}
        /\ \A f \in ToSet(p.order) : IsFunction(p, p.fun[f])
        /\ IsSequence(p.globals) /\ DOMAIN p.init = ToSet(p.globals)
        /\ \A g \in ToSet(p.globals) : IsConstant(p, p.init[g])
        /\ p.dlsyms \subseteq ToSet(p.order) \cup ToSet(p.globals)

VARIABLES
    prog,    \* the program
    phase,   \* "visit", "solve", "run", "refused" by the generator, or "asserted" in the pass
    ip,      \* index of the visited function and of its instruction, 0 before its constructor
    writer,  \* the FunctionWriter and the EdgeVisitor of each function
    pts,     \* pairs: a variable of the C code, an object it may point to
    reg,     \* values of registers and arguments, <<>> if no pointer
    mem,     \* values of memory cells
    live,    \* functions that have been called
    pending  \* pairs: a function, the call site that waits for it

passVars == <<prog, phase, ip, writer>>
runVars == <<reg, mem, live, pending>>
vars == <<passVars, pts, runVars>>

NoNode == <<>>
GlobalsFunction == "bracelet_reachability_globals"
SymbolNode(s) == <<s, -1>>
Put(f, x, v) == [y \in DOMAIN f \cup {x} |-> IF y = x THEN v ELSE f[y]]
Override(f, g) == [y \in DOMAIN f \cup DOMAIN g |-> IF y \in DOMAIN g THEN g[y] ELSE f[y]]
Min2(a, b) == IF a < b THEN a ELSE b

FunctionNames == {prog.order[i] : i \in 1..Len(prog.order)}
Body(f) == prog.fun[f].body

----------------------------------------------------------------------------
(* Nodes. `w' is the state of a function's writer: its name, the node of   *)
(* each value, the next local, how many locals are allocations, its edges. *)

NewWriter(f) == [fn |-> f, locals |-> <<>>, next |-> 0, allocas |-> 0, edges |-> {}]
Local(w, v) == <<w.fn, w.locals[v]>>
(* Mutant: `next_id' is not incremented. *)
FreshLocalStays(w, v) == [w EXCEPT !.locals = Put(@, v, w.next)]
FreshLocal(w, v) == [w EXCEPT !.locals = Put(@, v, w.next), !.next = @ + 1]
AddEdges(w, E) == [w EXCEPT !.edges = @ \cup E]

(* A loop of n steps over a writer. *)
Repeat(Step(_, _), w, n) ==
    LET after[k \in 0..n] == IF k = 0 THEN w ELSE Step(after[k - 1], k)
    IN  after[n]

(* A constant: the symbol, nothing, or, for an aggregate of several        *)
(* pointers, a fresh node to which they are all assigned.                  *)
ConstantNode(w, v) ==
    IF v[1] = "sym" THEN [w |-> w, n |-> SymbolNode(v[2])]
    ELSE IF v[1] = "data" THEN [w |-> w, n |-> NoNode]
    ELSE IF Len(v[2]) = 1 THEN [w |-> w, n |-> SymbolNode(v[2][1])]
    ELSE LET w1 == FreshLocal(w, <<"const", w.next>>)
             c == <<w.fn, w.next>>
         IN  [w |-> AddEdges(w1, {<<"Assign", c, SymbolNode(v[2][i])>> : i \in 1..Len(v[2])}),
              n |-> c]

(* node(V): the writer after the call, and the node. *)
NodeOf(w, v) ==
    IF v[1] \notin {"reg", "arg"} THEN ConstantNode(w, v)
    ELSE LET w1 == IF v \in DOMAIN w.locals THEN w ELSE FreshLocal(w, v)
         IN  [w |-> w1, n |-> Local(w1, v)]

AddStoreEdge(w, to, from) ==
    LET F == NodeOf(w, from)
        T == NodeOf(F.w, to)
    IN  IF NoNode \in {F.n, T.n} THEN T.w ELSE AddEdges(T.w, {<<"Store", T.n, F.n>>})

AddLoadEdge(w, into, from) ==
    LET F == NodeOf(w, from)
        I == NodeOf(F.w, into)
    IN  IF F.n = NoNode THEN F.w ELSE AddEdges(I.w, {<<"Load", I.n, F.n>>})

AddAssignEdge(w, into, from) ==
    LET F == NodeOf(w, from)
        I == NodeOf(F.w, into)
    IN  IF F.n = NoNode THEN F.w ELSE AddEdges(I.w, {<<"Assign", I.n, F.n>>})

(* A temporary between a load and a store: va_copy, memcpy, memmove. An    *)
(* operand that is null leaves an edge without a node.                     *)
CopyEdges(w, dst, src) ==
    LET w1 == FreshLocal(w, <<"tmp", w.next>>)
        S == NodeOf(w1, src)
        D == NodeOf(S.w, dst)
        tmp == <<w.fn, w.next>>
    IN  AddEdges(D.w, {<<"Load", tmp, S.n>>, <<"Store", D.n, tmp>>})

VastartEdges(w, list) ==
    LET w1 == FreshLocal(w, <<"tmp", w.next>>)
        D == NodeOf(w1, list)
        tmp == <<w.fn, w.next>>
    IN  AddEdges(D.w, {<<"Load", tmp, Local(w, <<"valist">>)>>, <<"Store", D.n, tmp>>})

(* The number of arguments of the emitted call, and the index an argument  *)
(* is supplied at: all variadic ones share the index after the last        *)
(* parameter.                                                              *)
IsVarArg(I) == I.type.vararg /\ Len(I.args) > 0
CallNargs(I) == IF IsVarArg(I) THEN I.type.n + 1 ELSE I.type.n
(* Mutant: every variadic argument has an index of its own. *)
SupplyIndexUnbounded(I, k) == k
SupplyIndex(I, k) == IF IsVarArg(I) THEN Min2(k, I.type.n) ELSE k

SupplyArgument(w, I, site, k) ==
    LET A == NodeOf(w, I.args[k])
    IN  IF A.n = NoNode THEN A.w
        ELSE AddEdges(A.w, {<<"ArgumentSupply", site, A.n, SupplyIndex(I, k - 1)>>})
SupplyEdges(w, I, site) ==
    Repeat(LAMBDA u, k : SupplyArgument(u, I, site, k), w, Len(I.args))

CallEdges(w, I) ==
    LET C == NodeOf(w, I.into)
        S == SupplyEdges(C.w, I, C.n)
        F == NodeOf(S, I.callee)
    IN  IF I.callee = <<"sym", "dlsym">>
        THEN AddEdges(C.w, {<<"DlsymPagePointer", C.n>>})
        ELSE AddEdges(F.w, {<<"Call", C.n, F.n, CallNargs(I)>>})

(* After a call of dlsym() the pass inserts one that notes the result in   *)
(* the page list of the site, a global it makes.  Comments on calls that   *)
(* are inserted in the same place (lines 517 and 523) say they are visited *)
(* too; LLVM's visitor, which is not part of this repository, steps to the *)
(* next instruction before it visits one.  Either may happen here.         *)
VisitInserted(w, I) ==
    LET site == <<w.fn, w.next>>
    IN  IF I.callee # <<"sym", "dlsym">> THEN w
        ELSE AddEdges(FreshLocal(w, <<"tmp", w.next>>),
                      {<<"ArgumentSupply", site, Local(w, I.into), 0>>,
                       <<"ArgumentSupply", site, SymbolNode("dlsym_page"), 1>>,
                       <<"Call", site, SymbolNode("braceletReachabilityDlsymPageInsert"), 2>>})

ReturnEdges(w, v) ==
    LET V == NodeOf(w, v)
    IN  IF V.n = NoNode THEN V.w ELSE AddEdges(V.w, {<<"Return", SymbolNode(w.fn), V.n>>})

----------------------------------------------------------------------------
(* The visitor.                                                            *)

Init ==
    /\ prog \in Programs
    /\ phase = "visit"
    /\ ip = <<0, 0>>
    /\ writer = <<>>
    /\ pts = {}
    /\ reg = <<>>
    /\ mem = <<>>
    /\ live = {}
    /\ pending = {}

(* The initializers of the globals, as stores of a function of their own. *)
Initialize(w, k) ==
    LET g == prog.globals[k]
        V == ConstantNode(w, prog.init[g])
    IN  IF V.n = NoNode THEN V.w ELSE AddEdges(V.w, {<<"Store", SymbolNode(g), V.n>>})
InitializeAll(w) == Repeat(Initialize, w, Len(prog.globals))
VisitGlobals ==
    /\ phase = "visit" /\ ip = <<0, 0>>
    /\ writer' = Put(writer, GlobalsFunction, InitializeAll(NewWriter(GlobalsFunction)))
    /\ ip' = <<1, 0>>
    /\ UNCHANGED <<prog, phase, pts, runVars>>

(* The allocas are the first locals; those that model the va_list of a     *)
(* variadic function come next, and only then locals without allocation.   *)
Allocate(w, I) == IF I.op = "alloca" THEN FreshLocal(w, I.into) ELSE w
AllocateAll(w, f) == Repeat(LAMBDA u, k : Allocate(u, Body(f)[k]), w, Len(Body(f)))
AllocaLocals(w, f) ==
    LET w1 == AllocateAll(w, f)
    IN  [w1 EXCEPT !.allocas = w1.next]

(* Mutant: the data of the va_list counts as an allocation too. *)
VarArgLocalsAll(w, f) ==
    IF ~prog.fun[f].vararg THEN w
    ELSE LET w1 == FreshLocal(FreshLocal(FreshLocal(w, <<"valist">>), <<"vasave">>), <<"vadata">>)
         IN  [w1 EXCEPT !.allocas = @ + 3]
VarArgLocals(w, f) ==
    IF ~prog.fun[f].vararg THEN w
    ELSE LET w1 == FreshLocal(FreshLocal(FreshLocal(w, <<"valist">>), <<"vasave">>), <<"vadata">>)
             n == [v \in {"valist", "vasave", "vadata"} |-> Local(w1, <<v>>)]
         IN  AddEdges([w1 EXCEPT !.allocas = @ + 2],
                      {<<"ArgumentDefinition", n["vadata"], f, prog.fun[f].params>>,
                       <<"Store", n["vasave"], n["vadata"]>>,
                       <<"Store", n["valist"], n["vasave"]>>})

Define(w, f, i) ==
    LET A == NodeOf(w, <<"arg", i>>)
    IN  AddEdges(A.w, {<<"ArgumentDefinition", A.n, f, i>>})
ParameterLocals(w, f) == Repeat(LAMBDA u, k : Define(u, f, k - 1), w, prog.fun[f].params)

EnterFunction ==
    /\ phase = "visit" /\ ip[1] \in 1..Len(prog.order) /\ ip[2] = 0
    /\ LET f == prog.order[ip[1]]
       IN  writer' = Put(writer, f,
                         ParameterLocals(VarArgLocals(AllocaLocals(NewWriter(f), f), f), f))
    /\ ip' = <<ip[1], 1>>
    /\ UNCHANGED <<prog, phase, pts, runVars>>

(* The instruction the visitor is at, and the writer of its function.      *)
Instr == Body(prog.order[ip[1]])[ip[2]]
W == writer[prog.order[ip[1]]]

(* Edge's constructors assert that both nodes are there. *)
Whole(w) ==
    \A e \in w.edges : e[1] \in {"Load", "Store", "Call"} => NoNode \notin {e[2], e[3]}

(* One visit*() call: w is the writer after it. *)
Visit(op, w) ==
    /\ phase = "visit" /\ ip[1] \in 1..Len(prog.order)
    /\ ip[2] \in 1..Len(Body(prog.order[ip[1]])) /\ Instr.op = op
    /\ IF Whole(w)
       THEN /\ writer' = [writer EXCEPT ![prog.order[ip[1]]] = w]
            /\ ip' = <<ip[1], ip[2] + 1>>
            /\ UNCHANGED phase
       ELSE /\ phase' = "asserted"
            /\ UNCHANGED <<writer, ip>>
    /\ UNCHANGED <<prog, pts, runVars>>

(* Allocas were handled before, inline assembly is skipped. *)
VisitAlloca == Visit("alloca", W)
VisitInlineAsm == Visit("asm", W)
VisitStore == Visit("store", AddStoreEdge(W, Instr.to, Instr.val))
VisitLoad == Visit("load", AddLoadEdge(W, Instr.into, Instr.from))
VisitAtomic == Visit("atomic",
    AddStoreEdge(AddLoadEdge(W, Instr.into, Instr.to), Instr.to, Instr.val))
(* getelementptr, phi, casts, select, vector and aggregate operations,     *)
(* unary and binary operators.                                             *)
AssignEdges(w, I) == Repeat(LAMBDA u, k : AddAssignEdge(u, I.into, I.ops[k]), w, Len(I.ops))
VisitAssigning == Visit("assign", AssignEdges(W, Instr))
VisitReturn == Visit("ret", ReturnEdges(W, Instr.val))
VisitCall ==
    \/ Visit("call", CallEdges(W, Instr))
    \/ Visit("call", VisitInserted(CallEdges(W, Instr), Instr))
VisitCopy == Visit("copy", CopyEdges(W, Instr.to, Instr.from))
VisitVastart == Visit("vastart", VastartEdges(W, Instr.to))

FinishFunction ==
    /\ phase = "visit" /\ ip[1] \in 1..Len(prog.order)
    /\ ip[2] = Len(Body(prog.order[ip[1]])) + 1
    /\ ip' = <<ip[1] + 1, 0>>
    /\ UNCHANGED <<prog, phase, writer, pts, runVars>>

----------------------------------------------------------------------------
(* The C code. Its variables: <<"node", n>>, <<"sup", site, i>> for        *)
(* call_arg_<site>_<i>, <<"arg", f, i>> for parameter i of the C function, *)
(* <<"ret", f>>, and <<"cell", o>> for the contents of object o. Objects   *)
(* are named by the node whose allocation they are.                        *)

Edges == UNION {writer[f].edges : f \in DOMAIN writer}
EdgesOf(kind) == {e \in Edges : e[1] = kind}
PointsTo(x) == {p[2] : p \in {q \in pts : q[1] = x}}

(* this_function_nargs, from the ArgumentDefinition edges. *)
DefinedNargs(f) ==
    LET ns == {e[4] + 1 : e \in {d \in EdgesOf("ArgumentDefinition") : d[3] = f}}
    IN  IF ns = {} THEN 0 ELSE CHOOSE n \in ns : \A m \in ns : m <= n

(* Mutant: a conflict of argument counts is not an error. *)
NargsAlways == TRUE
(* setNargs: all that is known of the number of arguments of f agrees. *)
NargsAgree ==
    \A e \in EdgesOf("Call") : \A f \in FunctionNames :
        e[3] = SymbolNode(f) => e[4] = DefinedNargs(f)

Malloced ==
    UNION {{<<"node", <<f, i>>>> : i \in 0..(writer[f].allocas - 1)} : f \in FunctionNames}

(* The overrides of malloc and its like are inlined: an object per call. *)
HeapAllocating == {e[2] : e \in {c \in EdgesOf("Call") : c[3] = SymbolNode("malloc")}}

InitialPointsTo ==
    {<<x, x[2]>> : x \in Malloced}
    \cup {<<<<"node", SymbolNode(g)>>, SymbolNode(g)>> : g \in (DOMAIN prog.init) \cup FunctionNames}
    \cup {<<<<"node", c>>, c>> : c \in HeapAllocating}

Targets(callee) ==
    {f \in FunctionNames : IF callee[2] = -1 THEN callee = SymbolNode(f)
                                         ELSE SymbolNode(f) \in PointsTo(<<"node", callee>>)}

(* What the statements of an edge copy: pairs of variables, from and to. *)
StatementCopies(e) ==
    CASE e[1] = "Assign" -> {<<<<"node", e[3]>>, <<"node", e[2]>>>>}
      [] e[1] = "Load" -> {<<<<"cell", o>>, <<"node", e[2]>>>> : o \in PointsTo(<<"node", e[3]>>)}
      [] e[1] = "Store" -> {<<<<"node", e[3]>>, <<"cell", o>>>> : o \in PointsTo(<<"node", e[2]>>)}
      [] e[1] = "Call" ->
            UNION {{<<<<"sup", e[2], i>>, <<"arg", f, i>>>> : i \in 0..(Min2(e[4], DefinedNargs(f)) - 1)}
                   \cup {<<<<"ret", f>>, <<"node", e[2]>>>>} : f \in Targets(e[3])}
      [] e[1] = "Return" -> {<<<<"node", e[3]>>, <<"ret", e[2][1]>>>>}
      [] e[1] = "ArgumentDefinition" -> {<<<<"arg", e[3], e[4]>>, <<"node", e[2]>>>>}
      [] e[1] = "ArgumentSupply" -> {<<<<"node", e[3]>>, <<"sup", e[2], e[4]>>>>}
      [] e[1] = "DlsymPagePointer" ->
            {<<<<"node", SymbolNode(s)>>, <<"node", e[2]>>>> : s \in prog.dlsyms}

Copies == UNION {StatementCopies(e) : e \in Edges}

Derived == UNION {{<<c[2], o>> : o \in PointsTo(c[1])} : c \in Copies}

(* The edges of all functions are known: the generator refuses a conflict  *)
(* of argument counts, otherwise the analysis starts.                      *)
WriteC ==
    /\ phase = "visit" /\ ip[1] = Len(prog.order) + 1
    /\ phase' = IF NargsAgree THEN "solve" ELSE "refused"
    /\ pts' = IF NargsAgree THEN InitialPointsTo ELSE {}
    /\ UNCHANGED <<prog, ip, writer, runVars>>

(* SVF: one round of propagation, until nothing is new. *)
Propagate ==
    /\ phase = "solve" /\ ~(Derived \subseteq pts)
    /\ pts' = pts \cup Derived
    /\ UNCHANGED <<passVars, runVars>>

----------------------------------------------------------------------------
(* The run. An object is <<function, alloca or call>>, <<f, <<"vasave">>>> *)
(* (the variadic arguments of f) or <<s, <<"sym", s>>>>; a pointer is an   *)
(* object and an offset. Any instruction of a function that was called may *)
(* execute at any time: more executions than the control flow allows.      *)

Offsets == {0, 1}
Null == <<>>
Object(s, v) == <<s, v>>
SymbolObject(s) == Object(s, <<"sym", s>>)
ReadCell(a) == IF a \in DOMAIN mem THEN mem[a] ELSE Null
ReadReg(f, v) == IF <<f, v>> \in DOMAIN reg THEN reg[<<f, v>>] ELSE Null

(* The pointers an operand may evaluate to. *)
Eval(f, v) ==
    CASE v[1] = "sym" -> {<<SymbolObject(v[2]), 0>>}
      [] v[1] = "data" -> {Null}
      [] v[1] = "agg" -> {<<SymbolObject(v[2][i]), 0>> : i \in 1..Len(v[2])}
      [] OTHER -> {ReadReg(f, v)}

Start ==
    LET cell(g) == <<SymbolObject(g), 0>>
        globals == DOMAIN prog.init
        values == UNION {Eval("", prog.init[g]) : g \in globals}
    IN  /\ phase = "solve" /\ Derived \subseteq pts
        /\ phase' = "run"
        /\ live' = {prog.order[1]}
        /\ mem' \in {m \in [{cell(g) : g \in globals} -> values] :
                        \A g \in globals : m[cell(g)] \in Eval("", prog.init[g])}
        /\ UNCHANGED <<prog, ip, writer, pts, reg, pending>>

Instructions(f, op) == {I \in ToSet(Body(f)) : I.op = op}

SetReg(f, v, a) == reg' = Put(reg, <<f, v>>, a)
KeepRun == UNCHANGED <<passVars, pts>>

RunAlloca ==
    \E f \in live : \E I \in Instructions(f, "alloca") :
        /\ SetReg(f, I.into, <<Object(f, I.into), 0>>)
        /\ KeepRun /\ UNCHANGED <<mem, live, pending>>

RunStore ==
    \E f \in live : \E I \in Instructions(f, "store") : \E p \in Eval(f, I.to), v \in Eval(f, I.val) :
        /\ p # Null
        /\ mem' = Put(mem, p, v)
        /\ KeepRun /\ UNCHANGED <<reg, live, pending>>

RunLoad ==
    \E f \in live : \E I \in Instructions(f, "load") : \E p \in Eval(f, I.from) :
        /\ p # Null
        /\ SetReg(f, I.into, ReadCell(p))
        /\ KeepRun /\ UNCHANGED <<mem, live, pending>>

RunAtomic ==
    \E f \in live : \E I \in Instructions(f, "atomic") : \E p \in Eval(f, I.to), v \in Eval(f, I.val) :
        /\ p # Null
        /\ SetReg(f, I.into, ReadCell(p))
        /\ mem' = Put(mem, p, v)
        /\ KeepRun /\ UNCHANGED <<live, pending>>

(* The result points into an object one of the operands points into. *)
RunAssigning ==
    \E f \in live : \E I \in Instructions(f, "assign") : \E k \in 1..Len(I.ops), o \in Offsets :
        \E a \in Eval(f, I.ops[k]) :
            /\ SetReg(f, I.into, IF a = Null THEN Null ELSE <<a[1], o>>)
            /\ KeepRun /\ UNCHANGED <<mem, live, pending>>

(* Every cell of an object is copied, memcpy() and va_copy() alike. *)
RunCopy ==
    \E f \in live : \E I \in Instructions(f, "copy") : \E d \in Eval(f, I.to), s \in Eval(f, I.from) :
        /\ Null \notin {d, s}
        /\ mem' = Override(mem, [a \in {<<d[1], o>> : o \in Offsets} |-> ReadCell(<<s[1], a[2]>>)])
        /\ KeepRun /\ UNCHANGED <<reg, live, pending>>

RunVastart ==
    \E f \in live : \E I \in Instructions(f, "vastart") : \E d \in Eval(f, I.to) :
        /\ d # Null
        /\ mem' = Put(mem, d, <<Object(f, <<"vasave">>), 0>>)
        /\ KeepRun /\ UNCHANGED <<reg, live, pending>>

RunMalloc ==
    \E f \in live : \E I \in Instructions(f, "call") :
        /\ I.callee = <<"sym", "malloc">>
        /\ SetReg(f, I.into, <<Object(f, I.into), 0>>)
        /\ KeepRun /\ UNCHANGED <<mem, live, pending>>

RunDlsym ==
    \E f \in live : \E I \in Instructions(f, "call") : \E s \in prog.dlsyms :
        /\ I.callee = <<"sym", "dlsym">>
        /\ SetReg(f, I.into, <<SymbolObject(s), 0>>)
        /\ KeepRun /\ UNCHANGED <<mem, live, pending>>

(* A call through a pointer is undefined unless its type is the callee's.  *)
(* The type of one without a prototype, f(), is variadic after all of its  *)
(* arguments.                                                              *)
CallDefined(I, F) ==
    \/ I.callee[1] = "sym"
    \/ I.type = [n |-> F.params, vararg |-> F.vararg]
    \/ ~F.vararg /\ I.type = [n |-> Len(I.args), vararg |-> TRUE]

(* A call with the arguments the callee takes; those beyond its parameters *)
(* go to its save area.                                                    *)
RunCall ==
    \E f \in live : \E I \in Instructions(f, "call") : \E c \in Eval(f, I.callee), g \in FunctionNames :
        LET n == prog.fun[g].params
            extra == (n + 1)..Len(I.args)
            arguments == {a \in [1..Len(I.args) -> UNION {Eval(f, I.args[k]) : k \in 1..Len(I.args)}] :
                            \A k \in 1..Len(I.args) : a[k] \in Eval(f, I.args[k])}
        IN  /\ c = <<SymbolObject(g), 0>> /\ CallDefined(I, prog.fun[g])
            /\ Len(I.args) = n \/ (prog.fun[g].vararg /\ Len(I.args) > n)
            /\ \E a \in arguments :
                 /\ reg' = Override(reg, [x \in {<<g, <<"arg", k - 1>>>> : k \in 1..n} |-> a[x[2][2] + 1]])
                 /\ mem' = Override(mem, [x \in {<<Object(g, <<"vasave">>), k - n - 1>> : k \in extra} |->
                                              a[x[2] + n + 1]])
            /\ live' = live \cup {g}
            /\ pending' = pending \cup {<<g, f, I.into>>}
            /\ KeepRun

RunReturn ==
    \E f \in live : \E I \in Instructions(f, "ret") : \E p \in pending, v \in Eval(f, I.val) :
        /\ p[1] = f
        /\ SetReg(p[2], p[3], v)
        /\ pending' = pending \ {p}
        /\ KeepRun /\ UNCHANGED <<mem, live>>

Execute ==
    \/ RunAlloca \/ RunStore \/ RunLoad \/ RunAtomic \/ RunAssigning \/ RunCopy
    \/ RunVastart \/ RunMalloc \/ RunDlsym \/ RunCall \/ RunReturn

Next ==
    \/ VisitGlobals \/ EnterFunction
    \/ VisitAlloca \/ VisitInlineAsm \/ VisitStore \/ VisitLoad \/ VisitAtomic
    \/ VisitAssigning \/ VisitReturn \/ VisitCall \/ VisitCopy \/ VisitVastart
    \/ FinishFunction \/ WriteC \/ Propagate \/ Start
    \/ Execute

Spec == Init /\ [][Next]_vars

----------------------------------------------------------------------------
(* Properties                                                              *)

(* Types: nodes of a writer are numbered below `next', what a run holds    *)
(* are pointers to objects of the program.                                 *)
TypeOK ==
    /\ prog \in Programs
    /\ phase \in {"visit", "solve", "run", "refused", "asserted"}
    /\ \A f \in DOMAIN writer :
         /\ writer[f].allocas <= writer[f].next
         /\ \A v \in DOMAIN writer[f].locals : writer[f].locals[v] \in 0..(writer[f].next - 1)
    /\ live \subseteq FunctionNames

(* The node of an object and of a value of the run. *)
NodeOfObject(o) == IF o[2][1] = "sym" THEN SymbolNode(o[1]) ELSE Local(writer[o[1]], o[2])

(* What a register or argument holds is in the points-to set of its node,  *)
(* and what a cell holds in that of its object: the claim that             *)
(* checkPointsToAgainstTrace tests on recorded traces ("Missing edge").    *)
FlowsCovered ==
    phase = "run" =>
        /\ \A x \in DOMAIN reg : reg[x] # Null =>
             <<<<"node", Local(writer[x[1]], x[2])>>, NodeOfObject(reg[x][1])>> \in pts
        /\ \A a \in DOMAIN mem : mem[a] # Null =>
             <<<<"cell", NodeOfObject(a[1])>>, NodeOfObject(mem[a][1])>> \in pts

(* templates/c.txt declares call_arg_<site>_<i> for the arguments of the   *)
(* Call edge of a site and assigns one for each ArgumentSupply edge, so    *)
(* each supply of a visited function must lie within a call of its site.   *)
SuppliesDeclared ==
    phase \notin {"visit", "asserted"} =>
        \A e \in EdgesOf("ArgumentSupply") : \E c \in EdgesOf("Call") :
            c[2] = e[2] /\ e[4] < c[4]

(* One number per value, and those below `allocas', which templates/c.txt  *)
(* initializes with malloc(), are exactly the allocations of the function. *)
AllocasNumberedFirst ==
    \A f \in (DOMAIN writer) \ {GlobalsFunction} :
        LET allocated == {I.into : I \in {Body(f)[i] : i \in
                                {j \in 1..Len(Body(f)) : Body(f)[j].op = "alloca"}}}
                         \cup (IF prog.fun[f].vararg THEN {<<"valist">>, <<"vasave">>} ELSE {})
            numbered == DOMAIN writer[f].locals
        IN  /\ \A u, v \in numbered : writer[f].locals[u] = writer[f].locals[v] => u = v
            /\ \A v \in numbered : writer[f].locals[v] < writer[f].allocas <=> v \in allocated
=============================================================================
