---------------------------- MODULE PointsToEmit ----------------------------
(***************************************************************************)
(* The points-to tool (PointsTo.cpp: EmitC and Svf, main.cpp).  A run      *)
(* reads the edges of an object twice: the first pass finds out what each  *)
(* symbol is (data, or a function of so many arguments), the second writes *)
(* one C file per function.  The files are built, SVF is run on the        *)
(* result, and its points-to relation is loaded to be compared to traces.  *)
(* With --tmp the directory of the files outlives the run.                 *)
(*                                                                         *)
(* An object is a record: `fns' is the sequence of its function            *)
(* descriptions in the order readEdges() finds them, `name' gives every    *)
(* symbol its name without version.  A node is <<symbol, -1>> or           *)
(* <<symbol, local>>.                                                      *)
(***************************************************************************)
EXTENDS Integers, Sequences, FiniteSets

CONSTANTS
    Objects,    \* objects a run may be given
    Overrides,  \* override_nargs: the number of arguments of every override of the prelude
    MaxRuns     \* bound on the number of runs

VARIABLES
    run,            \* number of the current run
    obj, opts,      \* its object and its options
    phase,          \* what it is doing
    i, edges,       \* index of the description being read, its edges not yet visited
    nargs,          \* current_function_nargs
    calls,          \* calls of setNargs() the visited edge still makes
    node_states, checked, override_nodes, declared_functions,
    missing,        \* missing.txt
    dir,            \* the work directory: its C files and the run that wrote its pts.csv
    kept,           \* the directory --tmp names, between runs
    pts             \* the run whose points-to relation was loaded, or 0

passVars == <<i, edges, nargs, calls, node_states, checked, override_nodes>>
writeVars == <<declared_functions, missing>>
runVars == <<run, obj, opts>>
vars == <<runVars, phase, passVars, writeVars, dir, kept, pts>>

Undefined == <<"undefined", 0>>
GlobalData == <<"data", 0>>
Function(n) == <<"function", n>>
IsFunction(s) == s[1] = "function"
SymbolNode(s) == <<s, -1>>
IsSymbol(n) == n[2] = -1

(* Edges have two nodes and, of some kinds, a number.  A node that is not  *)
(* of the function described is a symbol: Frame::decode_node of Reader.cpp *)
(* makes locals of that function only.                                     *)
EdgeKinds == {"Assign", "Load", "Store", "Call", "Return", "ArgumentDefinition",
              "ArgumentSupply", "DlsymPagePointer"}

ASSUME ObjectsAssumption ==
    \A o \in Objects :
        /\ o.fns \in Seq([fn : DOMAIN o.name, edges : SUBSET [kind : EdgeKinds,
                              a : (DOMAIN o.name) \X Int, b : (DOMAIN o.name) \X Int, n : Nat]])
        /\ \A k \in 1..Len(o.fns) : IsFiniteSet(o.fns[k].edges)
        /\ \A k \in 1..Len(o.fns) : \A e \in o.fns[k].edges : \A n \in {e.a, e.b} :
             n[1] = o.fns[k].fn \/ n[2] = -1
ASSUME OverridesAssumption == \A x \in DOMAIN Overrides : Overrides[x] \in Nat
ASSUME MaxRunsAssumption == MaxRuns \in Nat

Options == [conservative : BOOLEAN, save_pts : BOOLEAN, trace : BOOLEAN, tmp : BOOLEAN]
EmptyDir == [files |-> <<>>, pts |-> 0]
Fn(k) == obj.fns[k].fn

----------------------------------------------------------------------------
(* The initial pass.                                                       *)

(* The nodes of an edge that belong to other symbols than the function. *)
Foreign(fn, e) == {n \in {e.a, e.b} : n[1] # fn}
Overridden(o, n) == o.name[n[1]] \in DOMAIN Overrides
OverrideState(o, n) == Function(Overrides[o.name[n[1]]])

(* What an edge tells of symbols: the callee of a call is a function, the  *)
(* target of a store is not, a foreign node exists.                        *)
(* Mutant: whether the callee is a symbol is not looked at. *)
EdgeFactsLocal(fn, e) ==
    (IF e.kind = "Call" THEN {<<e.b, Function(e.n)>>} ELSE {})
    \cup {<<n, Undefined>> : n \in Foreign(fn, e)}
EdgeFacts(fn, e) ==
    (IF e.kind = "Call" /\ IsSymbol(e.b) THEN {<<e.b, Function(e.n)>>} ELSE {})
    \cup (IF e.kind = "Store" /\ IsSymbol(e.a) THEN {<<e.a, GlobalData>>} ELSE {})
    \cup {<<n, Undefined>> : n \in Foreign(fn, e)}
OverrideFacts(o, N) == {<<n, OverrideState(o, n)>> : n \in {m \in N : Overridden(o, m)}}

Init ==
    /\ run = 0 /\ phase = "idle"
    /\ obj \in Objects /\ opts \in Options
    /\ i = 0 /\ edges = {} /\ nargs = 0 /\ calls = {}
    /\ node_states = <<>> /\ checked = {} /\ override_nodes = {}
    /\ declared_functions = {} /\ missing = {}
    /\ dir = EmptyDir /\ kept = EmptyDir /\ pts = 0

StartRun ==
    /\ phase = "idle" /\ run < MaxRuns
    /\ run' = run + 1 /\ phase' = "pass"
    /\ obj' \in Objects /\ opts' \in Options
    /\ i' = 0 /\ edges' = {} /\ nargs' = 0 /\ calls' = {}
    /\ node_states' = <<>> /\ checked' = {} /\ override_nodes' = {}
    /\ declared_functions' = {} /\ missing' = {} /\ pts' = 0
    /\ dir' = IF opts'.tmp THEN kept ELSE EmptyDir
    /\ UNCHANGED kept

(* One edge of the function, in any order. *)
VisitEdge ==
    /\ phase = "pass" /\ calls = {}
    /\ \E e \in edges :
         LET new == Foreign(Fn(i), e) \ checked
         IN  /\ edges' = edges \ {e}
             /\ nargs' = IF e.kind = "ArgumentDefinition" /\ e.n + 1 > nargs THEN e.n + 1 ELSE nargs
             /\ calls' = EdgeFacts(Fn(i), e) \cup OverrideFacts(obj, new)
             /\ checked' = checked \cup new
             /\ override_nodes' = override_nodes \cup {n \in new : Overridden(obj, n)}
    /\ UNCHANGED <<runVars, phase, i, node_states, writeVars, dir, kept, pts>>

(* Mutants: no conflict is an error; "undefined" replaces a known state. *)
CompatibleAlways(old, new) == TRUE
JoinedLast(old, new) == new
(* setNargs(): a state replaces "undefined", and two other states must be  *)
(* equal.                                                                  *)
Compatible(old, new) == Undefined \in {old, new} \/ old = new
Joined(old, new) == IF old = Undefined THEN new ELSE old

SetNargs ==
    /\ phase = "pass"
    /\ \E c \in calls :
         LET n == c[1]
             known == n \in DOMAIN node_states
         IN  /\ calls' = calls \ {c}
             /\ IF known /\ ~Compatible(node_states[n], c[2])
                THEN phase' = "refused" /\ UNCHANGED node_states
                ELSE /\ node_states' = [m \in (DOMAIN node_states) \cup {n} |->
                            IF m # n THEN node_states[m]
                            ELSE IF known THEN Joined(node_states[n], c[2]) ELSE c[2]]
                     /\ UNCHANGED phase
    /\ UNCHANGED <<runVars, i, edges, nargs, checked, override_nodes, writeVars, dir, kept, pts>>

(* The next description; the one that ends sets its function's arguments. *)
NextFunction ==
    /\ phase = "pass" /\ calls = {} /\ edges = {} /\ i <= Len(obj.fns)
    /\ i' = i + 1
    /\ edges' = IF i < Len(obj.fns) THEN obj.fns[i + 1].edges ELSE {}
    /\ nargs' = 0
    /\ calls' = IF i = 0 THEN {} ELSE {<<SymbolNode(Fn(i)), Function(nargs)>>}
    /\ UNCHANGED <<runVars, phase, node_states, checked, override_nodes, writeVars, dir, kept, pts>>

----------------------------------------------------------------------------
(* The second pass: C files.                                               *)

FunctionNodes == {n \in DOMAIN node_states : IsFunction(node_states[n])}

(* prelude.h declares the functions and data of node_states; what is left  *)
(* of declared_functions will have no definition.                          *)
WritePrelude ==
    /\ phase = "pass" /\ i = Len(obj.fns) + 1 /\ calls = {}
    /\ phase' = "write" /\ i' = 1
    /\ declared_functions' = FunctionNodes \ override_nodes
    /\ UNCHANGED <<runVars, edges, nargs, calls, node_states, checked, override_nodes, missing,
                   dir, kept, pts>>

(* C files of the nodes N are written, over those the directory has. *)
AddFiles(N, body) ==
    [dir EXCEPT !.files = [n \in N \cup DOMAIN @ |-> IF n \in N THEN body ELSE @[n]]]

(* Mutant: a function with a body stays in declared_functions. *)
WriteFunctionKeeps ==
    LET n == SymbolNode(Fn(i))
    IN  /\ phase = "write" /\ i <= Len(obj.fns)
        /\ dir' = AddFiles({n}, [run |-> run, from |-> i])
        /\ i' = i + 1
        /\ UNCHANGED <<runVars, phase, edges, nargs, calls, node_states, checked, override_nodes,
                       declared_functions, missing, kept, pts>>

(* A later description of the same symbol overwrites the file. *)
WriteFunction ==
    LET n == SymbolNode(Fn(i))
    IN  /\ phase = "write" /\ i <= Len(obj.fns)
        /\ dir' = AddFiles({n}, [run |-> run, from |-> i])
        /\ declared_functions' = declared_functions \ {n}
        /\ i' = i + 1
        /\ UNCHANGED <<runVars, phase, edges, nargs, calls, node_states, checked, override_nodes,
                       missing, kept, pts>>
(* missing.txt and, with --conservative, bodies for what it lists. *)
WriteMissing ==
    /\ phase = "write" /\ i = Len(obj.fns) + 1
    /\ phase' = "make"
    /\ missing' = declared_functions
    /\ dir' = IF opts.conservative
              THEN AddFiles(declared_functions, [run |-> run, from |-> 0])
              ELSE dir
    /\ UNCHANGED <<runVars, passVars, declared_functions, kept, pts>>

----------------------------------------------------------------------------
(* Building, SVF, and the result.                                          *)

(* The Makefile links every C file of the directory, or fails. *)
Make ==
    /\ phase = "make"
    /\ phase' \in {"svf", "failed"}
    /\ UNCHANGED <<runVars, passVars, writeVars, dir, kept, pts>>

(* Mutant: the two cases of the condition are swapped. *)
SavePtsSwapped == IF opts.trace /\ ~opts.tmp THEN TRUE ELSE opts.save_pts
(* What main() asks computePointsTo() or runPointsTo() to save. *)
SavePts == IF opts.trace /\ opts.tmp THEN TRUE ELSE opts.save_pts

PointsTo ==
    /\ phase = "svf"
    /\ phase' \in {"failed", IF opts.trace THEN "load" ELSE "done"}
    /\ dir' = IF SavePts THEN [dir EXCEPT !.pts = run] ELSE dir
    /\ UNCHANGED <<runVars, passVars, writeVars, kept, pts>>

LoadPts ==
    /\ phase = "load"
    /\ pts' = dir.pts
    /\ phase' = IF dir.pts = 0 THEN "failed" ELSE "done"
    /\ UNCHANGED <<runVars, passVars, writeVars, dir, kept>>

EndRun ==
    /\ phase \in {"done", "failed", "refused"}
    /\ phase' = "idle"
    /\ kept' = IF opts.tmp THEN dir ELSE kept
    /\ UNCHANGED <<runVars, passVars, writeVars, dir, pts>>

Next ==
    \/ StartRun \/ VisitEdge \/ SetNargs \/ NextFunction
    \/ WritePrelude \/ WriteFunction \/ WriteMissing
    \/ Make \/ PointsTo \/ LoadPts \/ EndRun

Spec == Init /\ [][Next]_vars

----------------------------------------------------------------------------
(* Properties                                                              *)

Phases == {"idle", "pass", "refused", "write", "make", "svf", "load", "failed", "done"}
Emitted == phase \in {"make", "svf", "load", "failed", "done"}

(* Types, the states a node may have, and the assertion of setNargs(): it  *)
(* is only called for symbols.                                             *)
TypeOK ==
    /\ run \in 0..MaxRuns /\ phase \in Phases
    /\ obj \in Objects /\ opts \in Options
    /\ i \in 0..(Len(obj.fns) + 1) /\ nargs \in Nat /\ pts \in 0..run
    /\ \A c \in calls : IsSymbol(c[1])
    /\ \A n \in DOMAIN node_states :
         node_states[n] \in {Undefined, GlobalData} \/ node_states[n][2] \in Nat

(* The number of arguments a description defines: the largest arg_no + 1. *)
IsNargs(E, n) ==
    /\ \A e \in E : e.kind = "ArgumentDefinition" => e.n + 1 <= n
    /\ n = 0 \/ \E e \in E : e.kind = "ArgumentDefinition" /\ e.n + 1 = n
DefinedNargs(E) == CHOOSE n \in {0} \cup {e.n + 1 : e \in E} : IsNargs(E, n)

(* All an object says of its symbols, in no order. *)
PairFacts(o, k, e) ==
    EdgeFacts(o.fns[k].fn, e) \cup OverrideFacts(o, Foreign(o.fns[k].fn, e))
EndFact(o, k) == <<SymbolNode(o.fns[k].fn), Function(DefinedNargs(o.fns[k].edges))>>
EdgesFacts(o, k) == UNION {PairFacts(o, k, e) : e \in o.fns[k].edges}
DescriptionFacts(o, k) == EdgesFacts(o, k) \cup {EndFact(o, k)}
AllFacts(o) == UNION {DescriptionFacts(o, k) : k \in 1..Len(o.fns)}
Known(F, n) == {f[2] : f \in {g \in F : g[1] = n}} \ {Undefined}
Conflict(F) == \E f, g \in F : f[1] = g[1] /\ f[2] # g[2] /\ Undefined \notin {f[2], g[2]}
JoinOf(F) ==
    [n \in {f[1] : f \in F} |->
        IF Known(F, n) = {} THEN Undefined ELSE CHOOSE s \in Known(F, n) : TRUE]

(* The initial pass refuses an object exactly if what it says of some      *)
(* symbol conflicts, and computes the join of all it says otherwise,       *)
(* whatever the order of descriptions, edges and calls of setNargs().      *)
InitialPassIsJoin ==
    /\ phase = "refused" => Conflict(AllFacts(obj))
    /\ phase = "write" \/ Emitted =>
         /\ ~Conflict(AllFacts(obj))
         /\ node_states = JoinOf(AllFacts(obj))

(* Every C file this run wrote from a description agrees with its prelude: *)
(* all symbols it uses are declared, a direct call has the number of       *)
(* arguments of the prototype, an argument used is a parameter, no         *)
(* function is stored to.                                                  *)
BodiesCompile ==
    Emitted =>
        \A f \in {g \in DOMAIN dir.files : dir.files[g].run = run /\ dir.files[g].from # 0} :
            \A e \in obj.fns[dir.files[f].from].edges :
                /\ \A n \in {e.a, e.b} : SymbolNode(n[1]) \in DOMAIN node_states
                /\ e.kind = "Call" /\ IsSymbol(e.b) => node_states[e.b] = Function(e.n)
                /\ e.kind = "Store" /\ IsSymbol(e.a) => ~IsFunction(node_states[e.a])
                /\ e.kind = "ArgumentDefinition" =>
                     IsFunction(node_states[f]) /\ e.n < node_states[f][2]

(* A function of the prelude is missing exactly if it has neither a        *)
(* description nor an override; then it has a body only with               *)
(* --conservative, and otherwise its file is that of its last description. *)
MissingExact ==
    Emitted =>
        LET described == {SymbolNode(Fn(k)) : k \in 1..Len(obj.fns)}
            last(f) == CHOOSE k \in 1..Len(obj.fns) : SymbolNode(Fn(k)) = f /\
                           \A l \in 1..Len(obj.fns) : SymbolNode(Fn(l)) = f => l <= k
        IN  /\ missing = (FunctionNodes \ described) \ override_nodes
            /\ \A f \in described : dir.files[f] = [run |-> run, from |-> last(f)]
            /\ opts.conservative => \A f \in missing : dir.files[f] = [run |-> run, from |-> 0]

(* The points-to relation compared to traces is that of this run, even if  *)
(* the directory holds one of an earlier run.                              *)
PtsAreCurrent == pts # 0 /\ phase = "done" => pts = run

(* doc/src/points-to.md: "Without --conservative, missing functions remain *)
(* extern"; --tmp is "kept across runs".                                   *)
MissingStayExtern ==
    phase = "svf" /\ ~opts.conservative => missing \cap DOMAIN dir.files = {}
=============================================================================
