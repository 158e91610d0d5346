-------------------------- MODULE SoundnessProofs --------------------------
(***************************************************************************)
(* The points-to sets are sound, and the check of recorded traces against  *)
(* a points-to relation is exact: proofs for PassEdges and TraceCheck, for *)
(* all programs, threads, allocations and sizes.                           *)
(*                                                                         *)
(* The first part is about the pass.  Visiting an instruction leaves edges *)
(* in the writer of its function that link the nodes of its operands, and  *)
(* whatever is visited later keeps them (VisitInv).  So when the sets are  *)
(* solved they are closed under what every instruction does, and a step of *)
(* the run takes values that are in their sets to values that are (Inv).   *)
(*                                                                         *)
(* The second part is about traces.                                        *)
(***************************************************************************)
EXTENDS PassEdges, TraceCheck, FiniteSetTheorems, DataInduction

----------------------------------------------------------------------------
(* The writer of a function.  Numbers are below `next' and those of two    *)
(* values differ; temporaries are named by their number.                   *)

Fields == {"fn", "locals", "next", "allocas", "edges"}
Numbered(w) ==
    /\ DOMAIN w = Fields
    /\ w.next \in Nat /\ w.allocas \in Nat /\ w.allocas <= w.next
    /\ \A v \in DOMAIN w.locals : w.locals[v] \in Nat /\ w.locals[v] < w.next
    /\ \A u, v \in DOMAIN w.locals : w.locals[u] = w.locals[v] => u = v
    /\ \A v \in DOMAIN w.locals : v[1] \in {"const", "tmp"} => v[2] \in Nat /\ v[2] < w.next

(* x is w after some calls that number values and add edges. *)
Extends(w, x) ==
    /\ x.fn = w.fn /\ x.allocas = w.allocas /\ w.next <= x.next
    /\ DOMAIN w.locals \subseteq DOMAIN x.locals
    /\ \A v \in DOMAIN w.locals : x.locals[v] = w.locals[v]
    /\ \A v \in DOMAIN x.locals : v \in DOMAIN w.locals \/ w.next <= x.locals[v]
    /\ w.edges \subseteq x.edges
Grows(w, x) == Numbered(x) /\ Extends(w, x)

(* What the C code sees of calls is the same. *)
Keeps(w, x) ==
    \A e \in x.edges : e[1] \in {"ArgumentSupply", "ArgumentDefinition"} => e \in w.edges

(* n stands for v: what v may point to flows into n. *)
Tracks(w, v, n) ==
    \/ v[1] \in {"reg", "arg"} /\ v \in DOMAIN w.locals /\ n = Local(w, v)
    \/ v[1] = "sym" /\ n = SymbolNode(v[2])
    \/ v[1] = "data" /\ n = NoNode
    \/ v[1] = "agg" /\ Len(v[2]) = 1 /\ n = SymbolNode(v[2][1])
    \/ /\ v[1] = "agg" /\ Len(v[2]) # 1 /\ n = <<w.fn, n[2]>> /\ n[2] \in Nat
       /\ \A i \in 1..Len(v[2]) : <<"Assign", n, SymbolNode(v[2][i])>> \in w.edges

Linked(w, kind, a, b) ==
    a[1] # "data" /\ b[1] # "data" =>
        \E e \in w.edges : e[1] = kind /\ Tracks(w, a, e[2]) /\ Tracks(w, b, e[3])
Copied(w, a, b) ==
    \E l, s \in w.edges :
        l[1] = "Load" /\ Tracks(w, b, l[3]) /\ s[1] = "Store" /\ s[3] = l[2] /\ Tracks(w, a, s[2])
Listed(w, a) ==
    \E l, s \in w.edges :
        /\ l[1] = "Load" /\ l[3] = Local(w, <<"valist">>)
        /\ s[1] = "Store" /\ s[3] = l[2] /\ Tracks(w, a, s[2])
Returned(w, v) ==
    v[1] # "data" => \E e \in w.edges : e[1] = "Return" /\ e[2] = SymbolNode(w.fn) /\ Tracks(w, v, e[3])
Called(w, I) ==
    /\ I.into \in DOMAIN w.locals
    /\ I.callee = <<"sym", "dlsym">> => <<"DlsymPagePointer", Local(w, I.into)>> \in w.edges
    /\ I.callee # <<"sym", "dlsym">> =>
         /\ \E e \in w.edges : /\ e[1] = "Call" /\ e[2] = Local(w, I.into)
                               /\ Tracks(w, I.callee, e[3]) /\ e[4] = CallNargs(I)
         /\ \A k \in 1..Len(I.args) : I.args[k][1] # "data" =>
              \E e \in w.edges : /\ e[1] = "ArgumentSupply" /\ e[2] = Local(w, I.into)
                                 /\ Tracks(w, I.args[k], e[3]) /\ e[4] = SupplyIndex(I, k - 1)

(* The edges of an instruction are in the writer. *)
Done(w, I) ==
    /\ I.op = "alloca" => I.into \in DOMAIN w.locals /\ w.locals[I.into] < w.allocas
    /\ I.op = "store" => Linked(w, "Store", I.to, I.val)
    /\ I.op = "load" => Linked(w, "Load", I.into, I.from)
    /\ I.op = "atomic" => Linked(w, "Store", I.to, I.val) /\ Linked(w, "Load", I.into, I.to)
    /\ I.op = "assign" => \A k \in 1..Len(I.ops) : Linked(w, "Assign", I.into, I.ops[k])
    /\ I.op = "ret" => Returned(w, I.val)
    /\ I.op = "call" => Called(w, I)
    /\ I.op = "copy" => Copied(w, I.to, I.from)
    /\ I.op = "vastart" => Listed(w, I.to)

(* F is the function f. *)
Allocated(F) ==
    {I.into : I \in {F.body[i] : i \in {j \in 1..Len(F.body) : F.body[j].op = "alloca"}}}
        \cup (IF F.vararg THEN {<<"valist">>, <<"vasave">>} ELSE {})
Allocates(w, F) ==
    /\ Allocated(F) \subseteq DOMAIN w.locals
    /\ \A v \in DOMAIN w.locals : w.locals[v] < w.allocas <=> v \in Allocated(F)
Entered(w, f, F) ==
    /\ \A i \in 0..(F.params - 1) :
         /\ <<"arg", i>> \in DOMAIN w.locals
         /\ <<"ArgumentDefinition", Local(w, <<"arg", i>>), f, i>> \in w.edges
    /\ F.vararg =>
         /\ {<<"valist">>, <<"vasave">>, <<"vadata">>} \subseteq DOMAIN w.locals
         /\ <<"ArgumentDefinition", Local(w, <<"vadata">>), f, F.params>> \in w.edges
         /\ <<"Store", Local(w, <<"vasave">>), Local(w, <<"vadata">>)>> \in w.edges
         /\ <<"Store", Local(w, <<"valist">>), Local(w, <<"vasave">>)>> \in w.edges
DefinesOnly(w, f, F) ==
    \A e \in w.edges : e[1] = "ArgumentDefinition" =>
        e[3] = f /\ (e[4] \in 0..(F.params - 1) \/ (F.vararg /\ e[4] = F.params))
Supplied(w) ==
    \A e \in w.edges : e[1] = "ArgumentSupply" =>
        \E c \in w.edges : c[1] = "Call" /\ c[2] = e[2] /\ e[4] < c[4]
FunctionOK(w, f, F) ==
    /\ w.fn = f /\ Numbered(w) /\ Allocates(w, F) /\ Entered(w, f, F)
    /\ DefinesOnly(w, f, F) /\ Supplied(w)
GlobalsOK(w, p) ==
    /\ w.fn = GlobalsFunction /\ Numbered(w)
    /\ \A e \in w.edges : e[1] \notin {"ArgumentDefinition", "ArgumentSupply"}
    /\ \A k \in 1..Len(p.globals) : LET v == p.init[p.globals[k]] IN
         v[1] # "data" =>
            \E e \in w.edges : e[1] = "Store" /\ e[2] = SymbolNode(p.globals[k]) /\ Tracks(w, v, e[3])

----------------------------------------------------------------------------
(* The invariants.                                                         *)

(* Function i has been entered, its instruction j visited. *)
IsEntered(i) == i < ip[1] \/ (i = ip[1] /\ ip[2] >= 1)
IsVisited(i, j) == i < ip[1] \/ (i = ip[1] /\ j < ip[2])

VisitInv ==
    /\ prog \in Programs
    /\ phase \in {"visit", "solve", "run", "refused", "asserted"}
    /\ ip = <<ip[1], ip[2]>> /\ ip[1] \in Nat /\ ip[2] \in Nat
    /\ ip[1] = 0 => ip[2] = 0
    /\ ip[1] = 0 => writer = <<>>
    /\ ip[1] <= Len(prog.order) + 1
    /\ phase \notin {"visit", "asserted"} => ip[1] = Len(prog.order) + 1
    /\ ip[1] # 0 => DOMAIN writer = {GlobalsFunction} \cup {prog.order[i] : i \in {j \in 1..Len(prog.order) : IsEntered(j)}}
    /\ ip[1] # 0 => GlobalsOK(writer[GlobalsFunction], prog)
    /\ \A i \in 1..Len(prog.order) : IsEntered(i) =>
         /\ FunctionOK(writer[prog.order[i]], prog.order[i], prog.fun[prog.order[i]])
         /\ \A j \in 1..Len(Body(prog.order[i])) :
              IsVisited(i, j) => Done(writer[prog.order[i]], Body(prog.order[i])[j])

Arity(F) == IF F.vararg THEN F.params + 1 ELSE F.params

Flows(x, y) == \A q \in pts : q[1] = x => <<y, q[2]>> \in pts

IsTarget(f, n) == IF n[2] = -1 THEN n = SymbolNode(f) ELSE <<<<"node", n>>, SymbolNode(f)>> \in pts

Agreed ==
    \A e \in Edges : \A f \in FunctionNames :
        e[1] = "Call" /\ e[3] = SymbolNode(f) => e[4] = Arity(prog.fun[f])

SeededIn(S) ==
    /\ \A f \in FunctionNames : \A i \in Nat :
         i < writer[f].allocas => <<<<"node", <<f, i>>>>, <<f, i>>>> \in S
    /\ \A g \in DOMAIN prog.init \cup FunctionNames : <<<<"node", SymbolNode(g)>>, SymbolNode(g)>> \in S
    /\ \A e \in Edges : e[1] = "Call" /\ e[3] = SymbolNode("malloc") => <<<<"node", e[2]>>, e[2]>> \in S
Seeded == SeededIn(pts)

Closed ==
    \A e \in Edges :
        /\ e[1] = "Assign" => Flows(<<"node", e[3]>>, <<"node", e[2]>>)
        /\ e[1] = "Load" => \A q \in pts : q[1] = <<"node", e[3]>> => Flows(<<"cell", q[2]>>, <<"node", e[2]>>)
        /\ e[1] = "Store" => \A q \in pts : q[1] = <<"node", e[2]>> => Flows(<<"node", e[3]>>, <<"cell", q[2]>>)
        /\ e[1] = "Call" => \A f \in FunctionNames : IsTarget(f, e[3]) =>
              /\ Flows(<<"ret", f>>, <<"node", e[2]>>)
              /\ \A i \in 0..(Min2(e[4], Arity(prog.fun[f])) - 1) :
                    Flows(<<"sup", e[2], i>>, <<"arg", f, i>>)
        /\ e[1] = "Return" => Flows(<<"node", e[3]>>, <<"ret", e[2][1]>>)
        /\ e[1] = "ArgumentDefinition" => Flows(<<"arg", e[3], e[4]>>, <<"node", e[2]>>)
        /\ e[1] = "ArgumentSupply" => Flows(<<"node", e[3]>>, <<"sup", e[2], e[4]>>)
        /\ e[1] = "DlsymPagePointer" => \A s \in prog.dlsyms : Flows(<<"node", SymbolNode(s)>>, <<"node", e[2]>>)

RunInv ==
    /\ phase \in {"solve", "run"} => Agreed /\ Seeded
    /\ phase = "run" => Closed
    /\ phase # "run" => reg = <<>> /\ mem = <<>> /\ pending = {} /\ live = {}
    /\ live \subseteq FunctionNames
    /\ phase = "run" => \A p \in pending : Flows(<<"ret", p[1]>>, <<"node", Local(writer[p[2]], p[3])>>)

Inv == VisitInv /\ RunInv /\ FlowsCovered

----------------------------------------------------------------------------
(* Loops over a writer.                                                    *)

\* AllocaLocals, before it records how many locals there are.
LEMMA AllocaRuns ==
  ASSUME NEW w, NEW f, Len(Body(f)) \in Nat
  PROVE  \E u : /\ u[0] = w /\ AllocateAll(w, f) = u[Len(Body(f))]
                /\ \A k \in 1 .. Len(Body(f)) : u[k] = Allocate(u[k - 1], Body(f)[k])
<1> DEFINE P(n, u) == u = [k \in 0 .. n |-> IF k = 0 THEN w ELSE Allocate(u[k - 1], Body(f)[k])]
           T == {n \in Nat : \E u : P(n, u)}
           N == Len(Body(f))
<1>1. 0 \in T
  <2> DEFINE u == [k \in 0 .. 0 |-> w]
  <2>1. P(0, u)
    OBVIOUS
  <2> QED
    BY <2>1
<1>2. ASSUME NEW n \in Nat, n \in T
      PROVE  n + 1 \in T
  <2>1. PICK u : P(n, u)
    BY <1>2
  <2> DEFINE v == [k \in 0 .. n + 1 |-> IF k = n + 1 THEN Allocate(u[n], Body(f)[n + 1]) ELSE u[k]]
  <2>2. P(n + 1, v)
    <3>1. ASSUME NEW k \in 0 .. n
          PROVE  v[k] = u[k] /\ u[k] = IF k = 0 THEN w ELSE Allocate(u[k - 1], Body(f)[k])
      BY <2>1
    <3>2. v[n + 1] = Allocate(u[n], Body(f)[n + 1])
      OBVIOUS
    <3>3. v = [k \in 0 .. n + 1 |-> v[k]]
      OBVIOUS
    <3> HIDE DEF v
    <3>4. ASSUME NEW k \in 0 .. n + 1
          PROVE  v[k] = IF k = 0 THEN w ELSE Allocate(v[k - 1], Body(f)[k])
      <4>1. CASE k = n + 1
        <5>1. k # 0 /\ k - 1 = n /\ v[n] = u[n]
          BY <3>1, <4>1
        <5> QED
          BY <3>2, <4>1, <5>1
      <4>2. CASE k = 0
        BY <3>1, <4>2
      <4>3. CASE k # n + 1 /\ k # 0
        <5>1. k \in 0 .. n /\ k - 1 \in 0 .. n
          BY <4>3
        <5>2. v[k] = u[k] /\ v[k - 1] = u[k - 1]
          BY <3>1, <5>1
        <5> QED
          BY <3>1, <4>3, <5>1, <5>2
      <4> QED
        BY <4>1, <4>2, <4>3
    <3> QED
      BY <3>3, <3>4
  <2> HIDE DEF P, v
  <2>3. \E x : P(n + 1, x)
    BY <2>2
  <2> QED
    BY <2>3
<1>3. N \in T
  <2> HIDE DEF T
  <2> QED
    BY <1>1, <1>2, NatSetInduction
<1> DEFINE u == CHOOSE u : P(N, u)
<1>4. P(N, u)
  <2>1. \E x : P(N, x)
    BY <1>3
  <2> HIDE DEF P
  <2> QED
    BY <2>1
<1>5. AllocateAll(w, f) = u[N]
  BY DEF AllocateAll, Repeat
<1> HIDE DEF u
<1>6. ASSUME NEW k \in 0 .. N
      PROVE  u[k] = IF k = 0 THEN w ELSE Allocate(u[k - 1], Body(f)[k])
  BY <1>4
<1>7. u[0] = w
  BY <1>6
<1>8. ASSUME NEW k \in 1 .. N
      PROVE  u[k] = Allocate(u[k - 1], Body(f)[k])
  BY <1>6
<1> QED
  BY <1>5, <1>7, <1>8

\* The parameters, one after the other.
LEMMA ParameterRuns ==
  ASSUME NEW w, NEW f, prog.fun[f].params \in Nat
  PROVE  \E u : /\ u[0] = w /\ ParameterLocals(w, f) = u[prog.fun[f].params]
                /\ \A k \in 1 .. prog.fun[f].params : u[k] = Define(u[k - 1], f, k - 1)
<1> DEFINE P(n, u) == u = [k \in 0 .. n |-> IF k = 0 THEN w ELSE Define(u[k - 1], f, k - 1)]
           T == {n \in Nat : \E u : P(n, u)}
           N == prog.fun[f].params
<1>1. 0 \in T
  <2> DEFINE u == [k \in 0 .. 0 |-> w]
  <2>1. P(0, u)
    OBVIOUS
  <2> QED
    BY <2>1
<1>2. ASSUME NEW n \in Nat, n \in T
      PROVE  n + 1 \in T
  <2>1. PICK u : P(n, u)
    BY <1>2
  <2> DEFINE v == [k \in 0 .. n + 1 |-> IF k = n + 1 THEN Define(u[n], f, (n + 1) - 1) ELSE u[k]]
  <2>2. P(n + 1, v)
    <3>1. ASSUME NEW k \in 0 .. n
          PROVE  v[k] = u[k] /\ u[k] = IF k = 0 THEN w ELSE Define(u[k - 1], f, k - 1)
      BY <2>1
    <3>2. v[n + 1] = Define(u[n], f, (n + 1) - 1)
      OBVIOUS
    <3>3. v = [k \in 0 .. n + 1 |-> v[k]]
      OBVIOUS
    <3> HIDE DEF v
    <3>4. ASSUME NEW k \in 0 .. n + 1
          PROVE  v[k] = IF k = 0 THEN w ELSE Define(v[k - 1], f, k - 1)
      <4>1. CASE k = n + 1
        <5>1. k # 0 /\ k - 1 = n /\ v[n] = u[n]
          BY <3>1, <4>1
        <5> QED
          BY <3>2, <4>1, <5>1
      <4>2. CASE k = 0
        BY <3>1, <4>2
      <4>3. CASE k # n + 1 /\ k # 0
        <5>1. k \in 0 .. n /\ k - 1 \in 0 .. n
          BY <4>3
        <5>2. v[k] = u[k] /\ v[k - 1] = u[k - 1]
          BY <3>1, <5>1
        <5> QED
          BY <3>1, <4>3, <5>1, <5>2
      <4> QED
        BY <4>1, <4>2, <4>3
    <3> QED
      BY <3>3, <3>4
  <2> HIDE DEF P, v
  <2>3. \E x : P(n + 1, x)
    BY <2>2
  <2> QED
    BY <2>3
<1>3. N \in T
  <2> HIDE DEF T
  <2> QED
    BY <1>1, <1>2, NatSetInduction
<1> DEFINE u == CHOOSE u : P(N, u)
<1>4. P(N, u)
  <2>1. \E x : P(N, x)
    BY <1>3
  <2> HIDE DEF P
  <2> QED
    BY <2>1
<1>5. ParameterLocals(w, f) = u[N]
  BY DEF ParameterLocals, Repeat
<1> HIDE DEF u
<1>6. ASSUME NEW k \in 0 .. N
      PROVE  u[k] = IF k = 0 THEN w ELSE Define(u[k - 1], f, k - 1)
  BY <1>4
<1>7. u[0] = w
  BY <1>6
<1>8. ASSUME NEW k \in 1 .. N
      PROVE  u[k] = Define(u[k - 1], f, k - 1)
  BY <1>6
<1> QED
  BY <1>5, <1>7, <1>8

\* The arguments of a call.
LEMMA SupplyRuns ==
  ASSUME NEW w, NEW I, NEW site, Len(I.args) \in Nat
  PROVE  \E u : /\ u[0] = w /\ SupplyEdges(w, I, site) = u[Len(I.args)]
                /\ \A k \in 1 .. Len(I.args) : u[k] = SupplyArgument(u[k - 1], I, site, k)
<1> DEFINE P(n, u) == u = [k \in 0 .. n |-> IF k = 0 THEN w ELSE SupplyArgument(u[k - 1], I, site, k)]
           T == {n \in Nat : \E u : P(n, u)}
           N == Len(I.args)
<1>1. 0 \in T
  <2> DEFINE u == [k \in 0 .. 0 |-> w]
  <2>1. P(0, u)
    OBVIOUS
  <2> QED
    BY <2>1
<1>2. ASSUME NEW n \in Nat, n \in T
      PROVE  n + 1 \in T
  <2>1. PICK u : P(n, u)
    BY <1>2
  <2> DEFINE v == [k \in 0 .. n + 1 |-> IF k = n + 1 THEN SupplyArgument(u[n], I, site, n + 1) ELSE u[k]]
  <2>2. P(n + 1, v)
    <3>1. ASSUME NEW k \in 0 .. n
          PROVE  v[k] = u[k] /\ u[k] = IF k = 0 THEN w ELSE SupplyArgument(u[k - 1], I, site, k)
      BY <2>1
    <3>2. v[n + 1] = SupplyArgument(u[n], I, site, n + 1)
      OBVIOUS
    <3>3. v = [k \in 0 .. n + 1 |-> v[k]]
      OBVIOUS
    <3> HIDE DEF v
    <3>4. ASSUME NEW k \in 0 .. n + 1
          PROVE  v[k] = IF k = 0 THEN w ELSE SupplyArgument(v[k - 1], I, site, k)
      <4>1. CASE k = n + 1
        <5>1. k # 0 /\ k - 1 = n /\ v[n] = u[n]
          BY <3>1, <4>1
        <5> QED
          BY <3>2, <4>1, <5>1
      <4>2. CASE k = 0
        BY <3>1, <4>2
      <4>3. CASE k # n + 1 /\ k # 0
        <5>1. k \in 0 .. n /\ k - 1 \in 0 .. n
          BY <4>3
        <5>2. v[k] = u[k] /\ v[k - 1] = u[k - 1]
          BY <3>1, <5>1
        <5> QED
          BY <3>1, <4>3, <5>1, <5>2
      <4> QED
        BY <4>1, <4>2, <4>3
    <3> QED
      BY <3>3, <3>4
  <2> HIDE DEF P, v
  <2>3. \E x : P(n + 1, x)
    BY <2>2
  <2> QED
    BY <2>3
<1>3. N \in T
  <2> HIDE DEF T
  <2> QED
    BY <1>1, <1>2, NatSetInduction
<1> DEFINE u == CHOOSE u : P(N, u)
<1>4. P(N, u)
  <2>1. \E x : P(N, x)
    BY <1>3
  <2> HIDE DEF P
  <2> QED
    BY <2>1
<1>5. SupplyEdges(w, I, site) = u[N]
  BY DEF SupplyEdges, Repeat
<1> HIDE DEF u
<1>6. ASSUME NEW k \in 0 .. N
      PROVE  u[k] = IF k = 0 THEN w ELSE SupplyArgument(u[k - 1], I, site, k)
  BY <1>4
<1>7. u[0] = w
  BY <1>6
<1>8. ASSUME NEW k \in 1 .. N
      PROVE  u[k] = SupplyArgument(u[k - 1], I, site, k)
  BY <1>6
<1> QED
  BY <1>5, <1>7, <1>8

\* The operands of an instruction that assigns.
LEMMA AssignRuns ==
  ASSUME NEW w, NEW I, Len(I.ops) \in Nat
  PROVE  \E u : /\ u[0] = w /\ AssignEdges(w, I) = u[Len(I.ops)]
                /\ \A k \in 1 .. Len(I.ops) : u[k] = AddAssignEdge(u[k - 1], I.into, I.ops[k])
<1> DEFINE P(n, u) == u = [k \in 0 .. n |-> IF k = 0 THEN w ELSE AddAssignEdge(u[k - 1], I.into, I.ops[k])]
           T == {n \in Nat : \E u : P(n, u)}
           N == Len(I.ops)
<1>1. 0 \in T
  <2> DEFINE u == [k \in 0 .. 0 |-> w]
  <2>1. P(0, u)
    OBVIOUS
  <2> QED
    BY <2>1
<1>2. ASSUME NEW n \in Nat, n \in T
      PROVE  n + 1 \in T
  <2>1. PICK u : P(n, u)
    BY <1>2
  <2> DEFINE v == [k \in 0 .. n + 1 |-> IF k = n + 1 THEN AddAssignEdge(u[n], I.into, I.ops[n + 1]) ELSE u[k]]
  <2>2. P(n + 1, v)
    <3>1. ASSUME NEW k \in 0 .. n
          PROVE  v[k] = u[k] /\ u[k] = IF k = 0 THEN w ELSE AddAssignEdge(u[k - 1], I.into, I.ops[k])
      BY <2>1
    <3>2. v[n + 1] = AddAssignEdge(u[n], I.into, I.ops[n + 1])
      OBVIOUS
    <3>3. v = [k \in 0 .. n + 1 |-> v[k]]
      OBVIOUS
    <3> HIDE DEF v
    <3>4. ASSUME NEW k \in 0 .. n + 1
          PROVE  v[k] = IF k = 0 THEN w ELSE AddAssignEdge(v[k - 1], I.into, I.ops[k])
      <4>1. CASE k = n + 1
        <5>1. k # 0 /\ k - 1 = n /\ v[n] = u[n]
          BY <3>1, <4>1
        <5> QED
          BY <3>2, <4>1, <5>1
      <4>2. CASE k = 0
        BY <3>1, <4>2
      <4>3. CASE k # n + 1 /\ k # 0
        <5>1. k \in 0 .. n /\ k - 1 \in 0 .. n
          BY <4>3
        <5>2. v[k] = u[k] /\ v[k - 1] = u[k - 1]
          BY <3>1, <5>1
        <5> QED
          BY <3>1, <4>3, <5>1, <5>2
      <4> QED
        BY <4>1, <4>2, <4>3
    <3> QED
      BY <3>3, <3>4
  <2> HIDE DEF P, v
  <2>3. \E x : P(n + 1, x)
    BY <2>2
  <2> QED
    BY <2>3
<1>3. N \in T
  <2> HIDE DEF T
  <2> QED
    BY <1>1, <1>2, NatSetInduction
<1> DEFINE u == CHOOSE u : P(N, u)
<1>4. P(N, u)
  <2>1. \E x : P(N, x)
    BY <1>3
  <2> HIDE DEF P
  <2> QED
    BY <2>1
<1>5. AssignEdges(w, I) = u[N]
  BY DEF AssignEdges, Repeat
<1> HIDE DEF u
<1>6. ASSUME NEW k \in 0 .. N
      PROVE  u[k] = IF k = 0 THEN w ELSE AddAssignEdge(u[k - 1], I.into, I.ops[k])
  BY <1>4
<1>7. u[0] = w
  BY <1>6
<1>8. ASSUME NEW k \in 1 .. N
      PROVE  u[k] = AddAssignEdge(u[k - 1], I.into, I.ops[k])
  BY <1>6
<1> QED
  BY <1>5, <1>7, <1>8

\* The initializers.
LEMMA InitializeRuns ==
  ASSUME NEW w, Len(prog.globals) \in Nat
  PROVE  \E u : /\ u[0] = w /\ InitializeAll(w) = u[Len(prog.globals)]
                /\ \A k \in 1 .. Len(prog.globals) : u[k] = Initialize(u[k - 1], k)
<1> DEFINE P(n, u) == u = [k \in 0 .. n |-> IF k = 0 THEN w ELSE Initialize(u[k - 1], k)]
           T == {n \in Nat : \E u : P(n, u)}
           N == Len(prog.globals)
<1>1. 0 \in T
  <2> DEFINE u == [k \in 0 .. 0 |-> w]
  <2>1. P(0, u)
    OBVIOUS
  <2> QED
    BY <2>1
<1>2. ASSUME NEW n \in Nat, n \in T
      PROVE  n + 1 \in T
  <2>1. PICK u : P(n, u)
    BY <1>2
  <2> DEFINE v == [k \in 0 .. n + 1 |-> IF k = n + 1 THEN Initialize(u[n], n + 1) ELSE u[k]]
  <2>2. P(n + 1, v)
    <3>1. ASSUME NEW k \in 0 .. n
          PROVE  v[k] = u[k] /\ u[k] = IF k = 0 THEN w ELSE Initialize(u[k - 1], k)
      BY <2>1
    <3>2. v[n + 1] = Initialize(u[n], n + 1)
      OBVIOUS
    <3>3. v = [k \in 0 .. n + 1 |-> v[k]]
      OBVIOUS
    <3> HIDE DEF v
    <3>4. ASSUME NEW k \in 0 .. n + 1
          PROVE  v[k] = IF k = 0 THEN w ELSE Initialize(v[k - 1], k)
      <4>1. CASE k = n + 1
        <5>1. k # 0 /\ k - 1 = n /\ v[n] = u[n]
          BY <3>1, <4>1
        <5> QED
          BY <3>2, <4>1, <5>1
      <4>2. CASE k = 0
        BY <3>1, <4>2
      <4>3. CASE k # n + 1 /\ k # 0
        <5>1. k \in 0 .. n /\ k - 1 \in 0 .. n
          BY <4>3
        <5>2. v[k] = u[k] /\ v[k - 1] = u[k - 1]
          BY <3>1, <5>1
        <5> QED
          BY <3>1, <4>3, <5>1, <5>2
      <4> QED
        BY <4>1, <4>2, <4>3
    <3> QED
      BY <3>3, <3>4
  <2> HIDE DEF P, v
  <2>3. \E x : P(n + 1, x)
    BY <2>2
  <2> QED
    BY <2>3
<1>3. N \in T
  <2> HIDE DEF T
  <2> QED
    BY <1>1, <1>2, NatSetInduction
<1> DEFINE u == CHOOSE u : P(N, u)
<1>4. P(N, u)
  <2>1. \E x : P(N, x)
    BY <1>3
  <2> HIDE DEF P
  <2> QED
    BY <2>1
<1>5. InitializeAll(w) = u[N]
  BY DEF InitializeAll, Repeat
<1> HIDE DEF u
<1>6. ASSUME NEW k \in 0 .. N
      PROVE  u[k] = IF k = 0 THEN w ELSE Initialize(u[k - 1], k)
  BY <1>4
<1>7. u[0] = w
  BY <1>6
<1>8. ASSUME NEW k \in 1 .. N
      PROVE  u[k] = Initialize(u[k - 1], k)
  BY <1>6
<1> QED
  BY <1>5, <1>7, <1>8


----------------------------------------------------------------------------
(* Writers grow.                                                           *)

LEMMA FreshGrows ==
  ASSUME NEW w, Numbered(w), NEW v, v \notin DOMAIN w.locals,
         v[1] \in {"const", "tmp"} => v[2] = w.next
  PROVE  LET x == FreshLocal(w, v)
         IN  /\ Grows(w, x) /\ x.edges = w.edges
             /\ DOMAIN x.locals = DOMAIN w.locals \cup {v} /\ x.locals[v] = w.next
             /\ x.next = w.next + 1
<1> DEFINE x == FreshLocal(w, v)
<1>1. DOMAIN x = Fields /\ x.fn = w.fn /\ x.allocas = w.allocas /\ x.next = w.next + 1 /\ x.edges = w.edges
  BY DEF FreshLocal, Numbered, Fields
<1>2. x.locals = Put(w.locals, v, w.next)
  BY DEF FreshLocal, Numbered, Fields
<1> HIDE DEF x
<1>3. DOMAIN x.locals = DOMAIN w.locals \cup {v}
  BY <1>2 DEF Put
<1>4. x.locals[v] = w.next
  BY <1>2 DEF Put
<1>5. \A u \in DOMAIN w.locals : x.locals[u] = w.locals[u]
  BY <1>2 DEF Put
<1>6. Numbered(x)
  BY <1>1, <1>3, <1>4, <1>5 DEF Numbered
<1>7. Extends(w, x)
  BY <1>1, <1>3, <1>4, <1>5 DEF Numbered, Extends
<1> QED
  BY <1>1, <1>3, <1>4, <1>6, <1>7 DEF x, Grows

LEMMA EdgesGrow ==
  ASSUME NEW w, Numbered(w), NEW E
  PROVE  LET x == AddEdges(w, E)
         IN  Grows(w, x) /\ x.edges = w.edges \cup E /\ x.locals = w.locals /\ x.next = w.next
<1> DEFINE x == AddEdges(w, E)
<1>1. /\ DOMAIN x = Fields /\ x.fn = w.fn /\ x.allocas = w.allocas /\ x.next = w.next
      /\ x.edges = w.edges \cup E /\ x.locals = w.locals
  BY DEF AddEdges, Numbered, Fields
<1> HIDE DEF x
<1>2. Numbered(x) /\ Extends(w, x)
  BY <1>1 DEF Numbered, Extends
<1> QED
  BY <1>1, <1>2 DEF x, Grows

LEMMA GrowsRefl ==
  ASSUME NEW w, Numbered(w)
  PROVE  Grows(w, w) /\ Keeps(w, w)
BY DEF Grows, Extends, Numbered, Keeps

LEMMA GrowsTrans ==
  ASSUME NEW w, NEW x, NEW y, Numbered(w), Grows(w, x), Grows(x, y)
  PROVE  Grows(w, y) /\ (Keeps(w, x) /\ Keeps(x, y) => Keeps(w, y))
<1>1. Numbered(x) /\ Numbered(y)
  BY DEF Grows
<1>2. w.next \in Nat /\ x.next \in Nat /\ y.next \in Nat
  BY <1>1 DEF Numbered
<1>3. Extends(w, x) /\ Extends(x, y)
  BY DEF Grows
<1>4. \A v \in DOMAIN y.locals : v \in DOMAIN w.locals \/ w.next <= y.locals[v]
  <2> SUFFICES ASSUME NEW v \in DOMAIN y.locals, v \notin DOMAIN w.locals
               PROVE  w.next <= y.locals[v]
    OBVIOUS
  <2>1. y.locals[v] \in Nat
    BY <1>1 DEF Numbered
  <2>2. v \notin DOMAIN x.locals => x.next <= y.locals[v]
    BY <1>3 DEF Extends
  <2>3. v \in DOMAIN x.locals => w.next <= x.locals[v] /\ y.locals[v] = x.locals[v]
    BY <1>3 DEF Extends
  <2>4. w.next <= x.next
    BY <1>3 DEF Extends
  <2> QED
    BY <1>2, <2>1, <2>2, <2>3, <2>4
<1>5. Extends(w, y)
  BY <1>2, <1>3, <1>4 DEF Extends
<1>6. Keeps(w, x) /\ Keeps(x, y) => Keeps(w, y)
  BY DEF Keeps
<1> QED
  BY <1>1, <1>5, <1>6 DEF Grows

LEMMA TracksGrows ==
  ASSUME NEW w, NEW x, Grows(w, x), NEW v, NEW n, Tracks(w, v, n)
  PROVE  Tracks(x, v, n)
<1>1. Extends(w, x)
  BY DEF Grows
<1>2. \A u \in DOMAIN w.locals : u \in DOMAIN x.locals /\ Local(x, u) = Local(w, u)
  BY <1>1 DEF Extends, Local
<1>3. \A e \in w.edges : e \in x.edges
  BY <1>1 DEF Extends
<1>4. x.fn = w.fn
  BY <1>1 DEF Extends
<1> QED
  BY <1>2, <1>3, <1>4 DEF Tracks

LEMMA KeepsAdded ==
  ASSUME NEW w, NEW E, NEW x, x.edges = w.edges \cup E,
         \A e \in E : e[1] \notin {"ArgumentSupply", "ArgumentDefinition"}
  PROVE  Keeps(w, x)
BY DEF Keeps

----------------------------------------------------------------------------
(* node() and the edges of each instruction.                               *)

\* What an operand of any program looks like.
IsValue(v) ==
    \/ v[1] \in {"reg", "arg"} /\ v # <<>>
    \/ v[1] = "sym" /\ v = <<"sym", v[2]>>
    \/ v[1] = "data"
    \/ v[1] = "agg" /\ Len(v[2]) \in Nat

LEMMA NodeOfGrows ==
  ASSUME NEW w, Numbered(w), NEW v, IsValue(v)
  PROVE  LET N == NodeOf(w, v)
         IN  /\ Grows(w, N.w) /\ Keeps(w, N.w) /\ Tracks(N.w, v, N.n)
             /\ N.n = NoNode <=> v[1] = "data"
<1> DEFINE N == NodeOf(w, v)
<1>1. CASE v[1] \in {"reg", "arg"}
  <2>1. CASE v \in DOMAIN w.locals
    <3>1. N.w = w /\ N.n = Local(w, v)
      BY <1>1, <2>1 DEF NodeOf
    <3> HIDE DEF N
    <3>2. Tracks(N.w, v, N.n)
      BY <3>1, <1>1, <2>1 DEF Tracks
    <3>3. N.n # NoNode
      BY <3>1 DEF Local, NoNode
    <3> QED
      BY <3>1, <3>2, <3>3, <1>1, GrowsRefl DEF N
  <2>2. CASE v \notin DOMAIN w.locals
    <3>1. N.w = FreshLocal(w, v) /\ N.n = Local(N.w, v)
      BY <1>1, <2>2 DEF NodeOf
    <3>2. Grows(w, N.w) /\ N.w.edges = w.edges /\ v \in DOMAIN N.w.locals
      BY <1>1, <2>2, <3>1, FreshGrows
    <3> HIDE DEF N
    <3>3. Tracks(N.w, v, N.n)
      BY <3>1, <3>2, <1>1 DEF Tracks
    <3>4. N.n # NoNode
      BY <3>1 DEF Local, NoNode
    <3>5. Keeps(w, N.w)
      BY <3>2 DEF Keeps
    <3> QED
      BY <3>2, <3>3, <3>4, <3>5, <1>1 DEF N
  <2> QED
    BY <2>1, <2>2
<1>2. CASE v[1] = "sym"
  <2>1. N.w = w /\ N.n = SymbolNode(v[2])
    BY <1>2 DEF NodeOf, ConstantNode
  <2> HIDE DEF N
  <2>2. Tracks(N.w, v, N.n) /\ N.n # NoNode
    BY <2>1, <1>2 DEF Tracks, SymbolNode, NoNode
  <2> QED
    BY <2>1, <2>2, <1>2, GrowsRefl DEF N
<1>3. CASE v[1] = "data"
  <2>1. N.w = w /\ N.n = NoNode
    BY <1>3 DEF NodeOf, ConstantNode
  <2> HIDE DEF N
  <2>2. Tracks(N.w, v, N.n)
    BY <2>1, <1>3 DEF Tracks
  <2> QED
    BY <2>1, <2>2, <1>3, GrowsRefl DEF N
<1>4. CASE v[1] = "agg" /\ Len(v[2]) = 1
  <2>1. N.w = w /\ N.n = SymbolNode(v[2][1])
    BY <1>4 DEF NodeOf, ConstantNode
  <2> HIDE DEF N
  <2>2. Tracks(N.w, v, N.n) /\ N.n # NoNode
    BY <2>1, <1>4 DEF Tracks, SymbolNode, NoNode
  <2> QED
    BY <2>1, <2>2, <1>4, GrowsRefl DEF N
<1>5. CASE v[1] = "agg" /\ Len(v[2]) # 1
  <2> DEFINE key == <<"const", w.next>>
             w1 == FreshLocal(w, key)
             c == <<w.fn, w.next>>
             E == {<<"Assign", c, SymbolNode(v[2][i])>> : i \in 1..Len(v[2])}
  <2>1. N.w = AddEdges(w1, E) /\ N.n = c
    BY <1>5 DEF NodeOf, ConstantNode
  <2>2. key \notin DOMAIN w.locals
    BY DEF Numbered
  <2>3. Grows(w, w1) /\ w1.edges = w.edges
    BY <2>2, FreshGrows
  <2> HIDE DEF w1, E
  <2>4. Grows(w1, N.w) /\ N.w.edges = w.edges \cup E
    BY <2>1, <2>3, EdgesGrow DEF Grows
  <2> HIDE DEF N
  <2>5. Grows(w, N.w)
    BY <2>3, <2>4, GrowsTrans
  <2>6. Keeps(w, N.w)
    <3>1. \A e \in E : e[1] \notin {"ArgumentSupply", "ArgumentDefinition"}
      BY DEF E
    <3> QED
      BY <2>4, <3>1, KeepsAdded
  <2>7. N.w.fn = w.fn /\ w.next \in Nat
    BY <2>5 DEF Grows, Extends, Numbered
  <2>8. N.n # NoNode
    BY <2>1 DEF NoNode
  <2>9. \A i \in 1..Len(v[2]) : <<"Assign", N.n, SymbolNode(v[2][i])>> \in N.w.edges
    BY <2>1, <2>4 DEF E
  <2>10. N.n = <<N.w.fn, N.n[2]>> /\ N.n[2] \in Nat
    BY <2>1, <2>7
  <2>11. Tracks(N.w, v, N.n)
    BY <1>5, <2>9, <2>10 DEF Tracks
  <2> QED
    BY <1>5, <2>5, <2>6, <2>8, <2>11 DEF N
<1> QED
  BY <1>1, <1>2, <1>3, <1>4, <1>5 DEF IsValue

\* Adding an edge between two tracked nodes links them.
LEMMA StoreGrows ==
  ASSUME NEW w, Numbered(w), NEW to, NEW from, IsValue(to), IsValue(from)
  PROVE  LET x == AddStoreEdge(w, to, from)
         IN  Grows(w, x) /\ Keeps(w, x) /\ Linked(x, "Store", to, from)
<1> DEFINE F == NodeOf(w, from)
           T == NodeOf(F.w, to)
           x == AddStoreEdge(w, to, from)
<1>1. Grows(w, F.w) /\ Keeps(w, F.w) /\ Tracks(F.w, from, F.n) /\ (F.n = NoNode <=> from[1] = "data")
  BY NodeOfGrows
<1>2. Numbered(F.w)
  BY <1>1 DEF Grows
<1>3. Grows(F.w, T.w) /\ Keeps(F.w, T.w) /\ Tracks(T.w, to, T.n) /\ (T.n = NoNode <=> to[1] = "data")
  BY <1>2, NodeOfGrows
<1>4. x = IF NoNode \in {T.n, F.n} THEN T.w ELSE AddEdges(T.w, {<<"Store", T.n, F.n>>})
  BY DEF AddStoreEdge
<1> HIDE DEF F, T, x
<1>5. Grows(w, T.w) /\ Keeps(w, T.w) /\ Tracks(T.w, from, F.n) /\ Numbered(T.w)
  BY <1>1, <1>3, GrowsTrans, TracksGrows DEF Grows
<1>6. CASE NoNode \in {T.n, F.n}
  <2>1. x = T.w /\ (to[1] = "data" \/ from[1] = "data")
    BY <1>1, <1>3, <1>4, <1>6
  <2> QED
    BY <1>5, <2>1 DEF Linked, x
<1>7. CASE NoNode \notin {T.n, F.n}
  <2> DEFINE e == <<"Store", T.n, F.n>>
  <2>1. Grows(T.w, x) /\ x.edges = T.w.edges \cup {e}
    BY <1>4, <1>5, <1>7, EdgesGrow
  <2>2. Keeps(T.w, x)
    BY <2>1 DEF Keeps
  <2>3. Grows(w, x) /\ Keeps(w, x)
    BY <1>5, <2>1, <2>2, GrowsTrans
  <2>4. Tracks(x, to, e[2]) /\ Tracks(x, from, e[3]) /\ e[1] = "Store" /\ e \in x.edges
    BY <1>3, <1>5, <2>1, TracksGrows
  <2>5. Linked(x, "Store", to, from)
    BY <2>4 DEF Linked
  <2> QED
    BY <2>3, <2>5 DEF x
<1> QED
  BY <1>6, <1>7

LEMMA LoadGrows ==
  ASSUME NEW w, Numbered(w), NEW into, NEW from, IsValue(into), IsValue(from)
  PROVE  LET x == AddLoadEdge(w, into, from)
         IN  Grows(w, x) /\ Keeps(w, x) /\ Linked(x, "Load", into, from)
<1> DEFINE F == NodeOf(w, from)
           T == NodeOf(F.w, into)
           x == AddLoadEdge(w, into, from)
<1>1. Grows(w, F.w) /\ Keeps(w, F.w) /\ Tracks(F.w, from, F.n) /\ (F.n = NoNode <=> from[1] = "data")
  BY NodeOfGrows
<1>2. Numbered(F.w)
  BY <1>1 DEF Grows
<1>3. Grows(F.w, T.w) /\ Keeps(F.w, T.w) /\ Tracks(T.w, into, T.n)
  BY <1>2, NodeOfGrows
<1>4. x = IF F.n = NoNode THEN F.w ELSE AddEdges(T.w, {<<"Load", T.n, F.n>>})
  BY DEF AddLoadEdge
<1> HIDE DEF F, T, x
<1>5. Grows(w, T.w) /\ Keeps(w, T.w) /\ Tracks(T.w, from, F.n) /\ Numbered(T.w)
  BY <1>1, <1>3, GrowsTrans, TracksGrows DEF Grows
<1>6. CASE F.n = NoNode
  <2>1. x = F.w /\ from[1] = "data"
    BY <1>1, <1>4, <1>6
  <2> QED
    BY <1>1, <2>1 DEF Linked, x
<1>7. CASE F.n # NoNode
  <2> DEFINE e == <<"Load", T.n, F.n>>
  <2>1. Grows(T.w, x) /\ x.edges = T.w.edges \cup {e}
    BY <1>4, <1>5, <1>7, EdgesGrow
  <2>2. Keeps(T.w, x)
    BY <2>1 DEF Keeps
  <2>3. Grows(w, x) /\ Keeps(w, x)
    BY <1>5, <2>1, <2>2, GrowsTrans
  <2>4. Tracks(x, into, e[2]) /\ Tracks(x, from, e[3]) /\ e[1] = "Load" /\ e \in x.edges
    BY <1>3, <1>5, <2>1, TracksGrows
  <2>5. Linked(x, "Load", into, from)
    BY <2>4 DEF Linked
  <2> QED
    BY <2>3, <2>5 DEF x
<1> QED
  BY <1>6, <1>7

LEMMA AssignGrows ==
  ASSUME NEW w, Numbered(w), NEW into, NEW from, IsValue(into), IsValue(from)
  PROVE  LET x == AddAssignEdge(w, into, from)
         IN  Grows(w, x) /\ Keeps(w, x) /\ Linked(x, "Assign", into, from)
<1> DEFINE F == NodeOf(w, from)
           T == NodeOf(F.w, into)
           x == AddAssignEdge(w, into, from)
<1>1. Grows(w, F.w) /\ Keeps(w, F.w) /\ Tracks(F.w, from, F.n) /\ (F.n = NoNode <=> from[1] = "data")
  BY NodeOfGrows
<1>2. Numbered(F.w)
  BY <1>1 DEF Grows
<1>3. Grows(F.w, T.w) /\ Keeps(F.w, T.w) /\ Tracks(T.w, into, T.n)
  BY <1>2, NodeOfGrows
<1>4. x = IF F.n = NoNode THEN F.w ELSE AddEdges(T.w, {<<"Assign", T.n, F.n>>})
  BY DEF AddAssignEdge
<1> HIDE DEF F, T, x
<1>5. Grows(w, T.w) /\ Keeps(w, T.w) /\ Tracks(T.w, from, F.n) /\ Numbered(T.w)
  BY <1>1, <1>3, GrowsTrans, TracksGrows DEF Grows
<1>6. CASE F.n = NoNode
  <2>1. x = F.w /\ from[1] = "data"
    BY <1>1, <1>4, <1>6
  <2> QED
    BY <1>1, <2>1 DEF Linked, x
<1>7. CASE F.n # NoNode
  <2> DEFINE e == <<"Assign", T.n, F.n>>
  <2>1. Grows(T.w, x) /\ x.edges = T.w.edges \cup {e}
    BY <1>4, <1>5, <1>7, EdgesGrow
  <2>2. Keeps(T.w, x)
    BY <2>1 DEF Keeps
  <2>3. Grows(w, x) /\ Keeps(w, x)
    BY <1>5, <2>1, <2>2, GrowsTrans
  <2>4. Tracks(x, into, e[2]) /\ Tracks(x, from, e[3]) /\ e[1] = "Assign" /\ e \in x.edges
    BY <1>3, <1>5, <2>1, TracksGrows
  <2>5. Linked(x, "Assign", into, from)
    BY <2>4 DEF Linked
  <2> QED
    BY <2>3, <2>5 DEF x
<1> QED
  BY <1>6, <1>7

LEMMA ReturnGrows ==
  ASSUME NEW w, Numbered(w), NEW v, IsValue(v)
  PROVE  LET x == ReturnEdges(w, v)
         IN  Grows(w, x) /\ Keeps(w, x) /\ Returned(x, v)
<1> DEFINE V == NodeOf(w, v)
           x == ReturnEdges(w, v)
<1>1. Grows(w, V.w) /\ Keeps(w, V.w) /\ Tracks(V.w, v, V.n) /\ (V.n = NoNode <=> v[1] = "data")
  BY NodeOfGrows
<1>2. x = IF V.n = NoNode THEN V.w ELSE AddEdges(V.w, {<<"Return", SymbolNode(w.fn), V.n>>})
  BY DEF ReturnEdges
<1> HIDE DEF V, x
<1>3. Numbered(V.w)
  BY <1>1 DEF Grows
<1>4. CASE V.n = NoNode
  BY <1>1, <1>2, <1>4 DEF Returned, x
<1>5. CASE V.n # NoNode
  <2> DEFINE e == <<"Return", SymbolNode(w.fn), V.n>>
  <2>1. Grows(V.w, x) /\ x.edges = V.w.edges \cup {e}
    BY <1>2, <1>3, <1>5, EdgesGrow
  <2>2. Keeps(V.w, x)
    BY <2>1 DEF Keeps
  <2>3. Grows(w, x) /\ Keeps(w, x)
    BY <1>1, <2>1, <2>2, GrowsTrans
  <2>4. x.fn = w.fn
    BY <2>3 DEF Grows, Extends
  <2>5. Tracks(x, v, e[3]) /\ e[1] = "Return" /\ e[2] = SymbolNode(x.fn) /\ e \in x.edges
    BY <1>1, <2>1, <2>4, TracksGrows
  <2>6. Returned(x, v)
    BY <2>5 DEF Returned
  <2> QED
    BY <2>3, <2>6 DEF x
<1> QED
  BY <1>4, <1>5

\* A temporary is new.
LEMMA TemporaryGrows ==
  ASSUME NEW w, Numbered(w)
  PROVE  LET x == FreshLocal(w, <<"tmp", w.next>>)
         IN  Grows(w, x) /\ Keeps(w, x)
<1>1. <<"tmp", w.next>> \notin DOMAIN w.locals
  BY DEF Numbered
<1> QED
  BY <1>1, FreshGrows DEF Keeps

LEMMA CopyGrows ==
  ASSUME NEW w, Numbered(w), NEW dst, NEW src, IsValue(dst), IsValue(src)
  PROVE  LET x == CopyEdges(w, dst, src)
         IN  Grows(w, x) /\ Keeps(w, x) /\ Copied(x, dst, src)
<1> DEFINE w1 == FreshLocal(w, <<"tmp", w.next>>)
           S == NodeOf(w1, src)
           D == NodeOf(S.w, dst)
           tmp == <<w.fn, w.next>>
           l == <<"Load", tmp, S.n>>
           s == <<"Store", D.n, tmp>>
           x == CopyEdges(w, dst, src)
<1>1. Grows(w, w1) /\ Keeps(w, w1) /\ Numbered(w1)
  BY TemporaryGrows DEF Grows
<1>2. Grows(w1, S.w) /\ Keeps(w1, S.w) /\ Tracks(S.w, src, S.n) /\ Numbered(S.w)
  BY <1>1, NodeOfGrows DEF Grows
<1>3. Grows(S.w, D.w) /\ Keeps(S.w, D.w) /\ Tracks(D.w, dst, D.n) /\ Numbered(D.w)
  BY <1>2, NodeOfGrows DEF Grows
<1>4. x = AddEdges(D.w, {l, s})
  BY DEF CopyEdges
<1> HIDE DEF w1, S, D, x
<1>5. Grows(w, D.w) /\ Keeps(w, D.w)
  BY <1>1, <1>2, <1>3, GrowsTrans
<1>6. Grows(D.w, x) /\ x.edges = D.w.edges \cup {l, s}
  BY <1>3, <1>4, EdgesGrow
<1>7. Keeps(D.w, x)
  BY <1>6 DEF Keeps
<1>8. Grows(w, x) /\ Keeps(w, x)
  BY <1>5, <1>6, <1>7, GrowsTrans
<1>9. Tracks(x, src, S.n) /\ Tracks(x, dst, D.n)
  BY <1>2, <1>3, <1>6, TracksGrows
<1>10. /\ l \in x.edges /\ s \in x.edges /\ l[1] = "Load" /\ s[1] = "Store" /\ s[3] = l[2]
       /\ Tracks(x, src, l[3]) /\ Tracks(x, dst, s[2])
  BY <1>6, <1>9
<1>11. Copied(x, dst, src)
  BY <1>10 DEF Copied
<1> QED
  BY <1>8, <1>11 DEF x

LEMMA VastartGrows ==
  ASSUME NEW w, Numbered(w), NEW list, IsValue(list), <<"valist">> \in DOMAIN w.locals
  PROVE  LET x == VastartEdges(w, list)
         IN  Grows(w, x) /\ Keeps(w, x) /\ Listed(x, list)
<1> DEFINE w1 == FreshLocal(w, <<"tmp", w.next>>)
           D == NodeOf(w1, list)
           tmp == <<w.fn, w.next>>
           l == <<"Load", tmp, Local(w, <<"valist">>)>>
           s == <<"Store", D.n, tmp>>
           x == VastartEdges(w, list)
<1>1. Grows(w, w1) /\ Keeps(w, w1) /\ Numbered(w1)
  BY TemporaryGrows DEF Grows
<1>2. Grows(w1, D.w) /\ Keeps(w1, D.w) /\ Tracks(D.w, list, D.n) /\ Numbered(D.w)
  BY <1>1, NodeOfGrows DEF Grows
<1>3. x = AddEdges(D.w, {l, s})
  BY DEF VastartEdges
<1> HIDE DEF w1, D, x
<1>4. Grows(w, D.w) /\ Keeps(w, D.w)
  BY <1>1, <1>2, GrowsTrans
<1>5. Grows(D.w, x) /\ x.edges = D.w.edges \cup {l, s}
  BY <1>2, <1>3, EdgesGrow
<1>6. Keeps(D.w, x)
  BY <1>5 DEF Keeps
<1>7. Grows(w, x) /\ Keeps(w, x)
  BY <1>4, <1>5, <1>6, GrowsTrans
<1>8. Local(x, <<"valist">>) = Local(w, <<"valist">>)
  BY <1>7 DEF Grows, Extends, Local
<1>9. Tracks(x, list, D.n)
  BY <1>2, <1>5, TracksGrows
<1>10. /\ l \in x.edges /\ s \in x.edges /\ l[1] = "Load" /\ s[1] = "Store" /\ s[3] = l[2]
       /\ l[3] = Local(x, <<"valist">>) /\ Tracks(x, list, s[2])
  BY <1>5, <1>8, <1>9
<1>11. Listed(x, list)
  BY <1>10 DEF Listed
<1> QED
  BY <1>7, <1>11 DEF x

----------------------------------------------------------------------------
(* What is linked stays linked.                                            *)

LEMMA LinkedGrows ==
  ASSUME NEW w, NEW x, Grows(w, x), NEW kind, NEW a, NEW b, Linked(w, kind, a, b)
  PROVE  Linked(x, kind, a, b)
<1> SUFFICES ASSUME a[1] # "data", b[1] # "data"
             PROVE  \E e \in x.edges : e[1] = kind /\ Tracks(x, a, e[2]) /\ Tracks(x, b, e[3])
  BY DEF Linked
<1>1. PICK e \in w.edges : e[1] = kind /\ Tracks(w, a, e[2]) /\ Tracks(w, b, e[3])
  BY DEF Linked
<1>2. e \in x.edges
  BY DEF Grows, Extends
<1> QED
  BY <1>1, <1>2, TracksGrows

LEMMA CopiedGrows ==
  ASSUME NEW w, NEW x, Grows(w, x), NEW a, NEW b, Copied(w, a, b)
  PROVE  Copied(x, a, b)
<1>1. PICK l \in w.edges, s \in w.edges :
         l[1] = "Load" /\ Tracks(w, b, l[3]) /\ s[1] = "Store" /\ s[3] = l[2] /\ Tracks(w, a, s[2])
  BY DEF Copied
<1>2. l \in x.edges /\ s \in x.edges
  BY DEF Grows, Extends
<1>3. Tracks(x, b, l[3]) /\ Tracks(x, a, s[2])
  BY <1>1, TracksGrows
<1> QED
  BY <1>1, <1>2, <1>3 DEF Copied

LEMMA ListedGrows ==
  ASSUME NEW w, NEW x, Grows(w, x), NEW a, Listed(w, a), <<"valist">> \in DOMAIN w.locals
  PROVE  Listed(x, a)
<1>1. PICK l \in w.edges, s \in w.edges :
         /\ l[1] = "Load" /\ l[3] = Local(w, <<"valist">>)
         /\ s[1] = "Store" /\ s[3] = l[2] /\ Tracks(w, a, s[2])
  BY DEF Listed
<1>2. l \in x.edges /\ s \in x.edges /\ Local(x, <<"valist">>) = Local(w, <<"valist">>)
  BY DEF Grows, Extends, Local
<1>3. Tracks(x, a, s[2])
  BY <1>1, TracksGrows
<1> QED
  BY <1>1, <1>2, <1>3 DEF Listed

LEMMA ReturnedGrows ==
  ASSUME NEW w, NEW x, Grows(w, x), NEW v, Returned(w, v)
  PROVE  Returned(x, v)
<1> SUFFICES ASSUME v[1] # "data"
             PROVE  \E e \in x.edges : e[1] = "Return" /\ e[2] = SymbolNode(x.fn) /\ Tracks(x, v, e[3])
  BY DEF Returned
<1>1. PICK e \in w.edges : e[1] = "Return" /\ e[2] = SymbolNode(w.fn) /\ Tracks(w, v, e[3])
  BY DEF Returned
<1>2. e \in x.edges /\ x.fn = w.fn
  BY DEF Grows, Extends
<1> QED
  BY <1>1, <1>2, TracksGrows

\* The arguments from the first to the k-th are supplied.
SuppliedUpTo(w, I, site, m) ==
    \A k \in 1..m : I.args[k][1] # "data" =>
        \E e \in w.edges : /\ e[1] = "ArgumentSupply" /\ e[2] = site
                           /\ Tracks(w, I.args[k], e[3]) /\ e[4] = SupplyIndex(I, k - 1)

LEMMA SuppliedUpToGrows ==
  ASSUME NEW w, NEW x, Grows(w, x), NEW I, NEW site, NEW m \in Nat, SuppliedUpTo(w, I, site, m)
  PROVE  SuppliedUpTo(x, I, site, m)
<1> SUFFICES ASSUME NEW k \in 1..m, I.args[k][1] # "data"
             PROVE  \E e \in x.edges : /\ e[1] = "ArgumentSupply" /\ e[2] = site
                                       /\ Tracks(x, I.args[k], e[3]) /\ e[4] = SupplyIndex(I, k - 1)
  BY DEF SuppliedUpTo
<1>1. PICK e \in w.edges : /\ e[1] = "ArgumentSupply" /\ e[2] = site
                           /\ Tracks(w, I.args[k], e[3]) /\ e[4] = SupplyIndex(I, k - 1)
  BY DEF SuppliedUpTo
<1>2. e \in x.edges
  BY DEF Grows, Extends
<1> QED
  BY <1>1, <1>2, TracksGrows

LEMMA CalledGrows ==
  ASSUME NEW w, NEW x, Grows(w, x), NEW I, Len(I.args) \in Nat, Called(w, I)
  PROVE  Called(x, I)
<1>1. I.into \in DOMAIN x.locals /\ Local(x, I.into) = Local(w, I.into) /\ w.edges \subseteq x.edges
  BY DEF Grows, Extends, Local, Called
<1>2. ASSUME I.callee # <<"sym", "dlsym">>
      PROVE  \E e \in x.edges : /\ e[1] = "Call" /\ e[2] = Local(x, I.into)
                                /\ Tracks(x, I.callee, e[3]) /\ e[4] = CallNargs(I)
  <2>1. PICK e \in w.edges : /\ e[1] = "Call" /\ e[2] = Local(w, I.into)
                             /\ Tracks(w, I.callee, e[3]) /\ e[4] = CallNargs(I)
    BY <1>2 DEF Called
  <2> QED
    BY <1>1, <2>1, TracksGrows
<1>3. ASSUME I.callee # <<"sym", "dlsym">>
      PROVE  SuppliedUpTo(x, I, Local(x, I.into), Len(I.args))
  <2>1. SuppliedUpTo(w, I, Local(w, I.into), Len(I.args))
    BY <1>3 DEF Called, SuppliedUpTo
  <2> QED
    BY <1>1, <2>1, SuppliedUpToGrows
<1> QED
  BY <1>1, <1>2, <1>3 DEF Called, SuppliedUpTo

LEMMA DoneGrows ==
  ASSUME NEW w, NEW x, Grows(w, x), NEW I, Done(w, I),
         I.op = "call" => Len(I.args) \in Nat,
         I.op = "vastart" => <<"valist">> \in DOMAIN w.locals
  PROVE  Done(x, I)
<1>1. I.op = "alloca" => I.into \in DOMAIN x.locals /\ x.locals[I.into] < x.allocas
  BY DEF Done, Grows, Extends
<1>2. I.op = "store" => Linked(x, "Store", I.to, I.val)
  BY LinkedGrows DEF Done
<1>3. I.op = "load" => Linked(x, "Load", I.into, I.from)
  BY LinkedGrows DEF Done
<1>4. I.op = "atomic" => Linked(x, "Store", I.to, I.val) /\ Linked(x, "Load", I.into, I.to)
  BY LinkedGrows DEF Done
<1>5. I.op = "assign" => \A k \in 1..Len(I.ops) : Linked(x, "Assign", I.into, I.ops[k])
  BY LinkedGrows DEF Done
<1>6. I.op = "ret" => Returned(x, I.val)
  BY ReturnedGrows DEF Done
<1>7. I.op = "call" => Called(x, I)
  BY CalledGrows DEF Done
<1>8. I.op = "copy" => Copied(x, I.to, I.from)
  BY CopiedGrows DEF Done
<1>9. I.op = "vastart" => Listed(x, I.to)
  BY ListedGrows DEF Done
<1> QED
  BY <1>1, <1>2, <1>3, <1>4, <1>5, <1>6, <1>7, <1>8, <1>9 DEF Done

----------------------------------------------------------------------------
(* Instructions with several operands.                                     *)

LEMMA AssignsGrow ==
  ASSUME NEW w, Numbered(w), NEW I, IsValue(I.into), Len(I.ops) \in Nat,
         \A k \in 1..Len(I.ops) : IsValue(I.ops[k])
  PROVE  LET x == AssignEdges(w, I)
         IN  /\ Grows(w, x) /\ Keeps(w, x)
             /\ \A k \in 1..Len(I.ops) : Linked(x, "Assign", I.into, I.ops[k])
<1>1. PICK u : /\ u[0] = w /\ AssignEdges(w, I) = u[Len(I.ops)]
               /\ \A k \in 1 .. Len(I.ops) : u[k] = AddAssignEdge(u[k - 1], I.into, I.ops[k])
  BY AssignRuns, SMTT(30)
<1> DEFINE N == Len(I.ops)
           P(n) == /\ Grows(w, u[n]) /\ Keeps(w, u[n])
                   /\ \A k \in 1..n : Linked(u[n], "Assign", I.into, I.ops[k])
           T == {n \in Nat : n <= N => P(n)}
<1>2. 0 \in T
  BY <1>1, GrowsRefl
<1>3. ASSUME NEW n \in Nat, n \in T
      PROVE  n + 1 \in T
  <2> SUFFICES ASSUME n + 1 <= N
               PROVE  P(n + 1)
    OBVIOUS
  <2>1. P(n) /\ n + 1 \in 1..N /\ (n + 1) - 1 = n
    BY <1>3
  <2>2. u[n + 1] = AddAssignEdge(u[n], I.into, I.ops[n + 1])
    BY <1>1, <2>1
  <2>3. IsValue(I.ops[n + 1]) /\ Numbered(u[n])
    BY <2>1 DEF Grows
  <2>4. /\ Grows(u[n], u[n + 1]) /\ Keeps(u[n], u[n + 1])
        /\ Linked(u[n + 1], "Assign", I.into, I.ops[n + 1])
    BY <2>2, <2>3, AssignGrows
  <2>5. Grows(w, u[n + 1]) /\ Keeps(w, u[n + 1])
    BY <2>1, <2>4, GrowsTrans
  <2>6. ASSUME NEW k \in 1..n + 1
        PROVE  Linked(u[n + 1], "Assign", I.into, I.ops[k])
    <3>1. CASE k = n + 1
      BY <2>4, <3>1
    <3>2. CASE k # n + 1
      <4>1. k \in 1..n
        BY <3>2
      <4> QED
        BY <2>1, <2>4, <4>1, LinkedGrows
    <3> QED
      BY <3>1, <3>2
  <2> QED
    BY <2>5, <2>6
<1>4. N \in T
  <2> HIDE DEF T
  <2> QED
    BY <1>2, <1>3, NatSetInduction
<1> QED
  BY <1>1, <1>4

\* An argument is supplied below the number of arguments of the call.
LEMMA SupplyIndexBelow ==
  ASSUME NEW I, WellTyped(I), Len(I.args) \in Nat, NEW k \in 1..Len(I.args)
  PROVE  SupplyIndex(I, k - 1) \in Nat /\ SupplyIndex(I, k - 1) < CallNargs(I)
BY DEF WellTyped, SupplyIndex, CallNargs, IsVarArg, Min2

\* The only new ArgumentSupply edges are of this site.
OnlySupplies(w, x, I, site) ==
    \A e \in x.edges : e[1] \in {"ArgumentSupply", "ArgumentDefinition"} =>
        e \in w.edges \/ (e[1] = "ArgumentSupply" /\ e[2] = site /\ e[4] < CallNargs(I))

LEMMA SupplyGrows ==
  ASSUME NEW w, Numbered(w), NEW I, WellTyped(I), Len(I.args) \in Nat, NEW site,
         NEW k \in 1..Len(I.args), IsValue(I.args[k])
  PROVE  LET x == SupplyArgument(w, I, site, k)
         IN  /\ Grows(w, x) /\ OnlySupplies(w, x, I, site)
             /\ I.args[k][1] # "data" =>
                  \E e \in x.edges : /\ e[1] = "ArgumentSupply" /\ e[2] = site
                                     /\ Tracks(x, I.args[k], e[3]) /\ e[4] = SupplyIndex(I, k - 1)
<1> DEFINE A == NodeOf(w, I.args[k])
           x == SupplyArgument(w, I, site, k)
           e == <<"ArgumentSupply", site, A.n, SupplyIndex(I, k - 1)>>
<1>1. Grows(w, A.w) /\ Keeps(w, A.w) /\ Tracks(A.w, I.args[k], A.n) /\ (A.n = NoNode <=> I.args[k][1] = "data")
  BY NodeOfGrows
<1>2. x = IF A.n = NoNode THEN A.w ELSE AddEdges(A.w, {e})
  BY DEF SupplyArgument
<1> HIDE DEF A, x
<1>3. CASE A.n = NoNode
  BY <1>1, <1>2, <1>3 DEF x, Keeps, OnlySupplies
<1>4. CASE A.n # NoNode
  <2>1. Grows(A.w, x) /\ x.edges = A.w.edges \cup {e}
    BY <1>1, <1>2, <1>4, EdgesGrow DEF Grows
  <2>2. Grows(w, x)
    BY <1>1, <2>1, GrowsTrans
  <2>3. SupplyIndex(I, k - 1) < CallNargs(I)
    BY SupplyIndexBelow
  <2>4. e[1] = "ArgumentSupply" /\ e[2] = site /\ e[3] = A.n /\ e[4] = SupplyIndex(I, k - 1) /\ e \in x.edges
    BY <2>1
  <2>5. OnlySupplies(w, x, I, site)
    BY <1>1, <2>1, <2>3, <2>4 DEF Keeps, OnlySupplies
  <2>6. Tracks(x, I.args[k], e[3])
    BY <1>1, <2>1, <2>4, TracksGrows
  <2> HIDE DEF e
  <2> QED
    BY <2>2, <2>4, <2>5, <2>6 DEF x
<1> QED
  BY <1>3, <1>4

LEMMA SuppliesGrow ==
  ASSUME NEW w, Numbered(w), NEW I, WellTyped(I), Len(I.args) \in Nat, NEW site,
         \A k \in 1..Len(I.args) : IsValue(I.args[k])
  PROVE  LET x == SupplyEdges(w, I, site)
         IN  Grows(w, x) /\ OnlySupplies(w, x, I, site) /\ SuppliedUpTo(x, I, site, Len(I.args))
<1>1. PICK u : /\ u[0] = w /\ SupplyEdges(w, I, site) = u[Len(I.args)]
               /\ \A k \in 1 .. Len(I.args) : u[k] = SupplyArgument(u[k - 1], I, site, k)
  BY SupplyRuns, SMTT(30)
<1> DEFINE N == Len(I.args)
           P(n) == Grows(w, u[n]) /\ OnlySupplies(w, u[n], I, site) /\ SuppliedUpTo(u[n], I, site, n)
           T == {n \in Nat : n <= N => P(n)}
<1>2. 0 \in T
  BY <1>1, GrowsRefl DEF OnlySupplies, SuppliedUpTo
<1>3. ASSUME NEW n \in Nat, n \in T
      PROVE  n + 1 \in T
  <2> SUFFICES ASSUME n + 1 <= N
               PROVE  P(n + 1)
    OBVIOUS
  <2>1. P(n) /\ n + 1 \in 1..N /\ (n + 1) - 1 = n
    BY <1>3
  <2>2. u[n + 1] = SupplyArgument(u[n], I, site, n + 1)
    BY <1>1, <2>1
  <2>3. IsValue(I.args[n + 1]) /\ Numbered(u[n])
    BY <2>1 DEF Grows
  <2>4. /\ Grows(u[n], u[n + 1]) /\ OnlySupplies(u[n], u[n + 1], I, site)
        /\ I.args[n + 1][1] # "data" =>
             \E e \in u[n + 1].edges : /\ e[1] = "ArgumentSupply" /\ e[2] = site
                      /\ Tracks(u[n + 1], I.args[n + 1], e[3]) /\ e[4] = SupplyIndex(I, (n + 1) - 1)
    BY <2>1, <2>2, <2>3, SupplyGrows
  <2>5. Grows(w, u[n + 1])
    BY <2>1, <2>4, GrowsTrans
  <2>6. OnlySupplies(w, u[n + 1], I, site)
    BY <2>1, <2>4 DEF OnlySupplies
  <2>7. SuppliedUpTo(u[n + 1], I, site, n)
    BY <2>1, <2>4, SuppliedUpToGrows
  <2>8. SuppliedUpTo(u[n + 1], I, site, n + 1)
    <3>1. \A k \in 1..n + 1 : k \in 1..n \/ k = n + 1
      OBVIOUS
    <3> QED
      BY <2>4, <2>7, <3>1 DEF SuppliedUpTo
  <2> QED
    BY <2>5, <2>6, <2>8
<1>4. N \in T
  <2> HIDE DEF T
  <2> QED
    BY <1>2, <1>3, NatSetInduction
<1> QED
  BY <1>1, <1>4

LEMMA CallGrows ==
  ASSUME NEW w, Numbered(w), NEW I, WellTyped(I), Len(I.args) \in Nat,
         I.into[1] = "reg", I.into # <<>>, IsValue(I.callee),
         \A k \in 1..Len(I.args) : IsValue(I.args[k])
  PROVE  LET x == CallEdges(w, I)
         IN  /\ Grows(w, x) /\ Called(x, I)
             /\ \A e \in x.edges : e[1] = "ArgumentDefinition" => e \in w.edges
             /\ Supplied(w) => Supplied(x)
<1> DEFINE C == NodeOf(w, I.into)
           S == SupplyEdges(C.w, I, C.n)
           F == NodeOf(S, I.callee)
           x == CallEdges(w, I)
<1>1. Grows(w, C.w) /\ Keeps(w, C.w) /\ Tracks(C.w, I.into, C.n) /\ Numbered(C.w)
  BY NodeOfGrows DEF IsValue, Grows
<1>2. I.into \in DOMAIN C.w.locals /\ C.n = Local(C.w, I.into)
  BY <1>1 DEF Tracks
<1>3. CASE I.callee = <<"sym", "dlsym">>
  <2> DEFINE e == <<"DlsymPagePointer", C.n>>
  <2>1. x = AddEdges(C.w, {e})
    BY <1>3 DEF CallEdges
  <2> HIDE DEF C, x
  <2>2. Grows(C.w, x) /\ x.edges = C.w.edges \cup {e}
    BY <1>1, <2>1, EdgesGrow
  <2>3. Keeps(C.w, x)
    BY <2>2 DEF Keeps
  <2>4. Grows(w, x) /\ Keeps(w, x)
    BY <1>1, <2>2, <2>3, GrowsTrans
  <2>5. I.into \in DOMAIN x.locals /\ Local(x, I.into) = C.n
    BY <1>2, <2>2 DEF Grows, Extends, Local
  <2>6. Called(x, I)
    BY <1>3, <2>2, <2>5 DEF Called
  <2>7. Supplied(w) => Supplied(x)
    BY <2>4 DEF Supplied, Keeps, Grows, Extends
  <2> QED
    BY <2>4, <2>6, <2>7 DEF x, Keeps
<1>4. CASE I.callee # <<"sym", "dlsym">>
  <2> DEFINE e == <<"Call", C.n, F.n, CallNargs(I)>>
  <2>1. x = AddEdges(F.w, {e})
    BY <1>4 DEF CallEdges
  <2>2. Grows(C.w, S) /\ OnlySupplies(C.w, S, I, C.n) /\ SuppliedUpTo(S, I, C.n, Len(I.args)) /\ Numbered(S)
    <3> HIDE DEF C
    <3> QED
      BY <1>1, SuppliesGrow DEF Grows
  <2>3. Grows(S, F.w) /\ Keeps(S, F.w) /\ Tracks(F.w, I.callee, F.n) /\ Numbered(F.w)
    <3> HIDE DEF S
    <3> QED
      BY <2>2, NodeOfGrows DEF Grows
  <2> HIDE DEF C, S, F, x
  <2>4. Grows(F.w, x) /\ x.edges = F.w.edges \cup {e}
    BY <2>1, <2>3, EdgesGrow
  <2>5. Grows(S, x) /\ Grows(C.w, x) /\ Grows(w, x)
    <3>1. Grows(S, x)
      BY <2>2, <2>3, <2>4, GrowsTrans
    <3>2. Grows(C.w, x)
      BY <1>1, <2>2, <3>1, GrowsTrans
    <3> QED
      BY <1>1, <3>1, <3>2, GrowsTrans
  <2>6. I.into \in DOMAIN x.locals /\ Local(x, I.into) = C.n
    BY <1>2, <2>5 DEF Grows, Extends, Local
  <2>7. SuppliedUpTo(x, I, C.n, Len(I.args))
    BY <2>2, <2>5, SuppliedUpToGrows
  <2>8. e \in x.edges /\ e[1] = "Call" /\ e[2] = C.n /\ e[4] = CallNargs(I) /\ Tracks(x, I.callee, e[3])
    BY <2>3, <2>4, TracksGrows
  <2>9. \A d \in x.edges : d[1] \in {"ArgumentSupply", "ArgumentDefinition"} =>
           d \in w.edges \/ (d[1] = "ArgumentSupply" /\ d[2] = C.n /\ d[4] < CallNargs(I))
    BY <1>1, <2>2, <2>3, <2>4 DEF Keeps, OnlySupplies
  <2> HIDE DEF e
  <2>10. Called(x, I)
    BY <1>4, <2>6, <2>7, <2>8 DEF Called, SuppliedUpTo
  <2>11. ASSUME Supplied(w)
         PROVE  Supplied(x)
    <3> SUFFICES ASSUME NEW d \in x.edges, d[1] = "ArgumentSupply"
                 PROVE  \E c \in x.edges : c[1] = "Call" /\ c[2] = d[2] /\ d[4] < c[4]
      BY DEF Supplied
    <3>1. CASE d \in w.edges
      BY <2>5, <2>11, <3>1 DEF Supplied, Grows, Extends
    <3>2. CASE d[2] = C.n /\ d[4] < CallNargs(I)
      BY <2>8, <3>2
    <3> QED
      BY <2>9, <3>1, <3>2
  <2>12. \A d \in x.edges : d[1] = "ArgumentDefinition" => d \in w.edges
    BY <2>9
  <2> QED
    BY <2>5, <2>10, <2>11, <2>12 DEF x
<1> QED
  BY <1>3, <1>4

\* The call that is inserted supplies what it declares.
LEMMA InsertedGrows ==
  ASSUME NEW w, Numbered(w), NEW I
  PROVE  LET x == VisitInserted(w, I)
         IN  /\ Grows(w, x)
             /\ \A e \in x.edges : e[1] = "ArgumentDefinition" => e \in w.edges
             /\ Supplied(w) => Supplied(x)
<1> DEFINE site == <<w.fn, w.next>>
           key == <<"tmp", w.next>>
           y == FreshLocal(w, key)
           a == <<"ArgumentSupply", site, Local(w, I.into), 0>>
           b == <<"ArgumentSupply", site, SymbolNode("dlsym_page"), 1>>
           c == <<"Call", site, SymbolNode("braceletReachabilityDlsymPageInsert"), 2>>
           x == VisitInserted(w, I)
<1>1. CASE I.callee # <<"sym", "dlsym">>
  BY <1>1, GrowsRefl DEF VisitInserted
<1>2. CASE I.callee = <<"sym", "dlsym">>
  <2>1. x = AddEdges(y, {a, b, c})
    BY <1>2 DEF VisitInserted
  <2>2. key \notin DOMAIN w.locals
    BY DEF Numbered
  <2>3. Grows(w, y) /\ y.edges = w.edges
    BY <2>2, FreshGrows
  <2>4. /\ a[1] = "ArgumentSupply" /\ a[2] = site /\ a[4] = 0
        /\ b[1] = "ArgumentSupply" /\ b[2] = site /\ b[4] = 1
        /\ c[1] = "Call" /\ c[2] = site /\ c[4] = 2
    OBVIOUS
  <2> HIDE DEF x, y, a, b, c, site
  <2>5. Grows(y, x) /\ x.edges = w.edges \cup {a, b, c}
    BY <2>1, <2>3, EdgesGrow DEF Grows
  <2>6. Grows(w, x)
    BY <2>3, <2>5, GrowsTrans
  <2>7. \A e \in x.edges : e[1] = "ArgumentDefinition" => e \in w.edges
    BY <2>4, <2>5
  <2>8. ASSUME Supplied(w)
        PROVE  Supplied(x)
    <3> SUFFICES ASSUME NEW d \in x.edges, d[1] = "ArgumentSupply"
                 PROVE  \E e \in x.edges : e[1] = "Call" /\ e[2] = d[2] /\ d[4] < e[4]
      BY DEF Supplied
    <3>1. CASE d \in w.edges
      BY <2>5, <2>8, <3>1 DEF Supplied
    <3>2. CASE d \in {a, b}
      BY <2>4, <2>5, <3>2
    <3> QED
      BY <2>4, <2>5, <3>1, <3>2
  <2> QED
    BY <2>6, <2>7, <2>8 DEF x
<1> QED
  BY <1>1, <1>2

----------------------------------------------------------------------------
(* Entering a function.                                                    *)

LEMMA OperandValue ==
  ASSUME NEW p, NEW v, IsOperand(p, v)
  PROVE  IsValue(v)
BY DEF IsOperand, IsConstant, IsRegister, IsValue

LEMMA AllocatesGrows ==
  ASSUME NEW w, NEW x, Numbered(w), Grows(w, x), NEW F, Allocates(w, F)
  PROVE  Allocates(x, F)
<1>1. Extends(w, x) /\ Numbered(x)
  BY DEF Grows
<1>2. Allocated(F) \subseteq DOMAIN x.locals
  BY <1>1 DEF Allocates, Extends
<1>3. ASSUME NEW v \in DOMAIN x.locals
      PROVE  x.locals[v] < x.allocas <=> v \in Allocated(F)
  <2>1. CASE v \in DOMAIN w.locals
    BY <1>1, <2>1 DEF Allocates, Extends
  <2>2. CASE v \notin DOMAIN w.locals
    <3>1. w.next <= x.locals[v] /\ x.locals[v] \in Nat /\ x.allocas = w.allocas
      BY <1>1, <2>2 DEF Extends, Numbered
    <3>2. w.allocas <= w.next /\ w.allocas \in Nat /\ w.next \in Nat
      BY DEF Numbered
    <3>3. v \notin Allocated(F)
      BY <2>2 DEF Allocates
    <3> QED
      BY <3>1, <3>2, <3>3
  <2> QED
    BY <2>1, <2>2
<1> QED
  BY <1>2, <1>3 DEF Allocates

LEMMA EnteredGrows ==
  ASSUME NEW w, NEW x, Grows(w, x), NEW f, NEW F, Entered(w, f, F)
  PROVE  Entered(x, f, F)
<1>1. \A v \in DOMAIN w.locals : v \in DOMAIN x.locals /\ Local(x, v) = Local(w, v)
  BY DEF Grows, Extends, Local
<1>2. w.edges \subseteq x.edges
  BY DEF Grows, Extends
<1> QED
  BY <1>1, <1>2 DEF Entered

LEMMA FunctionGrows ==
  ASSUME NEW w, NEW x, NEW f, NEW F, FunctionOK(w, f, F), Grows(w, x), Supplied(x),
         \A e \in x.edges : e[1] = "ArgumentDefinition" => e \in w.edges
  PROVE  FunctionOK(x, f, F)
<1>1. x.fn = f /\ Numbered(x)
  BY DEF FunctionOK, Grows, Extends
<1>2. Allocates(x, F) /\ Entered(x, f, F)
  BY AllocatesGrows, EnteredGrows DEF FunctionOK
<1>3. DefinesOnly(x, f, F)
  BY DEF FunctionOK, DefinesOnly
<1> QED
  BY <1>1, <1>2, <1>3 DEF FunctionOK

\* The registers of the allocations among the first n instructions.
AllocaRegisters(F, n) == {F.body[i].into : i \in {j \in 1..n : F.body[j].op = "alloca"}}

LEMMA NewWriterNumbered ==
  ASSUME NEW f
  PROVE  LET w == NewWriter(f)
         IN  /\ Numbered(w) /\ w.fn = f /\ w.allocas = 0 /\ w.next = 0
             /\ w.edges = {} /\ DOMAIN w.locals = {}
<1> DEFINE w == NewWriter(f)
<1>1. DOMAIN w = Fields /\ w.fn = f /\ w.allocas = 0 /\ w.next = 0 /\ w.edges = {} /\ w.locals = <<>>
  BY DEF NewWriter, Fields
<1> HIDE DEF w
<1>2. DOMAIN w.locals = {}
  BY <1>1
<1>3. Numbered(w)
  BY <1>1, <1>2 DEF Numbered
<1> QED
  BY <1>1, <1>2, <1>3 DEF w

LEMMA EnterAllocas ==
  ASSUME NEW f, IsFunction(prog, prog.fun[f])
  PROVE  LET x == AllocaLocals(NewWriter(f), f)
             F == prog.fun[f]
         IN  /\ Numbered(x) /\ x.fn = f /\ x.edges = {} /\ x.allocas = x.next
             /\ DOMAIN x.locals = AllocaRegisters(F, Len(F.body))
<1> DEFINE F == prog.fun[f]
           N == Len(F.body)
           w == NewWriter(f)
<1>0. N \in Nat /\ DOMAIN F.body = 1..N
  BY DEF IsFunction, IsSequence
<1>1. PICK u : /\ u[0] = w /\ AllocateAll(w, f) = u[N]
               /\ \A k \in 1 .. N : u[k] = Allocate(u[k - 1], F.body[k])
  <2>1. Len(Body(f)) \in Nat /\ Body(f) = F.body
    BY <1>0 DEF Body
  <2>2. \E u : /\ u[0] = w /\ AllocateAll(w, f) = u[Len(Body(f))]
               /\ \A k \in 1 .. Len(Body(f)) : u[k] = Allocate(u[k - 1], Body(f)[k])
    BY <2>1, AllocaRuns, SMTT(30)
  <2> QED
    BY <2>1, <2>2
<1> HIDE DEF F, N, w
<1> DEFINE P(n) == /\ Numbered(u[n]) /\ u[n].fn = f /\ u[n].edges = {} /\ u[n].allocas = 0
                   /\ DOMAIN u[n].locals = AllocaRegisters(F, n)
           T == {n \in Nat : n <= N => P(n)}
<1>2. 0 \in T
  <2>1. AllocaRegisters(F, 0) = {}
    BY DEF AllocaRegisters
  <2> QED
    BY <1>1, <2>1, NewWriterNumbered DEF w
<1>3. ASSUME NEW n \in Nat, n \in T
      PROVE  n + 1 \in T
  <2> SUFFICES ASSUME n + 1 <= N
               PROVE  P(n + 1)
    OBVIOUS
  <2>1. P(n) /\ n + 1 \in 1..N /\ (n + 1) - 1 = n
    BY <1>0, <1>3
  <2>2. u[n + 1] = Allocate(u[n], F.body[n + 1])
    BY <1>1, <2>1
  <2> DEFINE I == F.body[n + 1]
  <2>3. CASE I.op # "alloca"
    <3>1. u[n + 1] = u[n]
      BY <2>2, <2>3 DEF Allocate
    <3>2. AllocaRegisters(F, n + 1) = AllocaRegisters(F, n)
      <4>1. {j \in 1..n + 1 : F.body[j].op = "alloca"} = {j \in 1..n : F.body[j].op = "alloca"}
        <5>1. \A j \in 1..n + 1 : j \in 1..n \/ j = n + 1
          OBVIOUS
        <5> QED
          BY <5>1, <2>3
      <4> QED
        BY <4>1 DEF AllocaRegisters
    <3> QED
      BY <2>1, <3>1, <3>2
  <2>4. CASE I.op = "alloca"
    <3>1. u[n + 1] = FreshLocal(u[n], I.into)
      BY <2>2, <2>4 DEF Allocate
    <3>2. I.into[1] = "reg"
      BY <1>0, <2>1, <2>4 DEF IsFunction, IsInstruction, IsRegister, F
    <3>3. I.into \notin DOMAIN u[n].locals
      <4>1. SUFFICES ASSUME I.into \in AllocaRegisters(F, n)
                     PROVE  FALSE
        BY <2>1
      <4>2. PICK j \in 1..n : F.body[j].op = "alloca" /\ F.body[j].into = I.into
        BY <4>1 DEF AllocaRegisters
      <4>3. j \in DOMAIN F.body /\ n + 1 \in DOMAIN F.body /\ j # n + 1
        BY <1>0, <2>1
      <4> QED
        BY <2>4, <4>2, <4>3 DEF IsFunction, F
    <3>4. /\ Grows(u[n], u[n + 1]) /\ u[n + 1].edges = u[n].edges
          /\ DOMAIN u[n + 1].locals = DOMAIN u[n].locals \cup {I.into}
      <4> HIDE DEF I
      <4> QED
        BY <2>1, <3>1, <3>2, <3>3, FreshGrows
    <3>5. AllocaRegisters(F, n + 1) = AllocaRegisters(F, n) \cup {I.into}
      <4>1. {j \in 1..n + 1 : F.body[j].op = "alloca"} = {j \in 1..n : F.body[j].op = "alloca"} \cup {n + 1}
        <5>1. \A j \in 1..n + 1 : j \in 1..n \/ j = n + 1
          OBVIOUS
        <5> QED
          BY <5>1, <2>4
      <4> QED
        BY <4>1 DEF AllocaRegisters
    <3>6. Numbered(u[n + 1]) /\ u[n + 1].fn = f /\ u[n + 1].allocas = 0
      BY <2>1, <3>4 DEF Grows, Extends
    <3> QED
      BY <2>1, <3>4, <3>5, <3>6
  <2> QED
    BY <2>3, <2>4
<1>4. P(N)
  <2>1. N \in T
    <3> HIDE DEF T
    <3> QED
      BY <1>0, <1>2, <1>3, NatSetInduction
  <2> QED
    BY <2>1
<1> DEFINE w1 == u[N]
           x == [w1 EXCEPT !.allocas = w1.next]
<1>5. AllocaLocals(NewWriter(f), f) = x
  BY <1>1 DEF AllocaLocals, w
<1>6. /\ DOMAIN x = Fields /\ x.fn = w1.fn /\ x.allocas = w1.next /\ x.next = w1.next
      /\ x.edges = w1.edges /\ x.locals = w1.locals
  BY <1>4 DEF Numbered, Fields
<1> HIDE DEF x
<1>7. Numbered(x)
  BY <1>4, <1>6 DEF Numbered
<1> QED
  BY <1>4, <1>5, <1>6, <1>7 DEF F, N

\* The edges of the locals that model the va_list.
VarArgEdges(w, f, F) ==
    {<<"ArgumentDefinition", Local(w, <<"vadata">>), f, F.params>>,
     <<"Store", Local(w, <<"vasave">>), Local(w, <<"vadata">>)>>,
     <<"Store", Local(w, <<"valist">>), Local(w, <<"vasave">>)>>}

LEMMA EnterVarArgs ==
  ASSUME NEW f, IsFunction(prog, prog.fun[f])
  PROVE  LET y == VarArgLocals(AllocaLocals(NewWriter(f), f), f)
             F == prog.fun[f]
         IN  /\ Numbered(y) /\ y.fn = f /\ Allocates(y, F)
             /\ y.edges = IF F.vararg THEN VarArgEdges(y, f, F) ELSE {}
             /\ F.vararg => {<<"valist">>, <<"vasave">>, <<"vadata">>} \subseteq DOMAIN y.locals
<1> DEFINE F == prog.fun[f]
           N == Len(F.body)
           w == AllocaLocals(NewWriter(f), f)
           y == VarArgLocals(w, f)
           R == AllocaRegisters(F, N)
<1>1. Numbered(w) /\ w.fn = f /\ w.edges = {} /\ w.allocas = w.next /\ DOMAIN w.locals = R
  BY EnterAllocas
<1>2. N \in Nat /\ DOMAIN F.body = 1..N
  BY DEF IsFunction, IsSequence
<1>3. \A v \in R : v[1] = "reg"
  <2> SUFFICES ASSUME NEW j \in 1..N, F.body[j].op = "alloca"
               PROVE  F.body[j].into[1] = "reg"
    BY DEF AllocaRegisters
  <2>1. IsInstruction(prog, F, F.body[j])
    BY <1>2 DEF IsFunction
  <2> QED
    BY <2>1 DEF IsInstruction, IsRegister
<1>4. Allocated(F) = R \cup (IF F.vararg THEN {<<"valist">>, <<"vasave">>} ELSE {})
  BY DEF Allocated, AllocaRegisters
<1>5. CASE ~F.vararg
  <2>1. y = w
    BY <1>5 DEF VarArgLocals
  <2> HIDE DEF w, y, R
  <2>2. Allocates(w, F)
    BY <1>1, <1>4, <1>5 DEF Allocates, Numbered
  <2> QED
    BY <1>1, <1>5, <2>1, <2>2 DEF y, w
<1>6. CASE F.vararg
  <2> DEFINE a == FreshLocal(w, <<"valist">>)
             b == FreshLocal(a, <<"vasave">>)
             c == FreshLocal(b, <<"vadata">>)
             d == [c EXCEPT !.allocas = @ + 2]
  <2> HIDE DEF w, R
  <2>1. {<<"valist">>, <<"vasave">>, <<"vadata">>} \cap DOMAIN w.locals = {}
    BY <1>1, <1>3
  <2>2. /\ Grows(w, a) /\ a.edges = w.edges /\ DOMAIN a.locals = R \cup {<<"valist">>}
        /\ a.locals[<<"valist">>] = w.next /\ a.next = w.next + 1
    BY <1>1, <2>1, FreshGrows
  <2> HIDE DEF a
  <2>3. /\ Grows(a, b) /\ b.edges = a.edges /\ DOMAIN b.locals = R \cup {<<"valist">>, <<"vasave">>}
        /\ b.locals[<<"vasave">>] = a.next /\ b.next = a.next + 1
    <3>1. <<"vasave">> \notin DOMAIN a.locals /\ Numbered(a)
      BY <1>1, <2>1, <2>2 DEF Grows
    <3>2. /\ Grows(a, b) /\ b.edges = a.edges /\ DOMAIN b.locals = DOMAIN a.locals \cup {<<"vasave">>}
          /\ b.locals[<<"vasave">>] = a.next /\ b.next = a.next + 1
      BY <3>1, FreshGrows
    <3> HIDE DEF b
    <3> QED
      BY <2>2, <3>2
  <2> HIDE DEF b
  <2>4. /\ Grows(b, c) /\ c.edges = b.edges
        /\ DOMAIN c.locals = R \cup {<<"valist">>, <<"vasave">>, <<"vadata">>}
        /\ c.locals[<<"vadata">>] = b.next /\ c.next = b.next + 1
    <3>1. <<"vadata">> \notin DOMAIN b.locals /\ Numbered(b)
      BY <1>1, <2>1, <2>3 DEF Grows
    <3>2. /\ Grows(b, c) /\ c.edges = b.edges /\ DOMAIN c.locals = DOMAIN b.locals \cup {<<"vadata">>}
          /\ c.locals[<<"vadata">>] = b.next /\ c.next = b.next + 1
      BY <3>1, FreshGrows
    <3> HIDE DEF c
    <3> QED
      BY <2>3, <3>2
  <2> HIDE DEF c
  <2>5. Numbered(c) /\ c.allocas = w.next /\ c.fn = f /\ c.edges = {} /\ w.next \in Nat /\ c.next = w.next + 3
    BY <1>1, <2>2, <2>3, <2>4 DEF Grows, Extends, Numbered
  <2>6. /\ c.locals[<<"valist">>] = w.next /\ c.locals[<<"vasave">>] = w.next + 1
        /\ c.locals[<<"vadata">>] = w.next + 2 /\ \A v \in R : c.locals[v] \in Nat /\ c.locals[v] < w.next
    <3>1. b.locals[<<"valist">>] = w.next /\ c.locals[<<"valist">>] = w.next
      BY <2>2, <2>3, <2>4 DEF Grows, Extends
    <3>2. c.locals[<<"vasave">>] = w.next + 1
      BY <2>2, <2>3, <2>4 DEF Grows, Extends
    <3>3. c.locals[<<"vadata">>] = w.next + 2
      BY <2>2, <2>3, <2>4, <2>5
    <3>4. \A v \in R : c.locals[v] = w.locals[v]
      BY <1>1, <2>2, <2>3, <2>4 DEF Grows, Extends
    <3> QED
      BY <1>1, <3>1, <3>2, <3>3, <3>4 DEF Numbered
  <2>7. /\ DOMAIN d = Fields /\ d.fn = f /\ d.edges = {} /\ d.locals = c.locals /\ d.next = c.next
        /\ d.allocas = w.next + 2
    BY <2>5 DEF Numbered, Fields
  <2> HIDE DEF d
  <2>8. Numbered(d)
    BY <2>5, <2>7 DEF Numbered
  <2>9. Allocates(d, F)
    <3>1. Allocated(F) = R \cup {<<"valist">>, <<"vasave">>}
      BY <1>4, <1>6
    <3>2. ASSUME NEW v \in DOMAIN d.locals
          PROVE  d.locals[v] < d.allocas <=> v \in Allocated(F)
      <4>1. CASE v \in R
        BY <2>5, <2>6, <2>7, <3>1, <4>1
      <4>2. CASE v = <<"valist">>
        BY <2>5, <2>6, <2>7, <3>1, <4>2
      <4>3. CASE v = <<"vasave">>
        BY <2>5, <2>6, <2>7, <3>1, <4>3
      <4>4. CASE v = <<"vadata">>
        <5>1. v \notin R
          BY <1>3, <4>4
        <5>2. d.locals[v] = w.next + 2
          BY <2>6, <2>7, <4>4
        <5>3. v # <<"valist">> /\ v # <<"vasave">>
          BY <4>4
        <5>4. ~(d.locals[v] < d.allocas)
          BY <2>5, <2>7, <5>2
        <5> QED
          BY <3>1, <5>1, <5>3, <5>4
      <4> QED
        BY <2>4, <2>7, <4>1, <4>2, <4>3, <4>4
    <3> QED
      BY <2>4, <2>7, <3>1, <3>2 DEF Allocates
  <2>10. y = AddEdges(d, VarArgEdges(d, f, F))
    <3>1. \A v : Local(d, v) = Local(c, v)
      BY <2>5, <2>7 DEF Local
    <3>2. y = AddEdges(d, {<<"ArgumentDefinition", Local(c, <<"vadata">>), f, F.params>>,
                           <<"Store", Local(c, <<"vasave">>), Local(c, <<"vadata">>)>>,
                           <<"Store", Local(c, <<"valist">>), Local(c, <<"vasave">>)>>})
      BY <1>6 DEF VarArgLocals, a, b, c, d
    <3> QED
      BY <3>1, <3>2 DEF VarArgEdges
  <2> HIDE DEF y
  <2>11. Grows(d, y) /\ y.edges = d.edges \cup VarArgEdges(d, f, F) /\ y.locals = d.locals
    BY <2>8, <2>10, EdgesGrow
  <2>12. y.fn = f /\ VarArgEdges(y, f, F) = VarArgEdges(d, f, F)
    <3>1. y.fn = f
      BY <2>7, <2>11 DEF Grows, Extends
    <3>2. \A v : Local(y, v) = Local(d, v)
      BY <2>7, <2>11, <3>1 DEF Local
    <3> QED
      BY <3>1, <3>2 DEF VarArgEdges
  <2>13. Allocates(y, F) /\ Numbered(y)
    BY <2>8, <2>9, <2>11, AllocatesGrows DEF Grows
  <2>14. y.edges = VarArgEdges(y, f, F)
    BY <2>7, <2>11, <2>12
  <2>15. {<<"valist">>, <<"vasave">>, <<"vadata">>} \subseteq DOMAIN y.locals
    BY <2>4, <2>7, <2>11
  <2> QED
    BY <1>6, <2>12, <2>13, <2>14, <2>15 DEF y, w
<1> QED
  BY <1>5, <1>6

\* The first n parameters are defined.
Defined(w, f, n) ==
    \A i \in 0..(n - 1) : /\ <<"arg", i>> \in DOMAIN w.locals
                          /\ <<"ArgumentDefinition", Local(w, <<"arg", i>>), f, i>> \in w.edges

LEMMA EnterParameters ==
  ASSUME NEW f, prog.fun[f].params \in Nat, NEW w, Numbered(w)
  PROVE  LET x == ParameterLocals(w, f)
             n == prog.fun[f].params
         IN  /\ Grows(w, x) /\ Defined(x, f, n)
             /\ \A e \in x.edges : \/ e \in w.edges
                                   \/ e[1] = "ArgumentDefinition" /\ e[3] = f /\ e[4] \in 0..(n - 1)
<1> DEFINE N == prog.fun[f].params
           New(x, n) == \A e \in x.edges : \/ e \in w.edges
                                           \/ e[1] = "ArgumentDefinition" /\ e[3] = f /\ e[4] \in 0..(n - 1)
<1>1. PICK u : /\ u[0] = w /\ ParameterLocals(w, f) = u[N]
               /\ \A k \in 1 .. N : u[k] = Define(u[k - 1], f, k - 1)
  BY ParameterRuns, SMTT(30)
<1> HIDE DEF N
<1> DEFINE P(n) == Grows(w, u[n]) /\ Defined(u[n], f, n) /\ New(u[n], n)
           T == {n \in Nat : n <= N => P(n)}
<1>2. 0 \in T
  BY <1>1, GrowsRefl DEF Defined
<1>3. ASSUME NEW n \in Nat, n \in T
      PROVE  n + 1 \in T
  <2> SUFFICES ASSUME n + 1 <= N
               PROVE  P(n + 1)
    OBVIOUS
  <2>1. P(n) /\ n + 1 \in 1..N /\ (n + 1) - 1 = n
    BY <1>3 DEF N
  <2> DEFINE A == NodeOf(u[n], <<"arg", n>>)
             e == <<"ArgumentDefinition", A.n, f, n>>
             x == u[n + 1]
  <2>2. x = AddEdges(A.w, {e})
    BY <1>1, <2>1 DEF Define
  <2>3. Grows(u[n], A.w) /\ Keeps(u[n], A.w) /\ Tracks(A.w, <<"arg", n>>, A.n)
    BY <2>1, NodeOfGrows DEF Grows, IsValue
  <2>4. A.w.edges = u[n].edges
    <3>1. <<"arg", n>> \notin DOMAIN u[n].locals => FreshLocal(u[n], <<"arg", n>>).edges = u[n].edges
      BY <2>1, FreshGrows DEF Grows
    <3> QED
      BY <3>1 DEF NodeOf
  <2> HIDE DEF A
  <2>5. Grows(A.w, x) /\ x.edges = u[n].edges \cup {e}
    BY <2>2, <2>3, <2>4, EdgesGrow DEF Grows
  <2>6. Grows(u[n], x) /\ Grows(w, x)
    BY <2>1, <2>3, <2>5, GrowsTrans DEF Grows
  <2>7. <<"arg", n>> \in DOMAIN x.locals /\ A.n = Local(x, <<"arg", n>>)
    <3>1. Tracks(x, <<"arg", n>>, A.n)
      BY <2>3, <2>5, TracksGrows
    <3> QED
      BY <3>1 DEF Tracks
  <2>8. Defined(x, f, n)
    <3>1. \A v \in DOMAIN u[n].locals : v \in DOMAIN x.locals /\ Local(x, v) = Local(u[n], v)
      BY <2>6 DEF Grows, Extends, Local
    <3> QED
      BY <2>1, <2>5, <3>1 DEF Defined
  <2>9. Defined(x, f, n + 1)
    <3>1. \A i \in 0..((n + 1) - 1) : i \in 0..(n - 1) \/ i = n
      OBVIOUS
    <3> QED
      BY <2>5, <2>7, <2>8, <3>1 DEF Defined
  <2>10. New(x, n + 1)
    <3>1. 0..(n - 1) \subseteq 0..((n + 1) - 1) /\ n \in 0..((n + 1) - 1)
      OBVIOUS
    <3> QED
      BY <2>1, <2>5, <3>1
  <2> QED
    BY <2>6, <2>9, <2>10
<1>4. N \in T
  <2> HIDE DEF T
  <2> QED
    BY <1>2, <1>3, NatSetInduction DEF N
<1> QED
  BY <1>1, <1>4 DEF N

\* The writer of a function that is entered.
LEMMA FunctionEntered ==
  ASSUME NEW f, IsFunction(prog, prog.fun[f])
  PROVE  FunctionOK(ParameterLocals(VarArgLocals(AllocaLocals(NewWriter(f), f), f), f), f, prog.fun[f])
<1> DEFINE F == prog.fun[f]
           y == VarArgLocals(AllocaLocals(NewWriter(f), f), f)
           x == ParameterLocals(y, f)
<1>0. F.params \in Nat
  BY DEF IsFunction
<1>1. /\ Numbered(y) /\ y.fn = f /\ Allocates(y, F)
      /\ y.edges = IF F.vararg THEN VarArgEdges(y, f, F) ELSE {}
      /\ F.vararg => {<<"valist">>, <<"vasave">>, <<"vadata">>} \subseteq DOMAIN y.locals
  BY EnterVarArgs
<1>2. /\ Grows(y, x) /\ Defined(x, f, F.params)
      /\ \A e \in x.edges : \/ e \in y.edges
                            \/ e[1] = "ArgumentDefinition" /\ e[3] = f /\ e[4] \in 0..(F.params - 1)
  BY <1>0, <1>1, EnterParameters
<1> HIDE DEF x, y, F
<1>3. x.fn = f /\ Numbered(x) /\ Allocates(x, F)
  BY <1>1, <1>2, AllocatesGrows DEF Grows, Extends
<1>4. \A v \in DOMAIN y.locals : v \in DOMAIN x.locals /\ Local(x, v) = Local(y, v)
  BY <1>2 DEF Grows, Extends, Local
<1>5. Entered(x, f, F)
  <2>1. y.edges \subseteq x.edges
    BY <1>2 DEF Grows, Extends
  <2> QED
    BY <1>1, <1>2, <1>4, <2>1 DEF Entered, Defined, VarArgEdges
<1>6. \A e \in y.edges : F.vararg /\ e[1] # "ArgumentSupply"
                            /\ (e[1] = "ArgumentDefinition" => e[3] = f /\ e[4] = F.params)
  BY <1>1 DEF VarArgEdges
<1>7. DefinesOnly(x, f, F)
  BY <1>2, <1>6 DEF DefinesOnly
<1>8. Supplied(x)
  BY <1>2, <1>6 DEF Supplied
<1> QED
  BY <1>3, <1>5, <1>7, <1>8 DEF FunctionOK, x, y, F

----------------------------------------------------------------------------
(* The initializers of the globals.                                        *)

GlobalStored(w, g, v) ==
    v[1] # "data" => \E e \in w.edges : e[1] = "Store" /\ e[2] = SymbolNode(g) /\ Tracks(w, v, e[3])

LEMMA GlobalStoredGrows ==
  ASSUME NEW w, NEW x, Grows(w, x), NEW g, NEW v, GlobalStored(w, g, v)
  PROVE  GlobalStored(x, g, v)
<1> SUFFICES ASSUME v[1] # "data"
             PROVE  \E e \in x.edges : e[1] = "Store" /\ e[2] = SymbolNode(g) /\ Tracks(x, v, e[3])
  BY DEF GlobalStored
<1>1. PICK e \in w.edges : e[1] = "Store" /\ e[2] = SymbolNode(g) /\ Tracks(w, v, e[3])
  BY DEF GlobalStored
<1>2. e \in x.edges
  BY DEF Grows, Extends
<1> QED
  BY <1>1, <1>2, TracksGrows

LEMMA InitializeGrows ==
  ASSUME NEW w, Numbered(w), NEW k, IsConstant(prog, prog.init[prog.globals[k]])
  PROVE  LET x == Initialize(w, k)
             g == prog.globals[k]
         IN  Grows(w, x) /\ Keeps(w, x) /\ GlobalStored(x, g, prog.init[g])
<1> DEFINE g == prog.globals[k]
           v == prog.init[g]
           V == ConstantNode(w, v)
           e == <<"Store", SymbolNode(g), V.n>>
           x == Initialize(w, k)
<1>1. IsValue(v) /\ v[1] \notin {"reg", "arg"}
  <2>1. IsOperand(prog, v)
    BY DEF IsOperand
  <2> HIDE DEF v
  <2>2. IsValue(v)
    BY <2>1, OperandValue
  <2>3. v[1] \notin {"reg", "arg"}
    BY DEF IsConstant, v, g
  <2> QED
    BY <2>2, <2>3
<1>2. V = NodeOf(w, v)
  BY <1>1 DEF NodeOf
<1>3. x = IF V.n = NoNode THEN V.w ELSE AddEdges(V.w, {e})
  BY DEF Initialize
<1> HIDE DEF g, v, V, x
<1>4. Grows(w, V.w) /\ Keeps(w, V.w) /\ Tracks(V.w, v, V.n) /\ (V.n = NoNode <=> v[1] = "data")
  BY <1>1, <1>2, NodeOfGrows
<1>5. CASE V.n = NoNode
  BY <1>3, <1>4, <1>5 DEF GlobalStored, x, g, v
<1>6. CASE V.n # NoNode
  <2>1. Grows(V.w, x) /\ x.edges = V.w.edges \cup {e}
    BY <1>3, <1>4, <1>6, EdgesGrow DEF Grows
  <2>2. Keeps(V.w, x)
    BY <2>1 DEF Keeps
  <2>3. Grows(w, x) /\ Keeps(w, x)
    BY <1>4, <2>1, <2>2, GrowsTrans
  <2>4. e \in x.edges /\ e[1] = "Store" /\ e[2] = SymbolNode(g) /\ Tracks(x, v, e[3])
    BY <1>4, <2>1, TracksGrows
  <2>5. GlobalStored(x, g, v)
    BY <2>4 DEF GlobalStored
  <2> QED
    BY <2>3, <2>5 DEF x, g, v
<1> QED
  BY <1>5, <1>6

LEMMA GlobalsEntered ==
  ASSUME Len(prog.globals) \in Nat,
         \A k \in 1..Len(prog.globals) : IsConstant(prog, prog.init[prog.globals[k]])
  PROVE  GlobalsOK(InitializeAll(NewWriter(GlobalsFunction)), prog)
<1> DEFINE w == NewWriter(GlobalsFunction)
           N == Len(prog.globals)
           Stored(x, n) == \A k \in 1..n : GlobalStored(x, prog.globals[k], prog.init[prog.globals[k]])
<1>1. PICK u : /\ u[0] = w /\ InitializeAll(w) = u[N]
               /\ \A k \in 1 .. N : u[k] = Initialize(u[k - 1], k)
  <2> HIDE DEF w
  <2> QED
    BY InitializeRuns, SMTT(30)
<1>0. Numbered(w) /\ w.fn = GlobalsFunction /\ w.edges = {}
  BY NewWriterNumbered
<1> HIDE DEF w
<1> DEFINE P(n) == Grows(w, u[n]) /\ Keeps(w, u[n]) /\ Stored(u[n], n)
           T == {n \in Nat : n <= N => P(n)}
<1>2. 0 \in T
  BY <1>0, <1>1, GrowsRefl
<1>3. ASSUME NEW n \in Nat, n \in T
      PROVE  n + 1 \in T
  <2> SUFFICES ASSUME n + 1 <= N
               PROVE  P(n + 1)
    OBVIOUS
  <2>1. P(n) /\ n + 1 \in 1..N /\ (n + 1) - 1 = n
    BY <1>3
  <2>2. u[n + 1] = Initialize(u[n], n + 1)
    BY <1>1, <2>1
  <2>3. /\ Grows(u[n], u[n + 1]) /\ Keeps(u[n], u[n + 1])
        /\ GlobalStored(u[n + 1], prog.globals[n + 1], prog.init[prog.globals[n + 1]])
    BY <2>1, <2>2, InitializeGrows DEF Grows
  <2>4. Grows(w, u[n + 1]) /\ Keeps(w, u[n + 1])
    BY <1>0, <2>1, <2>3, GrowsTrans
  <2>5. ASSUME NEW k \in 1..n + 1
        PROVE  GlobalStored(u[n + 1], prog.globals[k], prog.init[prog.globals[k]])
    <3>1. CASE k = n + 1
      BY <2>3, <3>1
    <3>2. CASE k # n + 1
      <4>1. k \in 1..n
        BY <3>2
      <4>2. GlobalStored(u[n], prog.globals[k], prog.init[prog.globals[k]])
        BY <2>1, <4>1
      <4> QED
        BY <2>3, <4>2, GlobalStoredGrows
    <3> QED
      BY <3>1, <3>2
  <2> QED
    BY <2>4, <2>5
<1>4. P(N)
  <2>1. N \in T
    <3> HIDE DEF T
    <3> QED
      BY <1>2, <1>3, NatSetInduction
  <2> QED
    BY <2>1
<1> DEFINE x == u[N]
<1>5. Numbered(x) /\ x.fn = GlobalsFunction
  BY <1>0, <1>4 DEF Grows, Extends
<1>6. \A e \in x.edges : e[1] \notin {"ArgumentDefinition", "ArgumentSupply"}
  BY <1>0, <1>4 DEF Keeps
<1> HIDE DEF x
<1>7. \A k \in 1..N : GlobalStored(x, prog.globals[k], prog.init[prog.globals[k]])
  BY <1>4 DEF x
<1>8. GlobalsOK(x, prog)
  BY <1>5, <1>6, <1>7 DEF GlobalsOK, GlobalStored
<1> QED
  BY <1>1, <1>8 DEF w, x

----------------------------------------------------------------------------
(* The visitor keeps VisitInv.                                             *)

Count == Len(prog.order)

LEMMA ProgramFacts ==
  ASSUME prog \in Programs
  PROVE  /\ Count \in Nat /\ Count # 0 /\ DOMAIN prog.order = 1..Count
         /\ \A i, j \in 1..Count : prog.order[i] = prog.order[j] => i = j
         /\ \A i \in 1..Count : /\ prog.order[i] \notin {GlobalsFunction, "dlsym"}
                                /\ IsFunction(prog, prog.fun[prog.order[i]])
         /\ Len(prog.globals) \in Nat /\ DOMAIN prog.init = {prog.globals[k] : k \in 1..Len(prog.globals)}
         /\ \A k \in 1..Len(prog.globals) : IsConstant(prog, prog.init[prog.globals[k]])
         /\ prog.dlsyms \subseteq FunctionNames \cup DOMAIN prog.init
<1>1. prog.order \in Seq(ToSet(prog.order)) /\ prog.globals \in Seq(ToSet(prog.globals))
  BY ProgramsAssumption DEF IsSequence
<1>2. /\ Count \in Nat /\ DOMAIN prog.order = 1..Count
      /\ Len(prog.globals) \in Nat /\ DOMAIN prog.globals = 1..Len(prog.globals)
  BY <1>1 DEF Count
<1>3. Count # 0
  <2>1. prog.order # <<>>
    BY ProgramsAssumption
  <2> QED
    BY <1>1, <2>1 DEF Count
<1>4. \A i, j \in 1..Count : prog.order[i] = prog.order[j] => i = j
  BY <1>2, ProgramsAssumption DEF IsInjective
<1>5. ToSet(prog.order) = FunctionNames /\ FunctionNames = {prog.order[i] : i \in 1..Count}
  BY <1>2 DEF ToSet, FunctionNames, Count
<1>6. ToSet(prog.globals) = {prog.globals[k] : k \in 1..Len(prog.globals)}
  BY <1>2 DEF ToSet
<1>7. \A i \in 1..Count : /\ prog.order[i] \notin {GlobalsFunction, "dlsym"}
                          /\ IsFunction(prog, prog.fun[prog.order[i]])
  <2> SUFFICES ASSUME NEW i \in 1..Count
               PROVE  /\ prog.order[i] \notin {GlobalsFunction, "dlsym"}
                      /\ IsFunction(prog, prog.fun[prog.order[i]])
    OBVIOUS
  <2>1. prog.order[i] \in ToSet(prog.order)
    BY <1>5
  <2>2. {"bracelet_reachability_globals", "dlsym"} \cap ToSet(prog.order) = {}
    BY ProgramsAssumption
  <2>3. \A f \in ToSet(prog.order) : IsFunction(prog, prog.fun[f])
    BY ProgramsAssumption
  <2> QED
    BY <2>1, <2>2, <2>3 DEF GlobalsFunction
<1>8. DOMAIN prog.init = ToSet(prog.globals) /\ \A g \in ToSet(prog.globals) : IsConstant(prog, prog.init[g])
  BY ProgramsAssumption
<1>9. prog.dlsyms \subseteq ToSet(prog.order) \cup ToSet(prog.globals)
  BY ProgramsAssumption
<1> QED
  BY <1>2, <1>3, <1>4, <1>5, <1>6, <1>7, <1>8, <1>9

LEMMA BodyLength ==
  ASSUME NEW F, IsFunction(prog, F)
  PROVE  Len(F.body) \in Nat /\ DOMAIN F.body = 1..Len(F.body)
BY DEF IsFunction, IsSequence

\* The operands of an instruction are values.
LEMMA InstructionFacts ==
  ASSUME NEW F, IsFunction(prog, F), NEW j \in 1..Len(F.body)
  PROVE  LET I == F.body[j]
         IN  /\ IsInstruction(prog, F, I)
             /\ I.op \in {"store", "atomic"} => IsValue(I.to) /\ IsValue(I.val)
             /\ I.op = "load" => IsValue(I.from)
             /\ I.op = "copy" => IsValue(I.to) /\ IsValue(I.from)
             /\ I.op = "vastart" => F.vararg /\ IsValue(I.to)
             /\ I.op = "ret" => IsValue(I.val)
             /\ I.op = "assign" => Len(I.ops) \in Nat /\ \A k \in 1..Len(I.ops) : IsValue(I.ops[k])
             /\ I.op = "call" => /\ Len(I.args) \in Nat /\ WellTyped(I) /\ IsValue(I.callee)
                                 /\ \A k \in 1..Len(I.args) : IsValue(I.args[k])
             /\ I.op \in {"alloca", "load", "atomic", "assign", "call"} =>
                  I.into[1] = "reg" /\ I.into # <<>> /\ IsValue(I.into)
<1> DEFINE I == F.body[j]
<1>1. IsInstruction(prog, F, I)
  <2>1. j \in DOMAIN F.body
    BY DEF IsFunction, IsSequence
  <2> QED
    BY <2>1 DEF IsFunction
<1> HIDE DEF I
<1>2. \A v \in Operands(I) : IsValue(v)
  BY <1>1, OperandValue DEF IsInstruction
<1>3. /\ I.op \in {"store", "atomic"} => Operands(I) = {I.to, I.val}
      /\ I.op = "load" => Operands(I) = {I.from}
      /\ I.op = "copy" => Operands(I) = {I.to, I.from}
      /\ I.op = "vastart" => Operands(I) = {I.to}
      /\ I.op = "ret" => Operands(I) = {I.val}
      /\ I.op = "assign" => Operands(I) = ToSet(I.ops)
      /\ I.op = "call" => Operands(I) = ToSet(I.args)
  BY DEF Operands
<1>4. I.op = "assign" => Len(I.ops) \in Nat /\ \A k \in 1..Len(I.ops) : I.ops[k] \in ToSet(I.ops)
  BY <1>1 DEF IsInstruction, IsSequence, ToSet
<1>5. I.op = "call" => Len(I.args) \in Nat /\ \A k \in 1..Len(I.args) : I.args[k] \in ToSet(I.args)
  BY <1>1 DEF IsInstruction, IsSequence, ToSet
<1>6. I.op = "call" => WellTyped(I) /\ IsValue(I.callee)
  <2>1. I.op = "call" => I.callee = <<"sym", I.callee[2]>> \/ IsOperand(prog, I.callee)
    BY <1>1 DEF IsInstruction
  <2>2. I.callee = <<"sym", I.callee[2]>> => IsValue(I.callee)
    BY DEF IsValue
  <2>3. I.op = "call" => WellTyped(I)
    BY <1>1 DEF IsInstruction
  <2> QED
    BY <2>1, <2>2, <2>3, OperandValue
<1>7. I.op \in {"alloca", "load", "atomic", "assign", "call"} => IsRegister(I.into)
  BY <1>1 DEF IsInstruction
<1>8. IsRegister(I.into) => I.into[1] = "reg" /\ I.into # <<>> /\ IsValue(I.into)
  BY DEF IsRegister, IsValue
<1>9. I.op = "vastart" => F.vararg
  BY <1>1 DEF IsInstruction
<1> QED
  BY <1>1, <1>2, <1>3, <1>4, <1>5, <1>6, <1>7, <1>8, <1>9 DEF I

LEMMA InitVisit ==
  ASSUME Init
  PROVE  VisitInv
<1>1. prog \in Programs /\ phase = "visit" /\ ip = <<0, 0>> /\ writer = <<>>
  BY DEF Init
<1>2. Count \in Nat
  BY <1>1, ProgramFacts
<1>3. \A i \in 1..Count : ~IsEntered(i)
  BY <1>1, <1>2 DEF IsEntered
<1>4. ip[1] = 0 /\ ip[2] = 0 /\ ip[1] <= Count + 1
  BY <1>1, <1>2
<1> QED
  BY <1>1, <1>2, <1>3, <1>4 DEF VisitInv, Count

\* The other steps leave the writers alone.
LEMMA OtherStep ==
  ASSUME VisitInv, UNCHANGED <<prog, ip, writer>>,
         \/ phase' = phase \/ phase' = "asserted"
         \/ phase' \in {"solve", "refused"} /\ ip[1] = Len(prog.order) + 1
         \/ phase' = "run" /\ phase = "solve"
  PROVE  VisitInv'
BY DEF VisitInv, IsEntered, IsVisited, Body

\* One visit*() call.
LEMMA VisitStep ==
  ASSUME VisitInv, NEW op, NEW w, Visit(op, w), Whole(w), Grows(W, w), Supplied(W) => Supplied(w),
         \A e \in w.edges : e[1] = "ArgumentDefinition" => e \in W.edges,
         Done(w, Instr)
  PROVE  VisitInv'
<1> DEFINE i0 == ip[1]
           j0 == ip[2]
           f == prog.order[i0]
<1>1. /\ phase = "visit" /\ i0 \in 1..Count /\ j0 \in 1..Len(Body(f))
      /\ writer' = [writer EXCEPT ![f] = w] /\ ip' = <<i0, j0 + 1>>
      /\ prog' = prog /\ phase' = phase
  BY DEF Visit, Count
<1>2. /\ prog \in Programs /\ Count \in Nat /\ i0 # 0 /\ i0 <= Count + 1
      /\ DOMAIN writer = {GlobalsFunction} \cup {prog.order[i] : i \in {j \in 1..Count : IsEntered(j)}}
      /\ GlobalsOK(writer[GlobalsFunction], prog)
  BY <1>1, ProgramFacts DEF VisitInv, Count
<1>3. \A i \in 1..Count : IsEntered(i) => FunctionOK(writer[prog.order[i]], prog.order[i], prog.fun[prog.order[i]])
  BY DEF VisitInv, Count
<1>4. \A i \in 1..Count : IsEntered(i) => \A j \in 1..Len(Body(prog.order[i])) :
         IsVisited(i, j) => Done(writer[prog.order[i]], Body(prog.order[i])[j])
  BY DEF VisitInv, Count
<1>5. \A i \in 1..Count : IsFunction(prog, prog.fun[prog.order[i]]) /\ prog.order[i] # GlobalsFunction
  BY <1>2, ProgramFacts
<1>6. \A i, j \in 1..Count : prog.order[i] = prog.order[j] => i = j
  BY <1>2, ProgramFacts
<1>7. ip'[1] = i0 /\ ip'[2] = j0 + 1 /\ j0 \in Nat /\ Len(Body(f)) \in Nat
  <2>1. IsFunction(prog, prog.fun[f])
    BY <1>1, <1>5
  <2>2. Len(Body(f)) \in Nat
    BY <2>1, BodyLength DEF Body
  <2> HIDE DEF i0, j0, f
  <2> QED
    BY <1>1, <2>2
<1>8. \A i \in 1..Count : IsEntered(i)' <=> IsEntered(i)
  BY <1>1, <1>7 DEF IsEntered
<1>9. \A i \in 1..Count : \A j \in Nat : IsVisited(i, j)' <=> IsVisited(i, j) \/ (i = i0 /\ j = j0)
  BY <1>1, <1>7 DEF IsVisited
<1>10. IsEntered(i0) /\ f \in DOMAIN writer
  BY <1>1, <1>2 DEF IsEntered
<1>11. DOMAIN writer' = DOMAIN writer /\ writer'[f] = w /\ \A g \in DOMAIN writer : g # f => writer'[g] = writer[g]
  BY <1>1, <1>10
<1>12. W = writer[f] /\ Instr = Body(f)[j0]
  BY DEF W, Instr
<1>13. FunctionOK(w, f, prog.fun[f])
  <2>1. FunctionOK(writer[f], f, prog.fun[f])
    BY <1>1, <1>3, <1>10
  <2>2. Supplied(w)
    BY <1>12, <2>1 DEF FunctionOK
  <2> QED
    BY <1>12, <2>1, <2>2, FunctionGrows
<1>14. ASSUME NEW j \in 1..Len(Body(f)), IsVisited(i0, j) \/ j = j0
       PROVE  Done(w, Body(f)[j])
  <2>1. CASE j = j0
    BY <1>12, <2>1
  <2>2. CASE IsVisited(i0, j)
    <3>1. Done(writer[f], Body(f)[j])
      BY <1>1, <1>4, <1>10, <2>2
    <3>2. /\ Body(f)[j].op = "call" => Len(Body(f)[j].args) \in Nat
          /\ Body(f)[j].op = "vastart" => prog.fun[f].vararg
      BY <1>1, <1>5, InstructionFacts DEF Body
    <3>3. prog.fun[f].vararg => <<"valist">> \in DOMAIN writer[f].locals
      BY <1>1, <1>3, <1>10 DEF FunctionOK, Entered
    <3> QED
      BY <1>12, <3>1, <3>2, <3>3, DoneGrows
  <2> QED
    BY <1>14, <2>1, <2>2
<1>15. ASSUME NEW i \in 1..Count, IsEntered(i)
       PROVE  /\ FunctionOK(writer'[prog.order[i]], prog.order[i], prog.fun[prog.order[i]])
              /\ \A j \in 1..Len(Body(prog.order[i])) :
                    IsVisited(i, j)' => Done(writer'[prog.order[i]], Body(prog.order[i])[j])
  <2>0. \A j \in 1..Len(Body(prog.order[i])) : j \in Nat
    OBVIOUS
  <2>1. CASE i = i0
    BY <1>9, <1>11, <1>13, <1>14, <2>0, <2>1
  <2>2. CASE i # i0
    <3>1. prog.order[i] # f /\ prog.order[i] \in DOMAIN writer
      BY <1>1, <1>2, <1>6, <1>15, <2>2
    <3>2. writer'[prog.order[i]] = writer[prog.order[i]]
      BY <1>11, <3>1
    <3> QED
      BY <1>3, <1>4, <1>9, <1>15, <2>0, <2>2, <3>2
  <2> QED
    BY <2>1, <2>2
<1>16. GlobalsOK(writer'[GlobalsFunction], prog)
  <2>1. f # GlobalsFunction /\ GlobalsFunction \in DOMAIN writer
    BY <1>1, <1>2, <1>5
  <2> QED
    BY <1>2, <1>11, <2>1
<1> HIDE DEF i0, j0, f
<1>17. DOMAIN writer' = {GlobalsFunction} \cup {prog.order[i] : i \in {j \in 1..Count : IsEntered(j)'}}
  BY <1>2, <1>8, <1>11
<1>18. ip' = <<ip'[1], ip'[2]>> /\ ip'[1] \in Nat /\ ip'[2] \in Nat /\ ip'[1] # 0 /\ ip'[1] <= Count + 1
  BY <1>1, <1>2, <1>7
<1>19. \A i \in 1..Count : IsEntered(i)' =>
         /\ FunctionOK(writer'[prog.order[i]], prog.order[i], prog.fun[prog.order[i]])
         /\ \A j \in 1..Len(prog.fun[prog.order[i]].body) :
               IsVisited(i, j)' => Done(writer'[prog.order[i]], prog.fun[prog.order[i]].body[j])
  BY <1>8, <1>15 DEF Body
<1> HIDE <1>8, <1>15
<1> QED
  BY <1>1, <1>2, <1>16, <1>17, <1>18, <1>19 DEF VisitInv, Count, Body

\* Each visit*() function adds the edges of its instruction.
LEMMA VisitInstruction ==
  ASSUME VisitInv, NEW op, NEW w, Visit(op, w),
         \/ op \in {"alloca", "asm"} /\ w = W
         \/ op = "store" /\ w = AddStoreEdge(W, Instr.to, Instr.val)
         \/ op = "load" /\ w = AddLoadEdge(W, Instr.into, Instr.from)
         \/ op = "atomic" /\ w = AddStoreEdge(AddLoadEdge(W, Instr.into, Instr.to), Instr.to, Instr.val)
         \/ op = "assign" /\ w = AssignEdges(W, Instr)
         \/ op = "ret" /\ w = ReturnEdges(W, Instr.val)
         \/ op = "call" /\ w \in {CallEdges(W, Instr), VisitInserted(CallEdges(W, Instr), Instr)}
         \/ op = "copy" /\ w = CopyEdges(W, Instr.to, Instr.from)
         \/ op = "vastart" /\ w = VastartEdges(W, Instr.to)
  PROVE  VisitInv'
<1> DEFINE f == prog.order[ip[1]]
           F == prog.fun[f]
           I == Instr
           x == W
<1>1. ip[1] \in 1..Count /\ ip[2] \in 1..Len(F.body) /\ I = F.body[ip[2]] /\ I.op = op /\ x = writer[f]
  BY DEF Visit, Count, Body, Instr, W
<1>2. IsFunction(prog, F) /\ FunctionOK(x, f, F)
  <2>1. prog \in Programs /\ IsEntered(ip[1])
    <3> HIDE DEF F
    <3>1. prog \in Programs /\ ip[2] \in Nat
      BY DEF VisitInv
    <3>2. ip[2] >= 1
      BY <1>1, <3>1
    <3> QED
      BY <3>1, <3>2 DEF IsEntered
  <2>2. FunctionOK(writer[f], f, F)
    BY <1>1, <2>1 DEF VisitInv, Count
  <2> QED
    BY <1>1, <2>1, <2>2, ProgramFacts
<1>3. Numbered(x) /\ Allocates(x, F) /\ Entered(x, f, F)
  BY <1>2 DEF FunctionOK
<1> HIDE DEF F, I, x
<1>4. /\ I.op \in {"store", "atomic"} => IsValue(I.to) /\ IsValue(I.val)
      /\ I.op = "load" => IsValue(I.from)
      /\ I.op = "copy" => IsValue(I.to) /\ IsValue(I.from)
      /\ I.op = "vastart" => F.vararg /\ IsValue(I.to)
      /\ I.op = "ret" => IsValue(I.val)
      /\ I.op = "assign" => Len(I.ops) \in Nat /\ \A k \in 1..Len(I.ops) : IsValue(I.ops[k])
      /\ I.op = "call" => /\ Len(I.args) \in Nat /\ WellTyped(I) /\ IsValue(I.callee)
                          /\ \A k \in 1..Len(I.args) : IsValue(I.args[k])
      /\ I.op \in {"alloca", "load", "atomic", "assign", "call"} =>
           I.into[1] = "reg" /\ I.into # <<>> /\ IsValue(I.into)
  BY <1>1, <1>2, InstructionFacts
<1>0. CASE ~Whole(w)
  <2>1. UNCHANGED <<prog, ip, writer>> /\ phase' = "asserted"
    BY <1>0 DEF Visit
  <2> QED
    BY <2>1, OtherStep
<1> SUFFICES ASSUME Whole(w)
             PROVE  VisitInv'
  BY <1>0
<1> SUFFICES /\ Grows(x, w) /\ (Supplied(x) => Supplied(w))
             /\ \A e \in w.edges : e[1] = "ArgumentDefinition" => e \in x.edges
             /\ Done(w, I)
  BY VisitStep DEF I, x
<1>5. ASSUME Grows(x, w), Keeps(x, w)
      PROVE  /\ Supplied(x) => Supplied(w)
             /\ \A e \in w.edges : e[1] = "ArgumentDefinition" => e \in x.edges
  BY <1>5 DEF Keeps, Supplied, Grows, Extends
<1>6. CASE op \in {"alloca", "asm"} /\ w = x
  <2>1. Grows(x, w) /\ Keeps(x, w)
    BY <1>3, <1>6, GrowsRefl
  <2>2. op = "alloca" => I.into \in Allocated(F)
    BY <1>1 DEF Allocated
  <2>3. Done(w, I)
    BY <1>1, <1>3, <1>6, <2>2 DEF Done, Allocates
  <2> QED
    BY <1>5, <2>1, <2>3
<1>7. CASE op = "store" /\ w = AddStoreEdge(x, I.to, I.val)
  <2>1. Grows(x, w) /\ Keeps(x, w) /\ Linked(w, "Store", I.to, I.val)
    BY <1>1, <1>3, <1>4, <1>7, StoreGrows
  <2> QED
    BY <1>1, <1>5, <1>7, <2>1 DEF Done
<1>8. CASE op = "load" /\ w = AddLoadEdge(x, I.into, I.from)
  <2>1. Grows(x, w) /\ Keeps(x, w) /\ Linked(w, "Load", I.into, I.from)
    BY <1>1, <1>3, <1>4, <1>8, LoadGrows
  <2> QED
    BY <1>1, <1>5, <1>8, <2>1 DEF Done
<1>9. CASE op = "atomic" /\ w = AddStoreEdge(AddLoadEdge(x, I.into, I.to), I.to, I.val)
  <2> DEFINE y == AddLoadEdge(x, I.into, I.to)
  <2>1. Grows(x, y) /\ Keeps(x, y) /\ Linked(y, "Load", I.into, I.to)
    BY <1>1, <1>3, <1>4, <1>9, LoadGrows
  <2> HIDE DEF y
  <2>2. Grows(y, w) /\ Keeps(y, w) /\ Linked(w, "Store", I.to, I.val)
    <3>1. w = AddStoreEdge(y, I.to, I.val) /\ Numbered(y) /\ IsValue(I.to) /\ IsValue(I.val)
      BY <1>1, <1>4, <1>9, <2>1 DEF y, Grows
    <3> QED
      BY <3>1, StoreGrows
  <2>3. Linked(w, "Load", I.into, I.to)
    BY <2>1, <2>2, LinkedGrows
  <2>4. Grows(x, w) /\ Keeps(x, w)
    BY <1>3, <2>1, <2>2, GrowsTrans
  <2> QED
    BY <1>1, <1>5, <1>9, <2>2, <2>3, <2>4 DEF Done
<1>10. CASE op = "assign" /\ w = AssignEdges(x, I)
  <2>1. Grows(x, w) /\ Keeps(x, w) /\ \A k \in 1..Len(I.ops) : Linked(w, "Assign", I.into, I.ops[k])
    BY <1>1, <1>3, <1>4, <1>10, AssignsGrow
  <2> QED
    BY <1>1, <1>5, <1>10, <2>1 DEF Done
<1>11. CASE op = "ret" /\ w = ReturnEdges(x, I.val)
  <2>1. Grows(x, w) /\ Keeps(x, w) /\ Returned(w, I.val)
    BY <1>1, <1>3, <1>4, <1>11, ReturnGrows
  <2> QED
    BY <1>1, <1>5, <1>11, <2>1 DEF Done
<1>12. CASE op = "call" /\ w \in {CallEdges(x, I), VisitInserted(CallEdges(x, I), I)}
  <2> DEFINE y == CallEdges(x, I)
  <2>1. /\ Grows(x, y) /\ Called(y, I) /\ (Supplied(x) => Supplied(y))
        /\ \A e \in y.edges : e[1] = "ArgumentDefinition" => e \in x.edges
    BY <1>1, <1>3, <1>4, <1>12, CallGrows
  <2> HIDE DEF y
  <2>2. CASE w = y
    BY <1>1, <1>12, <2>1, <2>2 DEF Done
  <2>3. CASE w = VisitInserted(y, I)
    <3>1. /\ Grows(y, w) /\ (Supplied(y) => Supplied(w))
          /\ \A e \in w.edges : e[1] = "ArgumentDefinition" => e \in y.edges
      BY <2>1, <2>3, InsertedGrows DEF Grows
    <3>2. Grows(x, w)
      BY <1>3, <2>1, <3>1, GrowsTrans
    <3>3. Called(w, I)
      BY <1>1, <1>4, <1>12, <2>1, <3>1, CalledGrows
    <3> QED
      BY <1>1, <1>12, <2>1, <3>1, <3>2, <3>3 DEF Done
  <2> QED
    BY <1>12, <2>2, <2>3 DEF y
<1>13. CASE op = "copy" /\ w = CopyEdges(x, I.to, I.from)
  <2>1. Grows(x, w) /\ Keeps(x, w) /\ Copied(w, I.to, I.from)
    BY <1>1, <1>3, <1>4, <1>13, CopyGrows
  <2> QED
    BY <1>1, <1>5, <1>13, <2>1 DEF Done
<1>14. CASE op = "vastart" /\ w = VastartEdges(x, I.to)
  <2>1. <<"valist">> \in DOMAIN x.locals
    BY <1>1, <1>3, <1>4, <1>14 DEF Entered
  <2>2. Grows(x, w) /\ Keeps(x, w) /\ Listed(w, I.to)
    BY <1>1, <1>3, <1>4, <1>14, <2>1, VastartGrows
  <2> QED
    BY <1>1, <1>5, <1>14, <2>2 DEF Done
<1> QED
  BY <1>6, <1>7, <1>8, <1>9, <1>10, <1>11, <1>12, <1>13, <1>14 DEF I, x

LEMMA VisitGlobalsStep ==
  ASSUME VisitInv, VisitGlobals
  PROVE  VisitInv'
<1>1. /\ phase = "visit" /\ ip = <<0, 0>> /\ ip' = <<1, 0>> /\ prog' = prog /\ phase' = phase
      /\ writer' = Put(writer, GlobalsFunction, InitializeAll(NewWriter(GlobalsFunction)))
  BY DEF VisitGlobals
<1>2. prog \in Programs /\ writer = <<>>
  BY <1>1 DEF VisitInv
<1>3. Count \in Nat /\ Count # 0 /\ GlobalsOK(InitializeAll(NewWriter(GlobalsFunction)), prog)
  BY <1>2, ProgramFacts, GlobalsEntered
<1>4. DOMAIN writer' = {GlobalsFunction} /\ GlobalsOK(writer'[GlobalsFunction], prog)
  BY <1>1, <1>2, <1>3 DEF Put
<1>5. \A i \in 1..Count : ~IsEntered(i)'
  BY <1>1, <1>3 DEF IsEntered
<1>6. ip' = <<ip'[1], ip'[2]>> /\ ip'[1] \in Nat /\ ip'[2] \in Nat /\ ip'[1] # 0 /\ ip'[1] <= Count + 1
  BY <1>1, <1>3
<1>7. Count' = Count
  BY <1>1 DEF Count
<1> QED
  BY <1>1, <1>2, <1>4, <1>5, <1>6, <1>7 DEF VisitInv, Count

LEMMA EnterFunctionStep ==
  ASSUME VisitInv, EnterFunction
  PROVE  VisitInv'
<1> DEFINE i0 == ip[1]
           f == prog.order[i0]
           w == ParameterLocals(VarArgLocals(AllocaLocals(NewWriter(f), f), f), f)
<1>1. /\ phase = "visit" /\ i0 \in 1..Count /\ ip[2] = 0 /\ ip' = <<i0, 1>> /\ prog' = prog /\ phase' = phase
      /\ writer' = Put(writer, f, w)
  BY DEF EnterFunction, Count
<1>2. /\ prog \in Programs /\ Count \in Nat /\ i0 <= Count + 1
      /\ DOMAIN writer = {GlobalsFunction} \cup {prog.order[i] : i \in {j \in 1..Count : IsEntered(j)}}
      /\ GlobalsOK(writer[GlobalsFunction], prog)
  BY <1>1, ProgramFacts DEF VisitInv, Count
<1>3. \A i \in 1..Count : IsEntered(i) =>
         /\ FunctionOK(writer[prog.order[i]], prog.order[i], prog.fun[prog.order[i]])
         /\ \A j \in 1..Len(prog.fun[prog.order[i]].body) :
               IsVisited(i, j) => Done(writer[prog.order[i]], prog.fun[prog.order[i]].body[j])
  BY DEF VisitInv, Count, Body
<1>4. \A i \in 1..Count : IsFunction(prog, prog.fun[prog.order[i]]) /\ prog.order[i] # GlobalsFunction
  BY <1>2, ProgramFacts
<1>5. \A i, j \in 1..Count : prog.order[i] = prog.order[j] => i = j
  BY <1>2, ProgramFacts
<1>6. FunctionOK(w, f, prog.fun[f])
  BY <1>1, <1>4, FunctionEntered
<1>7. ip'[1] = i0 /\ ip'[2] = 1
  BY <1>1
<1>8. \A i \in 1..Count : /\ IsEntered(i)' <=> IsEntered(i) \/ i = i0
                          /\ IsEntered(i) => i # i0
  BY <1>1, <1>7 DEF IsEntered
<1>9. \A i \in 1..Count : \A j \in Nat \ {0} : /\ i # i0 => (IsVisited(i, j)' <=> IsVisited(i, j))
                                               /\ i = i0 => ~IsVisited(i, j)'
  BY <1>1, <1>7 DEF IsVisited
<1> HIDE DEF w
<1>10. /\ DOMAIN writer' = DOMAIN writer \cup {f} /\ writer'[f] = w
       /\ \A g \in DOMAIN writer : g # f => writer'[g] = writer[g]
  BY <1>1 DEF Put
<1>11. ASSUME NEW i \in 1..Count, IsEntered(i)'
       PROVE  /\ FunctionOK(writer'[prog.order[i]], prog.order[i], prog.fun[prog.order[i]])
              /\ \A j \in 1..Len(prog.fun[prog.order[i]].body) :
                    IsVisited(i, j)' => Done(writer'[prog.order[i]], prog.fun[prog.order[i]].body[j])
  <2>0. Len(prog.fun[prog.order[i]].body) \in Nat
    BY <1>4, BodyLength
  <2>1. CASE i = i0
    <3>1. \A j \in 1..Len(prog.fun[prog.order[i]].body) : ~IsVisited(i, j)'
      BY <1>9, <2>0, <2>1
    <3>2. prog.order[i] = f
      BY <2>1
    <3> HIDE DEF f, i0
    <3> QED
      BY <1>6, <1>10, <3>1, <3>2
  <2>2. CASE i # i0
    <3>1. IsEntered(i) /\ prog.order[i] # f /\ prog.order[i] \in DOMAIN writer
      BY <1>1, <1>2, <1>5, <1>8, <1>11, <2>2
    <3>2. writer'[prog.order[i]] = writer[prog.order[i]]
      BY <1>10, <3>1
    <3>3. \A j \in 1..Len(prog.fun[prog.order[i]].body) : IsVisited(i, j)' <=> IsVisited(i, j)
      BY <1>9, <2>0, <2>2
    <3> QED
      BY <1>3, <3>1, <3>2, <3>3
  <2> QED
    BY <2>1, <2>2
<1>12. GlobalsOK(writer'[GlobalsFunction], prog)
  <2>1. f # GlobalsFunction /\ GlobalsFunction \in DOMAIN writer
    BY <1>1, <1>2, <1>4
  <2> QED
    BY <1>2, <1>10, <2>1
<1>13. DOMAIN writer' = {GlobalsFunction} \cup {prog.order[i] : i \in {j \in 1..Count : IsEntered(j)'}}
  BY <1>1, <1>2, <1>8, <1>10
<1> HIDE DEF i0, f
<1>14. ip' = <<ip'[1], ip'[2]>> /\ ip'[1] \in Nat /\ ip'[2] \in Nat /\ ip'[1] # 0 /\ ip'[1] <= Count + 1
  BY <1>1, <1>2, <1>7
<1>15. Count' = Count
  BY <1>1 DEF Count
<1>16. \A i \in 1..Count : IsEntered(i)' =>
         /\ FunctionOK(writer'[prog.order[i]], prog.order[i], prog.fun[prog.order[i]])
         /\ \A j \in 1..Len(prog.fun[prog.order[i]].body) :
               IsVisited(i, j)' => Done(writer'[prog.order[i]], prog.fun[prog.order[i]].body[j])
  BY <1>11
<1> HIDE <1>3, <1>8, <1>9, <1>11
<1> QED
  BY <1>1, <1>2, <1>12, <1>13, <1>14, <1>15, <1>16 DEF VisitInv, Count, Body

LEMMA FinishFunctionStep ==
  ASSUME VisitInv, FinishFunction
  PROVE  VisitInv'
<1> DEFINE i0 == ip[1]
           f == prog.order[i0]
<1>1. /\ phase = "visit" /\ i0 \in 1..Count /\ ip[2] = Len(prog.fun[f].body) + 1 /\ ip' = <<i0 + 1, 0>>
      /\ prog' = prog /\ phase' = phase /\ writer' = writer
  BY DEF FinishFunction, Count, Body
<1>2. /\ prog \in Programs /\ Count \in Nat
      /\ DOMAIN writer = {GlobalsFunction} \cup {prog.order[i] : i \in {j \in 1..Count : IsEntered(j)}}
      /\ GlobalsOK(writer[GlobalsFunction], prog)
  BY <1>1, ProgramFacts DEF VisitInv, Count
<1>3. \A i \in 1..Count : IsEntered(i) =>
         /\ FunctionOK(writer[prog.order[i]], prog.order[i], prog.fun[prog.order[i]])
         /\ \A j \in 1..Len(prog.fun[prog.order[i]].body) :
               IsVisited(i, j) => Done(writer[prog.order[i]], prog.fun[prog.order[i]].body[j])
  BY DEF VisitInv, Count, Body
<1>4. \A i \in 1..Count : Len(prog.fun[prog.order[i]].body) \in Nat
  BY <1>2, ProgramFacts, BodyLength
<1>5. Len(prog.fun[f].body) \in Nat
  BY <1>1, <1>4
<1>6. ip'[1] = i0 + 1 /\ ip'[2] = 0 /\ ip[2] >= 1
  <2> HIDE DEF f
  <2> QED
    BY <1>1, <1>5
<1>7. \A i \in 1..Count : IsEntered(i)' <=> IsEntered(i)
  BY <1>1, <1>2, <1>5, <1>6 DEF IsEntered
<1>8. \A i \in 1..Count : \A j \in 1..Len(prog.fun[prog.order[i]].body) : IsVisited(i, j)' => IsVisited(i, j)
  BY <1>1, <1>2, <1>4, <1>5, <1>6 DEF IsVisited
<1> HIDE DEF i0, f
<1>9. ip' = <<ip'[1], ip'[2]>> /\ ip'[1] \in Nat /\ ip'[2] \in Nat /\ ip'[1] # 0 /\ ip'[1] <= Count + 1
  BY <1>1, <1>2, <1>6
<1>10. DOMAIN writer' = {GlobalsFunction} \cup {prog.order[i] : i \in {j \in 1..Count : IsEntered(j)'}}
  BY <1>1, <1>2, <1>7
<1>11. \A i \in 1..Count : IsEntered(i)' =>
         /\ FunctionOK(writer'[prog.order[i]], prog.order[i], prog.fun[prog.order[i]])
         /\ \A j \in 1..Len(prog.fun[prog.order[i]].body) :
               IsVisited(i, j)' => Done(writer'[prog.order[i]], prog.fun[prog.order[i]].body[j])
  BY <1>1, <1>3, <1>7, <1>8
<1> HIDE <1>3, <1>7, <1>8
<1> QED
  BY <1>1, <1>2, <1>9, <1>10, <1>11 DEF VisitInv, Count, Body

LEMMA NextVisit ==
  ASSUME VisitInv, [Next]_vars
  PROVE  VisitInv'
<1>1. CASE VisitGlobals
  BY <1>1, VisitGlobalsStep
<1>2. CASE EnterFunction
  BY <1>2, EnterFunctionStep
<1>3. CASE \/ VisitAlloca \/ VisitInlineAsm \/ VisitStore \/ VisitLoad \/ VisitAtomic
           \/ VisitAssigning \/ VisitReturn \/ VisitCall \/ VisitCopy \/ VisitVastart
  <2>1. CASE VisitAlloca \/ VisitInlineAsm
    BY <2>1, VisitInstruction DEF VisitAlloca, VisitInlineAsm
  <2>2. CASE VisitStore
    BY <2>2, VisitInstruction DEF VisitStore
  <2>3. CASE VisitLoad
    BY <2>3, VisitInstruction DEF VisitLoad
  <2>4. CASE VisitAtomic
    BY <2>4, VisitInstruction DEF VisitAtomic
  <2>5. CASE VisitAssigning
    BY <2>5, VisitInstruction DEF VisitAssigning
  <2>6. CASE VisitReturn
    BY <2>6, VisitInstruction DEF VisitReturn
  <2>7. CASE VisitCall
    BY <2>7, VisitInstruction DEF VisitCall
  <2>8. CASE VisitCopy
    BY <2>8, VisitInstruction DEF VisitCopy
  <2>9. CASE VisitVastart
    BY <2>9, VisitInstruction DEF VisitVastart
  <2> QED
    BY <1>3, <2>1, <2>2, <2>3, <2>4, <2>5, <2>6, <2>7, <2>8, <2>9
<1>4. CASE FinishFunction
  BY <1>4, FinishFunctionStep
<1>5. CASE WriteC
  BY <1>5, OtherStep DEF WriteC
<1>6. CASE Propagate \/ Execute \/ UNCHANGED vars
  <2>1. UNCHANGED passVars
    BY <1>6 DEF Propagate, Execute, RunAlloca, RunStore, RunLoad, RunAtomic, RunAssigning, RunCopy,
                RunVastart, RunMalloc, RunDlsym, RunCall, RunReturn, KeepRun, vars
  <2> QED
    BY <2>1, OtherStep DEF passVars
<1>7. CASE Start
  <2>1. UNCHANGED <<prog, ip, writer>> /\ phase' = "run" /\ phase = "solve"
    BY <1>7 DEF Start
  <2> QED
    BY <2>1, OtherStep
<1> QED
  BY <1>1, <1>2, <1>3, <1>4, <1>5, <1>6, <1>7 DEF Next

(* One number per value, those of the allocations first.                   *)
LEMMA VisitAllocas ==
  ASSUME VisitInv
  PROVE  AllocasNumberedFirst
<1> SUFFICES ASSUME NEW f \in (DOMAIN writer) \ {GlobalsFunction}
             PROVE  LET numbered == DOMAIN writer[f].locals
                    IN  /\ \A u, v \in numbered : writer[f].locals[u] = writer[f].locals[v] => u = v
                        /\ \A v \in numbered : writer[f].locals[v] < writer[f].allocas
                                                 <=> v \in Allocated(prog.fun[f])
  BY DEF AllocasNumberedFirst, Allocated, Body
<1>1. ip[1] # 0
  BY DEF VisitInv
<1>2. PICK i \in 1..Len(prog.order) : IsEntered(i) /\ f = prog.order[i]
  BY <1>1 DEF VisitInv
<1>3. FunctionOK(writer[f], f, prog.fun[f])
  BY <1>2 DEF VisitInv
<1> QED
  BY <1>3 DEF FunctionOK, Numbered, Allocates

\* Every function is entered and all its instructions visited.
AllVisited ==
    /\ DOMAIN writer = {GlobalsFunction} \cup FunctionNames
    /\ GlobalsOK(writer[GlobalsFunction], prog)
    /\ \A f \in FunctionNames :
         /\ FunctionOK(writer[f], f, prog.fun[f]) /\ IsFunction(prog, prog.fun[f])
         /\ f \notin {GlobalsFunction, "dlsym"}
         /\ \A j \in 1..Len(Body(f)) : Done(writer[f], Body(f)[j])

LEMMA VisitedAll ==
  ASSUME VisitInv, ip[1] = Len(prog.order) + 1
  PROVE  AllVisited
<1>1. prog \in Programs /\ Count \in Nat /\ ip[1] = Count + 1
  BY ProgramFacts DEF VisitInv, Count
<1>2. ip[1] # 0 /\ \A i \in 1..Count : IsEntered(i) /\ \A j : IsVisited(i, j)
  BY <1>1 DEF IsEntered, IsVisited
<1>3. FunctionNames = {prog.order[i] : i \in 1..Count}
  BY DEF FunctionNames, Count
<1>4. \A f \in FunctionNames :
        /\ FunctionOK(writer[f], f, prog.fun[f])
        /\ \A j \in 1..Len(Body(f)) : Done(writer[f], Body(f)[j])
  BY <1>2, <1>3 DEF VisitInv, Count
<1>5. \A f \in FunctionNames : IsFunction(prog, prog.fun[f]) /\ f \notin {GlobalsFunction, "dlsym"}
  BY <1>1, <1>3, ProgramFacts
<1>6. DOMAIN writer = {GlobalsFunction} \cup FunctionNames /\ GlobalsOK(writer[GlobalsFunction], prog)
  BY <1>2, <1>3 DEF VisitInv, Count
<1> QED
  BY <1>4, <1>5, <1>6 DEF AllVisited

LEMMA VisitSupplies ==
  ASSUME VisitInv
  PROVE  SuppliesDeclared
<1> SUFFICES ASSUME phase \notin {"visit", "asserted"}, NEW e \in EdgesOf("ArgumentSupply")
             PROVE  \E c \in EdgesOf("Call") : c[2] = e[2] /\ e[4] < c[4]
  BY DEF SuppliesDeclared
<1>1. AllVisited
  BY VisitedAll DEF VisitInv
<1>2. PICK f \in DOMAIN writer : e \in writer[f].edges /\ e[1] = "ArgumentSupply"
  BY DEF EdgesOf, Edges
<1>3. f # GlobalsFunction
  BY <1>1, <1>2 DEF AllVisited, GlobalsOK
<1>4. Supplied(writer[f])
  BY <1>1, <1>3 DEF AllVisited, FunctionOK
<1>5. PICK c \in writer[f].edges : c[1] = "Call" /\ c[2] = e[2] /\ e[4] < c[4]
  BY <1>2, <1>4 DEF Supplied
<1> QED
  BY <1>5 DEF EdgesOf, Edges

\* The allocations are the first locals of a function and each value has a
\* number of its own, in every program.
THEOREM AllocasFirst == Spec => []AllocasNumberedFirst
<1>1. Init => VisitInv
  BY InitVisit
<1>2. VisitInv /\ [Next]_vars => VisitInv'
  BY NextVisit
<1>3. VisitInv => AllocasNumberedFirst
  BY VisitAllocas
<1> QED
  BY <1>1, <1>2, <1>3, PTL DEF Spec

\* Every supplied argument is declared: the generated C compiles.
THEOREM SuppliesWithinCalls == Spec => []SuppliesDeclared
<1>1. Init => VisitInv
  BY InitVisit
<1>2. VisitInv /\ [Next]_vars => VisitInv'
  BY NextVisit
<1>3. VisitInv => SuppliesDeclared
  BY VisitSupplies
<1> QED
  BY <1>1, <1>2, <1>3, PTL DEF Spec

----------------------------------------------------------------------------
(* What the points-to sets hold when the run starts.                       *)

LEMMA ArityNat ==
  ASSUME NEW F, IsFunction(prog, F)
  PROVE  Arity(F) \in Nat
BY DEF IsFunction, Arity

\* this_function_nargs is the number of parameters, and one for `...'.
LEMMA NargsKnown ==
  ASSUME AllVisited, NEW f \in FunctionNames
  PROVE  DefinedNargs(f) = Arity(prog.fun[f])
<1> DEFINE F == prog.fun[f]
           D == {d \in EdgesOf("ArgumentDefinition") : d[3] = f}
           ns == {e[4] + 1 : e \in D}
<1>1. FunctionOK(writer[f], f, F) /\ F.params \in Nat /\ F.vararg \in BOOLEAN /\ Arity(F) \in Nat
  BY ArityNat DEF AllVisited, IsFunction
<1>2. ASSUME NEW e \in D
      PROVE  e[4] + 1 \in 1..Arity(F)
  <2>1. PICK g \in DOMAIN writer : e \in writer[g].edges /\ e[1] = "ArgumentDefinition" /\ e[3] = f
    BY DEF EdgesOf, Edges
  <2>2. g # GlobalsFunction
    BY <2>1 DEF AllVisited, GlobalsOK
  <2>3. g \in FunctionNames /\ DefinesOnly(writer[g], g, prog.fun[g])
    BY <2>2 DEF AllVisited, FunctionOK
  <2>4. g = f /\ (e[4] \in 0..(F.params - 1) \/ (F.vararg /\ e[4] = F.params))
    BY <2>1, <2>3 DEF DefinesOnly
  <2> HIDE DEF F, D
  <2> QED
    BY <1>1, <2>4 DEF Arity
<1>3. ASSUME NEW k \in 1..Arity(F)
      PROVE  k \in ns
  <2>1. \A e \in writer[f].edges : e[1] = "ArgumentDefinition" /\ e[3] = f => e \in D
    BY DEF EdgesOf, Edges, AllVisited
  <2>2. CASE k <= F.params
    <3> DEFINE e == <<"ArgumentDefinition", Local(writer[f], <<"arg", k - 1>>), f, k - 1>>
    <3>0. k \in Nat /\ k # 0 /\ k - 1 \in 0..(F.params - 1)
      <4> HIDE DEF F
      <4> QED
        BY <1>1, <2>2
    <3>1. e \in writer[f].edges
      BY <1>1, <3>0 DEF FunctionOK, Entered
    <3>2. e \in D /\ e[4] + 1 = k
      BY <2>1, <3>0, <3>1
    <3> HIDE DEF e, D
    <3> QED
      BY <3>2
  <2>3. CASE ~(k <= F.params)
    <3> DEFINE e == <<"ArgumentDefinition", Local(writer[f], <<"vadata">>), f, F.params>>
    <3>0. F.vararg /\ k = F.params + 1
      <4> HIDE DEF F
      <4> QED
        BY <1>1, <2>3 DEF Arity
    <3>1. e \in writer[f].edges
      BY <1>1, <3>0 DEF FunctionOK, Entered
    <3>2. e \in D /\ e[4] + 1 = k
      BY <2>1, <3>0, <3>1
    <3> HIDE DEF e, D
    <3> QED
      BY <3>2
  <2> QED
    BY <2>2, <2>3
<1>4. ns = 1..Arity(F)
  <2> HIDE DEF D, F
  <2>1. \A n \in ns : n \in 1..Arity(F)
    BY <1>2
  <2> HIDE DEF ns
  <2> QED
    BY <1>3, <2>1
<1>5. DefinedNargs(f) = IF ns = {} THEN 0 ELSE CHOOSE n \in ns : \A m \in ns : m <= n
  BY DEF DefinedNargs
<1> HIDE DEF ns, F, D
<1>6. CASE Arity(F) = 0
  <2>1. ns = {}
    BY <1>4, <1>6
  <2> QED
    BY <1>5, <1>6, <2>1 DEF F
<1>7. CASE Arity(F) # 0
  <2>1. Arity(F) \in ns /\ \A m \in ns : m <= Arity(F)
    BY <1>1, <1>4, <1>7
  <2>2. \A n \in ns : (\A m \in ns : m <= n) => n = Arity(F)
    BY <1>1, <1>4, <2>1
  <2> QED
    BY <1>5, <2>1, <2>2 DEF F
<1> QED
  BY <1>6, <1>7

LEMMA CopyFlows ==
  ASSUME Derived \subseteq pts, NEW x, NEW y, <<x, y>> \in Copies
  PROVE  Flows(x, y)
<1> SUFFICES ASSUME NEW q \in pts, q[1] = x
             PROVE  <<y, q[2]>> \in pts
  BY DEF Flows
<1>1. q[2] \in PointsTo(x)
  BY DEF PointsTo
<1>2. <<y, q[2]>> \in Derived
  <2> DEFINE c == <<x, y>>
  <2>1. c \in Copies /\ q[2] \in PointsTo(c[1]) /\ c[2] = y
    BY <1>1
  <2> HIDE DEF c
  <2> QED
    BY <2>1 DEF Derived
<1> QED
  BY <1>2

LEMMA SolvedClosed ==
  ASSUME AllVisited, Derived \subseteq pts
  PROVE  Closed
<1> SUFFICES ASSUME NEW e \in Edges
             PROVE  /\ e[1] = "Assign" => Flows(<<"node", e[3]>>, <<"node", e[2]>>)
                    /\ e[1] = "Load" => \A q \in pts : q[1] = <<"node", e[3]>> =>
                                           Flows(<<"cell", q[2]>>, <<"node", e[2]>>)
                    /\ e[1] = "Store" => \A q \in pts : q[1] = <<"node", e[2]>> =>
                                           Flows(<<"node", e[3]>>, <<"cell", q[2]>>)
                    /\ e[1] = "Call" => \A f \in FunctionNames : IsTarget(f, e[3]) =>
                         /\ Flows(<<"ret", f>>, <<"node", e[2]>>)
                         /\ \A i \in 0..(Min2(e[4], Arity(prog.fun[f])) - 1) :
                               Flows(<<"sup", e[2], i>>, <<"arg", f, i>>)
                    /\ e[1] = "Return" => Flows(<<"node", e[3]>>, <<"ret", e[2][1]>>)
                    /\ e[1] = "ArgumentDefinition" => Flows(<<"arg", e[3], e[4]>>, <<"node", e[2]>>)
                    /\ e[1] = "ArgumentSupply" => Flows(<<"node", e[3]>>, <<"sup", e[2], e[4]>>)
                    /\ e[1] = "DlsymPagePointer" =>
                         \A s \in prog.dlsyms : Flows(<<"node", SymbolNode(s)>>, <<"node", e[2]>>)
  BY DEF Closed
<1>0. StatementCopies(e) \subseteq Copies
  BY DEF Copies
<1>1. ASSUME e[1] = "Assign"
      PROVE  Flows(<<"node", e[3]>>, <<"node", e[2]>>)
  <2>1. <<<<"node", e[3]>>, <<"node", e[2]>>>> \in Copies
    BY <1>0, <1>1 DEF StatementCopies
  <2> QED
    BY <2>1, CopyFlows
<1>2. ASSUME e[1] = "Load", NEW q \in pts, q[1] = <<"node", e[3]>>
      PROVE  Flows(<<"cell", q[2]>>, <<"node", e[2]>>)
  <2>1. q[2] \in PointsTo(<<"node", e[3]>>)
    BY <1>2 DEF PointsTo
  <2>2. <<<<"cell", q[2]>>, <<"node", e[2]>>>> \in Copies
    BY <1>0, <1>2, <2>1 DEF StatementCopies
  <2> QED
    BY <2>2, CopyFlows
<1>3. ASSUME e[1] = "Store", NEW q \in pts, q[1] = <<"node", e[2]>>
      PROVE  Flows(<<"node", e[3]>>, <<"cell", q[2]>>)
  <2>1. q[2] \in PointsTo(<<"node", e[2]>>)
    BY <1>3 DEF PointsTo
  <2>2. <<<<"node", e[3]>>, <<"cell", q[2]>>>> \in Copies
    BY <1>0, <1>3, <2>1 DEF StatementCopies
  <2> QED
    BY <2>2, CopyFlows
<1>4. ASSUME e[1] = "Call", NEW f \in FunctionNames, IsTarget(f, e[3])
      PROVE  /\ Flows(<<"ret", f>>, <<"node", e[2]>>)
             /\ \A i \in 0..(Min2(e[4], Arity(prog.fun[f])) - 1) : Flows(<<"sup", e[2], i>>, <<"arg", f, i>>)
  <2>1. f \in Targets(e[3])
    <3>1. <<<<"node", e[3]>>, SymbolNode(f)>> \in pts => SymbolNode(f) \in PointsTo(<<"node", e[3]>>)
      <4> DEFINE q == <<<<"node", e[3]>>, SymbolNode(f)>>
      <4>1. q[1] = <<"node", e[3]>> /\ q[2] = SymbolNode(f)
        OBVIOUS
      <4> HIDE DEF q
      <4>2. q \in pts => SymbolNode(f) \in PointsTo(<<"node", e[3]>>)
        BY <4>1 DEF PointsTo
      <4> QED
        BY <4>2 DEF q
    <3> QED
      BY <1>4, <3>1 DEF Targets, IsTarget
  <2> DEFINE C(g) == {<<<<"sup", e[2], i>>, <<"arg", g, i>>>> : i \in 0..(Min2(e[4], DefinedNargs(g)) - 1)}
                     \cup {<<<<"ret", g>>, <<"node", e[2]>>>>}
  <2>2. C(f) \subseteq Copies
    <3>1. StatementCopies(e) = UNION {C(g) : g \in Targets(e[3])}
      BY <1>4 DEF StatementCopies
    <3> HIDE DEF C
    <3> QED
      BY <1>0, <2>1, <3>1
  <2>3. Flows(<<"ret", f>>, <<"node", e[2]>>)
    <3>1. <<<<"ret", f>>, <<"node", e[2]>>>> \in C(f)
      OBVIOUS
    <3> HIDE DEF C
    <3> QED
      BY <2>2, <3>1, CopyFlows
  <2>4. ASSUME NEW i \in 0..(Min2(e[4], Arity(prog.fun[f])) - 1)
        PROVE  Flows(<<"sup", e[2], i>>, <<"arg", f, i>>)
    <3>1. i \in 0..(Min2(e[4], DefinedNargs(f)) - 1)
      BY NargsKnown
    <3>2. <<<<"sup", e[2], i>>, <<"arg", f, i>>>> \in C(f)
      BY <3>1
    <3> HIDE DEF C
    <3> QED
      BY <2>2, <3>2, CopyFlows
  <2> QED
    BY <2>3, <2>4
<1>5. ASSUME e[1] = "Return"
      PROVE  Flows(<<"node", e[3]>>, <<"ret", e[2][1]>>)
  <2>1. <<<<"node", e[3]>>, <<"ret", e[2][1]>>>> \in Copies
    BY <1>0, <1>5 DEF StatementCopies
  <2> QED
    BY <2>1, CopyFlows
<1>6. ASSUME e[1] = "ArgumentDefinition"
      PROVE  Flows(<<"arg", e[3], e[4]>>, <<"node", e[2]>>)
  <2>1. <<<<"arg", e[3], e[4]>>, <<"node", e[2]>>>> \in Copies
    BY <1>0, <1>6 DEF StatementCopies
  <2> QED
    BY <2>1, CopyFlows
<1>7. ASSUME e[1] = "ArgumentSupply"
      PROVE  Flows(<<"node", e[3]>>, <<"sup", e[2], e[4]>>)
  <2>1. <<<<"node", e[3]>>, <<"sup", e[2], e[4]>>>> \in Copies
    BY <1>0, <1>7 DEF StatementCopies
  <2> QED
    BY <2>1, CopyFlows
<1>8. ASSUME e[1] = "DlsymPagePointer", NEW s \in prog.dlsyms
      PROVE  Flows(<<"node", SymbolNode(s)>>, <<"node", e[2]>>)
  <2>1. <<<<"node", SymbolNode(s)>>, <<"node", e[2]>>>> \in Copies
    BY <1>0, <1>8 DEF StatementCopies
  <2> QED
    BY <2>1, CopyFlows
<1> QED
  BY <1>1, <1>2, <1>3, <1>4, <1>5, <1>6, <1>7, <1>8

LEMMA StartSeeded ==
  ASSUME AllVisited, NEW S, InitialPointsTo \subseteq S
  PROVE  SeededIn(S)
<1>1. ASSUME NEW f \in FunctionNames, NEW i \in Nat, i < writer[f].allocas
      PROVE  <<<<"node", <<f, i>>>>, <<f, i>>>> \in S
  <2>1. writer[f].allocas \in Nat
    BY DEF AllVisited, FunctionOK, Numbered
  <2>2. i \in 0..(writer[f].allocas - 1)
    BY <1>1, <2>1
  <2> DEFINE x == <<"node", <<f, i>>>>
  <2>3. x \in Malloced /\ x[2] = <<f, i>>
    BY <2>2 DEF Malloced
  <2> HIDE DEF x
  <2>4. <<x, x[2]>> \in InitialPointsTo
    BY <2>3 DEF InitialPointsTo
  <2> QED
    BY <2>3, <2>4 DEF x
<1>2. ASSUME NEW g \in DOMAIN prog.init \cup FunctionNames
      PROVE  <<<<"node", SymbolNode(g)>>, SymbolNode(g)>> \in S
  BY DEF InitialPointsTo
<1>3. ASSUME NEW e \in Edges, e[1] = "Call", e[3] = SymbolNode("malloc")
      PROVE  <<<<"node", e[2]>>, e[2]>> \in S
  <2>1. e[2] \in HeapAllocating
    BY <1>3 DEF HeapAllocating, EdgesOf
  <2> QED
    BY <2>1 DEF InitialPointsTo
<1> QED
  BY <1>1, <1>2, <1>3 DEF SeededIn

----------------------------------------------------------------------------
(* Values of the run and their nodes.                                      *)

Covers(x, a) == a # Null => <<x, NodeOfObject(a[1])>> \in pts
RegSafe(r) == \A x \in DOMAIN r : Covers(<<"node", Local(writer[x[1]], x[2])>>, r[x])
MemSafe(m) == \A c \in DOMAIN m : Covers(<<"cell", NodeOfObject(c[1])>>, m[c])
PendingSafe(P) == \A p \in P : Flows(<<"ret", p[1]>>, <<"node", Local(writer[p[2]], p[3])>>)

LEMMA CoversFlows ==
  ASSUME NEW x, NEW y, NEW a, Flows(x, y), Covers(x, a)
  PROVE  Covers(y, a)
<1> SUFFICES ASSUME a # Null
             PROVE  <<y, NodeOfObject(a[1])>> \in pts
  BY DEF Covers
<1> DEFINE q == <<x, NodeOfObject(a[1])>>
<1>1. q \in pts /\ q[1] = x /\ q[2] = NodeOfObject(a[1])
  BY DEF Covers
<1> HIDE DEF q
<1> QED
  BY <1>1 DEF Flows

LEMMA PutReg ==
  ASSUME RegSafe(reg), NEW f, NEW v, NEW a, Covers(<<"node", Local(writer[f], v)>>, a)
  PROVE  RegSafe(Put(reg, <<f, v>>, a))
<1> DEFINE r == Put(reg, <<f, v>>, a)
<1>1. DOMAIN r = DOMAIN reg \cup {<<f, v>>} /\ r[<<f, v>>] = a /\ \A x \in DOMAIN reg : x # <<f, v>> => r[x] = reg[x]
  BY DEF Put
<1> HIDE DEF r
<1>2. ASSUME NEW x \in DOMAIN r
      PROVE  Covers(<<"node", Local(writer[x[1]], x[2])>>, r[x])
  <2>1. CASE x = <<f, v>>
    BY <1>1, <2>1
  <2>2. CASE x # <<f, v>>
    BY <1>1, <2>2 DEF RegSafe
  <2> QED
    BY <2>1, <2>2
<1> QED
  BY <1>2 DEF RegSafe, r

LEMMA PutMem ==
  ASSUME MemSafe(mem), NEW p, NEW a, Covers(<<"cell", NodeOfObject(p[1])>>, a)
  PROVE  MemSafe(Put(mem, p, a))
<1> DEFINE m == Put(mem, p, a)
<1>1. DOMAIN m = DOMAIN mem \cup {p} /\ m[p] = a /\ \A c \in DOMAIN mem : c # p => m[c] = mem[c]
  BY DEF Put
<1> HIDE DEF m
<1>2. ASSUME NEW c \in DOMAIN m
      PROVE  Covers(<<"cell", NodeOfObject(c[1])>>, m[c])
  BY <1>1 DEF MemSafe
<1> QED
  BY <1>2 DEF MemSafe, m

LEMMA OverrideSafe ==
  ASSUME NEW g
  PROVE  /\ RegSafe(reg) /\ RegSafe(g) => RegSafe(Override(reg, g))
         /\ MemSafe(mem) /\ MemSafe(g) => MemSafe(Override(mem, g))
<1>1. ASSUME RegSafe(reg), RegSafe(g)
      PROVE  RegSafe(Override(reg, g))
  <2> DEFINE r == Override(reg, g)
  <2>1. /\ DOMAIN r = DOMAIN reg \cup DOMAIN g /\ \A x \in DOMAIN g : r[x] = g[x]
        /\ \A x \in DOMAIN reg : x \notin DOMAIN g => r[x] = reg[x]
    BY DEF Override
  <2> HIDE DEF r
  <2>2. RegSafe(r)
    BY <1>1, <2>1 DEF RegSafe
  <2> QED
    BY <2>2 DEF r
<1>2. ASSUME MemSafe(mem), MemSafe(g)
      PROVE  MemSafe(Override(mem, g))
  <2> DEFINE r == Override(mem, g)
  <2>1. /\ DOMAIN r = DOMAIN mem \cup DOMAIN g /\ \A x \in DOMAIN g : r[x] = g[x]
        /\ \A x \in DOMAIN mem : x \notin DOMAIN g => r[x] = mem[x]
    BY DEF Override
  <2> HIDE DEF r
  <2>2. MemSafe(r)
    BY <1>2, <2>1 DEF MemSafe
  <2> QED
    BY <2>2 DEF r
<1> QED
  BY <1>1, <1>2

\* What is read from memory is in the set of the cell.
LEMMA ReadCovers ==
  ASSUME MemSafe(mem), NEW c
  PROVE  Covers(<<"cell", NodeOfObject(c[1])>>, ReadCell(c))
BY DEF MemSafe, ReadCell, Covers

----------------------------------------------------------------------------
(* Operands.                                                               *)

ProgramSymbols == FunctionNames \cup DOMAIN prog.init

LEMMA OperandSymbols ==
  ASSUME prog \in Programs, NEW v, IsOperand(prog, v)
  PROVE  /\ v[1] \in {"reg", "arg", "sym", "data", "agg"}
         /\ v[1] = "sym" => v[2] \in ProgramSymbols
         /\ v[1] = "agg" => Len(v[2]) \in Nat /\ \A i \in 1..Len(v[2]) : v[2][i] \in ProgramSymbols
<1>1. ToSet(prog.order) = FunctionNames
  <2>1. DOMAIN prog.order = 1..Len(prog.order)
    BY ProgramFacts DEF Count
  <2> QED
    BY <2>1 DEF ToSet, FunctionNames
<1>2. ToSet(prog.globals) = DOMAIN prog.init
  BY ProgramsAssumption
<1>3. ToSet(prog.order) \cup ToSet(prog.globals) = ProgramSymbols
  BY <1>1, <1>2 DEF ProgramSymbols
<1>4. CASE IsRegister(v) \/ v = <<"arg", v[2]>> \/ v = <<"data">>
  BY <1>4 DEF IsRegister
<1>5. CASE v = <<"sym", v[2]>> /\ v[2] \in ProgramSymbols
  BY <1>5
<1>6. CASE v = <<"agg", v[2]>> /\ v[2] \in Seq(ProgramSymbols)
  BY <1>6
<1> QED
  BY <1>3, <1>4, <1>5, <1>6 DEF IsOperand, IsConstant

LEMMA OperandsOfInstruction ==
  ASSUME NEW F, IsFunction(prog, F), NEW I \in ToSet(F.body)
  PROVE  /\ I.op \in {"store", "atomic"} => IsOperand(prog, I.to) /\ IsOperand(prog, I.val)
         /\ I.op = "load" => IsOperand(prog, I.from)
         /\ I.op = "copy" => IsOperand(prog, I.to) /\ IsOperand(prog, I.from)
         /\ I.op = "vastart" => F.vararg /\ IsOperand(prog, I.to)
         /\ I.op = "ret" => IsOperand(prog, I.val)
         /\ I.op = "assign" => \A k \in 1..Len(I.ops) : IsOperand(prog, I.ops[k])
         /\ I.op = "call" =>
              /\ Len(I.args) \in Nat /\ WellTyped(I)
              /\ I.callee = <<"sym", I.callee[2]>> \/ IsOperand(prog, I.callee)
              /\ \A k \in 1..Len(I.args) : IsOperand(prog, I.args[k])
         /\ I.op \in {"alloca", "load", "atomic", "assign", "call"} => I.into[1] = "reg" /\ I.into # <<>>
         /\ \E j \in 1..Len(F.body) : I = F.body[j]
<1>0. DOMAIN F.body = 1..Len(F.body)
  BY BodyLength
<1>1. PICK j \in 1..Len(F.body) : I = F.body[j]
  BY <1>0 DEF ToSet
<1>2. IsInstruction(prog, F, I)
  BY <1>1, InstructionFacts
<1>3. \A v \in Operands(I) : IsOperand(prog, v)
  BY <1>2 DEF IsInstruction
<1>4. /\ I.op \in {"store", "atomic"} => Operands(I) = {I.to, I.val}
      /\ I.op = "load" => Operands(I) = {I.from}
      /\ I.op = "copy" => Operands(I) = {I.to, I.from}
      /\ I.op = "vastart" => Operands(I) = {I.to}
      /\ I.op = "ret" => Operands(I) = {I.val}
      /\ I.op = "assign" => Operands(I) = ToSet(I.ops)
      /\ I.op = "call" => Operands(I) = ToSet(I.args)
  BY DEF Operands
<1>5. I.op = "assign" => \A k \in 1..Len(I.ops) : I.ops[k] \in ToSet(I.ops)
  BY <1>2 DEF IsInstruction, IsSequence, ToSet
<1>6. I.op = "call" => Len(I.args) \in Nat /\ \A k \in 1..Len(I.args) : I.args[k] \in ToSet(I.args)
  BY <1>2 DEF IsInstruction, IsSequence, ToSet
<1>7. I.op = "call" => WellTyped(I) /\ (I.callee = <<"sym", I.callee[2]>> \/ IsOperand(prog, I.callee))
  BY <1>2 DEF IsInstruction
<1>8. I.op \in {"alloca", "load", "atomic", "assign", "call"} => I.into[1] = "reg" /\ I.into # <<>>
  BY <1>1, InstructionFacts
<1>9. I.op = "vastart" => F.vararg
  BY <1>2 DEF IsInstruction
<1> QED
  BY <1>1, <1>3, <1>4, <1>5, <1>6, <1>7, <1>8, <1>9

\* What the points-to sets satisfy while the program runs.
Solved == prog \in Programs /\ AllVisited /\ Seeded /\ Closed

\* The value of an operand is in the set of the node that tracks it.
LEMMA EvalCovers ==
  ASSUME Solved, NEW g \in DOMAIN writer, NEW f, NEW v, IsOperand(prog, v),
         v[1] \in {"reg", "arg"} => g = f /\ RegSafe(reg),
         NEW a \in Eval(f, v), NEW n, Tracks(writer[g], v, n)
  PROVE  Covers(<<"node", n>>, a)
<1> DEFINE w == writer[g]
<1>0. \A s \in ProgramSymbols : <<<<"node", SymbolNode(s)>>, SymbolNode(s)>> \in pts
  BY DEF Solved, Seeded, SeededIn, ProgramSymbols
<1>1. \A s : NodeOfObject(<<SymbolObject(s), 0>>[1]) = SymbolNode(s) /\ <<SymbolObject(s), 0>> # Null
  BY DEF NodeOfObject, SymbolObject, Object, Null
<1>2. /\ v[1] \in {"reg", "arg", "sym", "data", "agg"}
      /\ v[1] = "sym" => v[2] \in ProgramSymbols
      /\ v[1] = "agg" => Len(v[2]) \in Nat /\ \A i \in 1..Len(v[2]) : v[2][i] \in ProgramSymbols
  BY OperandSymbols DEF Solved
<1>3. CASE v[1] \in {"reg", "arg"}
  <2>1. a = ReadReg(f, v) /\ n = Local(writer[f], v)
    BY <1>3 DEF Eval, Tracks
  <2>2. CASE <<f, v>> \in DOMAIN reg
    <3> DEFINE x == <<f, v>>
    <3>1. a = reg[x] /\ x \in DOMAIN reg /\ x[1] = f /\ x[2] = v
      BY <2>1, <2>2 DEF ReadReg
    <3> HIDE DEF x
    <3> QED
      BY <1>3, <2>1, <3>1 DEF RegSafe
  <2>3. CASE <<f, v>> \notin DOMAIN reg
    BY <2>1, <2>3 DEF ReadReg, Covers
  <2> QED
    BY <2>2, <2>3
<1>4. CASE v[1] = "sym"
  <2>1. a = <<SymbolObject(v[2]), 0>> /\ n = SymbolNode(v[2])
    BY <1>4 DEF Eval, Tracks
  <2>2. NodeOfObject(a[1]) = SymbolNode(v[2])
    BY <1>1, <2>1
  <2> QED
    BY <1>0, <1>2, <1>4, <2>1, <2>2 DEF Covers
<1>5. CASE v[1] = "data"
  BY <1>5 DEF Eval, Covers
<1>6. CASE v[1] = "agg"
  <2>1. PICK i \in 1..Len(v[2]) : a = <<SymbolObject(v[2][i]), 0>>
    BY <1>6 DEF Eval
  <2>2. NodeOfObject(a[1]) = SymbolNode(v[2][i]) /\ v[2][i] \in ProgramSymbols
    BY <1>1, <1>2, <1>6, <2>1
  <2>3. Covers(<<"node", SymbolNode(v[2][i])>>, a)
    BY <1>0, <2>2 DEF Covers
  <2>4. CASE Len(v[2]) = 1
    <3>1. i = 1 /\ n = SymbolNode(v[2][1])
      BY <1>6, <2>4 DEF Tracks
    <3> QED
      BY <2>3, <3>1
  <2>5. CASE Len(v[2]) # 1
    <3> DEFINE e == <<"Assign", n, SymbolNode(v[2][i])>>
    <3>1. e \in w.edges
      BY <1>6, <2>5 DEF Tracks
    <3>2. e \in Edges /\ e[1] = "Assign" /\ e[2] = n /\ e[3] = SymbolNode(v[2][i])
      BY <3>1 DEF Edges
    <3> HIDE DEF e
    <3>3. Flows(<<"node", SymbolNode(v[2][i])>>, <<"node", n>>)
      BY <3>2 DEF Solved, Closed
    <3> QED
      BY <2>3, <3>3, CoversFlows
  <2> QED
    BY <2>4, <2>5
<1> QED
  BY <1>2, <1>3, <1>4, <1>5, <1>6

----------------------------------------------------------------------------
(* What an instruction does is in the sets.                                *)

Running == Solved /\ RegSafe(reg) /\ MemSafe(mem)

LEMMA FunctionWriter ==
  ASSUME Solved, NEW f \in FunctionNames
  PROVE  /\ f \in DOMAIN writer /\ FunctionOK(writer[f], f, prog.fun[f]) /\ IsFunction(prog, prog.fun[f])
         /\ writer[f].edges \subseteq Edges
         /\ \A I \in ToSet(Body(f)) : Done(writer[f], I)
<1>1. /\ f \in DOMAIN writer /\ FunctionOK(writer[f], f, prog.fun[f]) /\ IsFunction(prog, prog.fun[f])
      /\ \A j \in 1..Len(Body(f)) : Done(writer[f], Body(f)[j])
  BY DEF Solved, AllVisited
<1>2. DOMAIN Body(f) = 1..Len(Body(f))
  BY <1>1, BodyLength DEF Body
<1>3. writer[f].edges \subseteq Edges
  BY <1>1 DEF Edges
<1> QED
  BY <1>1, <1>2, <1>3 DEF ToSet

LEMMA OperandCovers ==
  ASSUME Running, NEW f \in FunctionNames, NEW v, IsOperand(prog, v),
         NEW a \in Eval(f, v), NEW n, Tracks(writer[f], v, n)
  PROVE  Covers(<<"node", n>>, a)
<1>1. f \in DOMAIN writer /\ Solved /\ RegSafe(reg)
  BY FunctionWriter DEF Running
<1> QED
  BY <1>1, EvalCovers

LEMMA NotData ==
  ASSUME NEW f, NEW v, NEW a \in Eval(f, v), a # Null
  PROVE  v[1] # "data"
BY DEF Eval

\* A store edge between nodes that cover a pointer and a value.
LEMMA StoreFlows ==
  ASSUME Solved, NEW e \in Edges, e[1] = "Store", NEW p, p # Null, Covers(<<"node", e[2]>>, p),
         NEW a, Covers(<<"node", e[3]>>, a)
  PROVE  Covers(<<"cell", NodeOfObject(p[1])>>, a)
<1> DEFINE q == <<<<"node", e[2]>>, NodeOfObject(p[1])>>
<1>1. q \in pts /\ q[1] = <<"node", e[2]>> /\ q[2] = NodeOfObject(p[1])
  BY DEF Covers
<1> HIDE DEF q
<1>2. Flows(<<"node", e[3]>>, <<"cell", NodeOfObject(p[1])>>)
  BY <1>1 DEF Solved, Closed
<1> QED
  BY <1>2, CoversFlows

LEMMA LoadFlows ==
  ASSUME Solved, MemSafe(mem), NEW e \in Edges, e[1] = "Load", NEW p, p # Null,
         Covers(<<"node", e[3]>>, p), NEW c, c[1] = p[1]
  PROVE  Covers(<<"node", e[2]>>, ReadCell(c))
<1> DEFINE q == <<<<"node", e[3]>>, NodeOfObject(p[1])>>
<1>1. q \in pts /\ q[1] = <<"node", e[3]>> /\ q[2] = NodeOfObject(p[1])
  BY DEF Covers
<1> HIDE DEF q
<1>2. Flows(<<"cell", NodeOfObject(p[1])>>, <<"node", e[2]>>)
  BY <1>1 DEF Solved, Closed
<1>3. Covers(<<"cell", NodeOfObject(p[1])>>, ReadCell(c))
  BY ReadCovers
<1> QED
  BY <1>2, <1>3, CoversFlows

LEMMA StoreCovers ==
  ASSUME Running, NEW f \in FunctionNames, NEW to, NEW val, IsOperand(prog, to), IsOperand(prog, val),
         Linked(writer[f], "Store", to, val), NEW p \in Eval(f, to), p # Null, NEW a \in Eval(f, val)
  PROVE  Covers(<<"cell", NodeOfObject(p[1])>>, a)
<1>1. CASE a = Null
  BY <1>1 DEF Covers
<1>2. CASE a # Null
  <2>1. to[1] # "data" /\ val[1] # "data"
    BY <1>2, NotData
  <2>2. PICK e \in writer[f].edges : e[1] = "Store" /\ Tracks(writer[f], to, e[2]) /\ Tracks(writer[f], val, e[3])
    BY <2>1 DEF Linked
  <2>3. Covers(<<"node", e[2]>>, p) /\ Covers(<<"node", e[3]>>, a)
    BY <2>2, OperandCovers
  <2>4. e \in Edges /\ Solved
    BY FunctionWriter DEF Running
  <2> QED
    BY <2>2, <2>3, <2>4, StoreFlows
<1> QED
  BY <1>1, <1>2

LEMMA LoadCovers ==
  ASSUME Running, NEW f \in FunctionNames, NEW into, NEW from, into[1] = "reg", IsOperand(prog, from),
         Linked(writer[f], "Load", into, from), NEW p \in Eval(f, from), p # Null
  PROVE  Covers(<<"node", Local(writer[f], into)>>, ReadCell(p))
<1>1. into[1] # "data" /\ from[1] # "data"
  BY NotData
<1>2. PICK e \in writer[f].edges : e[1] = "Load" /\ Tracks(writer[f], into, e[2]) /\ Tracks(writer[f], from, e[3])
  BY <1>1 DEF Linked
<1>3. Covers(<<"node", e[3]>>, p) /\ e[2] = Local(writer[f], into)
  BY <1>2, OperandCovers DEF Tracks
<1>4. e \in Edges /\ Solved /\ MemSafe(mem)
  BY FunctionWriter DEF Running
<1> QED
  BY <1>2, <1>3, <1>4, LoadFlows

LEMMA AssignCovers ==
  ASSUME Running, NEW f \in FunctionNames, NEW into, NEW from, into[1] = "reg", IsOperand(prog, from),
         Linked(writer[f], "Assign", into, from), NEW a \in Eval(f, from)
  PROVE  Covers(<<"node", Local(writer[f], into)>>, a)
<1>1. CASE a = Null
  BY <1>1 DEF Covers
<1>2. CASE a # Null
  <2>1. into[1] # "data" /\ from[1] # "data"
    BY <1>2, NotData
  <2>2. PICK e \in writer[f].edges : e[1] = "Assign" /\ Tracks(writer[f], into, e[2]) /\ Tracks(writer[f], from, e[3])
    BY <2>1 DEF Linked
  <2>3. Covers(<<"node", e[3]>>, a) /\ e[2] = Local(writer[f], into)
    BY <2>2, OperandCovers DEF Tracks
  <2>4. e \in Edges /\ Solved
    BY FunctionWriter DEF Running
  <2>5. Flows(<<"node", e[3]>>, <<"node", e[2]>>)
    BY <2>2, <2>4 DEF Solved, Closed
  <2> QED
    BY <2>3, <2>5, CoversFlows
<1> QED
  BY <1>1, <1>2

\* The object of an allocation.
LEMMA AllocaCovers ==
  ASSUME Running, NEW f \in FunctionNames, NEW v, v[1] # "sym", v \in DOMAIN writer[f].locals,
         writer[f].locals[v] < writer[f].allocas
  PROVE  <<<<"node", Local(writer[f], v)>>, Local(writer[f], v)>> \in pts
<1>1. writer[f].fn = f /\ writer[f].locals[v] \in Nat
  BY FunctionWriter DEF Running, FunctionOK, Numbered
<1>2. <<<<"node", <<f, writer[f].locals[v]>>>>, <<f, writer[f].locals[v]>>>> \in pts
  BY <1>1 DEF Running, Solved, Seeded, SeededIn
<1> QED
  BY <1>1, <1>2 DEF Local

LEMMA VasaveCovers ==
  ASSUME Running, NEW f \in FunctionNames, prog.fun[f].vararg
  PROVE  LET w == writer[f]
         IN  /\ <<<<"node", Local(w, <<"valist">>)>>, Local(w, <<"valist">>)>> \in pts
             /\ <<<<"node", Local(w, <<"vasave">>)>>, Local(w, <<"vasave">>)>> \in pts
             /\ <<<<"cell", Local(w, <<"valist">>)>>, Local(w, <<"vasave">>)>> \in pts
             /\ Flows(<<"node", Local(w, <<"vadata">>)>>, <<"cell", Local(w, <<"vasave">>)>>)
<1> DEFINE w == writer[f]
           F == prog.fun[f]
<1>1. Allocates(w, F) /\ Entered(w, f, F) /\ w.edges \subseteq Edges
  BY FunctionWriter DEF Running, FunctionOK
<1>2. {<<"valist">>, <<"vasave">>} \subseteq Allocated(F)
  BY DEF Allocated
<1>3. \A v \in {<<"valist">>, <<"vasave">>} : v \in DOMAIN w.locals /\ w.locals[v] < w.allocas
  BY <1>1, <1>2 DEF Allocates
<1>4. <<"valist">>[1] # "sym" /\ <<"vasave">>[1] # "sym"
  OBVIOUS
<1>5. /\ <<<<"node", Local(w, <<"valist">>)>>, Local(w, <<"valist">>)>> \in pts
      /\ <<<<"node", Local(w, <<"vasave">>)>>, Local(w, <<"vasave">>)>> \in pts
  BY <1>3, <1>4, AllocaCovers
<1> DEFINE s == <<"Store", Local(w, <<"vasave">>), Local(w, <<"vadata">>)>>
           t == <<"Store", Local(w, <<"valist">>), Local(w, <<"vasave">>)>>
           ql == <<<<"node", Local(w, <<"valist">>)>>, Local(w, <<"valist">>)>>
           qs == <<<<"node", Local(w, <<"vasave">>)>>, Local(w, <<"vasave">>)>>
<1>6. s \in Edges /\ t \in Edges
  BY <1>1 DEF Entered
<1>7. /\ s[1] = "Store" /\ s[2] = Local(w, <<"vasave">>) /\ s[3] = Local(w, <<"vadata">>)
      /\ t[1] = "Store" /\ t[2] = Local(w, <<"valist">>) /\ t[3] = Local(w, <<"vasave">>)
      /\ ql[1] = <<"node", Local(w, <<"valist">>)>> /\ ql[2] = Local(w, <<"valist">>) /\ ql \in pts
      /\ qs[1] = <<"node", Local(w, <<"vasave">>)>> /\ qs[2] = Local(w, <<"vasave">>) /\ qs \in pts
  BY <1>5
<1> HIDE DEF s, t, ql, qs
<1>8. /\ Flows(<<"node", Local(w, <<"vadata">>)>>, <<"cell", Local(w, <<"vasave">>)>>)
      /\ Flows(<<"node", Local(w, <<"vasave">>)>>, <<"cell", Local(w, <<"valist">>)>>)
  BY <1>6, <1>7 DEF Running, Solved, Closed
<1>9. <<<<"cell", Local(w, <<"valist">>)>>, Local(w, <<"vasave">>)>> \in pts
  BY <1>7, <1>8 DEF Flows
<1> QED
  BY <1>5, <1>8, <1>9

----------------------------------------------------------------------------
(* The steps of the run.                                                   *)

Safe(r, m, P, L) == RegSafe(r) /\ MemSafe(m) /\ PendingSafe(P) /\ L \subseteq FunctionNames
Executing == Solved /\ Safe(reg, mem, pending, live)

LEMMA ExecutingFacts ==
  ASSUME Executing, NEW f \in live
  PROVE  /\ Running /\ f \in FunctionNames /\ FunctionOK(writer[f], f, prog.fun[f])
         /\ IsFunction(prog, prog.fun[f])
         /\ \A I \in ToSet(Body(f)) : Done(writer[f], I)
BY FunctionWriter DEF Executing, Safe, Running

\* A step that sets one register, and perhaps one cell.
LEMMA RegStep ==
  ASSUME Executing, NEW f, NEW v, NEW a, SetReg(f, v, a), Covers(<<"node", Local(writer[f], v)>>, a),
         UNCHANGED <<mem, live, pending>>
  PROVE  Safe(reg', mem', pending', live')
<1>1. RegSafe(reg')
  BY PutReg DEF SetReg, Executing, Safe
<1> QED
  BY <1>1 DEF Executing, Safe

LEMMA MemStep ==
  ASSUME Executing, NEW p, NEW a, mem' = Put(mem, p, a), Covers(<<"cell", NodeOfObject(p[1])>>, a),
         UNCHANGED <<reg, live, pending>>
  PROVE  Safe(reg', mem', pending', live')
<1>1. MemSafe(mem')
  BY PutMem DEF Executing, Safe
<1> QED
  BY <1>1 DEF Executing, Safe

LEMMA AllocaStep ==
  ASSUME Executing, RunAlloca
  PROVE  Safe(reg', mem', pending', live')
<1>1. PICK f \in live : \E I \in Instructions(f, "alloca") :
         /\ SetReg(f, I.into, <<Object(f, I.into), 0>>)
         /\ UNCHANGED <<mem, live, pending>>
  BY DEF RunAlloca
<1>2. PICK I \in Instructions(f, "alloca") :
         /\ SetReg(f, I.into, <<Object(f, I.into), 0>>)
         /\ UNCHANGED <<mem, live, pending>>
  BY <1>1
<1>3. I \in ToSet(Body(f)) /\ I.op = "alloca"
  BY DEF Instructions
<1>4. Running /\ f \in FunctionNames /\ IsFunction(prog, prog.fun[f]) /\ Done(writer[f], I)
  BY <1>3, ExecutingFacts
<1>5. I.into[1] = "reg"
  BY <1>3, <1>4, OperandsOfInstruction DEF Body
<1>6. I.into \in DOMAIN writer[f].locals /\ writer[f].locals[I.into] < writer[f].allocas
  BY <1>3, <1>4 DEF Done
<1>7. <<<<"node", Local(writer[f], I.into)>>, Local(writer[f], I.into)>> \in pts
  BY <1>4, <1>5, <1>6, AllocaCovers
<1>8. NodeOfObject(<<Object(f, I.into), 0>>[1]) = Local(writer[f], I.into)
  BY <1>5 DEF NodeOfObject, Object
<1>9. Covers(<<"node", Local(writer[f], I.into)>>, <<Object(f, I.into), 0>>)
  BY <1>7, <1>8 DEF Covers
<1> QED
  BY <1>2, <1>9, RegStep

LEMMA StoreStep ==
  ASSUME Executing, RunStore
  PROVE  Safe(reg', mem', pending', live')
<1>1. PICK f \in live : \E I \in Instructions(f, "store") : \E p \in Eval(f, I.to), v \in Eval(f, I.val) :
         p # Null /\ mem' = Put(mem, p, v) /\ UNCHANGED <<reg, live, pending>>
  BY DEF RunStore
<1>2. PICK I \in Instructions(f, "store") : \E p \in Eval(f, I.to), v \in Eval(f, I.val) :
         p # Null /\ mem' = Put(mem, p, v) /\ UNCHANGED <<reg, live, pending>>
  BY <1>1
<1>3. PICK p \in Eval(f, I.to), v \in Eval(f, I.val) :
         p # Null /\ mem' = Put(mem, p, v) /\ UNCHANGED <<reg, live, pending>>
  BY <1>2
<1>4. I \in ToSet(Body(f)) /\ I.op = "store"
  BY DEF Instructions
<1>5. Running /\ f \in FunctionNames /\ IsFunction(prog, prog.fun[f]) /\ Linked(writer[f], "Store", I.to, I.val)
  BY <1>4, ExecutingFacts DEF Done
<1>6. IsOperand(prog, I.to) /\ IsOperand(prog, I.val)
  BY <1>4, <1>5, OperandsOfInstruction DEF Body
<1>7. Covers(<<"cell", NodeOfObject(p[1])>>, v)
  BY <1>3, <1>5, <1>6, StoreCovers
<1> QED
  BY <1>3, <1>7, MemStep

LEMMA LoadStep ==
  ASSUME Executing, RunLoad
  PROVE  Safe(reg', mem', pending', live')
<1>1. PICK f \in live : \E I \in Instructions(f, "load") : \E p \in Eval(f, I.from) :
         p # Null /\ SetReg(f, I.into, ReadCell(p)) /\ UNCHANGED <<mem, live, pending>>
  BY DEF RunLoad
<1>2. PICK I \in Instructions(f, "load") : \E p \in Eval(f, I.from) :
         p # Null /\ SetReg(f, I.into, ReadCell(p)) /\ UNCHANGED <<mem, live, pending>>
  BY <1>1
<1>3. PICK p \in Eval(f, I.from) :
         p # Null /\ SetReg(f, I.into, ReadCell(p)) /\ UNCHANGED <<mem, live, pending>>
  BY <1>2
<1>4. I \in ToSet(Body(f)) /\ I.op = "load"
  BY DEF Instructions
<1>5. Running /\ f \in FunctionNames /\ IsFunction(prog, prog.fun[f]) /\ Linked(writer[f], "Load", I.into, I.from)
  BY <1>4, ExecutingFacts DEF Done
<1>6. IsOperand(prog, I.from) /\ I.into[1] = "reg"
  BY <1>4, <1>5, OperandsOfInstruction DEF Body
<1>7. Covers(<<"node", Local(writer[f], I.into)>>, ReadCell(p))
  BY <1>3, <1>5, <1>6, LoadCovers
<1> QED
  BY <1>3, <1>7, RegStep

LEMMA AtomicStep ==
  ASSUME Executing, RunAtomic
  PROVE  Safe(reg', mem', pending', live')
<1>1. PICK f \in live : \E I \in Instructions(f, "atomic") : \E p \in Eval(f, I.to), v \in Eval(f, I.val) :
         /\ p # Null /\ SetReg(f, I.into, ReadCell(p)) /\ mem' = Put(mem, p, v)
         /\ UNCHANGED <<live, pending>>
  BY DEF RunAtomic
<1>2. PICK I \in Instructions(f, "atomic") : \E p \in Eval(f, I.to), v \in Eval(f, I.val) :
         /\ p # Null /\ SetReg(f, I.into, ReadCell(p)) /\ mem' = Put(mem, p, v)
         /\ UNCHANGED <<live, pending>>
  BY <1>1
<1>3. PICK p \in Eval(f, I.to), v \in Eval(f, I.val) :
         /\ p # Null /\ SetReg(f, I.into, ReadCell(p)) /\ mem' = Put(mem, p, v)
         /\ UNCHANGED <<live, pending>>
  BY <1>2
<1>4. I \in ToSet(Body(f)) /\ I.op = "atomic"
  BY DEF Instructions
<1>5. /\ Running /\ f \in FunctionNames /\ IsFunction(prog, prog.fun[f])
      /\ Linked(writer[f], "Store", I.to, I.val) /\ Linked(writer[f], "Load", I.into, I.to)
  BY <1>4, ExecutingFacts DEF Done
<1>6. IsOperand(prog, I.to) /\ IsOperand(prog, I.val) /\ I.into[1] = "reg"
  BY <1>4, <1>5, OperandsOfInstruction DEF Body
<1>7. Covers(<<"cell", NodeOfObject(p[1])>>, v)
  BY <1>3, <1>5, <1>6, StoreCovers
<1>8. Covers(<<"node", Local(writer[f], I.into)>>, ReadCell(p))
  BY <1>3, <1>5, <1>6, LoadCovers
<1>9. RegSafe(reg') /\ MemSafe(mem')
  BY <1>3, <1>7, <1>8, PutReg, PutMem DEF SetReg, Executing, Safe
<1> QED
  BY <1>3, <1>9 DEF Executing, Safe

LEMMA AssigningStep ==
  ASSUME Executing, RunAssigning
  PROVE  Safe(reg', mem', pending', live')
<1> DEFINE result(a, o) == IF a = Null THEN Null ELSE <<a[1], o>>
<1>1. PICK f \in live : \E I \in Instructions(f, "assign") : \E k \in 1..Len(I.ops), o \in Offsets :
         \E a \in Eval(f, I.ops[k]) : SetReg(f, I.into, result(a, o)) /\ UNCHANGED <<mem, live, pending>>
  BY DEF RunAssigning
<1>2. PICK I \in Instructions(f, "assign") : \E k \in 1..Len(I.ops), o \in Offsets :
         \E a \in Eval(f, I.ops[k]) : SetReg(f, I.into, result(a, o)) /\ UNCHANGED <<mem, live, pending>>
  BY <1>1
<1>3. PICK k \in 1..Len(I.ops), o \in Offsets :
         \E a \in Eval(f, I.ops[k]) : SetReg(f, I.into, result(a, o)) /\ UNCHANGED <<mem, live, pending>>
  BY <1>2
<1>4. PICK a \in Eval(f, I.ops[k]) : SetReg(f, I.into, result(a, o)) /\ UNCHANGED <<mem, live, pending>>
  BY <1>3
<1>5. I \in ToSet(Body(f)) /\ I.op = "assign"
  BY DEF Instructions
<1>6. Running /\ f \in FunctionNames /\ IsFunction(prog, prog.fun[f]) /\ Linked(writer[f], "Assign", I.into, I.ops[k])
  BY <1>5, ExecutingFacts DEF Done
<1>7. IsOperand(prog, I.ops[k]) /\ I.into[1] = "reg"
  BY <1>5, <1>6, OperandsOfInstruction DEF Body
<1>8. Covers(<<"node", Local(writer[f], I.into)>>, a)
  BY <1>6, <1>7, AssignCovers
<1>9. Covers(<<"node", Local(writer[f], I.into)>>, result(a, o))
  <2>1. a # Null => <<a[1], o>>[1] = a[1]
    OBVIOUS
  <2> QED
    BY <1>8, <2>1 DEF Covers
<1> HIDE DEF result
<1> QED
  BY <1>4, <1>9, RegStep

LEMMA MallocStep ==
  ASSUME Executing, RunMalloc
  PROVE  Safe(reg', mem', pending', live')
<1>1. PICK f \in live : \E I \in Instructions(f, "call") :
         /\ I.callee = <<"sym", "malloc">> /\ SetReg(f, I.into, <<Object(f, I.into), 0>>)
         /\ UNCHANGED <<mem, live, pending>>
  BY DEF RunMalloc
<1>2. PICK I \in Instructions(f, "call") :
         /\ I.callee = <<"sym", "malloc">> /\ SetReg(f, I.into, <<Object(f, I.into), 0>>)
         /\ UNCHANGED <<mem, live, pending>>
  BY <1>1
<1>3. I \in ToSet(Body(f)) /\ I.op = "call"
  BY DEF Instructions
<1>4. /\ Running /\ f \in FunctionNames /\ IsFunction(prog, prog.fun[f]) /\ Called(writer[f], I)
      /\ writer[f].edges \subseteq Edges /\ Seeded
  BY <1>3, ExecutingFacts, FunctionWriter DEF Done, Executing, Solved
<1>5. I.into[1] = "reg"
  BY <1>3, <1>4, OperandsOfInstruction DEF Body
<1>6. PICK e \in writer[f].edges : e[1] = "Call" /\ e[2] = Local(writer[f], I.into) /\ Tracks(writer[f], I.callee, e[3])
  BY <1>2, <1>4 DEF Called
<1>7. e[3] = SymbolNode("malloc")
  BY <1>2, <1>6 DEF Tracks
<1>8. <<<<"node", Local(writer[f], I.into)>>, Local(writer[f], I.into)>> \in pts
  BY <1>4, <1>6, <1>7 DEF Seeded, SeededIn
<1>9. NodeOfObject(<<Object(f, I.into), 0>>[1]) = Local(writer[f], I.into)
  BY <1>5 DEF NodeOfObject, Object
<1>10. Covers(<<"node", Local(writer[f], I.into)>>, <<Object(f, I.into), 0>>)
  BY <1>8, <1>9 DEF Covers
<1> QED
  BY <1>2, <1>10, RegStep

LEMMA DlsymStep ==
  ASSUME Executing, RunDlsym
  PROVE  Safe(reg', mem', pending', live')
<1>1. PICK f \in live : \E I \in Instructions(f, "call") : \E s \in prog.dlsyms :
         /\ I.callee = <<"sym", "dlsym">> /\ SetReg(f, I.into, <<SymbolObject(s), 0>>)
         /\ UNCHANGED <<mem, live, pending>>
  BY DEF RunDlsym
<1>2. PICK I \in Instructions(f, "call") : \E s \in prog.dlsyms :
         /\ I.callee = <<"sym", "dlsym">> /\ SetReg(f, I.into, <<SymbolObject(s), 0>>)
         /\ UNCHANGED <<mem, live, pending>>
  BY <1>1
<1>3. PICK s \in prog.dlsyms :
         /\ I.callee = <<"sym", "dlsym">> /\ SetReg(f, I.into, <<SymbolObject(s), 0>>)
         /\ UNCHANGED <<mem, live, pending>>
  BY <1>2
<1>4. I \in ToSet(Body(f)) /\ I.op = "call"
  BY DEF Instructions
<1>5. /\ Running /\ f \in FunctionNames /\ Called(writer[f], I)
      /\ writer[f].edges \subseteq Edges /\ Seeded /\ Closed /\ prog \in Programs
  BY <1>4, ExecutingFacts, FunctionWriter DEF Done, Executing, Solved
<1> DEFINE n == Local(writer[f], I.into)
           e == <<"DlsymPagePointer", n>>
<1>6. e \in Edges /\ e[1] = "DlsymPagePointer" /\ e[2] = n
  BY <1>3, <1>5 DEF Called
<1> HIDE DEF e
<1>7. Flows(<<"node", SymbolNode(s)>>, <<"node", n>>)
  BY <1>5, <1>6 DEF Closed
<1>8. s \in DOMAIN prog.init \cup FunctionNames
  BY <1>5, ProgramFacts
<1>9. <<<<"node", SymbolNode(s)>>, SymbolNode(s)>> \in pts
  BY <1>5, <1>8 DEF Seeded, SeededIn
<1>10. NodeOfObject(<<SymbolObject(s), 0>>[1]) = SymbolNode(s)
  BY DEF NodeOfObject, SymbolObject, Object
<1>11. Covers(<<"node", SymbolNode(s)>>, <<SymbolObject(s), 0>>)
  BY <1>9, <1>10 DEF Covers
<1>12. Covers(<<"node", n>>, <<SymbolObject(s), 0>>)
  BY <1>7, <1>11, CoversFlows
<1> QED
  BY <1>3, <1>12, RegStep

LEMMA CopyStep ==
  ASSUME Executing, RunCopy
  PROVE  Safe(reg', mem', pending', live')
<1> DEFINE image(d, s) == [a \in {<<d[1], o>> : o \in Offsets} |-> ReadCell(<<s[1], a[2]>>)]
<1>1. PICK f \in live : \E I \in Instructions(f, "copy") : \E d \in Eval(f, I.to), s \in Eval(f, I.from) :
         /\ Null \notin {d, s} /\ mem' = Override(mem, image(d, s))
         /\ UNCHANGED <<reg, live, pending>>
  BY DEF RunCopy
<1>2. PICK I \in Instructions(f, "copy") : \E d \in Eval(f, I.to), s \in Eval(f, I.from) :
         /\ Null \notin {d, s} /\ mem' = Override(mem, image(d, s))
         /\ UNCHANGED <<reg, live, pending>>
  BY <1>1
<1>3. PICK d \in Eval(f, I.to), s \in Eval(f, I.from) :
         /\ Null \notin {d, s} /\ mem' = Override(mem, image(d, s))
         /\ UNCHANGED <<reg, live, pending>>
  BY <1>2
<1>4. I \in ToSet(Body(f)) /\ I.op = "copy"
  BY DEF Instructions
<1>5. /\ Running /\ f \in FunctionNames /\ IsFunction(prog, prog.fun[f]) /\ Copied(writer[f], I.to, I.from)
      /\ writer[f].edges \subseteq Edges /\ Solved /\ MemSafe(mem)
  BY <1>4, ExecutingFacts, FunctionWriter DEF Done, Executing, Safe
<1>6. IsOperand(prog, I.to) /\ IsOperand(prog, I.from)
  BY <1>4, <1>5, OperandsOfInstruction DEF Body
<1>7. PICK l \in writer[f].edges, t \in writer[f].edges :
         /\ l[1] = "Load" /\ Tracks(writer[f], I.from, l[3])
         /\ t[1] = "Store" /\ t[3] = l[2] /\ Tracks(writer[f], I.to, t[2])
  BY <1>5 DEF Copied
<1>8. Covers(<<"node", l[3]>>, s) /\ Covers(<<"node", t[2]>>, d)
  BY <1>5, <1>6, <1>7, OperandCovers
<1>9. ASSUME NEW z, z[1] = s[1]
      PROVE  Covers(<<"cell", NodeOfObject(d[1])>>, ReadCell(z))
  <2>1. Covers(<<"node", l[2]>>, ReadCell(z))
    BY <1>3, <1>5, <1>7, <1>8, <1>9, LoadFlows
  <2> QED
    BY <1>3, <1>5, <1>7, <1>8, <2>1, StoreFlows
<1>10. MemSafe(image(d, s))
  <2>1. ASSUME NEW c \in DOMAIN image(d, s)
        PROVE  Covers(<<"cell", NodeOfObject(c[1])>>, image(d, s)[c])
    <3>1. PICK o \in Offsets : c = <<d[1], o>>
      OBVIOUS
    <3> DEFINE z == <<s[1], c[2]>>
    <3>2. image(d, s)[c] = ReadCell(z) /\ z[1] = s[1] /\ c[1] = d[1]
      BY <3>1
    <3> HIDE DEF image, z
    <3> QED
      BY <1>9, <3>2
  <2> HIDE DEF image
  <2> QED
    BY <2>1 DEF MemSafe
<1> HIDE DEF image
<1>11. MemSafe(mem')
  BY <1>3, <1>5, <1>10, OverrideSafe
<1> QED
  BY <1>3, <1>11 DEF Executing, Safe

LEMMA VastartStep ==
  ASSUME Executing, RunVastart
  PROVE  Safe(reg', mem', pending', live')
<1>1. PICK f \in live : \E I \in Instructions(f, "vastart") : \E d \in Eval(f, I.to) :
         /\ d # Null /\ mem' = Put(mem, d, <<Object(f, <<"vasave">>), 0>>)
         /\ UNCHANGED <<reg, live, pending>>
  BY DEF RunVastart
<1>2. PICK I \in Instructions(f, "vastart") : \E d \in Eval(f, I.to) :
         /\ d # Null /\ mem' = Put(mem, d, <<Object(f, <<"vasave">>), 0>>)
         /\ UNCHANGED <<reg, live, pending>>
  BY <1>1
<1>3. PICK d \in Eval(f, I.to) :
         /\ d # Null /\ mem' = Put(mem, d, <<Object(f, <<"vasave">>), 0>>)
         /\ UNCHANGED <<reg, live, pending>>
  BY <1>2
<1>4. I \in ToSet(Body(f)) /\ I.op = "vastart"
  BY DEF Instructions
<1>5. /\ Running /\ f \in FunctionNames /\ IsFunction(prog, prog.fun[f]) /\ Listed(writer[f], I.to)
      /\ writer[f].edges \subseteq Edges /\ Solved /\ Closed
  BY <1>4, ExecutingFacts, FunctionWriter DEF Done, Executing, Solved
<1>6. IsOperand(prog, I.to) /\ prog.fun[f].vararg
  BY <1>4, <1>5, OperandsOfInstruction DEF Body
<1> DEFINE list == Local(writer[f], <<"valist">>)
           save == Local(writer[f], <<"vasave">>)
<1>7. PICK l \in writer[f].edges, t \in writer[f].edges :
         /\ l[1] = "Load" /\ l[3] = list
         /\ t[1] = "Store" /\ t[3] = l[2] /\ Tracks(writer[f], I.to, t[2])
  BY <1>5 DEF Listed
<1>8. <<<<"node", list>>, list>> \in pts /\ <<<<"cell", list>>, save>> \in pts
  BY <1>5, <1>6, VasaveCovers
<1>9. NodeOfObject(<<Object(f, <<"vasave">>), 0>>[1]) = save
  BY DEF NodeOfObject, Object
<1> DEFINE q == <<<<"node", list>>, list>>
           r == <<<<"cell", list>>, save>>
<1>10. /\ q \in pts /\ q[1] = <<"node", list>> /\ q[2] = list
       /\ r \in pts /\ r[1] = <<"cell", list>> /\ r[2] = save
  BY <1>8
<1> HIDE DEF q, r, list, save
<1>11. Flows(<<"cell", list>>, <<"node", l[2]>>)
  BY <1>5, <1>7, <1>10 DEF Closed
<1>12. <<<<"node", t[3]>>, save>> \in pts
  BY <1>7, <1>10, <1>11 DEF Flows
<1>13. Covers(<<"node", t[3]>>, <<Object(f, <<"vasave">>), 0>>)
  BY <1>9, <1>12 DEF Covers
<1>14. Covers(<<"node", t[2]>>, d)
  BY <1>5, <1>6, <1>7, OperandCovers
<1>15. Covers(<<"cell", NodeOfObject(d[1])>>, <<Object(f, <<"vasave">>), 0>>)
  BY <1>3, <1>5, <1>7, <1>13, <1>14, StoreFlows
<1> QED
  BY <1>3, <1>15, MemStep

LEMMA ReturnStep ==
  ASSUME Executing, RunReturn
  PROVE  Safe(reg', mem', pending', live')
<1>1. PICK f \in live : \E I \in Instructions(f, "ret") : \E p \in pending, v \in Eval(f, I.val) :
         /\ p[1] = f /\ SetReg(p[2], p[3], v) /\ pending' = pending \ {p} /\ UNCHANGED <<mem, live>>
  BY DEF RunReturn
<1>2. PICK I \in Instructions(f, "ret") : \E p \in pending, v \in Eval(f, I.val) :
         /\ p[1] = f /\ SetReg(p[2], p[3], v) /\ pending' = pending \ {p} /\ UNCHANGED <<mem, live>>
  BY <1>1
<1>3. PICK p \in pending, v \in Eval(f, I.val) :
         /\ p[1] = f /\ SetReg(p[2], p[3], v) /\ pending' = pending \ {p} /\ UNCHANGED <<mem, live>>
  BY <1>2
<1>4. I \in ToSet(Body(f)) /\ I.op = "ret"
  BY DEF Instructions
<1>5. /\ Running /\ f \in FunctionNames /\ IsFunction(prog, prog.fun[f]) /\ Returned(writer[f], I.val)
      /\ writer[f].edges \subseteq Edges /\ Closed /\ writer[f].fn = f /\ RegSafe(reg)
      /\ Flows(<<"ret", f>>, <<"node", Local(writer[p[2]], p[3])>>)
  BY <1>3, <1>4, ExecutingFacts, FunctionWriter DEF Done, Executing, Solved, FunctionOK, Safe, PendingSafe
<1>6. IsOperand(prog, I.val)
  BY <1>4, <1>5, OperandsOfInstruction DEF Body
<1>7. Covers(<<"node", Local(writer[p[2]], p[3])>>, v)
  <2>1. CASE v = Null
    BY <2>1 DEF Covers
  <2>2. CASE v # Null
    <3>1. I.val[1] # "data"
      BY <2>2, NotData
    <3>2. PICK e \in writer[f].edges : e[1] = "Return" /\ e[2] = SymbolNode(f) /\ Tracks(writer[f], I.val, e[3])
      BY <1>5, <3>1 DEF Returned
    <3>3. Covers(<<"node", e[3]>>, v)
      BY <1>5, <1>6, <3>2, OperandCovers
    <3>4. e[2][1] = f
      BY <3>2 DEF SymbolNode
    <3>5. Flows(<<"node", e[3]>>, <<"ret", f>>)
      BY <1>5, <3>2, <3>4 DEF Closed
    <3> QED
      BY <1>5, <3>3, <3>5, CoversFlows
  <2> QED
    BY <2>1, <2>2
<1>8. RegSafe(reg')
  BY <1>3, <1>5, <1>7, PutReg DEF SetReg
<1> QED
  BY <1>3, <1>8 DEF Executing, Safe, PendingSafe

----------------------------------------------------------------------------
(* Calls.                                                                  *)

\* Where an argument is supplied, and where the callee finds it: its
\* parameter, or behind all parameters.
LEMMA CallIndex ==
  ASSUME NEW I, WellTyped(I), Len(I.args) \in Nat, NEW F, F.params \in Nat, F.vararg \in BOOLEAN,
         Len(I.args) = F.params \/ (F.vararg /\ Len(I.args) > F.params),
         \/ CallNargs(I) = Arity(F)
         \/ I.type.n = F.params /\ I.type.vararg = F.vararg
         \/ ~F.vararg /\ I.type.n = Len(I.args) /\ I.type.vararg,
         NEW k \in 1..Len(I.args)
  PROVE  /\ SupplyIndex(I, k - 1) \in 0..(Min2(CallNargs(I), Arity(F)) - 1)
         /\ SupplyIndex(I, k - 1) = IF k <= F.params THEN k - 1 ELSE F.params
<1> DEFINE m == I.type.n
           l == Len(I.args)
           n == F.params
<1>1. /\ m \in Nat /\ l \in Nat /\ n \in Nat /\ l >= 1
      /\ I.type.vararg \in BOOLEAN /\ F.vararg \in BOOLEAN
      /\ m = l \/ (I.type.vararg /\ m < l)
      /\ l = n \/ (F.vararg /\ l > n)
  BY DEF WellTyped
<1>2. IsVarArg(I) = I.type.vararg
  BY <1>1 DEF IsVarArg
<1>3. CallNargs(I) = IF I.type.vararg THEN m + 1 ELSE m
  BY <1>2 DEF CallNargs
<1>4. SupplyIndex(I, k - 1) = IF I.type.vararg THEN (IF k - 1 < m THEN k - 1 ELSE m) ELSE k - 1
  BY <1>2 DEF SupplyIndex, Min2
<1>5. Arity(F) = IF F.vararg THEN n + 1 ELSE n
  BY DEF Arity
<1>6. Min2(CallNargs(I), Arity(F)) = IF CallNargs(I) < Arity(F) THEN CallNargs(I) ELSE Arity(F)
  BY DEF Min2
<1>7. \/ CallNargs(I) = Arity(F)
      \/ m = n /\ I.type.vararg = F.vararg
      \/ ~F.vararg /\ m = l /\ I.type.vararg
  OBVIOUS
<1>8. k \in 1..l
  OBVIOUS
<1> DEFINE C == CallNargs(I)
           A == Arity(F)
           S == SupplyIndex(I, k - 1)
           M == Min2(CallNargs(I), Arity(F))
           tv == I.type.vararg
           fv == F.vararg
<1> SUFFICES S \in 0..(M - 1) /\ S = IF k <= n THEN k - 1 ELSE n
  OBVIOUS
<1> HIDE DEF C, A, S, M, tv, fv, m, l, n
<1>9. CASE tv /\ fv
  BY <1>1, <1>3, <1>4, <1>5, <1>6, <1>7, <1>8, <1>9 DEF C, A, S, M, tv, fv, m, l, n
<1>10. CASE tv /\ ~fv
  <2>1. /\ m \in Nat /\ n \in Nat /\ l = n /\ k \in 1..n
        /\ C = m + 1 /\ A = n /\ S = (IF k - 1 < m THEN k - 1 ELSE m) /\ M = (IF C < A THEN C ELSE A)
    BY <1>1, <1>3, <1>4, <1>5, <1>6, <1>8, <1>10 DEF C, A, S, M, tv, fv, m, l, n
  <2>2. C = A \/ m = l
    BY <1>7, <1>10 DEF C, A, tv, fv, m, l
  <2>3. k <= n /\ S = k - 1 /\ M = n
    BY <2>1, <2>2
  <2> QED
    BY <2>1, <2>3
<1>11. CASE ~tv
  BY <1>1, <1>3, <1>4, <1>5, <1>6, <1>7, <1>8, <1>11 DEF C, A, S, M, tv, fv, m, l, n
<1> QED
  BY <1>9, <1>10, <1>11

\* The function a call reaches is a target of its Call edge.
LEMMA CalleeIsTarget ==
  ASSUME Executing, NEW f \in live, NEW v, NEW g \in FunctionNames, NEW c \in Eval(f, v),
         c = <<SymbolObject(g), 0>>, v = <<"sym", v[2]>> \/ IsOperand(prog, v),
         NEW n, Tracks(writer[f], v, n)
  PROVE  /\ IsTarget(g, n)
         /\ v[1] = "sym" => n = SymbolNode(g) /\ v = <<"sym", g>>
<1>1. \A s, t : SymbolObject(s) = SymbolObject(t) => s = t
  BY DEF SymbolObject, Object
<1>2. NodeOfObject(c[1]) = SymbolNode(g) /\ c # Null
  BY DEF NodeOfObject, SymbolObject, Object, Null
<1>3. Running /\ f \in FunctionNames /\ FunctionOK(writer[f], f, prog.fun[f]) /\ prog \in Programs
  BY ExecutingFacts DEF Executing, Solved
<1>4. n = SymbolNode(g) => IsTarget(g, n)
  BY DEF IsTarget, SymbolNode
<1>5. CASE v[1] = "sym"
  <2>1. c = <<SymbolObject(v[2]), 0>> /\ n = SymbolNode(v[2])
    BY <1>5 DEF Eval, Tracks
  <2>2. v[2] = g
    BY <1>1, <2>1
  <2>3. v = <<"sym", g>>
    <3>1. CASE v = <<"sym", v[2]>>
      BY <2>2, <3>1
    <3>2. CASE IsOperand(prog, v)
      BY <1>5, <2>2, <3>2 DEF IsOperand, IsConstant, IsRegister
    <3> QED
      BY <3>1, <3>2
  <2> QED
    BY <1>4, <2>1, <2>2, <2>3
<1>6. CASE v[1] # "sym"
  <2>1. IsOperand(prog, v)
    BY <1>6
  <2>2. Covers(<<"node", n>>, c)
    BY <1>3, <2>1, OperandCovers
  <2>3. <<<<"node", n>>, SymbolNode(g)>> \in pts
    BY <1>2, <2>2 DEF Covers
  <2>4. v[1] \in {"reg", "arg", "data", "agg"}
    BY <1>3, <1>6, <2>1, OperandSymbols
  <2>5. v[1] # "data"
    BY <1>2, NotData
  <2>6. CASE v[1] \in {"reg", "arg"}
    <3>1. n = <<writer[f].fn, writer[f].locals[v]>> /\ writer[f].locals[v] \in Nat
      BY <1>3, <2>6 DEF Tracks, Local, FunctionOK, Numbered
    <3>2. n[2] # -1
      <4> DEFINE x == writer[f].locals[v]
      <4>1. n[2] = x /\ x \in Nat
        BY <3>1
      <4> HIDE DEF x
      <4> QED
        BY <4>1
    <3> QED
      BY <1>6, <2>3, <3>2 DEF IsTarget
  <2>7. CASE v[1] = "agg" /\ Len(v[2]) = 1
    <3>1. n = SymbolNode(v[2][1])
      BY <2>7 DEF Tracks
    <3>2. c = <<SymbolObject(v[2][1]), 0>>
      <4>1. PICK i \in 1..Len(v[2]) : c = <<SymbolObject(v[2][i]), 0>>
        BY <2>7 DEF Eval
      <4>2. i = 1
        BY <2>7
      <4> QED
        BY <4>1, <4>2
    <3>3. v[2][1] = g
      BY <1>1, <3>2
    <3> QED
      BY <1>4, <1>6, <3>1, <3>3
  <2>8. CASE v[1] = "agg" /\ Len(v[2]) # 1
    <3>1. n[2] \in Nat
      BY <2>8 DEF Tracks
    <3>2. n[2] # -1
      <4> DEFINE x == n[2]
      <4> HIDE DEF x
      <4>1. x \in Nat => x # -1
        OBVIOUS
      <4> QED
        BY <3>1, <4>1 DEF x
    <3> QED
      BY <1>6, <2>3, <3>2 DEF IsTarget
  <2> QED
    BY <2>4, <2>5, <2>6, <2>7, <2>8
<1> QED
  BY <1>5, <1>6

\* What a call passes and returns flows between the caller's nodes and the
\* callee's C function.
LEMMA CallFlows ==
  ASSUME Executing, Agreed, NEW f \in live, NEW I \in Instructions(f, "call"), NEW g \in FunctionNames,
         NEW c \in Eval(f, I.callee), c = <<SymbolObject(g), 0>>, CallDefined(I, prog.fun[g]),
         Len(I.args) = prog.fun[g].params \/ (prog.fun[g].vararg /\ Len(I.args) > prog.fun[g].params)
  PROVE  /\ Flows(<<"ret", g>>, <<"node", Local(writer[f], I.into)>>)
         /\ \A k \in 1..Len(I.args) : \A a \in Eval(f, I.args[k]) :
              Covers(<<"arg", g, IF k <= prog.fun[g].params THEN k - 1 ELSE prog.fun[g].params>>, a)
<1> DEFINE w == writer[f]
           F == prog.fun[g]
           site == Local(w, I.into)
<1>1. I \in ToSet(Body(f)) /\ I.op = "call"
  BY DEF Instructions
<1>2. /\ Running /\ f \in FunctionNames /\ IsFunction(prog, prog.fun[f]) /\ Called(w, I)
      /\ w.edges \subseteq Edges /\ Closed /\ AllVisited
  BY <1>1, ExecutingFacts, FunctionWriter DEF Done, Executing, Solved
<1>3. /\ Len(I.args) \in Nat /\ WellTyped(I)
      /\ I.callee = <<"sym", I.callee[2]>> \/ IsOperand(prog, I.callee)
      /\ \A k \in 1..Len(I.args) : IsOperand(prog, I.args[k])
  BY <1>1, <1>2, OperandsOfInstruction DEF Body
<1>4. F.params \in Nat /\ F.vararg \in BOOLEAN /\ g # "dlsym"
  BY <1>2 DEF AllVisited, IsFunction
<1>5. I.callee # <<"sym", "dlsym">>
  <2>1. ASSUME I.callee = <<"sym", "dlsym">>
        PROVE  FALSE
    <3>1. c = <<SymbolObject("dlsym"), 0>>
      BY <2>1 DEF Eval
    <3> QED
      BY <1>4, <3>1 DEF SymbolObject, Object
  <2> QED
    BY <2>1
<1>6. PICK e \in w.edges : e[1] = "Call" /\ e[2] = site /\ Tracks(w, I.callee, e[3]) /\ e[4] = CallNargs(I)
  BY <1>2, <1>5 DEF Called
<1>7. IsTarget(g, e[3]) /\ (I.callee[1] = "sym" => e[3] = SymbolNode(g))
  BY <1>3, <1>6, CalleeIsTarget
<1>8. e \in Edges
  BY <1>2
<1>9. Flows(<<"ret", g>>, <<"node", site>>)
  BY <1>2, <1>6, <1>7, <1>8 DEF Closed
<1>10. \/ CallNargs(I) = Arity(F)
       \/ I.type.n = F.params /\ I.type.vararg = F.vararg
       \/ ~F.vararg /\ I.type.n = Len(I.args) /\ I.type.vararg
  <2>1. CASE I.callee[1] = "sym"
    BY <1>6, <1>7, <1>8, <2>1 DEF Agreed
  <2>2. CASE I.type = [n |-> F.params, vararg |-> F.vararg]
    BY <2>2
  <2>3. CASE ~F.vararg /\ I.type = [n |-> Len(I.args), vararg |-> TRUE]
    <3>1. ~F.vararg
      BY <2>3
    <3> DEFINE l == Len(I.args)
    <3> HIDE DEF l
    <3>2. I.type = [n |-> l, vararg |-> TRUE]
      BY <2>3 DEF l
    <3>3. I.type.n = l /\ I.type.vararg = TRUE
      BY <3>2
    <3> QED
      BY <3>1, <3>3, Zenon DEF l
  <2> QED
    BY <2>1, <2>2, <2>3 DEF CallDefined
<1>11. ASSUME NEW k \in 1..Len(I.args), NEW a \in Eval(f, I.args[k])
       PROVE  Covers(<<"arg", g, IF k <= F.params THEN k - 1 ELSE F.params>>, a)
  <2> DEFINE i == SupplyIndex(I, k - 1)
  <2>1. i \in 0..(Min2(CallNargs(I), Arity(F)) - 1) /\ i = IF k <= F.params THEN k - 1 ELSE F.params
    <3> HIDE DEF F
    <3> QED
      BY <1>3, <1>4, <1>10, CallIndex DEF F
  <2> HIDE DEF i
  <2>2. CASE a = Null
    BY <2>2 DEF Covers
  <2>3. CASE a # Null
    <3>1. I.args[k][1] # "data"
      BY <2>3, NotData
    <3>2. PICK s \in w.edges : s[1] = "ArgumentSupply" /\ s[2] = site /\ Tracks(w, I.args[k], s[3]) /\ s[4] = i
      BY <1>2, <1>5, <3>1 DEF Called, i
    <3>3. Covers(<<"node", s[3]>>, a)
      BY <1>2, <1>3, <3>2, OperandCovers
    <3>4. Flows(<<"node", s[3]>>, <<"sup", site, i>>)
      BY <1>2, <3>2 DEF Closed
    <3>5. Flows(<<"sup", site, i>>, <<"arg", g, i>>)
      BY <1>2, <1>6, <1>7, <1>8, <2>1 DEF Closed
    <3>6. Covers(<<"sup", site, i>>, a)
      BY <3>3, <3>4, CoversFlows
    <3>7. Covers(<<"arg", g, i>>, a)
      BY <3>5, <3>6, CoversFlows
    <3> QED
      BY <2>1, <3>7
  <2> QED
    BY <2>2, <2>3
<1> QED
  BY <1>9, <1>11

LEMMA ParameterCovers ==
  ASSUME Solved, NEW g \in FunctionNames, NEW i \in 0..(prog.fun[g].params - 1), NEW a, Covers(<<"arg", g, i>>, a)
  PROVE  Covers(<<"node", Local(writer[g], <<"arg", i>>)>>, a)
<1> DEFINE n == Local(writer[g], <<"arg", i>>)
           e == <<"ArgumentDefinition", n, g, i>>
<1>1. e \in writer[g].edges /\ writer[g].edges \subseteq Edges
  BY FunctionWriter DEF FunctionOK, Entered
<1>2. e \in Edges /\ e[1] = "ArgumentDefinition" /\ e[2] = n /\ e[3] = g /\ e[4] = i
  BY <1>1
<1> HIDE DEF e, n
<1>3. Flows(<<"arg", g, i>>, <<"node", n>>)
  BY <1>2 DEF Solved, Closed
<1>4. Covers(<<"node", n>>, a)
  BY <1>3, CoversFlows
<1> QED
  BY <1>4 DEF n

LEMMA ExtraCovers ==
  ASSUME Running, NEW g \in FunctionNames, prog.fun[g].vararg, NEW a, Covers(<<"arg", g, prog.fun[g].params>>, a)
  PROVE  Covers(<<"cell", NodeOfObject(Object(g, <<"vasave">>))>>, a)
<1> DEFINE n == Local(writer[g], <<"vadata">>)
           i == prog.fun[g].params
           e == <<"ArgumentDefinition", n, g, i>>
<1>1. e \in writer[g].edges /\ writer[g].edges \subseteq Edges
  BY FunctionWriter DEF Running, FunctionOK, Entered
<1>2. e \in Edges /\ e[1] = "ArgumentDefinition" /\ e[2] = n /\ e[3] = g /\ e[4] = i
  BY <1>1
<1> HIDE DEF e, n
<1>3. Flows(<<"arg", g, i>>, <<"node", n>>)
  BY <1>2 DEF Running, Solved, Closed
<1>4. Covers(<<"node", n>>, a)
  BY <1>3, CoversFlows
<1>5. Flows(<<"node", n>>, <<"cell", Local(writer[g], <<"vasave">>)>>)
  BY VasaveCovers DEF n
<1>6. Covers(<<"cell", Local(writer[g], <<"vasave">>)>>, a)
  BY <1>4, <1>5, CoversFlows
<1>7. NodeOfObject(Object(g, <<"vasave">>)) = Local(writer[g], <<"vasave">>)
  BY DEF NodeOfObject, Object
<1> QED
  BY <1>6, <1>7

\* The arguments reach the parameters of the callee and, beyond those, its
\* save area.
LEMMA CallStep ==
  ASSUME Executing, Agreed, RunCall
  PROVE  Safe(reg', mem', pending', live')
<1> DEFINE params(g, a) == [x \in {<<g, <<"arg", k - 1>>>> : k \in 1..prog.fun[g].params} |-> a[x[2][2] + 1]]
           extras(I, g, a) ==
             [x \in {<<Object(g, <<"vasave">>), k - prog.fun[g].params - 1>> :
                       k \in (prog.fun[g].params + 1)..Len(I.args)} |-> a[x[2] + prog.fun[g].params + 1]]
           arguments(f, I) ==
             {a \in [1..Len(I.args) -> UNION {Eval(f, I.args[k]) : k \in 1..Len(I.args)}] :
                 \A k \in 1..Len(I.args) : a[k] \in Eval(f, I.args[k])}
           Act(f, I, c, g) ==
             /\ c = <<SymbolObject(g), 0>> /\ CallDefined(I, prog.fun[g])
             /\ Len(I.args) = prog.fun[g].params \/ (prog.fun[g].vararg /\ Len(I.args) > prog.fun[g].params)
             /\ \E a \in arguments(f, I) :
                  reg' = Override(reg, params(g, a)) /\ mem' = Override(mem, extras(I, g, a))
             /\ live' = live \cup {g}
             /\ pending' = pending \cup {<<g, f, I.into>>}
<1>1. \E f \in live : \E I \in Instructions(f, "call") : \E c \in Eval(f, I.callee), g \in FunctionNames : Act(f, I, c, g)
  BY DEF RunCall
<1> HIDE DEF Act
<1>2. PICK f \in live : \E I \in Instructions(f, "call") : \E c \in Eval(f, I.callee), g \in FunctionNames : Act(f, I, c, g)
  BY <1>1
<1>3. PICK I \in Instructions(f, "call") : \E c \in Eval(f, I.callee), g \in FunctionNames : Act(f, I, c, g)
  BY <1>2
<1>4. PICK c \in Eval(f, I.callee), g \in FunctionNames : Act(f, I, c, g)
  BY <1>3
<1> HIDE DEF params, extras
<1>5. /\ c = <<SymbolObject(g), 0>> /\ CallDefined(I, prog.fun[g])
      /\ Len(I.args) = prog.fun[g].params \/ (prog.fun[g].vararg /\ Len(I.args) > prog.fun[g].params)
      /\ live' = live \cup {g} /\ pending' = pending \cup {<<g, f, I.into>>}
  BY <1>4 DEF Act
<1>6. PICK a : /\ \A k \in 1..Len(I.args) : a[k] \in Eval(f, I.args[k])
               /\ reg' = Override(reg, params(g, a)) /\ mem' = Override(mem, extras(I, g, a))
  BY <1>4 DEF Act
<1> HIDE DEF arguments
<1>7. /\ Running /\ Solved /\ RegSafe(reg) /\ MemSafe(mem) /\ PendingSafe(pending) /\ live \subseteq FunctionNames
      /\ prog.fun[g].params \in Nat
  BY ExecutingFacts DEF Executing, Safe, Solved, AllVisited, IsFunction
<1>8. /\ Flows(<<"ret", g>>, <<"node", Local(writer[f], I.into)>>)
      /\ \A k \in 1..Len(I.args) :
           Covers(<<"arg", g, IF k <= prog.fun[g].params THEN k - 1 ELSE prog.fun[g].params>>, a[k])
  BY <1>5, <1>6, CallFlows
<1>9. PendingSafe(pending')
  <2> DEFINE p == <<g, f, I.into>>
  <2>1. p[1] = g /\ p[2] = f /\ p[3] = I.into /\ pending' = pending \cup {p}
    BY <1>5
  <2> HIDE DEF p
  <2>2. Flows(<<"ret", p[1]>>, <<"node", Local(writer[p[2]], p[3])>>)
    BY <1>8, <2>1
  <2> QED
    BY <1>7, <2>1, <2>2 DEF PendingSafe
<1>10. Len(I.args) \in Nat
  BY ExecutingFacts, OperandsOfInstruction DEF Instructions, Body
<1>11. RegSafe(params(g, a))
  <2>1. ASSUME NEW k \in 1..prog.fun[g].params
        PROVE  Covers(<<"node", Local(writer[g], <<"arg", k - 1>>)>>, a[k])
    <3>1. k \in 1..Len(I.args) /\ k <= prog.fun[g].params /\ k - 1 \in 0..(prog.fun[g].params - 1)
      BY <1>5, <1>7, <1>10
    <3>2. Covers(<<"arg", g, k - 1>>, a[k])
      BY <1>8, <3>1
    <3> QED
      BY <1>7, <3>1, <3>2, ParameterCovers
  <2>2. ASSUME NEW x \in DOMAIN params(g, a)
        PROVE  Covers(<<"node", Local(writer[x[1]], x[2])>>, params(g, a)[x])
    <3>1. PICK k \in 1..prog.fun[g].params : x = <<g, <<"arg", k - 1>>>>
      BY DEF params
    <3>2. x[1] = g /\ x[2] = <<"arg", k - 1>> /\ x[2][2] + 1 = k
      BY <1>7, <3>1
    <3>3. params(g, a)[x] = a[k]
      BY <3>2 DEF params
    <3> QED
      BY <2>1, <3>2, <3>3
  <2> QED
    BY <2>2 DEF RegSafe
<1>12. MemSafe(extras(I, g, a))
  <2>1. ASSUME NEW k \in (prog.fun[g].params + 1)..Len(I.args)
        PROVE  Covers(<<"cell", NodeOfObject(Object(g, <<"vasave">>))>>, a[k])
    <3>1. k \in 1..Len(I.args) /\ ~(k <= prog.fun[g].params) /\ prog.fun[g].vararg
      BY <1>5, <1>7, <1>10
    <3>2. Covers(<<"arg", g, prog.fun[g].params>>, a[k])
      BY <1>8, <3>1
    <3> QED
      BY <1>7, <3>1, <3>2, ExtraCovers
  <2>2. ASSUME NEW x \in DOMAIN extras(I, g, a)
        PROVE  Covers(<<"cell", NodeOfObject(x[1])>>, extras(I, g, a)[x])
    <3>1. PICK k \in (prog.fun[g].params + 1)..Len(I.args) : x = <<Object(g, <<"vasave">>), k - prog.fun[g].params - 1>>
      BY DEF extras
    <3>2. x[1] = Object(g, <<"vasave">>) /\ x[2] + prog.fun[g].params + 1 = k
      BY <1>7, <1>10, <3>1
    <3>3. extras(I, g, a)[x] = a[k]
      BY <3>2 DEF extras
    <3> QED
      BY <2>1, <3>2, <3>3
  <2> QED
    BY <2>2 DEF MemSafe
<1>13. RegSafe(reg') /\ MemSafe(mem')
  BY <1>6, <1>7, <1>11, <1>12, OverrideSafe
<1> QED
  BY <1>5, <1>7, <1>9, <1>13 DEF Safe

----------------------------------------------------------------------------
(* The inductive invariant.                                                *)

LEMMA RunFacts ==
  ASSUME Inv, phase = "run"
  PROVE  Executing /\ Agreed
<1>1. AllVisited /\ prog \in Programs
  BY VisitedAll DEF Inv, VisitInv
<1>2. Agreed /\ Seeded /\ Closed /\ live \subseteq FunctionNames /\ PendingSafe(pending)
  BY DEF Inv, RunInv, PendingSafe
<1>3. RegSafe(reg) /\ MemSafe(mem)
  BY DEF Inv, FlowsCovered, RegSafe, MemSafe, Covers
<1> QED
  BY <1>1, <1>2, <1>3 DEF Executing, Safe, Solved

\* What the sets satisfy depends on the pass and on the sets only.
LEMMA SolvedStays ==
  ASSUME UNCHANGED <<prog, writer, pts>>
  PROVE  /\ Agreed' = Agreed /\ Seeded' = Seeded /\ Closed' = Closed /\ FunctionNames' = FunctionNames
<1>1. Edges' = Edges /\ FunctionNames' = FunctionNames
  BY DEF Edges, FunctionNames
<1>2. Agreed' = Agreed
  BY <1>1 DEF Agreed
<1>3. Seeded' = Seeded
  BY <1>1 DEF Seeded, SeededIn
<1>4. Closed' = Closed
  BY <1>1 DEF Closed, Flows, IsTarget
<1> QED
  BY <1>1, <1>2, <1>3, <1>4

LEMMA SafeStep ==
  ASSUME phase' = "run", Agreed, Seeded, Closed, UNCHANGED <<prog, writer, pts>>,
         Safe(reg', mem', pending', live')
  PROVE  RunInv' /\ FlowsCovered'
<1>1. /\ Agreed' /\ Seeded' /\ Closed' /\ FunctionNames' = FunctionNames
      /\ prog' = prog /\ writer' = writer /\ pts' = pts
  BY SolvedStays
<1>2. \A p \in pending' : (Flows(<<"ret", p[1]>>, <<"node", Local(writer[p[2]], p[3])>>))'
  BY <1>1 DEF Safe, PendingSafe, Flows
<1>3. FlowsCovered'
  BY <1>1 DEF FlowsCovered, Safe, RegSafe, MemSafe, Covers, NodeOfObject
<1>4. live' \subseteq FunctionNames'
  BY <1>1 DEF Safe
<1> HIDE <1>1
<1>5. RunInv'
  BY <1>1, <1>2, <1>4 DEF RunInv
<1> QED
  BY <1>3, <1>5

LEMMA ExecuteStep ==
  ASSUME Inv, Execute
  PROVE  RunInv' /\ FlowsCovered'
<1>1. live # {} /\ UNCHANGED <<passVars, pts>>
  BY DEF Execute, RunAlloca, RunStore, RunLoad, RunAtomic, RunAssigning, RunCopy,
         RunVastart, RunMalloc, RunDlsym, RunCall, RunReturn, KeepRun
<1>2. phase = "run"
  BY <1>1 DEF Inv, RunInv
<1>3. Executing /\ Agreed
  BY <1>2, RunFacts
<1>4. Safe(reg', mem', pending', live')
  BY <1>3, AllocaStep, StoreStep, LoadStep, AtomicStep, AssigningStep, CopyStep, VastartStep,
     MallocStep, DlsymStep, CallStep, ReturnStep DEF Execute
<1>5. Seeded /\ Closed /\ phase' = "run" /\ UNCHANGED <<prog, writer, pts>>
  BY <1>1, <1>2, <1>3 DEF Executing, Solved, passVars
<1> QED
  BY <1>3, <1>4, <1>5, SafeStep

LEMMA ConstantOperand ==
  ASSUME NEW p, NEW v, IsConstant(p, v)
  PROVE  IsOperand(p, v) /\ v[1] \notin {"reg", "arg"}
<1>1. IsOperand(p, v)
  BY DEF IsOperand
<1>2. CASE v = <<"data">>
  BY <1>1, <1>2
<1>3. CASE v = <<"sym", v[2]>>
  BY <1>1, <1>3
<1>4. CASE v = <<"agg", v[2]>>
  BY <1>1, <1>4
<1> QED
  BY <1>2, <1>3, <1>4 DEF IsConstant

\* The initial values of the globals.
LEMMA StartStep ==
  ASSUME Inv, Start
  PROVE  RunInv' /\ FlowsCovered'
<1> DEFINE cell(g) == <<SymbolObject(g), 0>>
           G == DOMAIN prog.init
<1>1. /\ phase = "solve" /\ Derived \subseteq pts /\ phase' = "run" /\ live' = {prog.order[1]}
      /\ DOMAIN mem' = {cell(g) : g \in G}
      /\ \A g \in G : mem'[cell(g)] \in Eval("", prog.init[g])
      /\ UNCHANGED <<prog, ip, writer, pts, reg, pending>>
  BY DEF Start
<1>2. AllVisited /\ prog \in Programs /\ Agreed /\ Seeded /\ reg = <<>> /\ pending = {}
  BY <1>1, VisitedAll DEF Inv, VisitInv, RunInv
<1>3. Closed
  BY <1>1, <1>2, SolvedClosed
<1>4. Solved
  BY <1>2, <1>3 DEF Solved
<1>5. ASSUME NEW g \in G, NEW a \in Eval("", prog.init[g])
      PROVE  Covers(<<"cell", NodeOfObject(SymbolObject(g))>>, a)
  <2> DEFINE v == prog.init[g]
             p == cell(g)
             w == writer[GlobalsFunction]
  <2>1. PICK k \in 1..Len(prog.globals) : g = prog.globals[k]
    BY <1>2, ProgramFacts
  <2>2. IsConstant(prog, v)
    BY <1>2, <2>1, ProgramFacts
  <2>3. IsOperand(prog, v) /\ v[1] \notin {"reg", "arg"}
    BY <2>2, ConstantOperand
  <2>4. p # Null /\ p[1] = SymbolObject(g) /\ NodeOfObject(p[1]) = SymbolNode(g)
    BY DEF NodeOfObject, SymbolObject, Object, Null
  <2>5. <<<<"node", SymbolNode(g)>>, SymbolNode(g)>> \in pts
    BY <1>2 DEF Seeded, SeededIn
  <2>6. GlobalsOK(w, prog) /\ GlobalsFunction \in DOMAIN writer
    BY <1>2 DEF AllVisited
  <2>7. w.edges \subseteq Edges
    BY <2>6 DEF Edges
  <2> HIDE DEF v, p, w
  <2>8. CASE a = Null
    BY <2>8 DEF Covers
  <2>9. CASE a # Null
    <3>1. v[1] # "data"
      BY <2>9, NotData DEF v
    <3>2. PICK e \in w.edges : e[1] = "Store" /\ e[2] = SymbolNode(g) /\ Tracks(w, v, e[3])
      BY <2>1, <2>6, <3>1 DEF GlobalsOK, v
    <3>3. Covers(<<"node", e[3]>>, a)
      BY <1>4, <2>3, <2>6, <3>2, EvalCovers DEF w, v
    <3>4. Covers(<<"node", e[2]>>, p)
      BY <2>4, <2>5, <3>2 DEF Covers
    <3>5. Covers(<<"cell", NodeOfObject(p[1])>>, a)
      BY <1>4, <2>4, <2>7, <3>2, <3>3, <3>4, StoreFlows
    <3> QED
      BY <2>4, <3>5
  <2> QED
    BY <2>8, <2>9
<1>6. MemSafe(mem')
  <2>1. ASSUME NEW c \in DOMAIN mem'
        PROVE  Covers(<<"cell", NodeOfObject(c[1])>>, mem'[c])
    <3>1. PICK g \in G : c = cell(g)
      BY <1>1
    <3>2. mem'[c] \in Eval("", prog.init[g]) /\ c[1] = SymbolObject(g)
      BY <1>1, <3>1
    <3> QED
      BY <1>5, <3>2
  <2> QED
    BY <2>1 DEF MemSafe
<1>7. live' \subseteq FunctionNames
  <2>1. Len(prog.order) \in Nat /\ Len(prog.order) # 0
    BY <1>2, ProgramFacts DEF Count
  <2>2. 1 \in 1..Len(prog.order)
    BY <2>1
  <2> QED
    BY <1>1, <2>2 DEF FunctionNames
<1>8. RegSafe(reg') /\ PendingSafe(pending')
  <2>1. DOMAIN <<>> = {}
    OBVIOUS
  <2>2. reg' = <<>> /\ pending' = {}
    BY <1>1, <1>2, Zenon
  <2>3. DOMAIN reg' = {}
    BY <2>1, <2>2
  <2> QED
    BY <2>2, <2>3 DEF RegSafe, PendingSafe
<1>9. Safe(reg', mem', pending', live')
  BY <1>6, <1>7, <1>8 DEF Safe
<1> QED
  BY <1>1, <1>2, <1>3, <1>9, SafeStep

\* The generator checks the number of arguments of direct calls.
LEMMA WriteCStep ==
  ASSUME Inv, WriteC
  PROVE  RunInv' /\ FlowsCovered'
<1>1. /\ phase = "visit" /\ ip[1] = Len(prog.order) + 1
      /\ phase' = (IF NargsAgree THEN "solve" ELSE "refused")
      /\ pts' = (IF NargsAgree THEN InitialPointsTo ELSE {})
      /\ UNCHANGED <<prog, ip, writer, runVars>>
  BY DEF WriteC
<1>2. AllVisited
  BY <1>1, VisitedAll DEF Inv
<1>3. reg' = <<>> /\ mem' = <<>> /\ pending' = {} /\ live' = {}
  BY <1>1 DEF Inv, RunInv, runVars
<1>4. ASSUME NargsAgree
      PROVE  Agreed' /\ Seeded'
  <2>1. Edges' = Edges /\ FunctionNames' = FunctionNames
    BY <1>1 DEF Edges, FunctionNames
  <2>2. Agreed
    BY <1>2, <1>4, NargsKnown DEF Agreed, NargsAgree, EdgesOf
  <2>3. Agreed'
    BY <1>1, <2>1, <2>2 DEF Agreed
  <2>4. SeededIn(pts')
    BY <1>1, <1>2, <1>4, StartSeeded
  <2>5. Seeded'
    BY <1>1, <2>1, <2>4 DEF Seeded, SeededIn
  <2> QED
    BY <2>3, <2>5
<1>5. CASE NargsAgree
  <2>1. phase' = "solve"
    BY <1>1, <1>5
  <2> QED
    BY <1>3, <1>4, <1>5, <2>1 DEF RunInv, FlowsCovered
<1>6. CASE ~NargsAgree
  <2>1. phase' = "refused"
    BY <1>1, <1>6
  <2> QED
    BY <1>3, <2>1 DEF RunInv, FlowsCovered
<1> QED
  BY <1>5, <1>6

LEMMA PropagateStep ==
  ASSUME Inv, Propagate
  PROVE  RunInv' /\ FlowsCovered'
<1>1. phase = "solve" /\ phase' = "solve" /\ pts \subseteq pts' /\ UNCHANGED <<prog, writer, runVars>>
  BY DEF Propagate, passVars
<1>2. Edges' = Edges /\ FunctionNames' = FunctionNames
  BY <1>1 DEF Edges, FunctionNames
<1>3. Agreed' /\ Seeded'
  BY <1>1, <1>2 DEF Inv, RunInv, Agreed, Seeded, SeededIn
<1>4. reg' = <<>> /\ mem' = <<>> /\ pending' = {} /\ live' = {}
  BY <1>1 DEF Inv, RunInv, runVars
<1> QED
  BY <1>1, <1>3, <1>4 DEF RunInv, FlowsCovered

LEMMA VisitingStep ==
  ASSUME Inv, phase = "visit", phase' \in {"visit", "asserted"}, UNCHANGED runVars
  PROVE  RunInv' /\ FlowsCovered'
<1>1. reg' = <<>> /\ mem' = <<>> /\ pending' = {} /\ live' = {}
  BY DEF Inv, RunInv, runVars
<1> QED
  BY <1>1 DEF RunInv, FlowsCovered

LEMMA NextInv ==
  ASSUME Inv, [Next]_vars
  PROVE  Inv'
<1>1. VisitInv'
  BY NextVisit DEF Inv
<1>2. CASE Execute
  BY <1>1, <1>2, ExecuteStep DEF Inv
<1>3. CASE Start
  BY <1>1, <1>3, StartStep DEF Inv
<1>4. CASE WriteC
  BY <1>1, <1>4, WriteCStep DEF Inv
<1>5. CASE Propagate
  BY <1>1, <1>5, PropagateStep DEF Inv
<1>6. CASE \/ VisitGlobals \/ EnterFunction \/ FinishFunction
           \/ VisitAlloca \/ VisitInlineAsm \/ VisitStore \/ VisitLoad \/ VisitAtomic
           \/ VisitAssigning \/ VisitReturn \/ VisitCall \/ VisitCopy \/ VisitVastart
  <2>1. phase = "visit" /\ phase' \in {"visit", "asserted"} /\ UNCHANGED runVars
    BY <1>6 DEF VisitGlobals, EnterFunction, FinishFunction, VisitAlloca, VisitInlineAsm, VisitStore,
                VisitLoad, VisitAtomic, VisitAssigning, VisitReturn, VisitCall, VisitCopy, VisitVastart, Visit
  <2> QED
    BY <1>1, <2>1, VisitingStep DEF Inv
<1>7. CASE UNCHANGED vars
  <2>1. /\ Agreed' = Agreed /\ Seeded' = Seeded /\ Closed' = Closed /\ FunctionNames' = FunctionNames
        /\ UNCHANGED <<prog, phase, writer, pts, reg, mem, live, pending>>
    BY <1>7, SolvedStays DEF vars, passVars, runVars
  <2>2. RunInv'
    BY <2>1 DEF Inv, RunInv, Flows
  <2>3. FlowsCovered'
    BY <2>1 DEF Inv, FlowsCovered, NodeOfObject
  <2> QED
    BY <1>1, <2>2, <2>3 DEF Inv
<1> QED
  BY <1>2, <1>3, <1>4, <1>5, <1>6, <1>7 DEF Next

LEMMA InitInv ==
  ASSUME Init
  PROVE  Inv
BY InitVisit DEF Init, Inv, RunInv, FlowsCovered

\* Whatever a program does, the points-to set of a value's node holds the
\* object it points into, and that of a memory cell's too: what the trace
\* check tests on recorded runs holds on all runs of all programs.
THEOREM PointsToSound == Spec => []FlowsCovered
<1>1. Init => Inv
  BY InitInv
<1>2. Inv /\ [Next]_vars => Inv'
  BY NextInv
<1>3. Inv => FlowsCovered
  BY DEF Inv
<1> QED
  BY <1>1, <1>2, <1>3, PTL DEF Spec

\* The types of the pass and of the run: locals are numbered below the
\* counter, only functions of the program are called.
THEOREM PassTyped == Spec => []TypeOK
<1>1. Init => Inv
  BY InitInv
<1>2. Inv /\ [Next]_vars => Inv'
  BY NextInv
<1>3. Inv => TypeOK
  <2> SUFFICES ASSUME Inv
               PROVE  TypeOK
    OBVIOUS
  <2>1. prog \in Programs /\ phase \in {"visit", "solve", "run", "refused", "asserted"} /\ live \subseteq FunctionNames
    BY DEF Inv, VisitInv, RunInv
  <2>2. ASSUME NEW f \in DOMAIN writer
        PROVE  Numbered(writer[f])
    <3>1. ip[1] # 0
      BY DEF Inv, VisitInv
    <3>2. CASE f = GlobalsFunction
      BY <3>1, <3>2 DEF Inv, VisitInv, GlobalsOK
    <3>3. CASE f # GlobalsFunction
      <4>1. PICK i \in 1..Len(prog.order) : IsEntered(i) /\ f = prog.order[i]
        BY <3>1, <3>3 DEF Inv, VisitInv
      <4> QED
        BY <4>1 DEF Inv, VisitInv, FunctionOK
    <3> QED
      BY <3>2, <3>3
  <2>3. ASSUME NEW f \in DOMAIN writer
        PROVE  /\ writer[f].allocas <= writer[f].next
               /\ \A v \in DOMAIN writer[f].locals : writer[f].locals[v] \in 0..(writer[f].next - 1)
    <3> DEFINE x == writer[f].next
    <3>1. x \in Nat /\ writer[f].allocas <= x /\ \A v \in DOMAIN writer[f].locals : writer[f].locals[v] \in Nat /\ writer[f].locals[v] < x
      BY <2>2 DEF Numbered
    <3> HIDE DEF x
    <3>2. \A v \in DOMAIN writer[f].locals : writer[f].locals[v] \in 0..(x - 1)
      BY <3>1
    <3> QED
      BY <3>1, <3>2 DEF x
  <2> QED
    BY <2>1, <2>3 DEF TypeOK
<1> QED
  BY <1>1, <1>2, <1>3, PTL DEF Spec

----------------------------------------------------------------------------
(* Traces.  A block that lies in the slab map has the tag of the           *)
(* allocation in it, or none yet (TagsRight); what a thread still shows    *)
(* has the edge of whatever lies at its address, because every step that   *)
(* puts an allocation there says so (Due).  So a lookup finds an edge that *)
(* is true at that moment, and it stays one that was.  An edge it finds is *)
(* in a table or about to be added to one (Seen).  When the core dump has  *)
(* been taken, every entry of a file is either still to be read or has     *)
(* been compared.  Types hold all along: a block between allocation and    *)
(* tag belongs to one thread, and a table has room for the next edge.      *)

(* What a thread shows has a word at every index at which one is read. *)
Working(p) ==
    /\ {"at", "site", "words", "size", "k", "buffer"} \subseteq DOMAIN p
    /\ p.site \in Sites /\ p.k \in Nat \ {0} /\ p.size \in Nat /\ p.buffer \in BOOLEAN
    /\ DOMAIN p.words = IF p.buffer THEN 1..(p.size \div 8) ELSE {1}
    /\ \A k \in DOMAIN p.words : p.words[k] \in [addr : Addresses, into : BOOLEAN]
PcOK(p) ==
    \/ p.at = "idle"
    \/ p.at = "tag" /\ p.block \in Blocks /\ p.site \in Sites
    \/ p.at = "lookup" /\ Working(p)
    \/ p.at = "add" /\ Working(p) /\ "node" \in DOMAIN p /\ p.node \in Nodes
Tags == Sites \cup {Untagged, Empty}
Typed ==
    /\ known \subseteq Blocks /\ mapped \subseteq Blocks
    /\ tag \in [Blocks -> Tags] /\ origin \in [Blocks -> Tags]
    /\ loaded \subseteq MainObject \cup Library /\ scanned \subseteq MainObject \cup Library
    /\ DOMAIN pc = Threads /\ \A t \in Threads : PcOK(pc[t])
    /\ table \in [Threads -> SUBSET (Sites \X Nodes)]
    /\ open \in [Threads -> BOOLEAN]

TagsRight ==
    /\ \A b \in known : tag[b] = origin[b] /\ tag[b] # Empty
    /\ \A b \in mapped : tag[b] \in {origin[b], Untagged}

(* A block between its allocation and its tag belongs to one thread. *)
Tagging(t) == pc[t].at = "tag"
Untouched ==
    /\ \A t \in Threads : Tagging(t) =>
          /\ tag[pc[t].block] = Untagged /\ pc[t].block \notin known
          /\ origin[pc[t].block] = pc[t].site
    /\ \A t, u \in Threads : Tagging(t) /\ Tagging(u) /\ t # u => pc[t].block # pc[u].block

(* Pointers being shown lead to what is allocated and loaded. *)
Held(p) == \A k \in DOMAIN p.words : p.words[k].into => p.words[k].addr \in known \cup loaded
HeldAll == \A t \in Threads : Showing(t) => Held(pc[t])

(* Edges that words had, whatever they are. *)
Words == shown \cup aliased
Due(p) ==
    /\ \E e \in Words : e[1] = p.site
    /\ \A k \in Ahead(p) :
         \/ Occupant(p.words[k].addr) = Empty
         \/ <<p.site, Occupant(p.words[k].addr)>> \in Words
DueAll == \A t \in Threads : Showing(t) /\ open[t] => Due(pc[t])

Justified(e) == (e \in Words \/ e[2] = Untagged) /\ \E f \in Words : f[1] = e[1]
Adding(t, e) == pc[t].at = "add" /\ open[t] /\ e = <<pc[t].site, pc[t].node>>
Seen ==
    /\ \A t \in Threads : \A e \in table[t] : Justified(e)
    /\ \A t \in Threads : Adding(t, <<pc[t].site, pc[t].node>>) => Justified(<<pc[t].site, pc[t].node>>)
    /\ \A e \in observed : \E t \in Threads : e \in table[t] \/ Adding(t, e)

TraceInv == Typed /\ TagsRight /\ Untouched /\ HeldAll /\ DueAll /\ Seen

LEMMA WordRead ==
    ASSUME NEW p, Working(p), MoreWords(p)
    PROVE  p.k \in DOMAIN p.words
  <1>1. CASE p.buffer
    <2>1. p.k \in Int /\ p.size \in Int /\ (p.k - 1) * 8 + 8 < p.size /\ p.k >= 1
      BY <1>1 DEF Working, MoreWords
    <2>2. p.k <= p.size \div 8
      BY <2>1
    <2> QED BY <1>1, <2>1, <2>2 DEF Working
  <1>2. CASE ~p.buffer
    BY <1>2 DEF Working, MoreWords
  <1> QED BY <1>1, <1>2

(* A lookup finds nothing, or an allocation nobody has tagged yet, or what *)
(* lies at the address; the latter if the word is a pointer.               *)
LEMMA WhatLiesThere ==
    ASSUME Typed, TagsRight, NEW v \in [addr : Addresses, into : BOOLEAN],
           v.into => v.addr \in known \cup loaded, MaybeNode(v) # Empty
    PROVE  /\ MaybeNode(v) \in Nodes
           /\ MaybeNode(v) \in {Occupant(v.addr), Untagged}
           /\ v.into => MaybeNode(v) = Occupant(v.addr)
  <1>1. CASE v.addr \in scanned
    <2>1. v.addr \notin Blocks
      BY <1>1, RuntimeAssumption DEF Typed
    <2> QED BY <1>1, <2>1 DEF Typed, MaybeNode, Occupant, Nodes
  <1>2. CASE v.addr \notin scanned
    <2>1. v.addr \in mapped /\ MaybeNode(v) = tag[v.addr]
      BY <1>2 DEF MaybeNode
    <2>2. v.addr \in Blocks /\ tag[v.addr] \in Tags \ {Empty}
      BY <2>1 DEF Typed
    <2>3. v.addr \notin loaded
      BY <2>2, RuntimeAssumption DEF Typed
    <2> QED BY <2>1, <2>2, <2>3 DEF TagsRight, Occupant, Tags, Nodes
  <1> QED BY <1>1, <1>2

LEMMA InvInit == RuntimeInit => TraceInv
  BY RuntimeAssumption
  DEF RuntimeInit, TraceInv, Typed, Tags, TagsRight, Untouched, Tagging, HeldAll, DueAll, Seen, Adding,
      Showing, PcOK, Idle

(* What justifies an edge goes on doing so. *)
LEMMA StaysJustified ==
    ASSUME NEW e, Justified(e), Words \subseteq Words'
    PROVE  Justified(e)'
  BY DEF Justified

(* Seen, after a step that adds no edge. *)
LEMMA SeenStays ==
    ASSUME Typed, Seen, Words \subseteq Words', UNCHANGED <<table, open, observed>>,
           \A t \in Threads : /\ (pc[t].at = "add") = (pc'[t].at = "add")
                              /\ pc[t].at = "add" => pc'[t].site = pc[t].site /\ pc'[t].node = pc[t].node
    PROVE  Seen'
  <1>1. \A t \in Threads : \A e \in table'[t] : Justified(e)'
    BY StaysJustified DEF Seen
  <1>2. \A t \in Threads : Adding(t, <<pc[t].site, pc[t].node>>)' =>
                             /\ Adding(t, <<pc[t].site, pc[t].node>>)
                             /\ <<pc[t].site, pc[t].node>>' = <<pc[t].site, pc[t].node>>
    BY DEF Adding
  <1>3. \A t \in Threads : Adding(t, <<pc[t].site, pc[t].node>>)' => Justified(<<pc[t].site, pc[t].node>>)'
    <2> TAKE t \in Threads
    <2> HAVE Adding(t, <<pc[t].site, pc[t].node>>)'
    <2>1. Justified(<<pc[t].site, pc[t].node>>)
      BY <1>2 DEF Seen
    <2> QED BY <1>2, <2>1 DEF Justified
  <1>4. \A e : \A t \in Threads : Adding(t, e) => Adding(t, e)'
    BY DEF Adding
  <1>5. \A e \in observed' : \E t \in Threads : e \in table'[t] \/ Adding(t, e)'
    BY <1>4 DEF Seen
  <1> QED BY <1>1, <1>3, <1>5 DEF Seen

(* A step that leaves the heap, libraries, tables and what threads do      *)
(* alone.                                                                  *)
LEMMA InvStutter ==
    ASSUME TraceInv,
           UNCHANGED <<heap, loaded, scanned, pc, table, open, history>>
    PROVE  TraceInv'
  BY DEF TraceInv, Typed, TagsRight, Untouched, Tagging, HeldAll, Held, DueAll, Due, Words, Occupant, Ahead,
         Showing, Seen, Justified, Adding, heap, history

LEMMA TracedMallocStep ==
    ASSUME TraceInv, NEW t \in Threads, Malloc(t)
    PROVE  TraceInv'
  <1> USE DEF Malloc, At, Goto, tables
  <1>1. PICK b \in Blocks, s \in Sites :
           /\ tag[b] = Empty
           /\ tag' = [tag EXCEPT ![b] = Untagged]
           /\ origin' = [origin EXCEPT ![b] = s]
           /\ aliased' = aliased \cup Coincidences(b, s)
           /\ pc' = [pc EXCEPT ![t] = [at |-> "tag", block |-> b, site |-> s]]
    OBVIOUS
  <1>2. /\ UNCHANGED <<mapped, known, loaded, scanned, table, open, shown, observed>>
        /\ pc[t].at = "idle" /\ Words \subseteq Words'
    BY <1>1 DEF Words
  <1>3. /\ pc'[t] = [at |-> "tag", block |-> b, site |-> s]
        /\ \A u \in Threads \ {t} : pc'[u] = pc[u]
    BY <1>1 DEF TraceInv, Typed
  <1>4. b \notin known /\ \A u \in Threads : Tagging(u) => pc[u].block # b
    BY <1>1, RuntimeAssumption DEF TraceInv, TagsRight, Untouched
  <1>5. Typed'
    BY <1>1, <1>2, <1>3 DEF TraceInv, Typed, Tags, PcOK, Working
  <1>6. TagsRight'
    BY <1>1, <1>2, <1>4 DEF TraceInv, Typed, TagsRight
  <1>7. Untouched'
    BY <1>1, <1>2, <1>3, <1>4 DEF TraceInv, Typed, Untouched, Tagging
  <1>8. HeldAll'
    BY <1>2, <1>3 DEF TraceInv, HeldAll, Held, Showing
  <1>9. DueAll'
    <2> SUFFICES ASSUME NEW u \in Threads, Showing(u)', open'[u]
                 PROVE  Due(pc[u])'
      BY DEF DueAll
    <2>1. u # t /\ pc'[u] = pc[u] /\ Showing(u) /\ open[u]
      BY <1>2, <1>3 DEF Showing
    <2>2. Due(pc[u])
      BY <2>1 DEF TraceInv, DueAll
    <2>3. ASSUME NEW k \in Ahead(pc[u])
          PROVE  \/ Occupant(pc[u].words[k].addr)' = Empty
                 \/ <<pc[u].site, Occupant(pc[u].words[k].addr)'>> \in Words'
      <3>1. CASE pc[u].words[k].addr = b
        <4>1. Occupant(pc[u].words[k].addr)' = s
          BY <1>1, <2>1, <3>1 DEF Occupant, TraceInv, Typed
        <4>2. <<pc[u].site, s>> \in Coincidences(b, s)
          BY <2>1, <3>1 DEF Coincidences
        <4> QED BY <1>1, <4>1, <4>2 DEF Words
      <3>2. CASE pc[u].words[k].addr # b
        <4>1. Occupant(pc[u].words[k].addr)' = Occupant(pc[u].words[k].addr)
          BY <1>1, <2>1, <3>2 DEF Occupant, TraceInv, Typed
        <4> QED BY <1>2, <2>2, <4>1 DEF Due
      <3> QED BY <3>1, <3>2
    <2>4. \E e \in Words' : e[1] = pc[u].site
      BY <1>2, <2>2 DEF Due
    <2> QED BY <2>1, <2>3, <2>4 DEF Due, Ahead
  <1>10. Seen'
    BY <1>2, <1>3, SeenStays DEF TraceInv
  <1> QED BY <1>5, <1>6, <1>7, <1>8, <1>9, <1>10 DEF TraceInv

LEMMA TagStep ==
    ASSUME TraceInv, NEW t \in Threads, TagAllocation(t)
    PROVE  TraceInv'
  <1> USE DEF TagAllocation, At, Goto, tables, history
  <1> DEFINE b == pc[t].block
  <1>0. b \in Blocks /\ pc[t].site \in Sites /\ Tagging(t)
    BY DEF TraceInv, Typed, PcOK, Tagging
  <1>1. /\ UNCHANGED <<mapped, origin, loaded, scanned, table, open, shown, aliased, observed>>
        /\ pc' = [pc EXCEPT ![t] = Idle] /\ Words' = Words
    BY DEF Words
  <1>2. pc'[t] = Idle /\ \A u \in Threads \ {t} : pc'[u] = pc[u]
    BY <1>1 DEF TraceInv, Typed
  <1>3. \/ UNCHANGED <<tag, known>>
        \/ tag' = [tag EXCEPT ![b] = pc[t].site] /\ known' = known \cup {b}
    OBVIOUS
  <1>4. origin[b] = pc[t].site /\ b \notin known
    BY <1>0 DEF TraceInv, Untouched
  <1>5. Typed'
    BY <1>0, <1>1, <1>2, <1>3 DEF TraceInv, Typed, Tags, PcOK, Idle
  <1>6. TagsRight'
    BY <1>0, <1>1, <1>3, <1>4, RuntimeAssumption DEF TraceInv, Typed, TagsRight
  <1>7. Untouched'
    <2>1. \A u \in Threads : Tagging(u)' => u # t /\ Tagging(u) /\ pc'[u] = pc[u]
      BY <1>2 DEF Tagging, Idle
    <2>2. \A u \in Threads : Tagging(u)' => pc[u].block # b /\ pc[u].block \in Blocks
      BY <1>0, <2>1 DEF TraceInv, Typed, PcOK, Tagging, Untouched
    <2>3. \A c \in Blocks : c # b => (c \in known' <=> c \in known) /\ tag'[c] = tag[c]
      BY <1>0, <1>3 DEF TraceInv, Typed
    <2>4. \A u, w \in Threads : Tagging(u)' /\ Tagging(w)' /\ u # w => pc'[u].block # pc'[w].block
      BY <2>1 DEF TraceInv, Untouched
    <2>5. \A u \in Threads : Tagging(u)' =>
             /\ tag'[pc'[u].block] = Untagged /\ pc'[u].block \notin known'
             /\ origin'[pc'[u].block] = pc'[u].site
      BY <1>1, <2>1, <2>2, <2>3 DEF TraceInv, Untouched
    <2> QED BY <2>4, <2>5 DEF Untouched, Tagging
  <1>8. HeldAll'
    BY <1>1, <1>2, <1>3 DEF TraceInv, HeldAll, Held, Showing, Idle
  <1>9. DueAll'
    BY <1>1, <1>2 DEF TraceInv, DueAll, Due, Showing, Idle, Occupant, Ahead
  <1>10. Seen'
    BY <1>0, <1>1, <1>2, SeenStays DEF TraceInv, Tagging, Idle
  <1> QED BY <1>5, <1>6, <1>7, <1>8, <1>9, <1>10 DEF TraceInv

LEMMA ForeignStep ==
    ASSUME TraceInv, NEW t \in Threads, ForeignMalloc(t)
    PROVE  TraceInv'
  <1> USE DEF ForeignMalloc, At, tables
  <1>1. PICK b \in Blocks :
           /\ tag[b] = Empty
           /\ tag' = [tag EXCEPT ![b] = Untagged]
           /\ origin' = [origin EXCEPT ![b] = Untagged]
           /\ aliased' = aliased \cup Coincidences(b, Untagged)
           /\ known' = known \cup {b}
    OBVIOUS
  <1>2. /\ UNCHANGED <<mapped, loaded, scanned, pc, table, open, shown, observed>>
        /\ Words \subseteq Words'
    BY <1>1 DEF Words
  <1>4. \A u \in Threads : Tagging(u) => pc[u].block # b
    BY <1>1, RuntimeAssumption DEF TraceInv, Untouched
  <1>5. Typed'
    BY <1>1, <1>2 DEF TraceInv, Typed, Tags
  <1>6. TagsRight'
    BY <1>1, <1>2, RuntimeAssumption DEF TraceInv, Typed, TagsRight
  <1>7. Untouched'
    BY <1>1, <1>2, <1>4 DEF TraceInv, Typed, Untouched, Tagging
  <1>8. HeldAll'
    BY <1>1, <1>2 DEF TraceInv, HeldAll, Held, Showing
  <1>9. DueAll'
    <2> SUFFICES ASSUME NEW u \in Threads, Showing(u)', open'[u]
                 PROVE  Due(pc[u])'
      BY DEF DueAll
    <2>1. pc'[u] = pc[u] /\ Showing(u) /\ open[u]
      BY <1>2 DEF Showing
    <2>2. Due(pc[u])
      BY <2>1 DEF TraceInv, DueAll
    <2>3. ASSUME NEW k \in Ahead(pc[u])
          PROVE  \/ Occupant(pc[u].words[k].addr)' = Empty
                 \/ <<pc[u].site, Occupant(pc[u].words[k].addr)'>> \in Words'
      <3>1. CASE pc[u].words[k].addr = b
        <4>1. Occupant(pc[u].words[k].addr)' = Untagged
          BY <1>1, <2>1, <3>1 DEF Occupant, TraceInv, Typed
        <4>2. <<pc[u].site, Untagged>> \in Coincidences(b, Untagged)
          BY <2>1, <3>1 DEF Coincidences
        <4> QED BY <1>1, <4>1, <4>2 DEF Words
      <3>2. CASE pc[u].words[k].addr # b
        <4>1. Occupant(pc[u].words[k].addr)' = Occupant(pc[u].words[k].addr)
          BY <1>1, <2>1, <3>2 DEF Occupant, TraceInv, Typed
        <4> QED BY <1>2, <2>2, <4>1 DEF Due
      <3> QED BY <3>1, <3>2
    <2>4. \E e \in Words' : e[1] = pc[u].site
      BY <1>2, <2>2 DEF Due
    <2> QED BY <2>1, <2>3, <2>4 DEF Due, Ahead
  <1>10. Seen'
    BY <1>2, SeenStays DEF TraceInv
  <1> QED BY <1>5, <1>6, <1>7, <1>8, <1>9, <1>10 DEF TraceInv

(* What a thread shows when a block is freed. *)
LEMMA StrayedIs ==
    ASSUME NEW p, PcOK(p), NEW b
    PROVE  /\ PcOK(Strayed(p, b)) /\ Strayed(p, b).at = p.at
           /\ p.at = "tag" => Strayed(p, b) = p
           /\ p.at = "add" => Strayed(p, b).node = p.node
           /\ p.at \in {"lookup", "add"} =>
                 /\ Strayed(p, b).site = p.site /\ Ahead(Strayed(p, b)) = Ahead(p)
                 /\ DOMAIN Strayed(p, b).words = DOMAIN p.words
                 /\ \A k \in DOMAIN p.words :
                       /\ Strayed(p, b).words[k].addr = p.words[k].addr
                       /\ Strayed(p, b).words[k].into => p.words[k].into /\ p.words[k].addr # b
  <1> DEFINE q == Strayed(p, b)
  <1>1. CASE p.at \notin {"lookup", "add"}
    BY <1>1 DEF Strayed
  <1>2. CASE p.at \in {"lookup", "add"}
    <2>1. Working(p)
      BY <1>2 DEF PcOK
    <2> DEFINE ws == [k \in DOMAIN p.words |->
                        IF p.words[k].addr = b THEN [addr |-> b, into |-> FALSE] ELSE p.words[k]]
    <2>2. q = [p EXCEPT !.words = ws]
      BY <1>2 DEF Strayed
    <2> HIDE DEF ws
    <2>3. /\ DOMAIN q = DOMAIN p /\ q.words = ws
          /\ \A f \in DOMAIN p : f # "words" => q[f] = p[f]
      BY <2>1, <2>2 DEF Working
    <2>4. q.at = p.at /\ q.site = p.site /\ q.size = p.size /\ q.k = p.k /\ q.buffer = p.buffer
      BY <2>1, <2>3 DEF Working
    <2>5. p.at = "add" => q.node = p.node
      BY <2>3 DEF PcOK
    <2>6. /\ DOMAIN ws = DOMAIN p.words
          /\ \A k \in DOMAIN p.words :
                /\ ws[k] \in [addr : Addresses, into : BOOLEAN] /\ ws[k].addr = p.words[k].addr
                /\ ws[k].into => p.words[k].into /\ p.words[k].addr # b
      BY <2>1 DEF Working, ws
    <2> HIDE DEF q
    <2>7. Working(q)
      BY <2>1, <2>3, <2>4, <2>6 DEF Working
    <2>8. PcOK(q)
      BY <1>2, <2>3, <2>4, <2>5, <2>7 DEF PcOK
    <2>9. Ahead(q) = Ahead(p)
      BY <2>3, <2>4, <2>6 DEF Ahead
    <2> QED BY <1>2, <2>3, <2>4, <2>5, <2>6, <2>8, <2>9 DEF q
  <1> QED BY <1>1, <1>2

LEMMA FreeStep ==
    ASSUME TraceInv, NEW t \in Threads, Free(t)
    PROVE  TraceInv'
  <1> USE DEF Free, At, tables, history
  <1>1. PICK b \in known :
           /\ tag' = Cleared(b)
           /\ origin' = [origin EXCEPT ![b] = Empty]
           /\ known' = known \ {b}
           /\ pc' = [u \in Threads |-> Strayed(pc[u], b)]
    OBVIOUS
  <1>2. /\ UNCHANGED <<mapped, loaded, scanned, table, open, shown, aliased, observed>>
        /\ Words' = Words
    BY DEF Words
  <1>3. b \in Blocks /\ b \notin loaded /\ tag' \in [Blocks -> Tags]
        /\ (\A c \in Blocks \ {b} : tag'[c] = tag[c]) /\ (b \in mapped => tag'[b] = Empty)
    BY <1>1, RuntimeAssumption DEF TraceInv, Typed, Cleared, Tags
  <1>4. \A u \in Threads : PcOK(pc[u]) /\ pc'[u] = Strayed(pc[u], b) /\ pc'[u].at = pc[u].at
    BY <1>1, StrayedIs DEF TraceInv, Typed
  <1>5. Typed'
    <2>1. \A u \in Threads : PcOK(pc'[u])
      BY <1>4, StrayedIs
    <2>2. (\A u \in Threads : PcOK(pc[u]))'
      BY <2>1 DEF PcOK, Working
    <2> QED BY <1>1, <1>2, <1>3, <2>2 DEF TraceInv, Typed, Tags
  <1>6. TagsRight'
    BY <1>1, <1>2, <1>3 DEF TraceInv, Typed, TagsRight
  <1>7. Untouched'
    <2>1. \A u \in Threads : Tagging(u)' => Tagging(u) /\ pc'[u] = pc[u] /\ pc[u].block # b
                                             /\ pc[u].block \in Blocks
      BY <1>1, <1>4, StrayedIs DEF TraceInv, Untouched, Tagging, PcOK
    <2> QED BY <1>1, <1>3, <2>1 DEF TraceInv, Typed, Untouched, Tagging
  <1>8. HeldAll'
    <2> SUFFICES ASSUME NEW u \in Threads, Showing(u)', NEW k \in DOMAIN pc'[u].words,
                        pc'[u].words[k].into
                 PROVE  pc'[u].words[k].addr \in known' \cup loaded'
      BY DEF HeldAll, Held
    <2>1. pc[u].at \in {"lookup", "add"}
      BY <1>4 DEF Showing
    <2>2. /\ k \in DOMAIN pc[u].words /\ pc'[u].words[k].addr = pc[u].words[k].addr
          /\ pc[u].words[k].into /\ pc[u].words[k].addr # b
      BY <1>4, <2>1, StrayedIs
    <2>3. pc[u].words[k].addr \in known \cup loaded
      BY <2>1, <2>2 DEF TraceInv, HeldAll, Held, Showing
    <2> QED BY <1>1, <1>2, <2>2, <2>3
  <1>9. DueAll'
    <2> SUFFICES ASSUME NEW u \in Threads, Showing(u)', open'[u]
                 PROVE  Due(pc[u])'
      BY DEF DueAll
    <2>1. pc[u].at \in {"lookup", "add"} /\ open[u]
      BY <1>2, <1>4 DEF Showing
    <2>2. Due(pc[u])
      BY <2>1 DEF TraceInv, DueAll, Showing
    <2>3. /\ pc'[u].site = pc[u].site /\ Ahead(pc'[u]) = Ahead(pc[u])
          /\ \A k \in DOMAIN pc[u].words : pc'[u].words[k].addr = pc[u].words[k].addr
      BY <1>4, <2>1, StrayedIs
    <2>4. ASSUME NEW k \in Ahead(pc'[u])
          PROVE  \/ Occupant(pc[u].words[k].addr)' = Empty
                 \/ <<pc[u].site, Occupant(pc[u].words[k].addr)>>' \in Words'
      <3>1. k \in Ahead(pc[u]) /\ pc'[u].words[k].addr = pc[u].words[k].addr
        BY <2>3, <2>4 DEF Ahead
      <3>2. CASE pc[u].words[k].addr = b
        BY <1>1, <1>3, <3>1, <3>2 DEF Occupant, TraceInv, Typed
      <3>3. CASE pc[u].words[k].addr # b
        <4>1. Occupant(pc[u].words[k].addr)' = Occupant(pc[u].words[k].addr)
          BY <1>1, <3>1, <3>3 DEF Occupant, TraceInv, Typed
        <4> QED BY <1>2, <2>2, <2>3, <3>1, <4>1 DEF Due
      <3> QED BY <3>2, <3>3
    <2>5. \E e \in Words' : e[1] = pc'[u].site
      BY <1>2, <2>2, <2>3 DEF Due
    <2> QED BY <2>4, <2>5 DEF Due, Ahead
  <1>10. Seen'
    <2>1. \A u \in Threads : pc[u].at = "add" => pc'[u].site = pc[u].site /\ pc'[u].node = pc[u].node
      BY <1>4, StrayedIs
    <2> QED BY <1>2, <1>4, <2>1, SeenStays DEF TraceInv
  <1> QED BY <1>5, <1>6, <1>7, <1>8, <1>9, <1>10 DEF TraceInv

(* Losing a slab, and loading a library. *)
LEMMA LossStep ==
    ASSUME TraceInv, LoseSlab
    PROVE  TraceInv'
  <1> USE DEF LoseSlab, tables, history
  <1>1. mapped' \subseteq mapped
        /\ UNCHANGED <<tag, origin, known, loaded, scanned, pc, table, open, shown, aliased, observed>>
    OBVIOUS
  <1>2. Typed' /\ TagsRight' /\ Untouched' /\ HeldAll'
    BY <1>1 DEF TraceInv, Typed, TagsRight, Untouched, Tagging, HeldAll, Held, Showing
  <1>3. DueAll'
    BY <1>1 DEF TraceInv, DueAll, Due, Words, Occupant, Ahead, Showing
  <1>4. Seen'
    BY <1>1, SeenStays DEF TraceInv, Words
  <1> QED BY <1>2, <1>3, <1>4 DEF TraceInv

LEMMA LibraryStep ==
    ASSUME TraceInv, NEW t \in Threads, Dlopen(t) \/ Rescan(t)
    PROVE  TraceInv'
  <1> USE DEF Dlopen, Rescan, At, heap, tables, history
  <1>1. loaded \subseteq loaded' /\ scanned' \subseteq MainObject \cup Library
        /\ loaded' \subseteq MainObject \cup Library
        /\ UNCHANGED <<tag, mapped, origin, known, pc, table, open, shown, aliased, observed>>
    BY DEF TraceInv, Typed
  <1>2. Typed' /\ TagsRight' /\ Untouched' /\ HeldAll'
    BY <1>1 DEF TraceInv, Typed, TagsRight, Untouched, Tagging, HeldAll, Held, Showing
  <1>3. DueAll'
    BY <1>1 DEF TraceInv, DueAll, Due, Words, Occupant, Ahead, Showing
  <1>4. Seen'
    BY <1>1, SeenStays DEF TraceInv, Words
  <1> QED BY <1>2, <1>3, <1>4 DEF TraceInv

(* Showing words to the runtime. *)
LEMMA ShowWords ==
    ASSUME TraceInv, NEW t \in Threads, NEW s \in Sites, NEW size \in Nat, NEW buffer \in BOOLEAN,
           NEW words, pc[t].at = "idle", size >= 8,
           DOMAIN words = IF buffer THEN 1..(size \div 8) ELSE {1},
           \A k \in DOMAIN words : words[k] \in Values,
           Show(t, s, words, size, buffer)
    PROVE  TraceInv'
  <1> USE DEF Goto, tables
  <1> DEFINE q == [at |-> "lookup", site |-> s, words |-> words, size |-> size, k |-> 1,
                   buffer |-> buffer]
  <1>1. UNCHANGED <<tag, mapped, origin, known, loaded, scanned, table, open, observed>>
    BY DEF Show, heap
  <1>2. pc' = [pc EXCEPT ![t] = q] /\ pc'[t] = q /\ \A u \in Threads \ {t} : pc'[u] = pc[u]
    BY DEF Show, TraceInv, Typed
  <1>3. /\ Words \subseteq Words'
        /\ open[t] => \A k \in DOMAIN words : <<s, Occupant(words[k].addr)>> \in Words'
    <2>1. \A k \in DOMAIN words : words[k].into = TRUE \/ words[k].into = FALSE
      BY DEF Values
    <2>2. ASSUME open[t], NEW k \in DOMAIN words
          PROVE  <<s, Occupant(words[k].addr)>> \in Words'
      <3>1. CASE words[k].into = TRUE
        BY <2>2, <3>1 DEF Show, Words
      <3>2. CASE words[k].into = FALSE
        BY <2>2, <3>2 DEF Show, Words
      <3> QED BY <2>1, <3>1, <3>2
    <2> QED BY <2>2 DEF Show, Words
  <1>4. 1 \in DOMAIN words
    <2>1. size \div 8 >= 1
      OBVIOUS
    <2> QED BY <2>1
  <1>5. \A k \in DOMAIN words : /\ words[k] \in [addr : Addresses, into : BOOLEAN]
                                /\ words[k].into => words[k].addr \in known \cup loaded
    BY DEF TraceInv, Typed, Values, Addresses
  <1>6. Typed'
    <2>1. PcOK(pc'[t])
      BY <1>2, <1>5 DEF PcOK, Working
    <2> QED BY <1>1, <1>2, <2>1 DEF TraceInv, Typed, PcOK, Working
  <1>7. TagsRight'
    BY <1>1 DEF TraceInv, TagsRight
  <1>8. Untouched'
    BY <1>1, <1>2 DEF TraceInv, Untouched, Tagging
  <1>9. HeldAll'
    BY <1>1, <1>2, <1>5 DEF TraceInv, HeldAll, Held, Showing
  <1>10. DueAll'
    <2> SUFFICES ASSUME NEW u \in Threads, Showing(u)', open'[u]
                 PROVE  Due(pc[u])'
      BY DEF DueAll
    <2>0. \A a : Occupant(a)' = Occupant(a)
      BY <1>1 DEF Occupant
    <2>1. CASE u = t
      <3>1. \A k \in DOMAIN words : <<s, Occupant(words[k].addr)>> \in Words'
        BY <1>1, <1>3, <2>1
      <3>2. \E e \in Words' : e[1] = s
        BY <1>4, <3>1
      <3> QED BY <1>2, <2>0, <2>1, <3>1, <3>2 DEF Due, Ahead
    <2>2. CASE u # t
      <3>1. pc'[u] = pc[u] /\ Due(pc[u])
        BY <1>1, <1>2, <2>2 DEF TraceInv, DueAll, Showing
      <3> QED BY <1>3, <2>0, <3>1 DEF Due, Ahead
    <2> QED BY <2>1, <2>2
  <1>11. Seen'
    BY <1>1, <1>2, <1>3, SeenStays DEF TraceInv
  <1> QED BY <1>6, <1>7, <1>8, <1>9, <1>10, <1>11 DEF TraceInv

LEMMA ShowStep ==
    ASSUME TraceInv, NEW t \in Threads, TraceWord(t) \/ TraceBuffer(t)
    PROVE  TraceInv'
  <1>1. CASE TraceWord(t)
    <2>1. PICK s \in Sites, v \in Values : Show(t, s, <<v>>, 8, FALSE)
      BY <1>1 DEF TraceWord
    <2>2. DOMAIN <<v>> = {1} /\ <<v>>[1] = v /\ 8 >= 8
      OBVIOUS
    <2>3. \A k \in DOMAIN <<v>> : <<v>>[k] \in Values
      BY <2>2
    <2> QED BY <1>1, <2>1, <2>2, <2>3, ShowWords DEF TraceWord, At
  <1>2. CASE TraceBuffer(t)
    <2>1. PICK s \in Sites, size \in Sizes : \E words \in [1..(size \div 8) -> Values] :
             Show(t, s, words, size, TRUE)
      BY <1>2 DEF TraceBuffer
    <2>2. PICK words \in [1..(size \div 8) -> Values] : Show(t, s, words, size, TRUE)
      BY <2>1
    <2>3. size \in Nat /\ size >= 8
      BY RuntimeAssumption
    <2> QED BY <1>2, <2>2, <2>3, ShowWords DEF TraceBuffer, At
  <1> QED BY <1>1, <1>2

(* A thread goes on to another place, with the words it was shown. *)
LEMMA MovesOn ==
    ASSUME TraceInv, NEW t \in Threads, NEW q, pc' = [pc EXCEPT ![t] = q],
           UNCHANGED <<tag, mapped, origin, known, loaded, scanned, open, shown, aliased>>,
           pc[t].at \in {"lookup", "add"}, PcOK(q), q.at # "tag",
           q.at \in {"lookup", "add"} => /\ q.site = pc[t].site /\ q.words = pc[t].words
                                         /\ Ahead(q) \subseteq Ahead(pc[t])
    PROVE  TagsRight' /\ Untouched' /\ HeldAll' /\ DueAll'
           /\ (\A u \in Threads : PcOK(pc[u]))' /\ DOMAIN pc' = Threads
  <1>1. pc'[t] = q /\ \A u \in Threads \ {t} : pc'[u] = pc[u]
    BY DEF TraceInv, Typed
  <1>2. TagsRight' /\ Untouched'
    BY <1>1 DEF TraceInv, TagsRight, Untouched, Tagging
  <1>3. HeldAll'
    BY <1>1 DEF TraceInv, HeldAll, Held, Showing
  <1>4. DueAll'
    <2> SUFFICES ASSUME NEW u \in Threads, Showing(u)', open'[u]
                 PROVE  Due(pc[u])'
      BY DEF DueAll
    <2>0. (\A a : Occupant(a)' = Occupant(a)) /\ Words' = Words
      BY DEF Occupant, Words
    <2>1. /\ pc'[u].at \in {"lookup", "add"} /\ Due(pc[u])
          /\ pc'[u].site = pc[u].site /\ pc'[u].words = pc[u].words
          /\ Ahead(pc'[u]) \subseteq Ahead(pc[u])
      BY <1>1 DEF TraceInv, DueAll, Showing
    <2> QED BY <2>0, <2>1 DEF Due, Ahead
  <1>5. (\A u \in Threads : PcOK(pc[u]))'
    <2>1. \A u \in Threads : PcOK(pc'[u])
      BY <1>1 DEF TraceInv, Typed
    <2> QED BY <2>1 DEF PcOK, Working
  <1> QED BY <1>2, <1>3, <1>4, <1>5 DEF TraceInv, Typed

LEMMA LookupStep ==
    ASSUME TraceInv, NEW t \in Threads, Lookup(t)
    PROVE  TraceInv'
  <1> DEFINE p == pc[t]
             v == p.words[p.k]
  <1> USE DEF At, Goto, heap, tables
  <1>0. UNCHANGED <<tag, mapped, origin, known, loaded, scanned, table, open, shown, aliased>>
    BY DEF Lookup
  <1>1. p.at = "lookup" /\ Working(p)
    BY DEF Lookup, TraceInv, Typed, PcOK
  <1>2. ASSUME NEW q, pc' = [pc EXCEPT ![t] = q], PcOK(q), q.at \in {"idle", "lookup"},
               q.at = "lookup" => /\ q.site = p.site /\ q.words = p.words
                                  /\ Ahead(q) \subseteq Ahead(p),
               observed' = observed
        PROVE  TraceInv'
    <2>1. /\ TagsRight' /\ Untouched' /\ HeldAll' /\ DueAll'
          /\ (\A u \in Threads : PcOK(pc[u]))' /\ DOMAIN pc' = Threads
      BY <1>0, <1>1, <1>2, MovesOn
    <2>2. Typed'
      BY <1>0, <2>1 DEF TraceInv, Typed
    <2>3. pc'[t] = q /\ \A u \in Threads \ {t} : pc'[u] = pc[u]
      BY <1>2 DEF TraceInv, Typed
    <2>4. Seen'
      BY <1>0, <1>1, <1>2, <2>3, SeenStays DEF TraceInv, Words
    <2> QED BY <2>1, <2>2, <2>4 DEF TraceInv
  <1>3. CASE pc' = [pc EXCEPT ![t] = Idle] /\ observed' = observed
    BY <1>2, <1>3 DEF Idle, PcOK
  <1>4. CASE pc' = [pc EXCEPT ![t] = Looking(p, p.k + 1)] /\ observed' = observed
    <2> DEFINE q == Looking(p, p.k + 1)
    <2>1. PcOK(q) /\ q.at = "lookup" /\ q.site = p.site /\ q.words = p.words
      BY <1>1 DEF PcOK, Looking, Working
    <2>2. Ahead(q) \subseteq Ahead(p)
      <3>1. \A k \in DOMAIN p.words : k \in Int
        BY <1>1 DEF Working
      <3> QED BY <1>1, <3>1 DEF Ahead, Looking, Working
    <2> QED BY <1>2, <1>4, <2>1, <2>2
  <1>5. CASE /\ MoreWords(p) /\ MaybeNode(v) # Empty
             /\ pc' = [pc EXCEPT ![t] = [at |-> "add", site |-> p.site, words |-> p.words,
                           size |-> p.size, k |-> p.k, buffer |-> p.buffer, node |-> MaybeNode(v)]]
             /\ observed' = IF open[t] /\ v.into
                            THEN observed \cup {<<p.site, Occupant(v.addr)>>} ELSE observed
    <2> DEFINE n == MaybeNode(v)
               q == [at |-> "add", site |-> p.site, words |-> p.words,
                     size |-> p.size, k |-> p.k, buffer |-> p.buffer, node |-> n]
    <2>1. p.k \in DOMAIN p.words /\ v \in [addr : Addresses, into : BOOLEAN]
          /\ (v.into => v.addr \in known \cup loaded)
      BY <1>1, <1>5, WordRead DEF Working, TraceInv, HeldAll, Held, Showing
    <2>2. n \in Nodes /\ n \in {Occupant(v.addr), Untagged} /\ (v.into => n = Occupant(v.addr))
      BY <1>5, <2>1, WhatLiesThere DEF TraceInv
    <2> HIDE DEF n
    <2>3. open[t] => Justified(<<p.site, n>>)
      <3> SUFFICES ASSUME open[t]
                   PROVE  Justified(<<p.site, n>>)
        OBVIOUS
      <3>1. Due(p) /\ p.k \in Ahead(p)
        BY <1>1, <2>1 DEF TraceInv, DueAll, Showing, Ahead, Working
      <3>2. Occupant(v.addr) # Empty \/ n = Untagged
        BY <1>5, <2>2 DEF n
      <3>3. <<p.site, n>> \in Words \/ n = Untagged
        BY <2>2, <3>1, <3>2 DEF Due
      <3> QED BY <3>1, <3>3 DEF Due, Justified
    <2>4. PcOK(q) /\ q.at = "add" /\ q.site = p.site /\ q.words = p.words /\ Ahead(q) \subseteq Ahead(p)
          /\ q.node = n
      <3>1. \A k \in DOMAIN p.words : k \in Int
        BY <1>1 DEF Working
      <3> QED BY <1>1, <2>2, <3>1 DEF PcOK, Working, Ahead
    <2>5. pc' = [pc EXCEPT ![t] = q]
      BY <1>5 DEF n
    <2> HIDE DEF q, p, v
    <2>6. /\ TagsRight' /\ Untouched' /\ HeldAll' /\ DueAll'
          /\ (\A u \in Threads : PcOK(pc[u]))' /\ DOMAIN pc' = Threads
      BY <1>0, <1>1, <2>4, <2>5, MovesOn DEF p
    <2>7. Typed'
      BY <1>0, <2>6 DEF TraceInv, Typed
    <2>8. pc'[t] = q /\ \A u \in Threads \ {t} : pc'[u] = pc[u]
      BY <2>5 DEF TraceInv, Typed
    <2>9. Seen'
      <3>0. \A e : Justified(e)' <=> Justified(e)
        BY <1>0 DEF Justified, Words
      <3>1. \A u \in Threads : \A e \in table'[u] : Justified(e)'
        BY <1>0, <3>0 DEF TraceInv, Seen
      <3>2. \A u \in Threads : Adding(u, <<pc[u].site, pc[u].node>>)' => Justified(<<pc[u].site, pc[u].node>>)'
        <4> TAKE u \in Threads
        <4> HAVE Adding(u, <<pc[u].site, pc[u].node>>)'
        <4>1. CASE u = t
          <5>1. open[t]
            BY <1>0, <4>1 DEF Adding
          <5>2. <<pc[u].site, pc[u].node>>' = <<p.site, n>>
            BY <2>4, <2>8, <4>1
          <5> QED BY <2>3, <5>1, <5>2, <1>0 DEF Justified, Words
        <4>2. CASE u # t
          <5>1. pc'[u] = pc[u] /\ Adding(u, <<pc[u].site, pc[u].node>>)
            BY <1>0, <2>8, <4>2 DEF Adding
          <5>2. Justified(<<pc[u].site, pc[u].node>>)
            BY <5>1 DEF TraceInv, Seen
          <5> QED BY <1>0, <5>1, <5>2 DEF Justified, Words
        <4> QED BY <4>1, <4>2
      <3>3. ASSUME NEW e \in observed'
            PROVE  \E u \in Threads : e \in table'[u] \/ Adding(u, e)'
        <4>1. CASE e \in observed
          <5>1. PICK u \in Threads : e \in table[u] \/ Adding(u, e)
            BY <4>1 DEF TraceInv, Seen
          <5>2. Adding(u, e) => u # t
            BY <1>1 DEF Adding, p
          <5> QED BY <1>0, <2>8, <5>1, <5>2 DEF Adding
        <4>2. CASE e \notin observed
          <5>1. open[t] /\ v.into /\ e = <<p.site, Occupant(v.addr)>>
            BY <1>5, <3>3, <4>2 DEF p, v
          <5>2. e = <<p.site, n>>
            BY <2>2, <5>1
          <5> QED BY <1>0, <2>4, <2>8, <5>1, <5>2 DEF Adding
        <4> QED BY <4>1, <4>2
      <3> QED BY <3>1, <3>2, <3>3 DEF Seen
    <2> QED BY <2>6, <2>7, <2>9 DEF TraceInv
  <1> QED BY <1>3, <1>4, <1>5 DEF Lookup

LEMMA AddStep ==
    ASSUME TraceInv, NEW t \in Threads, AddEdge(t)
    PROVE  TraceInv'
  <1> DEFINE p == pc[t]
             q == Looking(p, p.k + 1)
             e == <<p.site, p.node>>
  <1> USE DEF At, Goto, heap, tables, history
  <1>0. UNCHANGED <<tag, mapped, origin, known, loaded, scanned, open, shown, aliased, observed>>
    BY DEF AddEdge
  <1>1. p.at = "add" /\ Working(p) /\ p.node \in Nodes
    BY DEF AddEdge, TraceInv, Typed, PcOK
  <1>2. /\ pc' = [pc EXCEPT ![t] = q]
        /\ pc'[t] = q /\ \A u \in Threads \ {t} : pc'[u] = pc[u]
    BY DEF AddEdge, TraceInv, Typed
  <1>3. table' = IF open[t] THEN [table EXCEPT ![t] = @ \cup {e}] ELSE table
    BY DEF AddEdge
  <1>4. PcOK(q) /\ q.at = "lookup" /\ q.site = p.site /\ q.words = p.words /\ Ahead(q) \subseteq Ahead(p)
    <2>1. \A k \in DOMAIN p.words : k \in Int
      BY <1>1 DEF Working
    <2> QED BY <1>1, <2>1 DEF PcOK, Looking, Working, Ahead
  <1>5. /\ TagsRight' /\ Untouched' /\ HeldAll' /\ DueAll'
        /\ (\A u \in Threads : PcOK(pc[u]))' /\ DOMAIN pc' = Threads
    <2> HIDE DEF q
    <2> QED BY <1>0, <1>1, <1>2, <1>4, MovesOn
  <1>6. e \in Sites \X Nodes
    BY <1>1 DEF Working
  <1> HIDE DEF q, e
  <1>7. table' \in [Threads -> SUBSET (Sites \X Nodes)]
    BY <1>3, <1>6 DEF TraceInv, Typed
  <1>8. Typed'
    BY <1>0, <1>5, <1>7 DEF TraceInv, Typed
  <1>9. Seen'
    <2>0. \A x : Justified(x)' <=> Justified(x)
      BY <1>0 DEF Justified, Words
    <2>1. \A u \in Threads : \A x \in table'[u] : Justified(x)'
      <3>1. open[t] => Justified(e)
        BY <1>1 DEF TraceInv, Seen, Adding, e
      <3>2. \A u \in Threads : \A x \in table'[u] : Justified(x)
        BY <1>3, <3>1 DEF TraceInv, Typed, Seen
      <3> QED BY <2>0, <3>2
    <2>2. \A u \in Threads : Adding(u, <<pc[u].site, pc[u].node>>)' => Justified(<<pc[u].site, pc[u].node>>)'
      <3> TAKE u \in Threads
      <3> HAVE Adding(u, <<pc[u].site, pc[u].node>>)'
      <3>1. u # t /\ pc'[u] = pc[u] /\ Adding(u, <<pc[u].site, pc[u].node>>)
        BY <1>0, <1>2, <1>4 DEF Adding
      <3>2. Justified(<<pc[u].site, pc[u].node>>)
        BY <3>1 DEF TraceInv, Seen
      <3> QED BY <1>0, <3>1, <3>2 DEF Justified, Words
    <2>3. ASSUME NEW x \in observed
          PROVE  \E u \in Threads : x \in table'[u] \/ Adding(u, x)'
      <3>1. PICK u \in Threads : x \in table[u] \/ Adding(u, x)
        BY DEF TraceInv, Seen
      <3>2. CASE x \in table[u]
        BY <1>3, <3>2 DEF TraceInv, Typed
      <3>3. CASE Adding(u, x) /\ u = t
        BY <1>3, <3>3 DEF TraceInv, Typed, Adding, e
      <3>4. CASE Adding(u, x) /\ u # t
        BY <1>0, <1>2, <3>4 DEF Adding
      <3> QED BY <3>1, <3>2, <3>3, <3>4
    <2> QED BY <1>0, <2>1, <2>2, <2>3 DEF Seen
  <1> QED BY <1>5, <1>8, <1>9 DEF TraceInv

LEMMA ExitStep ==
    ASSUME TraceInv, NEW t \in Threads, ThreadExit(t)
    PROVE  TraceInv'
  <1> USE DEF ThreadExit, At, heap, tables, history
  <1>1. /\ UNCHANGED <<tag, mapped, origin, known, loaded, scanned, pc, table, shown, aliased, observed>>
        /\ open' = [open EXCEPT ![t] = FALSE] /\ pc[t].at = "idle"
    OBVIOUS
  <1>2. \A u \in Threads : pc[u].at # "idle" => open'[u] = open[u]
    BY <1>1 DEF TraceInv, Typed
  <1>3. Typed' /\ TagsRight' /\ Untouched' /\ HeldAll'
    BY <1>1 DEF TraceInv, Typed, TagsRight, Untouched, Tagging, HeldAll, Held, Showing
  <1>4. DueAll'
    BY <1>1, <1>2 DEF TraceInv, DueAll, Due, Words, Occupant, Ahead, Showing
  <1>5. Seen'
    BY <1>1, <1>2 DEF TraceInv, Seen, Justified, Words, Adding
  <1> QED BY <1>3, <1>4, <1>5 DEF TraceInv

LEMMA RunStep ==
    ASSUME TraceInv, (\E t \in Threads : ThreadStep(t)) \/ LoseSlab
    PROVE  TraceInv' /\ stage = "run" /\ stage' = "run"
  <1>1. TraceInv'
    BY TracedMallocStep, TagStep, ForeignStep, FreeStep, LossStep, LibraryStep, ShowStep, LookupStep,
       AddStep, ExitStep DEF ThreadStep
  <1>2. stage = "run" /\ stage' = stage
    BY DEF ThreadStep, LoseSlab, At, Malloc, TagAllocation, ForeignMalloc, Free, Dlopen, Rescan,
           TraceWord, TraceBuffer, Show, Lookup, AddEdge, ThreadExit
  <1> QED BY <1>1, <1>2

LEMMA InvNext ==
    ASSUME TraceInv, [CheckNext]_allVars
    PROVE  TraceInv'
  <1>1. CASE Run
    BY <1>1, RunStep DEF Run
  <1>2. CASE TakeCore \/ ReadEntry \/ Conclude \/ UNCHANGED allVars
    BY <1>2, InvStutter DEF TakeCore, Stop, ReadEntry, Conclude, allVars, runtimeVars, tables
  <1> QED BY <1>1, <1>2 DEF CheckNext

(* Every edge in a table is one that a shown pointer, or a word that only  *)
(* had the address, had at some moment while it was shown, however the     *)
(* other threads free and allocate.  Tables are the files that             *)
(* trace_runtime.cpp and exports.cpp write.                                *)
THEOREM Truthful == CheckSpec => []RecordsTruthful
  <1>1. CheckInit => TraceInv
    BY InvInit DEF CheckInit
  <1>2. TraceInv /\ [CheckNext]_allVars => TraceInv'
    BY InvNext
  <1>3. TraceInv => RecordsTruthful
    BY DEF TraceInv, Seen, Justified, Words, RecordsTruthful
  <1> QED BY <1>1, <1>2, <1>3, PTL DEF CheckSpec

----------------------------------------------------------------------------
(* The check.                                                              *)

Entries == UNION {{<<e[1], epoch[t], e[2]>> : e \in table[t]} : t \in Threads}
Lacking(e) == e[1] \in SiteTable /\ e[2] \in SiteTable \cup Symbols /\ e \notin static
Handled(x) ==
    /\ SiteFound(x)
    /\ Compared(x) /\ <<x[1], x[3]>> \notin static => <<x[1], x[3]>> \in missing_edges

Checked ==
    /\ stage = "run" => unread = {} /\ missing_edges = {} /\ verdict = "none"
    /\ unread \subseteq Entries
    /\ \A m \in missing_edges : Lacking(m) /\ \E t \in Threads : m \in table[t]
    /\ stage # "run" /\ verdict # "error" => \A x \in Entries \ unread : Handled(x)
    /\ verdict \in {"ok", "missing"} => unread = {}
    /\ verdict = "ok" => missing_edges = {}
    /\ verdict = "missing" => missing_edges # {}
    /\ verdict = "error" => \E x \in Entries : ~SiteFound(x)

(* The edge of an entry is in a table. *)
LEMMA EntryEdge ==
    ASSUME Typed, NEW x \in Entries
    PROVE  \E t \in Threads : <<x[1], x[3]>> \in table[t]
  <1>1. PICK t \in Threads : \E f \in table[t] : x = <<f[1], epoch[t], f[2]>>
    BY DEF Entries
  <1>2. PICK e \in table[t] : x = <<e[1], epoch[t], e[2]>> /\ e \in Sites \X Nodes
    BY <1>1 DEF Typed
  <1>3. e = <<x[1], x[3]>>
    BY <1>2
  <1> QED BY <1>2, <1>3

LEMMA CheckedNext ==
    ASSUME TraceInv, Checked, [CheckNext]_allVars
    PROVE  Checked'
  <1>1. CASE Run
    <2>1. stage = "run" /\ stage' = "run" /\ UNCHANGED checkVars
      BY <1>1, RunStep DEF Run
    <2> QED BY <2>1 DEF Checked, checkVars
  <1>2. CASE TakeCore
    <2>1. /\ stage = "run" /\ stage' = "stopped" /\ UNCHANGED <<table, epoch, missing_edges, verdict>>
          /\ unread' = Entries
      BY <1>2 DEF TakeCore, Stop, Entries, tables
    <2>2. Entries' = Entries
      BY <2>1 DEF Entries
    <2> QED BY <2>1, <2>2 DEF Checked
  <1>3. CASE ReadEntry
    <2>1. PICK x \in unread :
             /\ unread' = unread \ {x}
             /\ IF SiteFound(x)
                THEN /\ missing_edges' = IF Compared(x) /\ <<x[1], x[3]>> \notin static
                                         THEN missing_edges \cup {<<x[1], x[3]>>}
                                         ELSE missing_edges
                     /\ verdict' = verdict
                ELSE verdict' = "error" /\ missing_edges' = missing_edges
      BY <1>3 DEF ReadEntry, MaskedSite
    <2>2. /\ stage = "stopped" /\ verdict = "none"
          /\ UNCHANGED <<table, epoch, stage, static>>
      BY <1>3 DEF ReadEntry, runtimeVars, tables
    <2>3. Entries' = Entries /\ x \in Entries
      BY <2>1, <2>2 DEF Entries, Checked
    <2>4. ASSUME NEW m \in missing_edges'
          PROVE  Lacking(m) /\ \E t \in Threads : m \in table[t]
      <3>1. CASE m \in missing_edges
        BY <3>1 DEF Checked
      <3>2. CASE m \notin missing_edges
        <4>1. m = <<x[1], x[3]>> /\ SiteFound(x) /\ Compared(x) /\ m \notin static
          BY <2>1, <3>2
        <4>2. Lacking(m)
          BY <4>1 DEF Lacking, SiteFound, MaskedSite, Compared
        <4> QED BY <2>3, <4>1, <4>2, EntryEdge DEF TraceInv
      <3> QED BY <3>1, <3>2
    <2>5. ASSUME verdict' # "error", NEW y \in Entries \ unread'
          PROVE  /\ SiteFound(y)
                 /\ Compared(y) /\ <<y[1], y[3]>> \notin static => <<y[1], y[3]>> \in missing_edges'
      <3>1. CASE y = x
        BY <2>1, <2>5, <3>1
      <3>2. CASE y # x
        <4>1. y \in Entries \ unread
          BY <2>1, <2>5, <3>2
        <4>2. Handled(y)
          BY <2>2, <4>1 DEF Checked
        <4>3. missing_edges \subseteq missing_edges'
          BY <2>1
        <4> QED BY <4>2, <4>3 DEF Handled
      <3> QED BY <3>1, <3>2
    <2>6. (\A y \in Entries \ unread : Handled(y))' \/ verdict' = "error"
      BY <2>2, <2>3, <2>5 DEF Handled, SiteFound, MaskedSite, Compared
    <2>7. \A m \in missing_edges' : Lacking(m)' /\ \E t \in Threads : m \in table'[t]
      BY <2>2, <2>4 DEF Lacking
    <2>8. verdict' = "error" => \E y \in Entries' : ~SiteFound(y)'
      BY <2>1, <2>2, <2>3 DEF SiteFound, MaskedSite
    <2>9. stage' # "run" /\ unread' \subseteq Entries' /\ verdict' \in {"none", "error"}
      BY <2>1, <2>2, <2>3 DEF Checked
    <2> QED BY <2>6, <2>7, <2>8, <2>9 DEF Checked
  <1>4. CASE Conclude
    <2>1. /\ stage = "stopped" /\ verdict = "none" /\ unread = {}
          /\ UNCHANGED <<table, epoch, stage, static, unread, missing_edges>>
          /\ verdict' = IF missing_edges = {} THEN "ok" ELSE "missing"
      BY <1>4 DEF Conclude, runtimeVars, tables
    <2>2. Entries' = Entries
      BY <2>1 DEF Entries
    <2> QED BY <2>1, <2>2 DEF Checked, Lacking, Handled, SiteFound, MaskedSite, Compared
  <1>5. CASE UNCHANGED allVars
    BY <1>5 DEF allVars, runtimeVars, tables, checkVars, Checked, Entries, Lacking, Handled, SiteFound,
                MaskedSite, Compared
  <1> QED BY <1>1, <1>2, <1>3, <1>4, <1>5 DEF CheckNext

LEMMA CheckedExact ==
    ASSUME TraceInv, Checked
    PROVE  VerdictExact
  <1>1. ASSUME verdict = "missing"
        PROVE  \E e \in Words : Lacking(e)
    <2>1. PICK m \in missing_edges : Lacking(m) /\ \E t \in Threads : m \in table[t]
      BY <1>1 DEF Checked
    <2>2. Justified(m)
      BY <2>1 DEF TraceInv, Seen
    <2>3. m[2] # Untagged
      BY <2>1, RuntimeAssumption, CheckAssumption DEF Lacking
    <2> QED BY <2>1, <2>2, <2>3 DEF Justified
  <1>2. ASSUME verdict = "ok", NEW e \in Written
        PROVE  e[1] \in SiteTable /\ ~Lacking(e)
    <2>1. PICK t \in Threads : e \in table[t]
      BY DEF Written, TraceInv, Seen, Adding
    <2>2. e \in Sites \X Nodes
      BY <2>1 DEF TraceInv, Typed
    <2> DEFINE x == <<e[1], epoch[t], e[2]>>
    <2>3. x \in Entries
      BY <2>1 DEF Entries
    <2>4. x[1] = e[1] /\ x[3] = e[2] /\ <<x[1], x[3]>> = e
      BY <2>2
    <2>5. SiteFound(x) /\ (Compared(x) /\ e \notin static => e \in missing_edges)
      BY <1>2, <2>3, <2>4 DEF Checked, Handled
    <2>6. missing_edges = {}
      BY <1>2 DEF Checked
    <2> QED BY <2>4, <2>5, <2>6 DEF SiteFound, MaskedSite, Compared, Lacking
  <1>3. ASSUME verdict = "error"
        PROVE  \E e \in Words : e[1] \notin SiteTable
    <2>1. PICK x \in Entries : ~SiteFound(x)
      BY <1>3 DEF Checked
    <2>2. PICK t \in Threads : <<x[1], x[3]>> \in table[t]
      BY EntryEdge DEF TraceInv
    <2>3. Justified(<<x[1], x[3]>>)
      BY <2>2 DEF TraceInv, Seen
    <2> QED BY <2>1, <2>3 DEF Justified, SiteFound, MaskedSite
  <1> QED BY <1>1, <1>2, <1>3 DEF VerdictExact, Lacking, Words

(* checkPointsToAgainstTrace() succeeds only if the static relation has    *)
(* all that the runtime found and wrote, fails only if it lacks an edge of *)
(* a shown word, and gives up only if a site is unknown.                   *)
THEOREM Exact == CheckSpec => []VerdictExact
  <1>1. CheckInit => TraceInv /\ Checked
    BY InvInit DEF CheckInit, RuntimeInit, Checked
  <1>2. TraceInv /\ Checked /\ [CheckNext]_allVars => (TraceInv /\ Checked)'
    BY InvNext, CheckedNext
  <1>3. TraceInv /\ Checked => VerdictExact
    BY CheckedExact
  <1> QED BY <1>1, <1>2, <1>3, PTL DEF CheckSpec

----------------------------------------------------------------------------
(* The assertions of the runtime.                                          *)

Room ==
    /\ threshold \in [Threads -> Nat \ {0}] /\ epoch \in [Threads -> {0, 1}]
    /\ \A t \in Threads : IsFiniteSet(table[t]) /\ Cardinality(table[t]) <= threshold[t]
Scans == scanned \subseteq loaded /\ loaded \in {MainObject, MainObject \cup Library}
Asserted == Room /\ Scans /\ (aborted => mapped # Blocks)

(* An edge more, and twice the threshold if the table was full. *)
LEMMA OneMore ==
    ASSUME NEW S, IsFiniteSet(S), NEW e, NEW n \in Nat \ {0}, Cardinality(S) <= n
    PROVE  /\ IsFiniteSet(S \cup {e})
           /\ Cardinality(S \cup {e}) <= IF Cardinality(S) >= n THEN 2 * n ELSE n
  <1>1. IsFiniteSet(S \cup {e}) /\ Cardinality(S) \in Nat
    BY FS_AddElement, FS_CardinalityType
  <1>2. Cardinality(S \cup {e}) = Cardinality(S) \/ Cardinality(S \cup {e}) = Cardinality(S) + 1
    BY FS_AddElement
  <1> QED BY <1>1, <1>2

LEMMA AssertedHeap ==
    ASSUME TraceInv, Asserted, NEW t \in Threads,
           Malloc(t) \/ TagAllocation(t) \/ ForeignMalloc(t) \/ Free(t)
    PROVE  Asserted'
  <1> USE DEF At, Goto, tables
  <1>1. UNCHANGED <<mapped, table, epoch, threshold, loaded, scanned>>
    BY DEF Malloc, TagAllocation, ForeignMalloc, Free
  <1>2. Room' /\ Scans'
    BY <1>1 DEF Asserted, Room, Scans
  <1>3. aborted' = aborted \/ mapped # Blocks
    <2>1. CASE TagAllocation(t)
      <3>1. pc[t].block \in Blocks /\ tag[pc[t].block] = Untagged
        BY <2>1 DEF TagAllocation, TraceInv, Typed, PcOK, Untouched, Tagging
      <3> QED BY <2>1, <3>1 DEF TagAllocation
    <2>2. CASE ~TagAllocation(t)
      BY <2>2 DEF Malloc, ForeignMalloc, Free
    <2> QED BY <2>1, <2>2
  <1> QED BY <1>1, <1>2, <1>3 DEF Asserted

(* A lost slab is the only reason to abort. *)
LEMMA AssertedLoss ==
    ASSUME TraceInv, Asserted, LoseSlab
    PROVE  Asserted'
  <1>1. mapped' # Blocks
    BY DEF LoseSlab, TraceInv, Typed
  <1> QED BY <1>1 DEF LoseSlab, Asserted, Room, Scans, tables

LEMMA AssertedTables ==
    ASSUME TraceInv, Asserted, NEW t \in Threads,
           Dlopen(t) \/ Rescan(t) \/ TraceWord(t) \/ TraceBuffer(t) \/ Lookup(t) \/ AddEdge(t)
              \/ ThreadExit(t)
    PROVE  Asserted'
  <1> USE DEF At, Goto, tables, heap
  <1>1. UNCHANGED <<mapped, aborted>>
    BY DEF Dlopen, Rescan, TraceWord, TraceBuffer, Show, Lookup, AddEdge, ThreadExit
  <1>2. Scans'
    BY DEF Dlopen, Rescan, TraceWord, TraceBuffer, Show, Lookup, AddEdge, ThreadExit, Asserted, Scans
  <1>3. Room'
    <2>1. CASE UNCHANGED <<table, epoch, threshold>>
      BY <2>1 DEF Asserted, Room
    <2>2. CASE ~ UNCHANGED <<table, epoch, threshold>>
      <3> DEFINE e == <<pc[t].site, pc[t].node>>
      <3>1. /\ table' = [table EXCEPT ![t] = @ \cup {e}]
            /\ epoch' = [epoch EXCEPT ![t] = IF Resize(t) THEN 1 - @ ELSE @]
            /\ threshold' = [threshold EXCEPT ![t] = IF Resize(t) THEN 2 * @ ELSE @]
        BY <2>2 DEF Dlopen, Rescan, TraceWord, TraceBuffer, Show, Lookup, AddEdge, ThreadExit
      <3>2. /\ IsFiniteSet(table[t] \cup {e})
            /\ Cardinality(table[t] \cup {e})
                  <= IF Cardinality(table[t]) >= threshold[t] THEN 2 * threshold[t] ELSE threshold[t]
        BY OneMore DEF Asserted, Room
      <3>3. IsFiniteSet(table'[t]) /\ Cardinality(table'[t]) <= threshold'[t]
        BY <3>1, <3>2 DEF TraceInv, Typed, Asserted, Room, Resize
      <3>4. \A u \in Threads \ {t} : table'[u] = table[u] /\ threshold'[u] = threshold[u]
        BY <3>1
      <3>5. threshold' \in [Threads -> Nat \ {0}] /\ epoch' \in [Threads -> {0, 1}]
        BY <3>1 DEF Asserted, Room
      <3> QED BY <3>3, <3>4, <3>5 DEF Asserted, Room
    <2> QED BY <2>1, <2>2
  <1> QED BY <1>1, <1>2, <1>3 DEF Asserted

LEMMA AssertedNext ==
    ASSUME TraceInv, Asserted, [CheckNext]_allVars
    PROVE  Asserted'
  <1>1. CASE Run
    BY <1>1, AssertedHeap, AssertedTables, AssertedLoss DEF Run, ThreadStep
  <1>2. CASE TakeCore \/ ReadEntry \/ Conclude \/ UNCHANGED allVars
    <2>1. UNCHANGED <<mapped, loaded, scanned, table, epoch, threshold, aborted>>
      BY <1>2 DEF TakeCore, Stop, ReadEntry, Conclude, allVars, runtimeVars, tables, heap
    <2> QED BY <2>1 DEF Asserted, Room, Scans
  <1> QED BY <1>1, <1>2 DEF CheckNext

LEMMA AssertedInit == RuntimeInit => Asserted
  BY RuntimeAssumption, FS_EmptySet DEF RuntimeInit, Asserted, Room, Scans

Phases == stage \in {"run", "stopped"} /\ verdict \in {"none", "ok", "missing", "error"}
LEMMA PhasesNext ==
    ASSUME TraceInv, Phases, [CheckNext]_allVars
    PROVE  Phases'
  <1>1. CASE Run
    BY <1>1, RunStep DEF Run, Phases, checkVars
  <1>2. CASE TakeCore \/ ReadEntry \/ Conclude \/ UNCHANGED allVars
    BY <1>2 DEF TakeCore, Stop, ReadEntry, Conclude, allVars, runtimeVars, checkVars, Phases
  <1> QED BY <1>1, <1>2 DEF CheckNext

(* The assertion of add_edge(), that a table has room, never fails, and    *)
(* those of setTag(), that the slab is found and nobody has tagged the     *)
(* element, fail only when a slab has been lost.                           *)
THEOREM AssertionsHold == CheckSpec => []CheckTypeOK
  <1>1. CheckInit => TraceInv /\ Checked /\ Asserted /\ Phases
    BY InvInit, AssertedInit DEF CheckInit, RuntimeInit, Checked, Phases
  <1>2. TraceInv /\ Checked /\ Asserted /\ Phases /\ [CheckNext]_allVars
           => (TraceInv /\ Checked /\ Asserted /\ Phases)'
    BY InvNext, CheckedNext, AssertedNext, PhasesNext
  <1>3. TraceInv /\ Checked /\ Asserted /\ Phases => CheckTypeOK
    <2> SUFFICES ASSUME TraceInv, Checked, Asserted, Phases
                 PROVE  CheckTypeOK
      OBVIOUS
    <2>1. RuntimeOK
      BY DEF TraceInv, Typed, Tags, Asserted, Room, Scans, RuntimeOK
    <2>2. \A m \in missing_edges : m \in SiteTable \X (SiteTable \cup Symbols)
      <3> TAKE m \in missing_edges
      <3>1. Lacking(m) /\ m \in Sites \X Nodes
        BY DEF Checked, TraceInv, Typed
      <3> QED BY <3>1 DEF Lacking
    <2> QED BY <2>1, <2>2 DEF CheckTypeOK, Phases
  <1> QED BY <1>1, <1>2, <1>3, PTL DEF CheckSpec
=============================================================================
