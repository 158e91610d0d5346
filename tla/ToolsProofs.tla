----------------------------- MODULE ToolsProofs -----------------------------
(***************************************************************************)
(* The two tools that read edges.                                          *)
(*                                                                         *)
(* The points-to generator: its first pass computes, for every object and  *)
(* every order of reading it, the join of all the object says of its       *)
(* symbols, or refuses it because that join does not exist; its second     *)
(* pass writes bodies that agree with that join, in a directory that may   *)
(* hold what any number of earlier runs left there.                        *)
(*                                                                         *)
(* bracelet-edges: the directories it leaves hold, for every object, the   *)
(* last record of each function and the whole of the nodes and units that  *)
(* belong to it.                                                           *)
(***************************************************************************)
EXTENDS PointsToEmit, FactsFiles, DataInduction

(***************************************************************************)
(* The points-to generator.                                                *)
(***************************************************************************)

(* What was said by the descriptions before j, and by those edges of the   *)
(* j-th that are not in E.                                                 *)
Read(o, j, E, k) ==
    IF k = j THEN o.fns[k].edges \ E ELSE IF k < j THEN o.fns[k].edges ELSE {}
ReadFacts(o, j, E, k) == UNION {PairFacts(o, k, e) : e \in Read(o, j, E, k)}
EndFacts(o, j, k) == IF k < j THEN {EndFact(o, k)} ELSE {}
SaidOf(o, j, E, k) == ReadFacts(o, j, E, k) \cup EndFacts(o, j, k)
Said(o, j, E) == UNION {SaidOf(o, j, E, k) : k \in 1..Len(o.fns)}

(* The inductive invariant of the pass: what was said, but for the pending *)
(* calls, is below node_states; node_states has nothing that was not said; *)
(* a node is not checked again only if its override was said.              *)
SaidIsJoined ==
    \A f \in Said(obj, i, edges) \ calls :
        /\ f[1] \in DOMAIN node_states
        /\ f[2] = Undefined \/ node_states[f[1]] = f[2]
StatesSaid == \A n \in DOMAIN node_states : <<n, node_states[n]>> \in Said(obj, i, edges)
CallsSaid == calls \subseteq Said(obj, i, edges)
CheckedSaid ==
    \A n \in checked : Overridden(obj, n) => <<n, OverrideState(obj, n)>> \in Said(obj, i, edges)
Reading ==
    /\ i \in 0..(Len(obj.fns) + 1) /\ nargs \in Nat
    /\ i \in 1..Len(obj.fns) => /\ edges \subseteq obj.fns[i].edges
                                /\ IsNargs(obj.fns[i].edges \ edges, nargs)
    /\ i \notin 1..Len(obj.fns) => edges = {}
    /\ node_states = [n \in DOMAIN node_states |-> node_states[n]]

PassInv == SaidIsJoined /\ StatesSaid /\ CallsSaid /\ CheckedSaid /\ Reading

IInv ==
    /\ obj \in Objects
    /\ phase \in Phases
    /\ phase = "pass" => PassInv
    /\ InitialPassIsJoin

USE ObjectsAssumption, OverridesAssumption, MaxRunsAssumption

----------------------------------------------------------------------------
(* Facts.                                                                  *)

\* What the assumption says of one object.
LEMMA ObjectTypes ==
  ASSUME NEW o \in Objects
  PROVE  /\ Len(o.fns) \in Nat
         /\ \A k \in 1..Len(o.fns) : \A e \in o.fns[k].edges : e.n \in Nat
<1> DEFINE Edge == [kind : EdgeKinds, a : (DOMAIN o.name) \X Int, b : (DOMAIN o.name) \X Int,
                    n : Nat]
           Description == [fn : DOMAIN o.name, edges : SUBSET Edge]
<1>1. o.fns \in Seq(Description)
  OBVIOUS
<1> HIDE DEF Description
<1>2. Len(o.fns) \in Nat /\ \A k \in 1..Len(o.fns) : o.fns[k] \in Description
  BY <1>1
<1>3. ASSUME NEW k \in 1..Len(o.fns), NEW e \in o.fns[k].edges PROVE e.n \in Nat
  <2>1. o.fns[k].edges \in SUBSET Edge
    BY <1>2 DEF Description
  <2> QED
    BY <2>1
<1> QED
  BY <1>2, <1>3

\* Membership in the facts said so far, without the unions.
LEMMA SaidMember ==
  ASSUME NEW o, NEW j, NEW E, NEW f
  PROVE  f \in Said(o, j, E) <=>
           \E k \in 1..Len(o.fns) :
             \/ k < j /\ f = EndFact(o, k)
             \/ \E e \in o.fns[k].edges :
                  /\ IF k = j THEN e \notin E ELSE k < j
                  /\ f \in PairFacts(o, k, e)
<1>1. f \in Said(o, j, E) <=> \E k \in 1..Len(o.fns) : f \in SaidOf(o, j, E, k)
  BY DEF Said
<1>2. \A k : f \in SaidOf(o, j, E, k) <=>
                (k < j /\ f = EndFact(o, k)) \/ f \in ReadFacts(o, j, E, k)
  BY DEF SaidOf, EndFacts
<1>3. \A k : f \in ReadFacts(o, j, E, k) <=>
                \E e \in Read(o, j, E, k) : f \in PairFacts(o, k, e)
  BY DEF ReadFacts
<1>4. \A k, e : e \in Read(o, j, E, k) <=>
                   e \in o.fns[k].edges /\ IF k = j THEN e \notin E ELSE k < j
  BY DEF Read
<1> QED
  BY <1>1, <1>2, <1>3, <1>4

\* And in all facts of an object.
LEMMA AllMember ==
  ASSUME NEW o, NEW f
  PROVE  f \in AllFacts(o) <=>
           \E k \in 1..Len(o.fns) :
             \/ f = EndFact(o, k)
             \/ \E e \in o.fns[k].edges : f \in PairFacts(o, k, e)
<1>1. f \in AllFacts(o) <=> \E k \in 1..Len(o.fns) : f \in DescriptionFacts(o, k)
  BY DEF AllFacts
<1>2. \A k : f \in DescriptionFacts(o, k) <=>
                f = EndFact(o, k) \/ \E e \in o.fns[k].edges : f \in PairFacts(o, k, e)
  <2>1. \A k : f \in EdgesFacts(o, k) <=> \E e \in o.fns[k].edges : f \in PairFacts(o, k, e)
    BY DEF EdgesFacts
  <2> QED
    BY <2>1 DEF DescriptionFacts
<1> QED
  BY <1>1, <1>2

\* Facts are pairs.
LEMMA PairsAreFacts ==
  ASSUME NEW o, NEW k, NEW e, NEW f \in PairFacts(o, k, e)
  PROVE  f = <<f[1], f[2]>>
  BY DEF PairFacts, EdgeFacts, OverrideFacts

LEMMA SaidArePairs ==
  ASSUME NEW o, NEW j, NEW E, NEW f \in Said(o, j, E)
  PROVE  f = <<f[1], f[2]>>
<1>1. PICK k \in 1..Len(o.fns) :
        \/ k < j /\ f = EndFact(o, k)
        \/ \E e \in o.fns[k].edges : f \in PairFacts(o, k, e)
  BY SaidMember
<1>2. CASE f = EndFact(o, k)
  BY <1>2 DEF EndFact
<1>3. CASE \E e \in o.fns[k].edges : f \in PairFacts(o, k, e)
  BY <1>3, PairsAreFacts
<1> QED
  BY <1>1, <1>2, <1>3

\* What was said is part of all that is to say, and at the end all of it.
LEMMA SaidOfAll ==
  ASSUME NEW o, NEW j, NEW E
  PROVE  Said(o, j, E) \subseteq AllFacts(o)
  BY SaidMember, AllMember

LEMMA AllSaid ==
  ASSUME NEW o \in Objects
  PROVE  Said(o, Len(o.fns) + 1, {}) = AllFacts(o)
<1>1. \A k \in 1..Len(o.fns) : k < Len(o.fns) + 1 /\ k # Len(o.fns) + 1
  BY ObjectTypes
<1>2. ASSUME NEW f PROVE f \in AllFacts(o) => f \in Said(o, Len(o.fns) + 1, {})
  BY <1>1, SaidMember, AllMember
<1> QED
  BY <1>2, SaidOfAll

\* Visiting an edge says its facts and nothing else.
LEMMA SayEdge ==
  ASSUME NEW o, NEW j \in 1..Len(o.fns), NEW E, E \subseteq o.fns[j].edges, NEW e \in E
  PROVE  Said(o, j, E \ {e}) = Said(o, j, E) \cup PairFacts(o, j, e)
<1>1. ASSUME NEW f, f \in Said(o, j, E \ {e})
      PROVE  f \in Said(o, j, E) \cup PairFacts(o, j, e)
  <2>1. PICK k \in 1..Len(o.fns) :
          \/ k < j /\ f = EndFact(o, k)
          \/ \E d \in o.fns[k].edges :
               /\ IF k = j THEN d \notin E \ {e} ELSE k < j
               /\ f \in PairFacts(o, k, d)
    BY <1>1, SaidMember
  <2>2. CASE k < j /\ f = EndFact(o, k)
    BY <2>2, SaidMember
  <2>3. ASSUME NEW d \in o.fns[k].edges, f \in PairFacts(o, k, d),
               IF k = j THEN d \notin E \ {e} ELSE k < j
        PROVE  f \in Said(o, j, E) \cup PairFacts(o, j, e)
    <3>1. CASE k = j /\ d = e
      BY <2>3, <3>1
    <3>2. CASE ~(k = j /\ d = e)
      <4>1. IF k = j THEN d \notin E ELSE k < j
        BY <2>3, <3>2
      <4> QED
        BY <2>3, <4>1, SaidMember
    <3> QED
      BY <3>1, <3>2
  <2> QED
    BY <2>1, <2>2, <2>3
<1>2. ASSUME NEW f, f \in Said(o, j, E) PROVE f \in Said(o, j, E \ {e})
  BY <1>2, SaidMember
<1>3. ASSUME NEW f, f \in PairFacts(o, j, e) PROVE f \in Said(o, j, E \ {e})
  BY <1>3, SaidMember
<1> QED
  BY <1>1, <1>2, <1>3

\* Ending a description says how many arguments its function has.
LEMMA SayEnd ==
  ASSUME NEW o, NEW j \in 1..Len(o.fns), NEW E, E = IF j + 1 \in 1..Len(o.fns)
                                                    THEN o.fns[j + 1].edges ELSE {}
  PROVE  Said(o, j + 1, E) = Said(o, j, {}) \cup {EndFact(o, j)}
<1>1. ASSUME NEW f, f \in Said(o, j + 1, E)
      PROVE  f \in Said(o, j, {}) \cup {EndFact(o, j)}
  <2>1. PICK k \in 1..Len(o.fns) :
          \/ k < j + 1 /\ f = EndFact(o, k)
          \/ \E d \in o.fns[k].edges :
               /\ IF k = j + 1 THEN d \notin E ELSE k < j + 1
               /\ f \in PairFacts(o, k, d)
    BY <1>1, SaidMember
  <2>2. CASE k < j + 1 /\ f = EndFact(o, k)
    <3>1. k = j \/ k < j
      BY <2>2
    <3> QED
      BY <2>2, <3>1, SaidMember
  <2>3. ASSUME NEW d \in o.fns[k].edges, f \in PairFacts(o, k, d),
               IF k = j + 1 THEN d \notin E ELSE k < j + 1
        PROVE  f \in Said(o, j, {})
    <3>1. k = j \/ k < j
      BY <2>3
    <3> QED
      BY <2>3, <3>1, SaidMember
  <2> QED
    BY <2>1, <2>2, <2>3
<1>2. ASSUME NEW f, f \in Said(o, j, {}) PROVE f \in Said(o, j + 1, E)
  <2>1. PICK k \in 1..Len(o.fns) :
          \/ k < j /\ f = EndFact(o, k)
          \/ \E d \in o.fns[k].edges :
               /\ IF k = j THEN d \notin {} ELSE k < j
               /\ f \in PairFacts(o, k, d)
    BY <1>2, SaidMember
  <2>2. k < j + 1 /\ k # j + 1
    BY <2>1
  <2> QED
    BY <2>1, <2>2, SaidMember
<1>3. EndFact(o, j) \in Said(o, j + 1, E)
  <2>1. j < j + 1
    OBVIOUS
  <2> QED
    BY <2>1, SaidMember
<1> QED
  BY <1>1, <1>2, <1>3

\* Before the first description nothing was said.
LEMMA SayNothing ==
  ASSUME NEW o, NEW E
  PROVE  /\ Said(o, 0, E) = {}
         /\ Said(o, 1, IF 1 \in 1..Len(o.fns) THEN o.fns[1].edges ELSE {}) = {}
<1> DEFINE E1 == IF 1 \in 1..Len(o.fns) THEN o.fns[1].edges ELSE {}
<1>1. \A k \in 1..Len(o.fns) : ~(k < 0) /\ k # 0 /\ ~(k < 1)
  OBVIOUS
<1>2. ASSUME NEW f PROVE f \notin Said(o, 0, E)
  BY <1>1, SaidMember
<1>3. ASSUME NEW f PROVE f \notin Said(o, 1, E1)
  BY <1>1, SaidMember
<1> QED
  BY <1>2, <1>3

\* The number of arguments is unique, so the pass computes the defined one.
LEMMA NargsUnique ==
  ASSUME NEW E, \A e \in E : e.n \in Nat, NEW n \in Nat, IsNargs(E, n)
  PROVE  n = DefinedNargs(E)
<1> DEFINE Candidates == {0} \cup {e.n + 1 : e \in E}
<1>1. n \in Candidates
  BY DEF IsNargs
<1>2. DefinedNargs(E) \in Candidates /\ IsNargs(E, DefinedNargs(E))
  BY <1>1 DEF DefinedNargs
<1>3. ASSUME NEW m \in Candidates, IsNargs(E, m) PROVE m <= n /\ n <= m
  <2>1. m \in Nat
    BY <1>3
  <2>2. m <= n
    BY <1>3, <2>1 DEF IsNargs
  <2>3. n <= m
    BY <1>3, <2>1 DEF IsNargs
  <2> QED
    BY <2>2, <2>3
<1>4. DefinedNargs(E) \in Nat
  BY <1>2
<1> QED
  BY <1>2, <1>3, <1>4

\* If all was said and no call is pending, the states are the join.
LEMMA JoinReached ==
  ASSUME NEW F, NEW ns, ns = [n \in DOMAIN ns |-> ns[n]],
         \A f \in F : f = <<f[1], f[2]>>,
         \A f \in F : f[1] \in DOMAIN ns /\ (f[2] = Undefined \/ ns[f[1]] = f[2]),
         \A n \in DOMAIN ns : <<n, ns[n]>> \in F
  PROVE  ~Conflict(F) /\ ns = JoinOf(F)
<1>1. ~Conflict(F)
  BY DEF Conflict
<1>2. DOMAIN ns = {f[1] : f \in F}
  <2>1. ASSUME NEW n \in DOMAIN ns PROVE n \in {f[1] : f \in F}
    BY <2>1
  <2> QED
    BY <2>1
<1>3. ASSUME NEW n \in DOMAIN ns
      PROVE  ns[n] = IF Known(F, n) = {} THEN Undefined ELSE CHOOSE s \in Known(F, n) : TRUE
  <2>1. \A s \in Known(F, n) : s = ns[n]
    BY DEF Known
  <2>2. ns[n] # Undefined => ns[n] \in Known(F, n)
    BY DEF Known
  <2>3. CASE Known(F, n) = {}
    BY <2>2, <2>3
  <2>4. CASE Known(F, n) # {}
    BY <2>1, <2>4
  <2> QED
    BY <2>3, <2>4
<1>4. JoinOf(F) = [n \in DOMAIN ns |->
          IF Known(F, n) = {} THEN Undefined ELSE CHOOSE s \in Known(F, n) : TRUE]
  BY <1>2 DEF JoinOf
<1> QED
  BY <1>1, <1>3, <1>4

----------------------------------------------------------------------------
(* The pass.                                                               *)

\* Under the invariant all that was said is a set of pairs.
LEMMA Init_IInv == Init => IInv
  BY DEF Init, IInv, Phases, InitialPassIsJoin, Emitted

LEMMA StartRunStep == ASSUME IInv, StartRun PROVE IInv'
<1>1. Said(obj', 0, {}) = {}
  BY SayNothing
<1>2. Reading'
  <2>1. Len((obj').fns) \in Nat
    BY ObjectTypes DEF StartRun
  <2> QED
    BY <2>1 DEF StartRun, Reading
<1>3. PassInv'
  BY <1>1, <1>2 DEF StartRun, PassInv, SaidIsJoined, StatesSaid, CallsSaid, CheckedSaid
<1> QED
  BY <1>3 DEF IInv, StartRun, Phases, InitialPassIsJoin, Emitted

LEMMA VisitEdgeStep == ASSUME IInv, VisitEdge PROVE IInv'
<1> USE DEF IInv
<1>1. PICK e \in edges :
        /\ edges' = edges \ {e}
        /\ nargs' = IF e.kind = "ArgumentDefinition" /\ e.n + 1 > nargs THEN e.n + 1 ELSE nargs
        /\ calls' = EdgeFacts(Fn(i), e) \cup OverrideFacts(obj, Foreign(Fn(i), e) \ checked)
        /\ checked' = checked \cup (Foreign(Fn(i), e) \ checked)
  BY DEF VisitEdge
<1>2. /\ obj' = obj /\ phase' = phase /\ i' = i /\ node_states' = node_states
      /\ phase = "pass" /\ calls = {} /\ PassInv
  BY DEF VisitEdge, runVars
<1>3. i \in 1..Len(obj.fns) /\ edges \subseteq obj.fns[i].edges /\ nargs \in Nat
  BY <1>1, <1>2 DEF PassInv, Reading
<1>4. e.n \in Nat /\ e \in obj.fns[i].edges
  BY <1>1, <1>3, ObjectTypes
<1> DEFINE Old == Said(obj, i, edges)
           New == Said(obj, i, edges \ {e})
<1>5. New = Old \cup PairFacts(obj, i, e)
  BY <1>1, <1>3, SayEdge
<1>6. Said(obj, i, edges)' = New
  BY <1>1, <1>2
<1> HIDE DEF Old, New
<1>7. \A f \in OverrideFacts(obj, Foreign(Fn(i), e)) : f \in calls' \/ f \in Old
  <2> SUFFICES ASSUME NEW n \in Foreign(Fn(i), e), Overridden(obj, n)
               PROVE  <<n, OverrideState(obj, n)>> \in calls' \cup Old
    BY DEF OverrideFacts
  <2>1. CASE n \in checked
    BY <1>2, <2>1 DEF PassInv, CheckedSaid, Old
  <2>2. CASE n \notin checked
    BY <1>1, <2>2 DEF OverrideFacts
  <2> QED
    BY <2>1, <2>2
<1>8. SaidIsJoined'
  <2>1. \A f \in New \ calls' : f \in Old
    BY <1>1, <1>5, <1>7 DEF PairFacts, Fn
  <2> QED
    BY <1>2, <1>6, <2>1 DEF PassInv, SaidIsJoined, Old
<1>9. StatesSaid'
  BY <1>2, <1>5, <1>6 DEF PassInv, StatesSaid, Old
<1>10. CallsSaid'
  BY <1>1, <1>5, <1>6 DEF CallsSaid, PairFacts, OverrideFacts, Fn
<1>11. CheckedSaid'
  <2> SUFFICES ASSUME NEW n \in checked', Overridden(obj, n)
               PROVE  <<n, OverrideState(obj, n)>> \in New
    BY <1>2, <1>6 DEF CheckedSaid, Overridden, OverrideState
  <2>1. CASE n \in checked
    BY <1>2, <1>5, <2>1 DEF PassInv, CheckedSaid, Old
  <2>2. CASE n \notin checked
    <3>1. n \in Foreign(Fn(i), e)
      BY <1>1, <2>2
    <3> QED
      BY <1>5, <3>1 DEF PairFacts, OverrideFacts, Fn
  <2> QED
    BY <2>1, <2>2
<1>12. Reading'
  <2>1. nargs' \in Nat
    BY <1>1, <1>3, <1>4
  <2>2. IsNargs(obj.fns[i].edges \ edges, nargs)
    BY <1>2, <1>3 DEF PassInv, Reading
  <2>3. obj.fns[i].edges \ (edges \ {e}) = (obj.fns[i].edges \ edges) \cup {e}
    BY <1>4
  <2>4. \A d \in obj.fns[i].edges : d.n \in Nat
    BY <1>3, ObjectTypes
  <2>5. \A d \in obj.fns[i].edges \ (edges \ {e}) :
          d.kind = "ArgumentDefinition" => d.n + 1 <= nargs'
    BY <1>1, <1>3, <1>4, <2>2, <2>3, <2>4 DEF IsNargs
  <2>6. nargs' = 0 \/ \E d \in obj.fns[i].edges \ (edges \ {e}) :
          d.kind = "ArgumentDefinition" /\ d.n + 1 = nargs'
    BY <1>1, <1>3, <1>4, <2>2, <2>3 DEF IsNargs
  <2> QED
    BY <1>1, <1>2, <1>3, <2>1, <2>5, <2>6 DEF PassInv, Reading, IsNargs
<1> QED
  BY <1>2, <1>8, <1>9, <1>10, <1>11, <1>12 DEF PassInv, InitialPassIsJoin, Emitted

LEMMA SetNargsStep == ASSUME IInv, SetNargs PROVE IInv'
<1> USE DEF IInv
<1>1. PICK c \in calls :
        /\ calls' = calls \ {c}
        /\ IF c[1] \in DOMAIN node_states /\ ~Compatible(node_states[c[1]], c[2])
           THEN phase' = "refused" /\ UNCHANGED node_states
           ELSE /\ node_states' = [m \in (DOMAIN node_states) \cup {c[1]} |->
                      IF m # c[1] THEN node_states[m]
                      ELSE IF c[1] \in DOMAIN node_states
                           THEN Joined(node_states[c[1]], c[2]) ELSE c[2]]
                /\ UNCHANGED phase
  BY DEF SetNargs
<1>2. /\ obj' = obj /\ i' = i /\ edges' = edges /\ nargs' = nargs /\ checked' = checked
      /\ phase = "pass" /\ PassInv
  BY DEF SetNargs, runVars
<1> DEFINE S == Said(obj, i, edges)
<1>3. S' = S
  BY <1>2
<1>4. c \in S /\ c = <<c[1], c[2]>>
  BY <1>1, <1>2, SaidArePairs DEF PassInv, CallsSaid
<1>5. \A f \in S : f = <<f[1], f[2]>>
  BY SaidArePairs
<1>6. S \subseteq AllFacts(obj)
  BY SaidOfAll
<1>7. /\ \A f \in S \ calls : f[1] \in DOMAIN node_states /\
                               (f[2] = Undefined \/ node_states[f[1]] = f[2])
      /\ \A n \in DOMAIN node_states : <<n, node_states[n]>> \in S
      /\ calls \subseteq S
  BY <1>2 DEF PassInv, SaidIsJoined, StatesSaid, CallsSaid
<1> HIDE DEF S
<1>8. CASE c[1] \in DOMAIN node_states /\ ~Compatible(node_states[c[1]], c[2])
  <2>1. Conflict(AllFacts(obj))
    <3> DEFINE d == <<c[1], node_states[c[1]]>>
    <3>1. d \in AllFacts(obj) /\ c \in AllFacts(obj)
      BY <1>4, <1>6, <1>7, <1>8
    <3>2. d[1] = c[1] /\ d[2] # c[2] /\ Undefined \notin {d[2], c[2]}
      BY <1>8 DEF Compatible
    <3> QED
      BY <3>1, <3>2 DEF Conflict
  <2> QED
    BY <1>1, <1>2, <1>8, <2>1 DEF InitialPassIsJoin, Emitted, Phases
<1>9. CASE ~(c[1] \in DOMAIN node_states /\ ~Compatible(node_states[c[1]], c[2]))
  <2>1. /\ DOMAIN node_states' = (DOMAIN node_states) \cup {c[1]}
        /\ \A m \in DOMAIN node_states : m # c[1] => node_states'[m] = node_states[m]
        /\ node_states'[c[1]] = IF c[1] \in DOMAIN node_states
                                THEN Joined(node_states[c[1]], c[2]) ELSE c[2]
        /\ node_states' = [m \in DOMAIN node_states' |-> node_states'[m]]
        /\ phase' = phase
    BY <1>1, <1>9
  <2>2. SaidIsJoined'
    <3> SUFFICES ASSUME NEW f \in S, f \notin calls \ {c}
                 PROVE  /\ f[1] \in DOMAIN node_states'
                        /\ f[2] = Undefined \/ node_states'[f[1]] = f[2]
      BY <1>1, <1>3 DEF SaidIsJoined, S
    <3>1. CASE f = c
      BY <1>9, <2>1, <3>1 DEF Compatible, Joined
    <3>2. CASE f # c /\ f[1] # c[1]
      BY <1>7, <2>1, <3>2
    <3>3. CASE f # c /\ f[1] = c[1]
      BY <1>7, <1>9, <2>1, <3>3 DEF Compatible, Joined
    <3> QED
      BY <3>1, <3>2, <3>3
  <2>3. StatesSaid'
    <3> SUFFICES ASSUME NEW n \in DOMAIN node_states'
                 PROVE  <<n, node_states'[n]>> \in S
      BY <1>3 DEF StatesSaid, S
    <3>1. CASE n # c[1]
      BY <1>7, <2>1, <3>1
    <3>2. CASE n = c[1]
      BY <1>4, <1>7, <2>1, <3>2 DEF Joined
    <3> QED
      BY <3>1, <3>2
  <2>4. CallsSaid'
    BY <1>1, <1>3, <1>7 DEF CallsSaid, S
  <2>5. CheckedSaid'
    BY <1>2, <1>3 DEF PassInv, CheckedSaid, S, Overridden, OverrideState
  <2>6. Reading'
    BY <1>2, <2>1 DEF PassInv, Reading
  <2> QED
    BY <1>2, <2>1, <2>2, <2>3, <2>4, <2>5, <2>6 DEF PassInv, InitialPassIsJoin, Emitted
<1> QED
  BY <1>8, <1>9

LEMMA NextFunctionStep == ASSUME IInv, NextFunction PROVE IInv'
<1> USE DEF IInv
<1>1. /\ obj' = obj /\ phase' = phase /\ node_states' = node_states /\ checked' = checked
      /\ phase = "pass" /\ calls = {} /\ edges = {} /\ i <= Len(obj.fns) /\ i' = i + 1
      /\ edges' = IF i < Len(obj.fns) THEN obj.fns[i + 1].edges ELSE {}
      /\ nargs' = 0
      /\ calls' = IF i = 0 THEN {} ELSE {<<SymbolNode(Fn(i)), Function(nargs)>>}
      /\ PassInv
  BY DEF NextFunction, runVars
<1>2. Len(obj.fns) \in Nat /\ i \in 0..Len(obj.fns) /\ nargs \in Nat
  BY <1>1, ObjectTypes DEF PassInv, Reading
<1>3. edges' = IF i + 1 \in 1..Len(obj.fns) THEN obj.fns[i + 1].edges ELSE {}
  BY <1>1, <1>2
<1>4. Said(obj, i, edges)' = Said(obj, i, {}) \cup calls'
  <2>1. CASE i = 0
    <3>1. Said(obj, i, edges)' = Said(obj, 1, edges')
      BY <1>1, <2>1
    <3>2. edges' = IF 1 \in 1..Len(obj.fns) THEN obj.fns[1].edges ELSE {}
      BY <1>3, <2>1
    <3>3. Said(obj, i, {}) = {} /\ calls' = {}
      BY <1>1, <2>1, SayNothing
    <3> QED
      BY <3>1, <3>2, <3>3, SayNothing
  <2>2. CASE i # 0
    <3>1. i \in 1..Len(obj.fns)
      BY <1>2, <2>2
    <3>2. nargs = DefinedNargs(obj.fns[i].edges)
      <4>1. obj.fns[i].edges \ edges = obj.fns[i].edges
        BY <1>1
      <4>2. IsNargs(obj.fns[i].edges, nargs)
        BY <1>1, <3>1, <4>1 DEF PassInv, Reading
      <4> QED
        BY <1>2, <3>1, <4>2, NargsUnique, ObjectTypes
    <3>3. calls' = {EndFact(obj, i)}
      BY <1>1, <2>2, <3>2 DEF EndFact, Fn
    <3> QED
      BY <1>1, <1>3, <3>1, <3>3, SayEnd
  <2> QED
    BY <2>1, <2>2
<1>5. Reading'
  <2>1. i' \in 1..Len(obj.fns) => IsNargs((obj.fns[i + 1].edges) \ edges', 0)
    BY <1>1, <1>2, <1>3 DEF IsNargs
  <2> QED
    BY <1>1, <1>2, <1>3, <2>1 DEF PassInv, Reading
<1> QED
  BY <1>1, <1>4, <1>5 DEF PassInv, SaidIsJoined, StatesSaid, CallsSaid, CheckedSaid,
                          Overridden, OverrideState, InitialPassIsJoin, Emitted

LEMMA WritePreludeStep == ASSUME IInv, WritePrelude PROVE IInv'
<1> USE DEF IInv
<1>1. /\ obj' = obj /\ phase' = "write" /\ node_states' = node_states
      /\ phase = "pass" /\ calls = {} /\ i = Len(obj.fns) + 1 /\ PassInv
  BY DEF WritePrelude, runVars
<1>2. edges = {}
  BY <1>1, ObjectTypes DEF PassInv, Reading
<1>3. Said(obj, i, edges) = AllFacts(obj)
  BY <1>1, <1>2, AllSaid
<1>4. ~Conflict(AllFacts(obj)) /\ node_states = JoinOf(AllFacts(obj))
  <2>1. \A f \in AllFacts(obj) : f = <<f[1], f[2]>>
    BY <1>3, SaidArePairs
  <2> QED
    BY <1>1, <1>3, <2>1, JoinReached DEF PassInv, SaidIsJoined, StatesSaid, Reading
<1> QED
  BY <1>1, <1>4 DEF InitialPassIsJoin, Emitted, Phases

\* The steps after the pass leave its result alone.
LEMMA LaterStep ==
  ASSUME IInv, \/ WriteFunction \/ WriteMissing \/ Make \/ PointsTo \/ LoadPts \/ EndRun
  PROVE  IInv'
<1>1. /\ obj' = obj /\ node_states' = node_states
      /\ phase \in {"write", "make", "svf", "load", "done", "failed", "refused"}
      /\ phase' \in {"write", "make", "svf", "load", "done", "failed", "idle"}
      /\ phase = "refused" => phase' = "idle"
  BY DEF WriteFunction, WriteMissing, Make, PointsTo, LoadPts, EndRun, runVars, passVars
<1> QED
  BY <1>1 DEF IInv, InitialPassIsJoin, Emitted, Phases

LEMMA Next_IInv == IInv /\ [Next]_vars => IInv'
<1> SUFFICES ASSUME IInv, [Next]_vars PROVE IInv'
  OBVIOUS
<1>1. CASE StartRun
  BY <1>1, StartRunStep
<1>2. CASE VisitEdge
  BY <1>2, VisitEdgeStep
<1>3. CASE SetNargs
  BY <1>3, SetNargsStep
<1>4. CASE NextFunction
  BY <1>4, NextFunctionStep
<1>5. CASE WritePrelude
  BY <1>5, WritePreludeStep
<1>6. CASE WriteFunction \/ WriteMissing \/ Make \/ PointsTo \/ LoadPts \/ EndRun
  BY <1>6, LaterStep
<1>7. CASE UNCHANGED vars
  BY <1>7 DEF vars, runVars, passVars, IInv, PassInv, SaidIsJoined, StatesSaid, CallsSaid,
              CheckedSaid, Reading, Overridden, OverrideState, InitialPassIsJoin, Emitted
<1> QED
  BY <1>1, <1>2, <1>3, <1>4, <1>5, <1>6, <1>7 DEF Next

\* setNargs() makes the first pass independent of order: it refuses an object
\* exactly if what the object says of some symbol conflicts, and otherwise
\* node_states is the join of all it says.
THEOREM PassJoins == Spec => []InitialPassIsJoin
<1>1. IInv => InitialPassIsJoin
  BY DEF IInv
<1> QED
  BY Init_IInv, Next_IInv, <1>1, PTL DEF Spec

----------------------------------------------------------------------------
(* The files of a run, and the types.                                      *)

(* k is the last description of node n before the j-th.                    *)
IsLast(n, j, k) ==
    /\ k \in 1..Len(obj.fns) /\ k < j /\ SymbolNode(Fn(k)) = n
    /\ \A l \in 1..Len(obj.fns) : l < j /\ SymbolNode(Fn(l)) = n => l <= k
HasFile(n, k) == n \in DOMAIN dir.files /\ dir.files[n] = [run |-> run, from |-> k]
StateOK(s) == s \in {Undefined, GlobalData} \/ s[2] \in Nat
IsDir(d) ==
    /\ d = [files |-> d.files, pts |-> d.pts] /\ d.pts \in 0..run
    /\ \A n \in DOMAIN d.files : d.files[n].run \in 0..run

(* The inductive invariant of the rest of the run.  A file of this run is  *)
(* that of a description of its node, or a synthesized body; files of      *)
(* other runs have smaller numbers; what is left of declared_functions has *)
(* no description among those written; pts.csv of an earlier run is in the *)
(* directory only if this run will replace it.                             *)
Ranges ==
    /\ run \in 0..MaxRuns /\ opts \in Options
    /\ i \in 0..(Len(obj.fns) + 1) /\ nargs \in Nat
    /\ \A c \in calls : IsSymbol(c[1]) /\ StateOK(c[2])
    /\ \A n \in DOMAIN node_states : StateOK(node_states[n])
Counted ==
    \A k \in 1..Len(obj.fns) :
        (phase = "pass" /\ k < i) \/ phase = "write" \/ Emitted =>
            IsNargs(obj.fns[k].edges, DefinedNargs(obj.fns[k].edges))
Dirs ==
    /\ IsDir(dir) /\ IsDir(kept)
    /\ phase = "pass" => \A n \in DOMAIN dir.files : dir.files[n].run # run
Written(j) ==
    \A k \in 1..Len(obj.fns) : k < j =>
        \E l \in 1..Len(obj.fns) : IsLast(SymbolNode(Fn(k)), j, l) /\ HasFile(SymbolNode(Fn(k)), l)
OwnFiles ==
    phase = "write" \/ Emitted =>
        \A n \in DOMAIN dir.files : dir.files[n].run = run =>
            \/ dir.files[n].from = 0
            \/ /\ dir.files[n].from \in 1..Len(obj.fns)
               /\ SymbolNode(Fn(dir.files[n].from)) = n
Undescribed(n, j) == \A k \in 1..Len(obj.fns) : k < j => SymbolNode(Fn(k)) # n
Writing ==
    phase = "write" =>
        /\ i \in 1..(Len(obj.fns) + 1)
        /\ Written(i)
        /\ declared_functions = {n \in FunctionNodes \ override_nodes : Undescribed(n, i)}
AllWritten ==
    Emitted =>
        /\ Written(Len(obj.fns) + 1)
        /\ missing = {n \in FunctionNodes \ override_nodes : Undescribed(n, Len(obj.fns) + 1)}
        /\ opts.conservative => \A n \in missing : HasFile(n, 0)
PtsOK ==
    /\ pts \in 0..run
    /\ phase \notin {"done", "failed", "idle"} => pts = 0
    /\ phase \in {"pass", "write", "make", "svf"} /\ ~opts.tmp => dir.pts = 0
    /\ phase = "load" => opts.trace /\ dir.pts \in {0, run}
    /\ PtsAreCurrent

EInv == Ranges /\ Counted /\ Dirs /\ OwnFiles /\ Writing /\ AllWritten /\ PtsOK

\* What the assumption says of nodes.
LEMMA ObjectNodes ==
  ASSUME NEW o \in Objects, NEW k \in 1..Len(o.fns), NEW e \in o.fns[k].edges
  PROVE  /\ e.n \in Nat
         /\ \A n \in Foreign(o.fns[k].fn, e) : IsSymbol(n)
<1>1. \A n \in {e.a, e.b} : n[1] = o.fns[k].fn \/ n[2] = -1
  OBVIOUS
<1> QED
  BY <1>1, ObjectTypes DEF Foreign, IsSymbol

\* Nodes are pairs.
LEMMA NodesArePairs ==
  ASSUME NEW o \in Objects, NEW k \in 1..Len(o.fns), NEW e \in o.fns[k].edges,
         NEW n \in {e.a, e.b}
  PROVE  n = <<n[1], n[2]>>
<1> DEFINE Edge == [kind : EdgeKinds, a : (DOMAIN o.name) \X Int, b : (DOMAIN o.name) \X Int,
                    n : Nat]
           Description == [fn : DOMAIN o.name, edges : SUBSET Edge]
<1>1. o.fns \in Seq(Description)
  OBVIOUS
<1> HIDE DEF Description
<1>2. o.fns[k] \in Description
  BY <1>1
<1>3. e \in Edge
  BY <1>2 DEF Description
<1> QED
  BY <1>3

\* A number that bounds the arguments is a number.
LEMMA DefinedNargsType ==
  ASSUME NEW o \in Objects, NEW k \in 1..Len(o.fns),
         IsNargs(o.fns[k].edges, DefinedNargs(o.fns[k].edges))
  PROVE  DefinedNargs(o.fns[k].edges) \in Nat
<1> DEFINE E == o.fns[k].edges
<1>1. \A e \in E : e.n \in Nat
  BY ObjectTypes
<1>2. DefinedNargs(E) = 0 \/ \E e \in E : e.n + 1 = DefinedNargs(E)
  BY DEF IsNargs
<1> QED
  BY <1>1, <1>2

\* The states a visited edge asks for are states of symbols.
LEMMA EdgeCalls ==
  ASSUME NEW o \in Objects, NEW k \in 1..Len(o.fns), NEW e \in o.fns[k].edges,
         NEW N, N \subseteq Foreign(o.fns[k].fn, e),
         NEW c \in EdgeFacts(o.fns[k].fn, e) \cup OverrideFacts(o, N)
  PROVE  IsSymbol(c[1]) /\ StateOK(c[2])
<1>1. e.n \in Nat /\ \A n \in Foreign(o.fns[k].fn, e) : IsSymbol(n)
  BY ObjectNodes
<1>2. CASE c \in OverrideFacts(o, N)
  BY <1>1, <1>2 DEF OverrideFacts, Overridden, OverrideState, Function, StateOK
<1>3. CASE c \in EdgeFacts(o.fns[k].fn, e)
  BY <1>1, <1>3 DEF EdgeFacts, Function, StateOK
<1> QED
  BY <1>2, <1>3

LEMMA Init_EInv == Init => EInv
<1> SUFFICES ASSUME Init PROVE EInv
  OBVIOUS
<1>1. Len(obj.fns) \in Nat
  BY ObjectTypes DEF Init
<1>2. IsDir(EmptyDir)
  BY DEF Init, IsDir, EmptyDir
<1> QED
  BY <1>1, <1>2 DEF Init, EInv, Ranges, Counted, Dirs, OwnFiles, Writing, AllWritten, PtsOK,
                    Emitted, PtsAreCurrent

LEMMA StartRunEmits == ASSUME IInv, EInv, StartRun PROVE EInv'
<1> USE DEF EInv
<1>1. /\ run \in Nat /\ run' = run + 1 /\ run' \in 0..MaxRuns /\ phase' = "pass"
      /\ obj' \in Objects /\ opts' \in Options
      /\ i' = 0 /\ nargs' = 0 /\ calls' = {} /\ node_states' = <<>> /\ pts' = 0 /\ kept' = kept
      /\ dir' = IF opts'.tmp THEN kept ELSE EmptyDir
  BY DEF StartRun, Ranges
<1>2. IsDir(kept)' /\ \A n \in DOMAIN kept.files : kept.files[n].run # run'
  BY <1>1 DEF Dirs, IsDir
<1>3. IsDir(dir)' /\ \A n \in DOMAIN dir'.files : dir'.files[n].run # run'
  <2>1. CASE opts'.tmp
    BY <1>1, <1>2, <2>1 DEF IsDir
  <2>2. CASE ~opts'.tmp
    BY <1>1, <2>2 DEF IsDir, EmptyDir
  <2> QED
    BY <2>1, <2>2
<1>4. Ranges'
  <2>1. Len(obj'.fns) \in Nat
    BY <1>1, ObjectTypes
  <2> QED
    BY <1>1, <2>1 DEF Ranges
<1>5. Counted'
  <2>1. \A k \in 1..Len(obj'.fns) : ~(k < 0)
    OBVIOUS
  <2> QED
    BY <1>1, <2>1 DEF Counted, Emitted
<1>6. PtsOK'
  BY <1>1 DEF PtsOK, PtsAreCurrent, EmptyDir
<1> QED
  BY <1>1, <1>2, <1>3, <1>4, <1>5, <1>6 DEF Dirs, OwnFiles, Writing, AllWritten, Emitted

\* The pass leaves the directories and the options alone.
LEMMA PassKeeps ==
  ASSUME EInv, phase = "pass", phase' \in {"pass", "refused"},
         UNCHANGED <<runVars, missing, dir, kept, pts>>
  PROVE  Dirs' /\ OwnFiles' /\ Writing' /\ AllWritten' /\ PtsOK'
<1>1. Dirs'
  BY DEF EInv, Dirs, IsDir, runVars
<1>2. PtsOK'
  BY DEF EInv, PtsOK, PtsAreCurrent, runVars
<1> QED
  BY <1>1, <1>2 DEF OwnFiles, Writing, AllWritten, Emitted

LEMMA VisitEdgeEmits == ASSUME IInv, IInv', EInv, VisitEdge PROVE EInv'
<1>1. PICK e \in edges :
        calls' = EdgeFacts(Fn(i), e) \cup OverrideFacts(obj, Foreign(Fn(i), e) \ checked)
  BY DEF VisitEdge
<1>2. /\ phase = "pass" /\ phase' = "pass" /\ obj' = obj /\ run' = run /\ opts' = opts /\ i' = i
      /\ node_states' = node_states /\ UNCHANGED <<runVars, missing, dir, kept, pts>>
  BY DEF VisitEdge, runVars, writeVars
<1>3. i \in 1..Len(obj.fns) /\ e \in obj.fns[i].edges /\ obj \in Objects
  BY <1>1, <1>2 DEF IInv, PassInv, Reading
<1>4. \A c \in calls' : IsSymbol(c[1]) /\ StateOK(c[2])
  BY <1>1, <1>3, EdgeCalls DEF Fn
<1>5. nargs' \in Nat
  BY <1>2 DEF IInv, PassInv, Reading
<1>6. Ranges'
  BY <1>2, <1>4, <1>5 DEF EInv, Ranges
<1>7. Counted'
  BY <1>2 DEF EInv, Counted, Emitted
<1> QED
  BY <1>2, <1>6, <1>7, PassKeeps DEF EInv

LEMMA SetNargsEmits == ASSUME IInv, IInv', EInv, SetNargs PROVE EInv'
<1>1. PICK c \in calls :
        /\ calls' = calls \ {c}
        /\ \A n \in DOMAIN node_states' :
             \/ n \in DOMAIN node_states /\ node_states'[n] = node_states[n]
             \/ n = c[1] /\ node_states'[n] = c[2]
        /\ phase = "pass" /\ phase' \in {"pass", "refused"}
  BY DEF SetNargs, Joined
<1>2. UNCHANGED <<runVars, i, nargs, missing, dir, kept, pts>>
  BY DEF SetNargs, writeVars
<1>3. Ranges'
  BY <1>1, <1>2 DEF EInv, Ranges, runVars
<1>4. Counted'
  BY <1>1, <1>2 DEF EInv, Counted, Emitted, runVars
<1> QED
  BY <1>1, <1>2, <1>3, <1>4, PassKeeps DEF EInv

LEMMA NextFunctionEmits == ASSUME IInv, IInv', EInv, NextFunction PROVE EInv'
<1>1. /\ phase = "pass" /\ phase' = "pass" /\ i <= Len(obj.fns) /\ edges = {}
      /\ i' = i + 1 /\ nargs' = 0 /\ obj' = obj /\ run' = run /\ opts' = opts
      /\ calls' = IF i = 0 THEN {} ELSE {<<SymbolNode(Fn(i)), Function(nargs)>>}
      /\ node_states' = node_states /\ UNCHANGED <<runVars, missing, dir, kept, pts>>
  BY DEF NextFunction, runVars, writeVars
<1>2. obj \in Objects /\ PassInv /\ Len(obj.fns) \in Nat
  BY <1>1, ObjectTypes DEF IInv
<1>3. i \in 0..Len(obj.fns) /\ nargs \in Nat
  BY <1>1, <1>2 DEF PassInv, Reading
<1>4. Ranges'
  BY <1>1, <1>2, <1>3 DEF EInv, Ranges, StateOK, Function, SymbolNode, IsSymbol
<1>5. Counted'
  <2> SUFFICES ASSUME NEW k \in 1..Len(obj.fns), k < i + 1
               PROVE  IsNargs(obj.fns[k].edges, DefinedNargs(obj.fns[k].edges))
    BY <1>1 DEF Counted, Emitted
  <2>1. CASE k < i
    BY <1>1, <2>1 DEF EInv, Counted
  <2>2. CASE k = i
    <3>1. obj.fns[i].edges \ edges = obj.fns[i].edges
      BY <1>1
    <3>2. IsNargs(obj.fns[i].edges, nargs)
      BY <1>2, <2>2, <3>1 DEF PassInv, Reading
    <3>3. nargs = DefinedNargs(obj.fns[i].edges)
      BY <1>2, <1>3, <2>2, <3>2, NargsUnique, ObjectTypes
    <3> QED
      BY <2>2, <3>2, <3>3
  <2> QED
    BY <1>3, <2>1, <2>2
<1> QED
  BY <1>1, <1>4, <1>5, PassKeeps DEF EInv

LEMMA WritePreludeEmits == ASSUME IInv, IInv', EInv, WritePrelude PROVE EInv'
<1>1. /\ phase = "pass" /\ i = Len(obj.fns) + 1 /\ phase' = "write" /\ i' = 1
      /\ declared_functions' = FunctionNodes \ override_nodes
      /\ UNCHANGED <<runVars, nargs, calls, node_states, override_nodes, missing, dir, kept, pts>>
  BY DEF WritePrelude
<1>2. Len(obj.fns) \in Nat
  BY ObjectTypes DEF IInv
<1>3. \A k \in 1..Len(obj.fns) : ~(k < 1) /\ k < Len(obj.fns) + 1
  BY <1>2
<1>4. Ranges'
  BY <1>1, <1>2 DEF EInv, Ranges, runVars
<1>5. Counted'
  BY <1>1, <1>3 DEF EInv, Counted, runVars
<1>6. Dirs' /\ PtsOK'
  BY <1>1 DEF EInv, Dirs, IsDir, PtsOK, PtsAreCurrent, runVars
<1>7. OwnFiles'
  BY <1>1 DEF EInv, Dirs, OwnFiles, runVars
<1>8. Writing'
  BY <1>1, <1>2, <1>3 DEF Writing, Written, Undescribed, FunctionNodes, runVars
<1> QED
  BY <1>1, <1>4, <1>5, <1>6, <1>7, <1>8 DEF EInv, AllWritten, Emitted

\* Files written over those of the directory.
LEMMA AddedFiles ==
  ASSUME NEW N, NEW body, body.run \in 0..run, IsDir(dir), dir' = AddFiles(N, body), run' = run
  PROVE  /\ DOMAIN dir'.files = N \cup DOMAIN dir.files
         /\ \A n \in N : dir'.files[n] = body
         /\ \A n \in DOMAIN dir.files \ N : dir'.files[n] = dir.files[n]
         /\ dir'.pts = dir.pts
         /\ IsDir(dir)'
<1> DEFINE new == [n \in N \cup DOMAIN dir.files |-> IF n \in N THEN body ELSE dir.files[n]]
<1>1. dir' = [files |-> new, pts |-> dir.pts]
  BY DEF AddFiles, IsDir
<1> QED
  BY <1>1 DEF IsDir

LEMMA WriteFunctionEmits == ASSUME IInv, IInv', EInv, WriteFunction PROVE EInv'
<1> DEFINE m == SymbolNode(Fn(i))
           body == [run |-> run, from |-> i]
<1>1. /\ phase = "write" /\ phase' = "write" /\ i <= Len(obj.fns) /\ i' = i + 1
      /\ dir' = AddFiles({m}, body)
      /\ declared_functions' = declared_functions \ {m}
      /\ UNCHANGED <<runVars, nargs, calls, node_states, override_nodes, missing, kept, pts>>
  BY DEF WriteFunction
<1>2. /\ Len(obj.fns) \in Nat /\ run \in Nat /\ i \in 1..Len(obj.fns)
      /\ Writing /\ IsDir(dir) /\ body.run \in 0..run /\ run' = run /\ obj' = obj
  BY <1>1, ObjectTypes DEF IInv, EInv, Ranges, Dirs, Writing, runVars
<1>3. /\ DOMAIN dir'.files = {m} \cup DOMAIN dir.files
      /\ dir'.files[m] = body
      /\ \A n \in DOMAIN dir.files \ {m} : dir'.files[n] = dir.files[n]
      /\ dir'.pts = dir.pts
      /\ IsDir(dir)'
  <2> HIDE DEF m, body
  <2>1. /\ DOMAIN dir'.files = {m} \cup DOMAIN dir.files
        /\ \A n \in {m} : dir'.files[n] = body
        /\ \A n \in DOMAIN dir.files \ {m} : dir'.files[n] = dir.files[n]
        /\ dir'.pts = dir.pts
        /\ IsDir(dir)'
    BY <1>1, <1>2, AddedFiles
  <2> QED
    BY <2>1
<1>4. Ranges'
  BY <1>1, <1>2 DEF EInv, Ranges, runVars
<1>5. Counted'
  BY <1>1 DEF EInv, Counted, runVars
<1>6. Dirs' /\ PtsOK'
  BY <1>1, <1>2, <1>3 DEF EInv, Dirs, IsDir, PtsOK, PtsAreCurrent, runVars
<1>7. OwnFiles'
  <2> SUFFICES ASSUME NEW n \in DOMAIN dir'.files, dir'.files[n].run = run
               PROVE  \/ dir'.files[n].from = 0
                      \/ /\ dir'.files[n].from \in 1..Len(obj.fns)
                         /\ SymbolNode(Fn(dir'.files[n].from)) = n
    BY <1>1, <1>2 DEF OwnFiles, Fn
  <2>1. CASE n = m
    BY <1>2, <1>3, <2>1
  <2>2. CASE n # m
    BY <1>1, <1>3, <2>2 DEF EInv, OwnFiles
  <2> QED
    BY <2>1, <2>2
<1>8. Written(i)'
  <2> SUFFICES ASSUME NEW k \in 1..Len(obj.fns), k < i + 1
               PROVE  \E l \in 1..Len(obj.fns) :
                        /\ IsLast(SymbolNode(Fn(k)), i + 1, l)
                        /\ SymbolNode(Fn(k)) \in DOMAIN dir'.files
                        /\ dir'.files[SymbolNode(Fn(k))] = [run |-> run, from |-> l]
    BY <1>1, <1>2 DEF Written, HasFile, IsLast, Fn
  <2>1. CASE SymbolNode(Fn(k)) = m
    <3>1. IsLast(m, i + 1, i)
      BY <1>2 DEF IsLast
    <3> QED
      BY <1>2, <1>3, <2>1, <3>1
  <2>2. CASE SymbolNode(Fn(k)) # m
    <3>1. k < i
      BY <1>2, <2>2
    <3>2. PICK l \in 1..Len(obj.fns) : /\ IsLast(SymbolNode(Fn(k)), i, l)
                                       /\ HasFile(SymbolNode(Fn(k)), l)
      BY <1>1, <1>2, <3>1 DEF Writing, Written
    <3>3. \A j \in 1..Len(obj.fns) : j < i + 1 /\ SymbolNode(Fn(j)) = SymbolNode(Fn(k)) => j < i
      BY <1>2, <2>2
    <3>4. IsLast(SymbolNode(Fn(k)), i + 1, l)
      BY <1>2, <3>2, <3>3 DEF IsLast
    <3> QED
      BY <1>3, <2>2, <3>2, <3>4 DEF HasFile
  <2> QED
    BY <2>1, <2>2
<1>9. Writing'
  <2>1. \A n : Undescribed(n, i + 1) <=> Undescribed(n, i) /\ n # m
    BY <1>2 DEF Undescribed
  <2>2. \A n : Undescribed(n, i)' <=> Undescribed(n, i + 1)
    BY <1>1, <1>2 DEF Undescribed, Fn
  <2>3. (FunctionNodes \ override_nodes)' = FunctionNodes \ override_nodes
    BY <1>1 DEF FunctionNodes
  <2>4. declared_functions' = {n \in FunctionNodes \ override_nodes : Undescribed(n, i + 1)}
    BY <1>1, <1>2, <2>1 DEF Writing
  <2> HIDE DEF m, body
  <2> QED
    BY <1>1, <1>2, <1>8, <2>2, <2>3, <2>4 DEF Writing
<1> QED
  BY <1>1, <1>4, <1>5, <1>6, <1>7, <1>9 DEF EInv, AllWritten, Emitted

LEMMA WriteMissingEmits == ASSUME IInv, IInv', EInv, WriteMissing PROVE EInv'
<1> DEFINE body == [run |-> run, from |-> 0]
<1>1. /\ phase = "write" /\ i = Len(obj.fns) + 1 /\ phase' = "make" /\ missing' = declared_functions
      /\ dir' = IF opts.conservative THEN AddFiles(declared_functions, body) ELSE dir
      /\ UNCHANGED <<runVars, i, nargs, calls, node_states, override_nodes, kept, pts>>
  BY DEF WriteMissing, passVars
<1>2. /\ Len(obj.fns) \in Nat /\ run \in Nat /\ IsDir(dir) /\ Writing /\ body.run \in 0..run
      /\ run' = run /\ obj' = obj
  BY <1>1, ObjectTypes DEF IInv, EInv, Ranges, Dirs, runVars
<1>3. /\ DOMAIN dir.files \subseteq DOMAIN dir'.files
      /\ \A n \in DOMAIN dir.files \ declared_functions : dir'.files[n] = dir.files[n]
      /\ \A n \in DOMAIN dir'.files : \/ n \in DOMAIN dir.files /\ dir'.files[n] = dir.files[n]
                                      \/ dir'.files[n] = body
      /\ dir'.pts = dir.pts
      /\ IsDir(dir)'
      /\ opts.conservative =>
           \A n \in declared_functions : n \in DOMAIN dir'.files /\ dir'.files[n] = body
  <2> HIDE DEF body
  <2>1. CASE opts.conservative
    <3>1. dir' = AddFiles(declared_functions, body)
      BY <1>1, <2>1
    <3>2. /\ DOMAIN dir'.files = declared_functions \cup DOMAIN dir.files
          /\ \A n \in declared_functions : dir'.files[n] = body
          /\ \A n \in DOMAIN dir.files \ declared_functions : dir'.files[n] = dir.files[n]
          /\ dir'.pts = dir.pts
          /\ IsDir(dir)'
      BY <1>2, <3>1, AddedFiles
    <3> QED
      BY <3>2
  <2>2. CASE ~opts.conservative
    BY <1>1, <1>2, <2>2 DEF IsDir
  <2> QED
    BY <2>1, <2>2
<1>4. Ranges'
  BY <1>1, <1>2 DEF EInv, Ranges, runVars
<1>5. Counted'
  BY <1>1 DEF EInv, Counted, runVars
<1>6. Dirs' /\ PtsOK'
  BY <1>1, <1>2, <1>3 DEF EInv, Dirs, IsDir, PtsOK, PtsAreCurrent, runVars
<1>7. OwnFiles'
  BY <1>1, <1>2, <1>3 DEF EInv, OwnFiles, Fn
<1>8. Written(Len(obj.fns) + 1)'
  <2> SUFFICES ASSUME NEW k \in 1..Len(obj.fns)
               PROVE  \E l \in 1..Len(obj.fns) :
                        /\ IsLast(SymbolNode(Fn(k)), Len(obj.fns) + 1, l)
                        /\ SymbolNode(Fn(k)) \in DOMAIN dir'.files
                        /\ dir'.files[SymbolNode(Fn(k))] = [run |-> run, from |-> l]
    BY <1>1, <1>2 DEF Written, HasFile, IsLast, Fn
  <2>1. PICK l \in 1..Len(obj.fns) : /\ IsLast(SymbolNode(Fn(k)), i, l)
                                     /\ HasFile(SymbolNode(Fn(k)), l)
    BY <1>1, <1>2 DEF Writing, Written
  <2>2. SymbolNode(Fn(k)) \notin declared_functions
    BY <1>1, <1>2 DEF Writing, Undescribed
  <2> QED
    BY <1>1, <1>3, <2>1, <2>2 DEF HasFile
<1>9. AllWritten'
  <2>1. missing' = {n \in FunctionNodes \ override_nodes : Undescribed(n, Len(obj.fns) + 1)}
    BY <1>1, <1>2 DEF Writing
  <2>2. missing' = {n \in FunctionNodes \ override_nodes : Undescribed(n, Len(obj.fns) + 1)}'
    BY <1>1, <1>2, <2>1 DEF FunctionNodes, Undescribed, Fn
  <2>3. opts'.conservative => \A n \in missing' : HasFile(n, 0)'
    BY <1>1, <1>2, <1>3 DEF HasFile, runVars
  <2> QED
    BY <1>8, <2>2, <2>3 DEF AllWritten
<1> QED
  BY <1>1, <1>4, <1>5, <1>6, <1>7, <1>9 DEF EInv, Writing

\* What the invariant says of files, when they stay.
LEMMA FilesKept ==
  ASSUME dir'.files = dir.files, UNCHANGED <<obj, run, node_states>>
  PROVE  /\ Written(i) /\ i' = i => Written(i)'
         /\ Written(Len(obj.fns) + 1) => Written(Len(obj.fns) + 1)'
         /\ \A n : HasFile(n, 0)' <=> HasFile(n, 0)
         /\ \A n : i' = i => (Undescribed(n, i)' <=> Undescribed(n, i))
         /\ \A n : Undescribed(n, Len(obj.fns) + 1)' <=> Undescribed(n, Len(obj.fns) + 1)
         /\ FunctionNodes' = FunctionNodes
  BY DEF Written, HasFile, IsLast, Undescribed, FunctionNodes, Fn

\* Building and SVF change neither files nor what was found out.
LEMMA BuildEmits == ASSUME IInv, IInv', EInv, Make \/ PointsTo \/ LoadPts PROVE EInv'
<1>1. /\ phase \in {"make", "svf", "load"} /\ phase' \in {"svf", "load", "failed", "done"}
      /\ UNCHANGED <<runVars, passVars, writeVars, kept>>
  BY DEF Make, PointsTo, LoadPts
<1>2. IsDir(dir) /\ IsDir(kept) /\ PtsOK /\ run \in Nat
  BY DEF EInv, Dirs, Ranges
<1>3. dir' = dir \/ dir' = [files |-> dir.files, pts |-> run]
  BY <1>2 DEF Make, PointsTo, LoadPts, IsDir
<1>4. Ranges' /\ Counted'
  BY <1>1 DEF EInv, Ranges, Counted, Emitted, runVars, passVars
<1>5. dir'.files = dir.files /\ Dirs'
  BY <1>1, <1>2, <1>3 DEF Dirs, IsDir, runVars
<1>6. OwnFiles'
  BY <1>1, <1>5 DEF EInv, OwnFiles, Emitted, runVars, Fn
<1>7. AllWritten'
  BY <1>1, <1>5, FilesKept DEF EInv, AllWritten, Emitted, runVars, passVars, writeVars
<1>8. PtsOK'
  <2>1. CASE Make
    BY <1>1, <1>2, <2>1 DEF Make, PtsOK, PtsAreCurrent, runVars
  <2>2. CASE PointsTo
    BY <1>1, <1>2, <2>2 DEF PointsTo, PtsOK, PtsAreCurrent, SavePts, IsDir, runVars
  <2>3. CASE LoadPts
    BY <1>1, <1>2, <2>3 DEF LoadPts, PtsOK, PtsAreCurrent, runVars
  <2> QED
    BY <2>1, <2>2, <2>3
<1> QED
  BY <1>1, <1>4, <1>5, <1>6, <1>7, <1>8 DEF EInv, Writing

LEMMA EndRunEmits == ASSUME IInv, IInv', EInv, EndRun PROVE EInv'
<1>1. /\ phase' = "idle" /\ kept' \in {dir, kept}
      /\ UNCHANGED <<runVars, passVars, writeVars, dir, pts>>
  BY DEF EndRun
<1>2. Dirs'
  BY <1>1 DEF EInv, Dirs, IsDir, runVars
<1> QED
  BY <1>1, <1>2 DEF EInv, Ranges, Counted, OwnFiles, Writing, AllWritten, Emitted, PtsOK,
                    PtsAreCurrent, runVars, passVars

LEMMA Next_EInv == IInv /\ IInv' /\ EInv /\ [Next]_vars => EInv'
<1> SUFFICES ASSUME IInv, IInv', EInv, [Next]_vars PROVE EInv'
  OBVIOUS
<1>1. CASE StartRun
  BY <1>1, StartRunEmits
<1>2. CASE VisitEdge
  BY <1>2, VisitEdgeEmits
<1>3. CASE SetNargs
  BY <1>3, SetNargsEmits
<1>4. CASE NextFunction
  BY <1>4, NextFunctionEmits
<1>5. CASE WritePrelude
  BY <1>5, WritePreludeEmits
<1>6. CASE WriteFunction
  BY <1>6, WriteFunctionEmits
<1>7. CASE WriteMissing
  BY <1>7, WriteMissingEmits
<1>8. CASE Make \/ PointsTo \/ LoadPts
  BY <1>8, BuildEmits
<1>9. CASE EndRun
  BY <1>9, EndRunEmits
<1>10. CASE UNCHANGED vars
  <2>1. UNCHANGED <<run, obj, opts, phase, i, nargs, calls, node_states, override_nodes,
                    declared_functions, missing, dir, kept, pts>>
    BY <1>10 DEF vars, runVars, passVars, writeVars
  <2>2. Ranges' /\ Counted' /\ PtsOK'
    BY <2>1 DEF EInv, Ranges, Counted, PtsOK, PtsAreCurrent, Emitted
  <2>3. Dirs' /\ OwnFiles'
    BY <2>1 DEF EInv, Dirs, IsDir, OwnFiles, Emitted, Fn
  <2>4. Writing' /\ AllWritten'
    BY <2>1, FilesKept DEF EInv, Writing, AllWritten, Emitted
  <2> QED
    BY <2>2, <2>3, <2>4 DEF EInv
<1> QED
  BY <1>1, <1>2, <1>3, <1>4, <1>5, <1>6, <1>7, <1>8, <1>9, <1>10 DEF Next

LEMMA Emission == Spec => [](IInv /\ EInv)
  BY Init_IInv, Next_IInv, Init_EInv, Next_EInv, PTL DEF Spec

(* Types, and that setNargs() is only called for symbols. *)
THEOREM TypeCorrect == Spec => []TypeOK
<1>1. IInv /\ EInv => TypeOK
  BY DEF IInv, EInv, Ranges, PtsOK, TypeOK, StateOK
<1> QED
  BY Emission, <1>1, PTL

(* The points-to relation that a run loads to compare it with traces is    *)
(* never one that an earlier run left in the directory --tmp names. (C     *)
(* files of earlier runs that are linked into it are another matter.)      *)
THEOREM CurrentPts == Spec => []PtsAreCurrent
<1>1. EInv => PtsAreCurrent
  BY DEF EInv, PtsOK
<1> QED
  BY Emission, <1>1, PTL

(* missing.txt is exactly what has neither a description nor an override,  *)
(* and every file is that of the last description of its symbol.           *)
THEOREM ExactMissing == Spec => []MissingExact
<1>1. IInv /\ EInv => MissingExact
  <2> SUFFICES ASSUME IInv, EInv, Emitted PROVE MissingExact
    BY DEF MissingExact
  <2> DEFINE described == {SymbolNode(Fn(k)) : k \in 1..Len(obj.fns)}
             last(f) == CHOOSE k \in 1..Len(obj.fns) : SymbolNode(Fn(k)) = f /\
                           \A l \in 1..Len(obj.fns) : SymbolNode(Fn(l)) = f => l <= k
  <2>1. Len(obj.fns) \in Nat /\ AllWritten
    BY ObjectTypes DEF IInv, EInv
  <2>2. missing = (FunctionNodes \ described) \ override_nodes
    BY <2>1 DEF AllWritten, Undescribed
  <2>3. ASSUME NEW f \in described PROVE dir.files[f] = [run |-> run, from |-> last(f)]
    <3>1. PICK l \in 1..Len(obj.fns) : IsLast(f, Len(obj.fns) + 1, l) /\ HasFile(f, l)
      BY <2>1 DEF AllWritten, Written
    <3>2. /\ SymbolNode(Fn(l)) = f
          /\ \A k \in 1..Len(obj.fns) : SymbolNode(Fn(k)) = f => k <= l
      BY <2>1, <3>1 DEF IsLast
    <3>3. \A k \in 1..Len(obj.fns) :
            SymbolNode(Fn(k)) = f /\ (\A j \in 1..Len(obj.fns) : SymbolNode(Fn(j)) = f => j <= k)
              => k = l
      BY <2>1, <3>2
    <3>4. last(f) = l
      BY <3>2, <3>3
    <3> QED
      BY <3>1, <3>4 DEF HasFile
  <2>4. opts.conservative => \A f \in missing : dir.files[f] = [run |-> run, from |-> 0]
    BY <2>1 DEF AllWritten, HasFile
  <2> QED
    BY <2>2, <2>3, <2>4 DEF MissingExact
<1> QED
  BY Emission, <1>1, PTL

\* What the join says of a fact.
LEMMA JoinedFact ==
  ASSUME NEW F, ~Conflict(F), NEW f \in F, f[2] # Undefined
  PROVE  f[1] \in DOMAIN JoinOf(F) /\ JoinOf(F)[f[1]] = f[2]
<1>1. f[2] \in Known(F, f[1])
  BY DEF Known
<1>2. \A s \in Known(F, f[1]) : s = f[2]
  BY DEF Known, Conflict
<1> QED
  BY <1>1, <1>2 DEF JoinOf

(* The prelude and the bodies are written by two passes, and agree: every  *)
(* C file this run wrote from a description compiles against the prelude   *)
(* of this run.  Files of earlier runs are not meant.                      *)
THEOREM Compiles == Spec => []BodiesCompile
<1>1. IInv /\ EInv => BodiesCompile
  <2> SUFFICES ASSUME IInv, EInv, Emitted, NEW f \in DOMAIN dir.files,
                      dir.files[f].run = run, dir.files[f].from # 0,
                      NEW e \in obj.fns[dir.files[f].from].edges
               PROVE  /\ \A n \in {e.a, e.b} : SymbolNode(n[1]) \in DOMAIN node_states
                      /\ e.kind = "Call" /\ IsSymbol(e.b) => node_states[e.b] = Function(e.n)
                      /\ e.kind = "Store" /\ IsSymbol(e.a) => ~IsFunction(node_states[e.a])
                      /\ e.kind = "ArgumentDefinition" =>
                           IsFunction(node_states[f]) /\ e.n < node_states[f][2]
    BY DEF BodiesCompile
  <2> DEFINE k == dir.files[f].from
             F == AllFacts(obj)
  <2>1. k \in 1..Len(obj.fns) /\ f = SymbolNode(Fn(k)) /\ obj \in Objects
    BY DEF IInv, EInv, OwnFiles
  <2>2. ~Conflict(F) /\ node_states = JoinOf(F)
    BY DEF IInv, InitialPassIsJoin
  <2>3. EndFact(obj, k) \in F /\ PairFacts(obj, k, e) \subseteq F
    BY <2>1, AllMember
  <2> HIDE DEF k, F
  <2>4. node_states[f] = Function(DefinedNargs(obj.fns[k].edges)) /\ f \in DOMAIN node_states
    BY <2>1, <2>2, <2>3, JoinedFact DEF EndFact, Fn, Function, Undefined
  <2>5. ASSUME NEW n \in {e.a, e.b} PROVE SymbolNode(n[1]) \in DOMAIN node_states
    <3>1. CASE n[1] = Fn(k)
      BY <2>1, <2>4, <3>1
    <3>2. CASE n[1] # Fn(k)
      <4>1. <<n, Undefined>> \in F
        BY <2>3, <3>2 DEF PairFacts, EdgeFacts, Foreign, Fn
      <4>2. n \in DOMAIN node_states
        BY <2>2, <4>1 DEF JoinOf
      <4>3. n = SymbolNode(n[1])
        <5>1. n[2] = -1
          BY <2>1, <3>2, ObjectNodes DEF k, Foreign, IsSymbol, Fn
        <5>2. n = <<n[1], n[2]>>
          BY <2>1, NodesArePairs DEF k
        <5> QED
          BY <5>1, <5>2 DEF SymbolNode
      <4> QED
        BY <4>2, <4>3
    <3> QED
      BY <3>1, <3>2
  <2>6. e.kind = "Call" /\ IsSymbol(e.b) => node_states[e.b] = Function(e.n)
    <3>1. e.kind = "Call" /\ IsSymbol(e.b) => <<e.b, Function(e.n)>> \in F
      BY <2>3 DEF PairFacts, EdgeFacts
    <3> QED
      BY <2>2, <3>1, JoinedFact DEF Function, Undefined
  <2>7. e.kind = "Store" /\ IsSymbol(e.a) => ~IsFunction(node_states[e.a])
    <3>1. e.kind = "Store" /\ IsSymbol(e.a) => <<e.a, GlobalData>> \in F
      BY <2>3 DEF PairFacts, EdgeFacts
    <3> QED
      BY <2>2, <3>1, JoinedFact DEF GlobalData, Undefined, IsFunction
  <2>8. e.kind = "ArgumentDefinition" => IsFunction(node_states[f]) /\ e.n < node_states[f][2]
    <3>1. IsNargs(obj.fns[k].edges, DefinedNargs(obj.fns[k].edges))
      BY <2>1 DEF EInv, Counted
    <3>2. e.n \in Nat /\ e \in obj.fns[k].edges
      BY <2>1, ObjectNodes DEF k
    <3>3. DefinedNargs(obj.fns[k].edges) \in Nat
      BY <2>1, <3>1, DefinedNargsType
    <3> QED
      BY <2>4, <3>1, <3>2, <3>3 DEF IsNargs, IsFunction, Function
  <2> QED
    BY <2>5, <2>6, <2>7, <2>8
<1> QED
  BY Emission, <1>1, PTL

----------------------------------------------------------------------------
(***************************************************************************)
(* bracelet-edges.                                                         *)
(***************************************************************************)

(* The invariant.                                                          *)

\* What mainResult() is doing, and for which record.
Position ==
  /\ prog \in Programs
  /\ at \in 1 .. Len(Work) + 1
  /\ status \in {"running", "visiting", "done", "failed", "aborted"}
  /\ status = "visiting" =>
       /\ at \in Records /\ todo \subseteq Rec(at).edges
       /\ entered = [fn |-> Dir(at), allocas |-> Rec(at).allocas, locals |-> Rec(at).locals]
  /\ status \in {"running", "done"} => todo = {}
  /\ status = "done" => at = Len(Work) + 1
  /\ status = "aborted" => prog.pretty \/ \E q \in ToSet(prog.relocations[Item]) : ~Inside(q)

\* Symbols of a static object: external ones are numbered without gaps or
\* doubles, and each has its name at its own address; pointers Q have names,
\* and there are no names but theirs.
AddressIn(ix, q) == IF prog.place[q[1]] = Extern THEN ExternSection + ix[q[1]] ELSE prog.place[q[1]] + q[2]
Knows(ix, q) == IsPointer(prog, q) /\ (prog.place[q[1]] = Extern => q[1] \in DOMAIN ix)
Numbered(ix) ==
  /\ IsFiniteSet(DOMAIN ix)
  /\ \A s \in DOMAIN ix : /\ s \in DOMAIN prog.place /\ prog.place[s] = Extern
                          /\ ix[s] \in Nat /\ ix[s] < Cardinality(DOMAIN ix)
  /\ \A s, t \in DOMAIN ix : ix[s] = ix[t] => s = t
NamedBy(ix, names, Q) ==
  /\ \A s \in DOMAIN ix : ExternSection + ix[s] \in DOMAIN names /\ names[ExternSection + ix[s]] = s
  /\ \A a \in DOMAIN names : (\E s \in DOMAIN ix : a = ExternSection + ix[s]) \/ (a \in Int /\ a < ExternSection)
  /\ \A q \in Q : Knows(ix, q) /\ AddressIn(ix, q) \in DOMAIN names
  /\ \A a \in DOMAIN names : \E q \in Q : q[1] = names[a] /\ AddressIn(ix, q) = a
NamesInv == Numbered(externs) /\ NamedBy(externs, symbol_names, ReadPointers)

\* What was relocated is known, and the graphs that were passed were relocated.
LoadedInv ==
  /\ \A k \in DOMAIN prog.contents :
       prog.contents[k].op = "graph" /\ prog.contents[k].arg \in relocated =>
         \A q \in ToSet(prog.relocations[prog.contents[k].arg]) : Knows(externs, q)
  /\ \A k \in DOMAIN prog.contents :
       k < at /\ prog.contents[k].op = "graph" /\ ~prog.core => prog.contents[k].arg \in relocated

\* The records that were entered, and the last of each directory.
Begun == {k \in Records : k < at \/ (k = at /\ status = "visiting")}
LastBegun == {k \in Begun : \A j \in Begun : Dir(j) = Dir(k) => j <= k}
Visited(k) == IF k = at THEN Rec(k).edges \ todo ELSE Rec(k).edges
Lines(e) ==
  IF e[1] = "Dlsym"
  THEN Assigns(e) \cup {<<"Dlsym", Node(e[2]), Node(e[3])>>}
  ELSE {<<e[1], Node(e[2]), Node(e[3])>>}
\* The page pointer of a dlsym edge is a symbol.
Sound(e) == e[1] = "Dlsym" => e[3][2] = -1
Live == status \in {"running", "visiting", "done"}
LineRight(line, k) ==
  line.node[2] >= 0 => /\ line.alloca = (line.node[2] < Rec(k).allocas)
                       /\ line.enclosing = Dir(k)
Directories ==
  Live => /\ DOMAIN facts = {Dir(k) : k \in Begun}
          /\ \A k \in LastBegun :
               /\ facts[Dir(k)].edges = UNION {Lines(e) : e \in Visited(k)}
               /\ facts[Dir(k)].sbom = Rec(k).sbom
               /\ \A line \in facts[Dir(k)].nodes : LineRight(line, k)
SoundInv == Live => \A k \in Begun : \A e \in Visited(k) : Sound(e)

\* Tables, their nodes, and what SeenNodes stands for.
Addresses ==
  Resolved \cup Places(prog) \cup {NULL} \cup {ExternSection + externs[s] : s \in DOMAIN externs}
IsGiven(n) == n[1] \in Addresses /\ n[2] \in Nat \cup {-1}
Tables == {"edges", "nodes", "sbom", "instructions", "FastNodeInstructions", "InlineFunctions"}
HasLine(a, n) == \E line \in facts[a].nodes : line.node = n
Files ==
  \A a \in DOMAIN facts :
    /\ facts[a] = [t \in Tables |-> facts[a][t]]
    /\ \A e \in facts[a].edges : \A n \in {e[2], e[3]} :
         IsGiven(n) /\ HasLine(a, n) /\ HasLine(a, <<n[1], -1>>)
SeenInv ==
  status = "visiting" => entered.fn \in DOMAIN facts /\ \A n \in SeenNodes : HasLine(entered.fn, n)

\* Files of units that were passed.
Passed(op) == {Work[j].arg : j \in {k \in DOMAIN Work : k < at /\ Work[k].op = op}}
UnitsInv ==
  Live => \A a \in DOMAIN facts :
    /\ IsOneOf(facts[a].FastNodeInstructions, {Callsites(a, u) : u \in Passed("labels")})
    /\ IsOneOf(facts[a].InlineFunctions, {Inlined(a, u) : u \in Passed("inlines")})

FactsInv == Position /\ NamesInv /\ LoadedInv /\ Directories /\ SoundInv /\ Files /\ SeenInv /\ UnitsInv

----------------------------------------------------------------------------
(* The work of a program.                                                  *)

LEMMA EachIs ==
  ASSUME NEW op, NEW s, s \in Seq(ToSet(s))
  PROVE  /\ Each(op, s) \in Seq({[op |-> op, arg |-> x] : x \in ToSet(s)})
         /\ Len(Each(op, s)) = Len(s)
         /\ \A k \in 1 .. Len(s) : Each(op, s)[k] = [op |-> op, arg |-> s[k]]
<1>1. DOMAIN s = 1 .. Len(s) /\ Len(s) \in Nat
  OBVIOUS
<1>2. \A k \in 1 .. Len(s) : s[k] \in ToSet(s)
  BY <1>1 DEF ToSet
<1> QED
  BY <1>1, <1>2 DEF Each

\* A sequence put after another.
LEMMA Appended ==
  ASSUME NEW U, NEW s \in Seq(U), NEW t \in Seq(U)
  PROVE  /\ s \o t \in Seq(U) /\ Len(s \o t) = Len(s) + Len(t)
         /\ \A k \in 1 .. Len(s) : (s \o t)[k] = s[k]
         /\ \A k \in 1 .. Len(t) : (s \o t)[Len(s) + k] = t[k]
  OBVIOUS

\* Four sequences, one after the other.
LEMMA AllAppended ==
  ASSUME NEW U, NEW a \in Seq(U), NEW b \in Seq(U), NEW c \in Seq(U), NEW d \in Seq(U),
         NEW w, w = a \o b \o c \o d
  PROVE  /\ Len(w) = Len(a) + Len(b) + Len(c) + Len(d) /\ DOMAIN w = 1 .. Len(w)
         /\ \A k \in 1 .. Len(a) : w[k] = a[k]
         /\ \A k \in 1 .. Len(b) : w[Len(a) + k] = b[k]
         /\ \A k \in 1 .. Len(c) : w[Len(a) + Len(b) + k] = c[k]
         /\ \A k \in 1 .. Len(d) : w[Len(a) + Len(b) + Len(c) + k] = d[k]
<1> DEFINE ab == a \o b
           abc == ab \o c
           abcd == abc \o d
<1>0. Len(a) \in Nat /\ Len(b) \in Nat /\ Len(c) \in Nat /\ Len(d) \in Nat
  OBVIOUS
<1>1. /\ ab \in Seq(U) /\ Len(ab) = Len(a) + Len(b)
      /\ \A k \in 1 .. Len(a) : ab[k] = a[k]
      /\ \A k \in 1 .. Len(b) : ab[Len(a) + k] = b[k]
  BY Appended
<1> HIDE DEF ab
<1>2. /\ abc \in Seq(U) /\ Len(abc) = Len(ab) + Len(c)
      /\ \A k \in 1 .. Len(ab) : abc[k] = ab[k]
      /\ \A k \in 1 .. Len(c) : abc[Len(ab) + k] = c[k]
  <2>1. abc = ab \o c
    OBVIOUS
  <2> HIDE DEF abc
  <2>2. Len(ab) \in Nat
    BY <1>1
  <2>3. ab \in Seq(U)
    BY <1>1
  <2>4. abc \in Seq(U)
    BY <2>1, <2>3
  <2>5. Len(abc) = Len(ab) + Len(c)
    BY <2>1, <2>3
  <2>6. \A k \in 1 .. Len(ab) : abc[k] = ab[k]
    BY <2>1, <2>3
  <2>7. \A k \in 1 .. Len(c) : abc[Len(ab) + k] = c[k]
    BY <2>1, <2>2, <2>3
  <2> QED
    BY <2>4, <2>5, <2>6, <2>7
<1> HIDE DEF abc
<1>3. /\ abcd \in Seq(U) /\ Len(abcd) = Len(abc) + Len(d)
      /\ \A k \in 1 .. Len(abc) : abcd[k] = abc[k]
      /\ \A k \in 1 .. Len(d) : abcd[Len(abc) + k] = d[k]
  <2>1. abcd = abc \o d
    OBVIOUS
  <2> HIDE DEF abcd
  <2>2. Len(abc) \in Nat
    BY <1>2
  <2>3. abc \in Seq(U)
    BY <1>2
  <2>4. abcd \in Seq(U)
    BY <2>1, <2>3
  <2>5. Len(abcd) = Len(abc) + Len(d)
    BY <2>1, <2>3
  <2>6. \A k \in 1 .. Len(abc) : abcd[k] = abc[k]
    BY <2>1, <2>3
  <2>7. \A k \in 1 .. Len(d) : abcd[Len(abc) + k] = d[k]
    BY <2>1, <2>2, <2>3
  <2> QED
    BY <2>4, <2>5, <2>6, <2>7
<1>4. w = abcd
  BY DEF ab, abc
<1> HIDE DEF abcd
<1>5. DOMAIN w = 1 .. Len(w)
  BY <1>3, <1>4
<1>6. \A k \in 1 .. Len(a) : w[k] = a[k]
  BY <1>0, <1>1, <1>2, <1>3, <1>4
<1>7. ASSUME NEW k \in 1 .. Len(b)
      PROVE  w[Len(a) + k] = b[k]
  <2>1. ab[Len(a) + k] = b[k]
    BY <1>1
  <2>2. Len(a) + k \in 1 .. Len(ab) /\ Len(a) + k \in 1 .. Len(abc)
    BY <1>0, <1>1, <1>2
  <2> QED
    BY <1>2, <1>3, <1>4, <2>1, <2>2
<1>8. \A k \in 1 .. Len(c) : w[Len(a) + Len(b) + k] = c[k]
  BY <1>0, <1>1, <1>2, <1>3, <1>4
<1>9. \A k \in 1 .. Len(d) : w[Len(a) + Len(b) + Len(c) + k] = d[k]
  BY <1>0, <1>1, <1>2, <1>3, <1>4
<1> QED
  BY <1>0, <1>1, <1>2, <1>3, <1>4, <1>5, <1>6, <1>7, <1>8, <1>9

\* Records and graphs first, then what is done with each unit.
LEMMA WorkIs ==
  ASSUME prog \in Programs
  PROVE  /\ Len(Work) \in Nat /\ DOMAIN Work = 1 .. Len(Work)
         /\ Len(prog.contents) \in Nat /\ DOMAIN prog.contents = 1 .. Len(prog.contents)
         /\ Len(prog.contents) <= Len(Work)
         /\ \A k \in DOMAIN prog.contents :
              Work[k] = prog.contents[k] /\ Work[k].op \in {"graph", "record"}
         /\ \A k \in DOMAIN Work : k > Len(prog.contents) => Work[k].op \in {"site", "labels", "inlines"}
         /\ {Work[k].arg : k \in {j \in DOMAIN Work : Work[j].op = "labels"}} = ToSet(prog.units)
         /\ {Work[k].arg : k \in {j \in DOMAIN Work : Work[j].op = "inlines"}} = ToSet(prog.units)
<1> DEFINE c == prog.contents
           s == Each("site", prog.sites)
           l == Each("labels", prog.units)
           v == Each("inlines", prog.units)
<1>1. /\ c \in Seq(ToSet(c)) /\ prog.sites \in Seq(ToSet(prog.sites)) /\ prog.units \in Seq(ToSet(prog.units))
      /\ \A k \in DOMAIN c : c[k].op \in {"graph", "record"}
  BY ProgramsAssumption
<1> DEFINE S == {[op |-> "site", arg |-> x] : x \in ToSet(prog.sites)}
           L == {[op |-> "labels", arg |-> x] : x \in ToSet(prog.units)}
           I == {[op |-> "inlines", arg |-> x] : x \in ToSet(prog.units)}
<1>2. s \in Seq(S) /\ Len(s) = Len(prog.sites) /\ \A k \in 1 .. Len(prog.sites) : s[k] = [op |-> "site", arg |-> prog.sites[k]]
  <2>1. prog.sites \in Seq(ToSet(prog.sites))
    BY <1>1
  <2> QED
    BY <2>1, EachIs, Zenon
<1>3. l \in Seq(L) /\ Len(l) = Len(prog.units) /\ \A k \in 1 .. Len(prog.units) : l[k] = [op |-> "labels", arg |-> prog.units[k]]
  <2>1. prog.units \in Seq(ToSet(prog.units))
    BY <1>1
  <2> QED
    BY <2>1, EachIs, Zenon
<1>4. v \in Seq(I) /\ Len(v) = Len(prog.units) /\ \A k \in 1 .. Len(prog.units) : v[k] = [op |-> "inlines", arg |-> prog.units[k]]
  <2>1. prog.units \in Seq(ToSet(prog.units))
    BY <1>1
  <2> QED
    BY <2>1, EachIs, Zenon
<1>5. Work = ((c \o s) \o l) \o v
  BY DEF Work
<1> DEFINE m == Len(c)   n == Len(s)   u == Len(l)
<1>6. /\ Len(Work) = m + n + u + Len(v) /\ DOMAIN Work = 1 .. Len(Work)
      /\ \A k \in 1 .. m : Work[k] = c[k]
      /\ \A k \in 1 .. n : Work[m + k] = s[k]
      /\ \A k \in 1 .. u : Work[m + n + k] = l[k]
      /\ \A k \in 1 .. Len(v) : Work[m + n + u + k] = v[k]
  <2> DEFINE U == ToSet(c) \cup S \cup L \cup I
  <2>0. c \in Seq(ToSet(c)) /\ s \in Seq(S) /\ l \in Seq(L) /\ v \in Seq(I)
    BY <1>1, <1>2, <1>3, <1>4
  <2> HIDE DEF c, s, l, v, S, L, I
  <2>1. c \in Seq(U) /\ s \in Seq(U) /\ l \in Seq(U) /\ v \in Seq(U)
    BY <2>0
  <2> HIDE DEF U
  <2> QED
    BY <1>5, <2>1, AllAppended
<1>7. m \in Nat /\ DOMAIN c = 1 .. m /\ n \in Nat /\ u \in Nat /\ Len(v) = u
  <2> HIDE DEF c, s, l, v, S, L, I
  <2> QED
    BY <1>1, <1>2, <1>3, <1>4
<1> HIDE DEF c, s, l, v, S, L, I
<1>13. ASSUME NEW k \in 1 .. n
       PROVE  Work[m + k].op = "site"
  <2>1. Work[m + k] = s[k]
    BY <1>6
  <2>2. s[k] = [op |-> "site", arg |-> prog.sites[k]]
    BY <1>2
  <2> QED
    BY <2>1, <2>2
<1>14. ASSUME NEW k \in 1 .. u
       PROVE  Work[m + n + k] = [op |-> "labels", arg |-> prog.units[k]]
  <2>1. Work[m + n + k] = l[k]
    BY <1>6
  <2> QED
    BY <1>3, <2>1
<1>15. ASSUME NEW k \in 1 .. u
       PROVE  Work[m + n + u + k] = [op |-> "inlines", arg |-> prog.units[k]]
  BY <1>4, <1>6, <1>7
<1>16. ASSUME NEW k \in DOMAIN Work
       PROVE  \/ k \in 1 .. m
              \/ k - m \in 1 .. n
              \/ k - (m + n) \in 1 .. u
              \/ k - (m + n + u) \in 1 .. u
  BY <1>6, <1>7
<1>17. ASSUME NEW k \in DOMAIN Work
       PROVE  \/ k \in 1 .. m /\ Work[k] = c[k] /\ Work[k].op \in {"graph", "record"}
              \/ k > m /\ Work[k].op = "site"
              \/ k > m /\ k - (m + n) \in 1 .. u /\ Work[k] = [op |-> "labels", arg |-> prog.units[k - (m + n)]]
              \/ k > m /\ k - (m + n + u) \in 1 .. u /\ Work[k] = [op |-> "inlines", arg |-> prog.units[k - (m + n + u)]]
  <2>1. k \in Int /\ m \in Int /\ n \in Int /\ u \in Int
    BY <1>6, <1>7
  <2>2. CASE k \in 1 .. m
    BY <1>1, <1>6, <1>7, <2>2
  <2>3. CASE k - m \in 1 .. n
    <3>1. Work[m + (k - m)].op = "site"
      BY <1>13, <2>3
    <3>2. m + (k - m) = k /\ k > m
      BY <2>1, <2>3
    <3> QED
      BY <3>1, <3>2
  <2>4. CASE k - (m + n) \in 1 .. u
    <3>1. Work[m + n + (k - (m + n))] = [op |-> "labels", arg |-> prog.units[k - (m + n)]]
      BY <1>14, <2>4
    <3>2. m + n + (k - (m + n)) = k /\ k > m
      BY <1>6, <1>7, <2>1, <2>4
    <3> QED
      BY <2>4, <3>1, <3>2
  <2>5. CASE k - (m + n + u) \in 1 .. u
    <3>1. Work[m + n + u + (k - (m + n + u))] = [op |-> "inlines", arg |-> prog.units[k - (m + n + u)]]
      BY <1>15, <2>5
    <3>2. m + n + u + (k - (m + n + u)) = k /\ k > m
      BY <1>7, <2>1, <2>5
    <3> QED
      BY <2>5, <3>1, <3>2
  <2> QED
    BY <1>16, <2>2, <2>3, <2>4, <2>5
<1>18. DOMAIN prog.units = 1 .. u
  BY <1>1, <1>3
<1>19. {Work[k].arg : k \in {j \in DOMAIN Work : Work[j].op = "labels"}} = ToSet(prog.units)
  <2>1. ASSUME NEW k \in DOMAIN Work, Work[k].op = "labels"
        PROVE  Work[k].arg \in ToSet(prog.units)
    BY <1>17, <1>18, <2>1 DEF ToSet
  <2>2. ASSUME NEW k \in DOMAIN prog.units
        PROVE  \E j \in DOMAIN Work : Work[j].op = "labels" /\ Work[j].arg = prog.units[k]
    <3>1. m + n + k \in DOMAIN Work
      BY <1>6, <1>7, <1>18
    <3>2. Work[m + n + k] = [op |-> "labels", arg |-> prog.units[k]]
      BY <1>14, <1>18
    <3> QED
      BY <3>1, <3>2
  <2> QED
    BY <2>1, <2>2 DEF ToSet
<1>20. {Work[k].arg : k \in {j \in DOMAIN Work : Work[j].op = "inlines"}} = ToSet(prog.units)
  <2>1. ASSUME NEW k \in DOMAIN Work, Work[k].op = "inlines"
        PROVE  Work[k].arg \in ToSet(prog.units)
    BY <1>17, <1>18, <2>1 DEF ToSet
  <2>2. ASSUME NEW k \in DOMAIN prog.units
        PROVE  \E j \in DOMAIN Work : Work[j].op = "inlines" /\ Work[j].arg = prog.units[k]
    <3>1. m + n + u + k \in DOMAIN Work
      BY <1>6, <1>7, <1>18
    <3>2. Work[m + n + u + k] = [op |-> "inlines", arg |-> prog.units[k]]
      BY <1>15, <1>18
    <3> QED
      BY <3>1, <3>2
  <2> QED
    BY <2>1, <2>2 DEF ToSet
<1>21. Len(Work) \in Nat /\ m <= Len(Work)
  BY <1>6, <1>7
<1>22. \A k \in DOMAIN c : Work[k] = c[k] /\ Work[k].op \in {"graph", "record"}
  BY <1>1, <1>6, <1>7
<1>23. \A k \in DOMAIN Work : k > m => Work[k].op \in {"site", "labels", "inlines"}
  BY <1>6, <1>7, <1>17
<1> QED
  BY <1>6, <1>7, <1>19, <1>20, <1>21, <1>22, <1>23 DEF c

----------------------------------------------------------------------------
(* Names.                                                                  *)

\* Addresses of the object are below those of external symbols.
LEMMA PlaceIs ==
  ASSUME prog \in Programs, NEW q, IsPointer(prog, q), prog.place[q[1]] # Extern
  PROVE  /\ prog.place[q[1]] \in Nat /\ prog.place[q[1]] + q[2] \in Int
         /\ Inside(q) => prog.place[q[1]] + q[2] < ExternSection
<1> DEFINE s == q[1]
<1>1. s \in DOMAIN prog.place /\ q[2] \in Int /\ prog.place[s] \in Places(prog)
  BY DEF Places, IsPointer
<1>2. /\ Places(prog) \subseteq 0 .. ExternSection - 1
      /\ prog.extent[s][1] \in Nat /\ prog.extent[s][2] \in 0 .. ExternSection - 1
  BY <1>1, ProgramsAssumption
<1>3. prog.place[s] \in 0 .. ExternSection - 1
  BY <1>1, <1>2, Zenon
<1>4. ExternSection \in Nat
  BY DEF ExternSection
<1>5. Inside(q) => prog.place[s] + q[2] \in prog.extent[s][1] .. prog.extent[s][2]
  BY DEF Inside
<1> QED
  BY <1>1, <1>2, <1>3, <1>4, <1>5

Extends(ix, more) == \A s \in DOMAIN ix : s \in DOMAIN more /\ more[s] = ix[s]
SymbolsRight(st, Q) == Numbered(st.externs) /\ NamedBy(st.externs, st.names, Q)

\* A symbol keeps its address while others are numbered.
LEMMA AddressStays ==
  ASSUME NEW ix, NEW more, Extends(ix, more), NEW q, Knows(ix, q)
  PROVE  Knows(more, q) /\ AddressIn(more, q) = AddressIn(ix, q)
BY DEF Extends, Knows, AddressIn

\* An external symbol gets the next number.
LEMMA NumberOne ==
  ASSUME NEW ix, Numbered(ix), NEW s \in DOMAIN prog.place, prog.place[s] = Extern, s \notin DOMAIN ix
  PROVE  LET more == Put(ix, s, Cardinality(DOMAIN ix))
         IN  /\ Numbered(more) /\ Extends(ix, more) /\ more[s] = Cardinality(DOMAIN ix)
             /\ DOMAIN more = DOMAIN ix \cup {s}
<1> DEFINE n == Cardinality(DOMAIN ix)
           more == Put(ix, s, n)
<1>1. IsFiniteSet(DOMAIN ix) /\ n \in Nat
  BY FS_CardinalityType DEF Numbered
<1>2. DOMAIN more = DOMAIN ix \cup {s} /\ more[s] = n
  BY DEF Put
<1>3. \A t \in DOMAIN ix : t \in DOMAIN more /\ more[t] = ix[t]
  BY DEF Put
<1>4. IsFiniteSet(DOMAIN more) /\ Cardinality(DOMAIN more) = n + 1
  BY <1>1, <1>2, FS_AddElement
<1> HIDE DEF more
<1>5. ASSUME NEW t \in DOMAIN more
      PROVE  /\ t \in DOMAIN prog.place /\ prog.place[t] = Extern
             /\ more[t] \in Nat /\ more[t] < n + 1
  <2>1. CASE t = s
    BY <1>1, <1>2, <2>1
  <2>2. CASE t \in DOMAIN ix
    BY <1>1, <1>3, <2>2 DEF Numbered
  <2> QED
    BY <1>2, <2>1, <2>2
<1>6. ASSUME NEW t \in DOMAIN more, NEW u \in DOMAIN more, more[t] = more[u]
      PROVE  t = u
  <2>1. \A x \in DOMAIN ix : ix[x] # n
    BY <1>1 DEF Numbered
  <2> QED
    BY <1>2, <1>3, <1>6, <2>1 DEF Numbered
<1>7. Numbered(more)
  BY <1>4, <1>5, <1>6 DEF Numbered
<1> QED
  BY <1>2, <1>3, <1>7 DEF Extends, more

\* A relocation that stays in its section gives its pointer a name, and an
\* external symbol an address of its own: the assertion on it holds.
LEMMA RelocateOne ==
  ASSUME prog \in Programs, NEW st, NEW Q, SymbolsRight(st, Q), ~st.aborted,
         NEW q, IsPointer(prog, q), Inside(q)
  PROVE  LET new == RelocateSymbol(st, q)
         IN  SymbolsRight(new, Q \cup {q}) /\ Extends(st.externs, new.externs) /\ ~new.aborted
<1> DEFINE s == q[1]
           fresh == prog.place[s] = Extern /\ s \notin DOMAIN st.externs
           ix == IF fresh THEN Put(st.externs, s, ExternIndex(st)) ELSE st.externs
           a == AddressIn(ix, q)
           names == IF a \in DOMAIN st.names THEN st.names ELSE Put(st.names, a, s)
           new == RelocateSymbol(st, q)
           n == Cardinality(DOMAIN st.externs)
<1>0. new.externs = ix /\ new.aborted = (fresh /\ a \in DOMAIN st.names) /\ new.names = names
  BY DEF RelocateSymbol, AddressIn
<1> HIDE DEF new
<1>a. s \in DOMAIN prog.place /\ Numbered(st.externs) /\ NamedBy(st.externs, st.names, Q)
  BY DEF IsPointer, SymbolsRight
<1>b. n \in Nat
  BY <1>a, FS_CardinalityType DEF Numbered
<1>1. /\ Numbered(ix) /\ Extends(st.externs, ix) /\ DOMAIN ix = DOMAIN st.externs \cup (IF fresh THEN {s} ELSE {})
      /\ fresh => ix[s] = n
  <2>1. CASE fresh
    <3>1. prog.place[s] = Extern /\ s \notin DOMAIN st.externs
      BY <2>1
    <3>2. ix = Put(st.externs, s, n)
      BY <2>1 DEF ExternIndex
    <3> HIDE DEF ix, fresh, s
    <3> QED
      BY <1>a, <2>1, <3>1, <3>2, NumberOne
  <2>2. CASE ~fresh
    BY <1>a, <2>2 DEF Extends
  <2> QED
    BY <2>1, <2>2
<1>2. Knows(ix, q)
  <2> HIDE DEF ix
  <2> QED
    BY <1>1 DEF Knows
<1>3. \A t \in DOMAIN st.externs : t \in DOMAIN ix /\ ix[t] = st.externs[t]
  <2> HIDE DEF ix
  <2> QED
    BY <1>1 DEF Extends
<1>4. ASSUME fresh, a \in DOMAIN st.names
      PROVE  FALSE
  <2>1. a = ExternSection + n
    <3> HIDE DEF ix
    <3> QED
      BY <1>1, <1>4 DEF AddressIn
  <2>2. ASSUME NEW t \in DOMAIN st.externs, a = ExternSection + st.externs[t]
        PROVE  FALSE
    <3>1. st.externs[t] \in Nat /\ st.externs[t] < n
      BY <1>a DEF Numbered
    <3> HIDE DEF a, n
    <3> QED
      BY <1>b, <2>1, <2>2, <3>1 DEF ExternSection
  <2>3. ~(a < ExternSection)
    BY <1>b, <2>1 DEF ExternSection
  <2> HIDE DEF a
  <2> QED
    BY <1>4, <1>a, <2>2, <2>3 DEF NamedBy
\* What had a name keeps it.
<1>5. /\ DOMAIN names = DOMAIN st.names \cup {a}
      /\ \A b \in DOMAIN st.names : names[b] = st.names[b]
      /\ a \notin DOMAIN st.names => names[a] = s
  <2> HIDE DEF a, s
  <2> QED
    BY DEF Put
<1>6. prog.place[s] # Extern => a \in Int /\ a < ExternSection
  BY PlaceIs DEF AddressIn
<1>7. prog.place[s] = Extern => a = ExternSection + ix[s] /\ s \in DOMAIN ix
  <2> HIDE DEF ix
  <2> QED
    BY <1>2 DEF AddressIn, Knows
<1>8. \A r \in Q : Knows(ix, r) /\ AddressIn(ix, r) = AddressIn(st.externs, r)
  <2> HIDE DEF ix
  <2> QED
    BY <1>1, <1>a, AddressStays DEF NamedBy
<1> HIDE DEF names, ix, s
<1>9. ASSUME NEW t \in DOMAIN ix
      PROVE  ExternSection + ix[t] \in DOMAIN names /\ names[ExternSection + ix[t]] = t
  <2>1. CASE t \in DOMAIN st.externs
    <3>1. ix[t] = st.externs[t]
      BY <1>3, <2>1
    <3> HIDE DEF fresh, a
    <3> QED
      BY <1>5, <1>a, <2>1, <3>1 DEF NamedBy
  <2>2. CASE t \notin DOMAIN st.externs
    <3>1. fresh /\ t = s
      <4> HIDE DEF fresh
      <4> QED
        BY <1>1, <2>2
    <3>2. a = ExternSection + ix[t]
      BY <1>7, <3>1
    <3>3. a \notin DOMAIN st.names
      <4> HIDE DEF fresh, a
      <4> QED
        BY <1>4, <3>1
    <3> HIDE DEF a, fresh
    <3> QED
      BY <1>5, <3>1, <3>2, <3>3
  <2> QED
    BY <2>1, <2>2
<1>10. ASSUME NEW b \in DOMAIN names
       PROVE  (\E t \in DOMAIN ix : b = ExternSection + ix[t]) \/ (b \in Int /\ b < ExternSection)
  <2> HIDE DEF a, fresh
  <2>1. CASE b = a
    BY <1>6, <1>7, <2>1
  <2>2. CASE b \in DOMAIN st.names
    <3>1. (\E t \in DOMAIN st.externs : b = ExternSection + st.externs[t]) \/ (b \in Int /\ b < ExternSection)
      BY <1>a, <2>2 DEF NamedBy
    <3> QED
      BY <1>3, <3>1
  <2> QED
    BY <1>5, <2>1, <2>2
<1>11. \A r \in Q \cup {q} : Knows(ix, r) /\ AddressIn(ix, r) \in DOMAIN names
  <2> HIDE DEF fresh
  <2> QED
    BY <1>2, <1>5, <1>8, <1>a DEF NamedBy
<1>12. ASSUME NEW b \in DOMAIN names
       PROVE  \E r \in Q \cup {q} : r[1] = names[b] /\ AddressIn(ix, r) = b
  <2>1. CASE b \in DOMAIN st.names
    <3>1. PICK r \in Q : r[1] = st.names[b] /\ AddressIn(st.externs, r) = b
      BY <1>a, <2>1 DEF NamedBy
    <3> HIDE DEF a, fresh
    <3> QED
      BY <1>5, <1>8, <2>1, <3>1
  <2>2. CASE b \notin DOMAIN st.names
    <3>1. b = a /\ names[b] = s
      <4> HIDE DEF a, fresh
      <4> QED
        BY <1>5, <2>2
    <3> QED
      BY <3>1 DEF s
  <2> QED
    BY <2>1, <2>2
<1> HIDE DEF a, fresh, n
<1>13. Numbered(ix) /\ NamedBy(ix, names, Q \cup {q})
  <2>1. \A t \in DOMAIN ix : ExternSection + ix[t] \in DOMAIN names /\ names[ExternSection + ix[t]] = t
    BY <1>9
  <2>2. \A b \in DOMAIN names : (\E t \in DOMAIN ix : b = ExternSection + ix[t]) \/ (b \in Int /\ b < ExternSection)
    BY <1>10
  <2> DEFINE R == Q \cup {q}
  <2>3. \A b \in DOMAIN names : \E r \in R : r[1] = names[b] /\ AddressIn(ix, r) = b
    BY <1>12
  <2>4. \A r \in R : Knows(ix, r) /\ AddressIn(ix, r) \in DOMAIN names
    BY <1>11
  <2> HIDE DEF R
  <2>5. NamedBy(ix, names, R)
    BY <2>1, <2>2, <2>3, <2>4, Zenon DEF NamedBy
  <2> QED
    BY <1>1, <2>5 DEF R
<1>14. ~new.aborted
  BY <1>0, <1>4
<1> QED
  BY <1>0, <1>1, <1>13, <1>14 DEF SymbolsRight, new

\* One that does not stops the program; nothing is read after that.
LEMMA RelocateNone ==
  ASSUME NEW st, st = [st EXCEPT !.aborted = st.aborted], DOMAIN st = {"externs", "aborted", "names"},
         NEW q, st.aborted \/ ~Inside(q)
  PROVE  RelocateSymbol(st, q).aborted
BY DEF RelocateSymbol

\* The relocations of a section, one after the other.
LEMMA RelocationRuns ==
  ASSUME NEW section, Len(prog.relocations[section]) \in Nat
  PROVE  \E u : /\ u[0] = [externs |-> externs, aborted |-> FALSE, names |-> symbol_names]
                /\ Relocated(section) = u[Len(prog.relocations[section])]
                /\ \A k \in 1 .. Len(prog.relocations[section]) :
                     u[k] = RelocateSymbol(u[k - 1], prog.relocations[section][k])
<1> DEFINE w == [externs |-> externs, aborted |-> FALSE, names |-> symbol_names]
           s == prog.relocations[section]
           P(n, u) == u = [k \in 0 .. n |-> IF k = 0 THEN w ELSE RelocateSymbol(u[k - 1], s[k])]
           T == {n \in Nat : \E u : P(n, u)}
           N == Len(s)
<1> HIDE DEF w, s
<1>1. 0 \in T
  <2> DEFINE u == [k \in 0 .. 0 |-> w]
  <2>1. P(0, u)
    OBVIOUS
  <2> QED
    BY <2>1
<1>2. ASSUME NEW n \in Nat, n \in T
      PROVE  n + 1 \in T
  <2>1. PICK u : P(n, u)
    BY <1>2
  <2> DEFINE v == [k \in 0 .. n + 1 |-> IF k = n + 1 THEN RelocateSymbol(u[n], s[n + 1]) ELSE u[k]]
  <2>2. P(n + 1, v)
    <3>1. ASSUME NEW k \in 0 .. n
          PROVE  v[k] = u[k] /\ u[k] = IF k = 0 THEN w ELSE RelocateSymbol(u[k - 1], s[k])
      BY <2>1
    <3>2. v[n + 1] = RelocateSymbol(u[n], s[n + 1])
      OBVIOUS
    <3>3. v = [k \in 0 .. n + 1 |-> v[k]]
      OBVIOUS
    <3> HIDE DEF v
    <3>4. ASSUME NEW k \in 0 .. n + 1
          PROVE  v[k] = IF k = 0 THEN w ELSE RelocateSymbol(v[k - 1], s[k])
      <4>1. CASE k = n + 1
        <5>1. k # 0 /\ k - 1 = n /\ v[n] = u[n]
          BY <3>1, <4>1
        <5> QED
          BY <3>2, <4>1, <5>1
      <4>2. CASE k = 0
        BY <3>1, <4>2
      <4>3. CASE k # n + 1 /\ k # 0
        <5>1. k \in 0 .. n /\ k - 1 \in 0 .. n
          BY <4>3
        <5>2. v[k] = u[k] /\ v[k - 1] = u[k - 1]
          BY <3>1, <5>1
        <5> QED
          BY <3>1, <4>3, <5>1, <5>2
      <4> QED
        BY <4>1, <4>2, <4>3
    <3> QED
      BY <3>3, <3>4
  <2> HIDE DEF P, v
  <2>3. \E x : P(n + 1, x)
    BY <2>2
  <2> QED
    BY <2>3
<1>3. N \in Nat
  BY DEF s
<1>4. N \in T
  <2> HIDE DEF T, N
  <2> QED
    BY <1>1, <1>2, <1>3, NatSetInduction
<1> DEFINE u == CHOOSE u : P(N, u)
<1>5. P(N, u)
  <2>1. \E x : P(N, x)
    BY <1>4
  <2> HIDE DEF P
  <2> QED
    BY <2>1
<1>6. Relocated(section) = u[N]
  BY DEF Relocated, w, s
<1> HIDE DEF u
<1>7. ASSUME NEW k \in 0 .. N
      PROVE  u[k] = IF k = 0 THEN w ELSE RelocateSymbol(u[k - 1], s[k])
  BY <1>5
<1>8. u[0] = w
  BY <1>3, <1>7
<1>9. ASSUME NEW k \in 1 .. N
      PROVE  u[k] = RelocateSymbol(u[k - 1], s[k])
  BY <1>3, <1>7
<1> QED
  BY <1>6, <1>8, <1>9 DEF w, s

LEMMA ExtendsOn ==
  ASSUME NEW x, NEW y, NEW z, Extends(x, y), Extends(y, z)
  PROVE  Extends(x, z)
BY DEF Extends

\* Relocating a section makes all its pointers known and moves none, unless
\* one of them leaves its section.
LEMMA RelocatedRight ==
  ASSUME prog \in Programs, NamesInv, NEW section, IsSection(prog, section)
  PROVE  LET R == Relocated(section)
             Q == ToSet(prog.relocations[section])
         IN  IF R.aborted THEN \E q \in Q : ~Inside(q)
             ELSE SymbolsRight(R, ReadPointers \cup Q) /\ Extends(externs, R.externs)
<1> DEFINE s == prog.relocations[section]
           w == [externs |-> externs, aborted |-> FALSE, names |-> symbol_names]
           N == Len(s)
           Q == ToSet(s)
<1>1. /\ N \in Nat /\ Q = {s[k] : k \in 1 .. N} /\ \A k \in 1 .. N : IsPointer(prog, s[k])
  <2>1. s \in Seq(ToSet(s)) /\ \A q \in ToSet(s) : IsPointer(prog, q)
    BY DEF IsSection
  <2>2. N \in Nat /\ DOMAIN s = 1 .. N
    BY <2>1
  <2> HIDE DEF s
  <2> QED
    BY <2>1, <2>2 DEF ToSet
<1>2. PICK u : /\ u[0] = w /\ Relocated(section) = u[N]
               /\ \A k \in 1 .. N : u[k] = RelocateSymbol(u[k - 1], s[k])
  <2> HIDE DEF s
  <2> QED
    BY <1>1, RelocationRuns DEF s
<1> DEFINE Seen(n) == ReadPointers \cup {s[k] : k \in 1 .. n}
           Fine(n) == ~u[n].aborted /\ SymbolsRight(u[n], Seen(n)) /\ Extends(externs, u[n].externs)
           Good(n) == /\ u[n].aborted => \E k \in 1 .. N : ~Inside(s[k])
                      /\ ~u[n].aborted => Fine(n)
                      /\ u[n] = [u[n] EXCEPT !.aborted = u[n].aborted]
                      /\ DOMAIN u[n] = {"externs", "aborted", "names"}
           T == {n \in Nat : n <= N => Good(n)}
<1> HIDE DEF s, N
<1>3. 0 \in T
  <2>1. SymbolsRight(w, ReadPointers) /\ Extends(externs, w.externs) /\ ~w.aborted
    BY DEF SymbolsRight, NamesInv, Extends
  <2>2. Seen(0) = ReadPointers
    OBVIOUS
  <2>3. w = [w EXCEPT !.aborted = w.aborted] /\ DOMAIN w = {"externs", "aborted", "names"}
    OBVIOUS
  <2> HIDE DEF Seen, w
  <2> QED
    BY <1>2, <2>1, <2>2, <2>3
<1>4. ASSUME NEW n \in Nat, n \in T
      PROVE  n + 1 \in T
  <2> SUFFICES ASSUME n + 1 <= N
               PROVE  Good(n + 1)
    OBVIOUS
  <2> DEFINE q == s[n + 1]
  <2>1. Good(n) /\ n + 1 \in 1 .. N /\ (n + 1) - 1 = n
    BY <1>1, <1>4
  <2>2. u[n + 1] = RelocateSymbol(u[n], q) /\ IsPointer(prog, q)
    BY <1>1, <1>2, <2>1
  <2>3. Seen(n + 1) = Seen(n) \cup {q}
    BY <2>1
  <2>4. /\ u[n + 1] = [u[n + 1] EXCEPT !.aborted = u[n + 1].aborted]
        /\ DOMAIN u[n + 1] = {"externs", "aborted", "names"}
    <3> HIDE DEF Seen, Fine, q
    <3> QED
      BY <2>1, <2>2 DEF RelocateSymbol
  <2>5. CASE ~u[n].aborted /\ Inside(q)
    <3>1. SymbolsRight(u[n], Seen(n)) /\ Extends(externs, u[n].externs)
      BY <2>1, <2>5
    <3> HIDE DEF Seen, q
    <3>2. SymbolsRight(u[n + 1], Seen(n) \cup {q}) /\ Extends(u[n].externs, u[n + 1].externs) /\ ~u[n + 1].aborted
      <4> HIDE DEF Good, Fine, T
      <4>1. IsPointer(prog, q) /\ Inside(q) /\ ~u[n].aborted /\ SymbolsRight(u[n], Seen(n))
        BY <2>2, <2>5, <3>1
      <4>2. LET x == RelocateSymbol(u[n], q)
            IN  SymbolsRight(x, Seen(n) \cup {q}) /\ Extends(u[n].externs, x.externs) /\ ~x.aborted
        BY <4>1, RelocateOne
      <4> QED
        BY <2>2, <4>2
    <3>3. Extends(externs, u[n + 1].externs)
      BY <3>1, <3>2, ExtendsOn
    <3> QED
      BY <2>3, <2>4, <3>2, <3>3
  <2>6. CASE u[n].aborted \/ ~Inside(q)
    <3>1. \E k \in 1 .. N : ~Inside(s[k])
      BY <2>1, <2>6
    <3>2. u[n + 1].aborted
      <4>1. u[n] = [u[n] EXCEPT !.aborted = u[n].aborted] /\ DOMAIN u[n] = {"externs", "aborted", "names"}
        <5> HIDE DEF Fine
        <5> QED
          BY <2>1
      <4> HIDE DEF q, Good, Fine, T, Seen
      <4>2. RelocateSymbol(u[n], q).aborted
        BY <2>6, <4>1, RelocateNone
      <4> QED
        BY <2>2, <4>2
    <3> HIDE DEF Fine
    <3> QED
      BY <2>4, <3>1, <3>2
  <2> QED
    BY <2>5, <2>6
<1>5. Good(N)
  <2>1. Nat \subseteq T
    <3> HIDE DEF T
    <3> QED
      BY <1>3, <1>4, NatSetInduction
  <2>2. N \in Nat /\ N <= N
    BY <1>1
  <2> HIDE DEF Good
  <2> QED
    BY <2>1, <2>2
<1>6. Seen(N) = ReadPointers \cup Q
  BY <1>1
<1>7. (\E k \in 1 .. N : ~Inside(s[k])) => \E q \in Q : ~Inside(q)
  BY <1>1
<1> HIDE DEF Seen, Q
<1>8. IF u[N].aborted THEN \E q \in Q : ~Inside(q)
      ELSE SymbolsRight(u[N], ReadPointers \cup Q) /\ Extends(externs, u[N].externs)
  BY <1>5, <1>6, <1>7
<1> QED
  BY <1>2, <1>8 DEF Q, s

----------------------------------------------------------------------------
(* Records and their nodes.                                                *)

LEMMA Frame ==
  ASSUME prog' = prog
  PROVE  Work' = Work /\ Records' = Records /\ \A k : Rec(k)' = Rec(k)
BY DEF Work, Each, Records, Rec

\* A node of a record refers to a pointer that was read before it.
LEMMA NodeIs ==
  ASSUME prog \in Programs, NEW k \in DOMAIN prog.contents, NEW n, IsNode(prog, k, n)
  PROVE  /\ n[2] \in Nat \cup {-1} /\ IsPointer(prog, n[1])
         /\ \E j \in 1 .. k : /\ j \in DOMAIN prog.contents /\ prog.contents[j].op = "graph"
                             /\ n[1] \in ToSet(prog.relocations[prog.contents[j].arg])
                             /\ prog.contents[j].arg \in DOMAIN prog.relocations
<1>1. n[2] \in Nat \cup {-1}
  BY DEF IsNode
<1>2. PICK j \in 1 .. k : prog.contents[j].op = "graph" /\ n[1] \in ToSet(prog.relocations[prog.contents[j].arg])
  BY DEF IsNode
<1>3. j \in DOMAIN prog.contents
  BY <1>2, WorkIs
<1>4. IsSection(prog, prog.contents[j].arg)
  BY <1>2, <1>3, ProgramsAssumption
<1> QED
  BY <1>1, <1>2, <1>3, <1>4 DEF IsSection

LEMMA RecordIs ==
  ASSUME prog \in Programs, NEW k \in Records
  PROVE  /\ IsRecord(prog, k, Rec(k)) /\ k \in 1 .. Len(prog.contents) /\ Len(prog.contents) \in Nat
         /\ k \in DOMAIN prog.contents
         /\ k \in DOMAIN Work /\ Work[k].op = "record" /\ Work[k].arg = Rec(k)
         /\ IsPointer(prog, Rec(k).fn) /\ prog.place[Rec(k).fn[1]] # Extern
         /\ Dir(k) = prog.place[Rec(k).fn[1]] + Rec(k).fn[2]
<1>1. k \in DOMAIN prog.contents /\ prog.contents[k].op = "record" /\ prog.contents[k].arg = Rec(k)
  BY DEF Records, Rec
<1>2. IsRecord(prog, k, Rec(k))
  BY <1>1, ProgramsAssumption
<1>3. /\ k \in 1 .. Len(prog.contents) /\ Len(prog.contents) \in Nat
      /\ k \in DOMAIN Work /\ Work[k] = prog.contents[k]
  BY <1>1, WorkIs
<1>4. IsNode(prog, k, <<Rec(k).fn, -1>>) /\ prog.place[Rec(k).fn[1]] # Extern
  BY <1>2 DEF IsRecord
<1>5. IsPointer(prog, Rec(k).fn)
  BY <1>1, <1>4, NodeIs
<1> QED
  BY <1>1, <1>2, <1>3, <1>4, <1>5 DEF Dir, Address

LEMMA DirStays ==
  ASSUME prog \in Programs, prog' = prog, NEW k \in Records
  PROVE  Dir(k)' = Dir(k)
<1>1. Rec(k)' = Rec(k)
  BY DEF Rec
<1>2. Dir(k) = prog.place[Rec(k).fn[1]] + Rec(k).fn[2] /\ prog.place[Rec(k).fn[1]] # Extern
  BY RecordIs
<1> QED
  BY <1>1, <1>2 DEF Dir, Address

\* The graph of a record was relocated before the record is read.
LEMMA NodesKnown ==
  ASSUME Position, LoadedInv, NEW k \in Records, k <= at, NEW e \in Rec(k).edges, NEW n \in {e[2], e[3]}
  PROVE  /\ Knows(externs, n[1]) /\ n[2] \in Nat \cup {-1}
         /\ \E section \in DOMAIN prog.relocations : n[1] \in ToSet(prog.relocations[section])
<1>1. prog \in Programs /\ at \in Int
  BY WorkIs DEF Position
<1>2. IsRecord(prog, k, Rec(k)) /\ k \in 1 .. Len(prog.contents) /\ Len(prog.contents) \in Nat /\ k \in DOMAIN prog.contents
  BY <1>1, RecordIs
<1>3. IsNode(prog, k, n)
  BY <1>2 DEF IsRecord
<1>4. /\ n[2] \in Nat \cup {-1} /\ IsPointer(prog, n[1])
      /\ \E j \in 1 .. k : /\ j \in DOMAIN prog.contents /\ prog.contents[j].op = "graph"
                          /\ n[1] \in ToSet(prog.relocations[prog.contents[j].arg])
                          /\ prog.contents[j].arg \in DOMAIN prog.relocations
  BY <1>1, <1>2, <1>3, NodeIs
<1>5. PICK j \in 1 .. k : /\ j \in DOMAIN prog.contents /\ prog.contents[j].op = "graph"
                         /\ n[1] \in ToSet(prog.relocations[prog.contents[j].arg])
                         /\ prog.contents[j].arg \in DOMAIN prog.relocations
  BY <1>4
<1>6. CASE prog.core
  <2>1. Extern \notin {prog.place[s] : s \in DOMAIN prog.place}
    BY <1>1, <1>6, ProgramsAssumption
  <2>2. prog.place[n[1][1]] # Extern
    BY <1>4, <2>1 DEF IsPointer
  <2> QED
    BY <1>4, <1>5, <2>2 DEF Knows
<1>7. CASE ~prog.core
  <2>1. j # k
    BY <1>5 DEF Records
  <2>2. j < at
    BY <1>1, <1>2, <1>5, <2>1
  <2>3. prog.contents[j].arg \in relocated
    BY <1>5, <1>7, <2>2 DEF LoadedInv
  <2> QED
    BY <1>4, <1>5, <2>3 DEF LoadedInv
<1> QED
  BY <1>6, <1>7

LEMMA NodeGiven ==
  ASSUME prog \in Programs, NEW n, Knows(externs, n[1]), n[2] \in Nat \cup {-1},
         \E section \in DOMAIN prog.relocations : n[1] \in ToSet(prog.relocations[section])
  PROVE  IsGiven(Node(n))
<1>1. Node(n) = <<Address(n[1]), n[2]>>
  BY DEF Node
<1>2. CASE prog.place[n[1][1]] = Extern
  <2>1. n[1][1] \in DOMAIN externs /\ Address(n[1]) = ExternSection + externs[n[1][1]]
    BY <1>2 DEF Knows, Address
  <2> QED
    BY <1>1, <2>1 DEF IsGiven, Addresses
<1>3. CASE prog.place[n[1][1]] # Extern
  <2>1. Address(n[1]) = prog.place[n[1][1]] + n[1][2]
    BY <1>3 DEF Address
  <2>2. Address(n[1]) \in Resolved
    BY <1>3, <2>1 DEF Resolved
  <2> QED
    BY <1>1, <2>2 DEF IsGiven, Addresses
<1> QED
  BY <1>2, <1>3

\* Of the pages of a call site, all that counts is what they hold.
LEMMA PagesGiven ==
  ASSUME prog \in Programs, NEW e, prog.core => e[3][1] \in DOMAIN prog.pages
  PROVE  /\ PagePointers(e[3][1]) \subseteq Places(prog) \cup {NULL}
         /\ PagePointers(e[3][1]) \ {NULL} = Dlsyms(e)
<1> DEFINE Slots(page) == {page.slots[m] : m \in {j \in 1 .. PageSize : j <= page.count}}
           pages == ToSet(prog.pages[e[3][1]].pages)
<1>1. CASE prog.core
  <2>1. PageSize \in Nat /\ \A page \in pages : IsPage(prog, page)
    BY <1>1, ProgramsAssumption
  <2>2. ASSUME NEW page \in pages
        PROVE  Slots(page) \subseteq Places(prog) \cup {NULL} /\ Slots(page) \ {NULL} = ToSet(page.slots) \ {NULL}
    <3>1. /\ page.slots \in Seq(Places(prog) \cup {NULL}) /\ Len(page.slots) = PageSize
          /\ page.count \in Nat /\ \A m \in DOMAIN page.slots : m > page.count => page.slots[m] = NULL
      BY <2>1 DEF IsPage
    <3>2. DOMAIN page.slots = 1 .. PageSize /\ \A m \in 1 .. PageSize : page.slots[m] \in Places(prog) \cup {NULL}
      BY <3>1
    <3>3. \A m \in 1 .. PageSize : ~(m <= page.count) => page.slots[m] = NULL
      BY <2>1, <3>1, <3>2
    <3> QED
      BY <3>2, <3>3 DEF ToSet
  <2>3. PagePointers(e[3][1]) = UNION {Slots(page) : page \in pages}
    BY <1>1 DEF PagePointers, PageList
  <2>4. Dlsyms(e) = (UNION {ToSet(page.slots) : page \in pages}) \ {NULL}
    <3>1. Dlsyms(e) = IF prog.core THEN (UNION {ToSet(page.slots) : page \in pages}) \ {NULL} ELSE {}
      BY DEF Dlsyms
    <3> QED
      BY <1>1, <3>1
  <2> HIDE DEF Slots, pages
  <2> QED
    BY <2>2, <2>3, <2>4
<1>2. CASE ~prog.core
  <2>1. PageList(e[3][1]).pages = <<>>
    BY <1>2 DEF PageList
  <2>2. ToSet(PageList(e[3][1]).pages) = {}
    BY <2>1 DEF ToSet
  <2> QED
    BY <1>2, <2>2 DEF PagePointers, Dlsyms
<1> QED
  BY <1>1, <1>2

\* The page pointer of a sound edge has its pages.
LEMMA PageKnown ==
  ASSUME prog \in Programs, NEW k \in Records, NEW e \in Rec(k).edges, e[1] = "Dlsym", Sound(e)
  PROVE  prog.core => e[3][1] \in DOMAIN prog.pages
BY RecordIs DEF IsRecord, Sound

\* Every node of a line is one of the object's.
LEMMA LinesGiven ==
  ASSUME Position, NamesInv, LoadedInv, NEW k \in Records, k <= at, NEW e \in Rec(k).edges, Sound(e),
         NEW x \in Lines(e), NEW n \in {x[2], x[3]}
  PROVE  IsGiven(n)
<1>1. prog \in Programs
  BY DEF Position
<1>2. IsGiven(Node(e[2])) /\ IsGiven(Node(e[3]))
  BY <1>1, NodesKnown, NodeGiven
<1>3. CASE x = <<e[1], Node(e[2]), Node(e[3])>>
  BY <1>2, <1>3
<1>4. CASE e[1] = "Dlsym" /\ x \in Assigns(e)
  <2>1. PICK a \in PagePointers(e[3][1]) : x = <<"Assign", Node(e[2]), <<a, -1>>>>
    BY <1>4 DEF Assigns
  <2>2. a \in Places(prog) \cup {NULL}
    BY <1>1, <1>4, <2>1, PageKnown, PagesGiven
  <2>3. IsGiven(<<a, -1>>)
    BY <2>2 DEF IsGiven, Addresses
  <2> QED
    BY <1>2, <2>1, <2>3
<1> QED
  BY <1>3, <1>4 DEF Lines

\* Lines are the same when more symbols are known.
LEMMA LinesStay ==
  ASSUME Position, LoadedInv, prog' = prog, Extends(externs, externs'),
         NEW k \in Records, k <= at, NEW e \in Rec(k).edges
  PROVE  Lines(e)' = Lines(e)
<1>1. ASSUME NEW n \in {e[2], e[3]}
      PROVE  Node(n)' = Node(n)
  <2>1. Knows(externs, n[1])
    BY NodesKnown
  <2> QED
    BY <2>1 DEF Node, Address, Knows, Extends
<1>2. PagePointers(e[3][1])' = PagePointers(e[3][1])
  BY DEF PagePointers, PageList
<1>3. Node(e[2])' = Node(e[2]) /\ Node(e[3])' = Node(e[3])
  BY <1>1
<1>4. Assigns(e)' = Assigns(e)
  BY <1>2, <1>3 DEF Assigns
<1> QED
  BY <1>3, <1>4 DEF Lines

----------------------------------------------------------------------------
(* Steps that leave the directories alone.                                 *)

LEMMA NamesFrame ==
  ASSUME NamesInv, prog' = prog, externs' = externs, symbol_names' = symbol_names, relocated' = relocated
  PROVE  NamesInv'
BY DEF NamesInv, Numbered, NamedBy, Knows, AddressIn, ReadPointers

\* Passing anything but a graph needs nothing new.
LEMMA LoadedFrame ==
  ASSUME Position, LoadedInv, prog' = prog, externs' = externs, relocated' = relocated,
         \/ at' = at
         \/ at' = at + 1 /\ Work[at].op # "graph"
  PROVE  LoadedInv'
<1>1. ASSUME NEW k \in DOMAIN prog.contents, k < at', prog.contents[k].op = "graph", ~prog.core
      PROVE  prog.contents[k].arg \in relocated
  <2>1. Work[k] = prog.contents[k] /\ k \in Int /\ at \in Int
    BY WorkIs DEF Position
  <2>2. k # at \/ at' = at
    BY <1>1, <2>1
  <2>3. k < at
    BY <1>1, <2>1, <2>2
  <2> QED
    BY <1>1, <2>3 DEF LoadedInv
<1>2. \A s : Knows(externs, s)' = Knows(externs, s)
  BY DEF Knows
<1> QED
  BY <1>1, <1>2 DEF LoadedInv

LEMMA DirectoriesFrame ==
  ASSUME Position, LoadedInv, Directories, prog' = prog, Extends(externs, externs'),
         Begun' = Begun, \A k \in Begun : Visited(k)' = Visited(k), Live' => Live,
         DOMAIN facts' = DOMAIN facts,
         \A a \in DOMAIN facts : /\ facts'[a].edges = facts[a].edges /\ facts'[a].sbom = facts[a].sbom
                                 /\ facts'[a].nodes = facts[a].nodes
  PROVE  Directories'
<1> SUFFICES ASSUME Live
             PROVE  /\ DOMAIN facts' = {Dir(k)' : k \in Begun'}
                    /\ \A k \in LastBegun' :
                         /\ facts'[Dir(k)'].edges = UNION {Lines(e)' : e \in Visited(k)'}
                         /\ facts'[Dir(k)'].sbom = Rec(k)'.sbom
                         /\ \A line \in facts'[Dir(k)'].nodes : LineRight(line, k)'
  BY DEF Directories
<1>1. prog \in Programs /\ at \in Int
  BY WorkIs DEF Position
<1>2. ASSUME NEW k \in Begun
      PROVE  /\ k \in Records /\ k <= at /\ Dir(k)' = Dir(k) /\ Rec(k)' = Rec(k)
             /\ Dir(k) \in DOMAIN facts
  <2>1. k \in Records /\ k \in Int
    BY <1>1, RecordIs DEF Begun
  <2>2. k <= at
    BY <1>1, <2>1 DEF Begun
  <2>3. Dir(k) \in DOMAIN facts
    BY DEF Directories
  <2> QED
    BY <1>1, <2>1, <2>2, <2>3, DirStays, Frame
<1>3. DOMAIN facts' = {Dir(k)' : k \in Begun'}
  BY <1>2 DEF Directories
<1>4. LastBegun' = LastBegun
  BY <1>2 DEF LastBegun
<1>5. ASSUME NEW k \in LastBegun
      PROVE  /\ facts'[Dir(k)'].edges = UNION {Lines(e)' : e \in Visited(k)'}
             /\ facts'[Dir(k)'].sbom = Rec(k)'.sbom
             /\ \A line \in facts'[Dir(k)'].nodes : LineRight(line, k)'
  <2>1. k \in Begun
    BY DEF LastBegun
  <2>2. \A e \in Visited(k) : Lines(e)' = Lines(e)
    BY <1>2, <2>1, LinesStay DEF Visited
  <2>3. \A line : LineRight(line, k)' = LineRight(line, k)
    BY <1>2, <2>1 DEF LineRight
  <2>4. UNION {Lines(e)' : e \in Visited(k)'} = UNION {Lines(e) : e \in Visited(k)}
    BY <2>1, <2>2
  <2>5. /\ facts[Dir(k)].edges = UNION {Lines(e) : e \in Visited(k)}
        /\ facts[Dir(k)].sbom = Rec(k).sbom
        /\ \A line \in facts[Dir(k)].nodes : LineRight(line, k)
    BY DEF Directories
  <2> QED
    BY <1>2, <2>1, <2>3, <2>4, <2>5
<1> QED
  BY <1>3, <1>4, <1>5

LEMMA SoundFrame ==
  ASSUME SoundInv, Begun' = Begun, \A k \in Begun : Visited(k)' = Visited(k), Live' => Live
  PROVE  SoundInv'
BY DEF SoundInv, Sound

LEMMA GivenStays ==
  ASSUME prog' = prog, Extends(externs, externs'), NEW n, IsGiven(n)
  PROVE  IsGiven(n)'
<1>1. Resolved' = Resolved
  BY DEF Resolved
<1> QED
  BY <1>1 DEF IsGiven, Addresses, Extends

LEMMA FilesFrame ==
  ASSUME Files, prog' = prog, Extends(externs, externs'),
         DOMAIN facts' = DOMAIN facts,
         \A a \in DOMAIN facts : /\ facts'[a] = [t \in Tables |-> facts'[a][t]]
                                 /\ facts'[a].edges = facts[a].edges /\ facts'[a].nodes = facts[a].nodes
  PROVE  Files'
<1>1. ASSUME NEW a \in DOMAIN facts, NEW n
      PROVE  HasLine(a, n)' = HasLine(a, n)
  BY DEF HasLine
<1>2. ASSUME NEW a \in DOMAIN facts, NEW e \in facts[a].edges, NEW n \in {e[2], e[3]}
      PROVE  IsGiven(n)' /\ HasLine(a, n)' /\ HasLine(a, <<n[1], -1>>)'
  <2>1. IsGiven(n) /\ HasLine(a, n) /\ HasLine(a, <<n[1], -1>>)
    BY DEF Files
  <2>2. IsGiven(n)'
    BY <2>1, GivenStays
  <2> QED
    BY <1>1, <2>1, <2>2
<1> QED
  BY <1>2 DEF Files, Tables

LEMMA SeenFrame ==
  ASSUME SeenInv, status' = "visiting" => status = "visiting" /\ entered' = entered /\ SeenNodes' = SeenNodes,
         DOMAIN facts' = DOMAIN facts,
         \A a \in DOMAIN facts : facts'[a].nodes = facts[a].nodes
  PROVE  SeenInv'
<1> SUFFICES ASSUME status' = "visiting"
             PROVE  entered.fn \in DOMAIN facts' /\ \A n \in SeenNodes : HasLine(entered.fn, n)'
  BY DEF SeenInv, HasLine
<1> QED
  BY DEF SeenInv, HasLine

\* Passing an item.
LEMMA PassedIs ==
  ASSUME Position, prog' = prog, NEW op
  PROVE  /\ at' = at => Passed(op)' = Passed(op)
         /\ at \in DOMAIN Work /\ at' = at + 1 =>
              Passed(op)' = Passed(op) \cup (IF Work[at].op = op THEN {Item} ELSE {})
<1>1. Work' = Work
  BY Frame
<1>2. DOMAIN Work \subseteq Int /\ at \in Int
  BY WorkIs DEF Position
<1>3. at' = at => Passed(op)' = Passed(op)
  BY <1>1 DEF Passed
<1>4. ASSUME at \in DOMAIN Work, at' = at + 1
      PROVE  Passed(op)' = Passed(op) \cup (IF Work[at].op = op THEN {Item} ELSE {})
  <2>1. \A k \in DOMAIN Work : k < at + 1 <=> k < at \/ k = at
    BY <1>2
  <2> QED
    BY <1>1, <1>4, <2>1 DEF Passed, Item
<1> QED
  BY <1>3, <1>4

LEMMA UnitsFrame ==
  ASSUME Position, UnitsInv, prog' = prog, Live' => Live, DOMAIN facts' \subseteq DOMAIN facts,
         \A a \in DOMAIN facts : /\ facts'[a].FastNodeInstructions = facts[a].FastNodeInstructions
                                 /\ facts'[a].InlineFunctions = facts[a].InlineFunctions,
         \/ at' = at
         \/ at \in DOMAIN Work /\ at' = at + 1 /\ Work[at].op \notin {"labels", "inlines"}
  PROVE  UnitsInv'
<1>1. Passed("labels")' = Passed("labels") /\ Passed("inlines")' = Passed("inlines")
  BY PassedIs
<1> QED
  BY <1>1 DEF UnitsInv

----------------------------------------------------------------------------
(* The steps.                                                              *)

LEMMA FactsStart == FactsInit => FactsInv
<1> SUFFICES ASSUME FactsInit
             PROVE  FactsInv
  OBVIOUS
<1> USE DEF FactsInit
<1>1. prog \in Programs /\ Len(Work) \in Nat
  BY WorkIs
<1>2. Position
  BY <1>1 DEF Position
<1>3. NamesInv
  <2>1. DOMAIN externs = {} /\ DOMAIN symbol_names = {} /\ ReadPointers = {}
    BY DEF ReadPointers
  <2>2. IsFiniteSet(DOMAIN externs)
    BY <2>1, FS_EmptySet
  <2> QED
    BY <2>1, <2>2 DEF NamesInv, Numbered, NamedBy
<1>4. LoadedInv
  <2>1. DOMAIN prog.contents = 1 .. Len(prog.contents) /\ Len(prog.contents) \in Nat
    BY <1>1, WorkIs
  <2> QED
    BY <2>1 DEF LoadedInv
<1>5. Begun = {}
  <2>1. \A k \in Records : k \in Int /\ k >= 1
    BY <1>1, RecordIs
  <2> QED
    BY <2>1 DEF Begun
<1>6. Directories /\ SoundInv
  BY <1>5 DEF Directories, LastBegun, SoundInv
<1> QED
  BY <1>2, <1>3, <1>4, <1>6 DEF FactsInv, Files, SeenInv, UnitsInv

\* Begun records are those at or before the current position.
LEMMA BegunUpTo ==
  ASSUME Position, NEW k \in Begun
  PROVE  k \in Records /\ k \in Int /\ at \in Int /\ k <= at
<1>1. prog \in Programs /\ at \in Int /\ k \in Records
  BY WorkIs DEF Position, Begun
<1>2. k \in Int
  BY <1>1, RecordIs
<1> QED
  BY <1>1, <1>2 DEF Begun

\* Passing an item that is no record, or leaving a record, begins none.
LEMMA BegunStays ==
  ASSUME Position, prog' = prog,
         \/ at' = at /\ (status' = "visiting" <=> status = "visiting")
         \/ at' = at + 1 /\ status = "visiting" /\ status' # "visiting"
         \/ at' = at + 1 /\ at \notin Records /\ status # "visiting" /\ status' # "visiting"
  PROVE  Begun' = Begun
<1>1. Records' = Records /\ at \in Int
  BY Frame, WorkIs DEF Position
<1>2. \A k \in Records : k \in Int
  BY RecordIs DEF Position
<1>3. status = "visiting" => at \in Records
  BY DEF Position
<1> QED
  BY <1>1, <1>2, <1>3 DEF Begun

\* What a task is, where it is done.
LEMMA DoingIs ==
  ASSUME FactsInv, NEW op, Doing(op)
  PROVE  /\ status = "running" /\ todo = {} /\ prog \in Programs
         /\ at \in DOMAIN Work /\ Work[at].op = op /\ at \in Nat /\ Len(Work) \in Nat
         /\ at + 1 \in 1 .. Len(Work) + 1
         /\ at \in Records => op = "record"
<1>1. Position /\ prog \in Programs
  BY DEF FactsInv, Position
<1>2. at \in DOMAIN Work /\ Work[at].op = op /\ status = "running" /\ todo = {}
  BY <1>1 DEF Doing, Position
<1> QED
  BY <1>1, <1>2, WorkIs, RecordIs

\* A graph is read: nothing that was known is forgotten.
LEMMA LoadStep ==
  ASSUME FactsInv, LoadSymbols
  PROVE  FactsInv'
<1>1. /\ status = "running" /\ todo = {} /\ prog \in Programs /\ at \in DOMAIN Work /\ Work[at].op = "graph"
      /\ at \in Nat /\ Len(Work) \in Nat /\ at + 1 \in 1 .. Len(Work) + 1 /\ at \notin Records
  BY DoingIs DEF LoadSymbols
<1>2. /\ UNCHANGED <<prog, todo, entered, SeenNodes, facts, trace_sites>>
      /\ Position /\ NamesInv /\ LoadedInv
  BY DEF LoadSymbols, FactsInv, visitorVars
<1>3. at \in DOMAIN prog.contents /\ Item = prog.contents[at].arg /\ prog.contents[at].op = "graph"
  <2>1. at \in 1 .. Len(prog.contents)
    BY <1>1, WorkIs
  <2> QED
    BY <1>1, <2>1, WorkIs DEF Item
<1>4. IsSection(prog, Item)
  BY <1>1, <1>3, ProgramsAssumption
<1> DEFINE R == Relocated(Item)
           Q == ToSet(prog.relocations[Item])
<1>5. IF R.aborted THEN \E q \in Q : ~Inside(q)
      ELSE SymbolsRight(R, ReadPointers \cup Q) /\ Extends(externs, R.externs)
  BY <1>1, <1>2, <1>4, RelocatedRight
<1>6. \/ /\ at' = at + 1 /\ status' = status
         /\ (prog.core \/ Item \in relocated) /\ externs' = externs /\ symbol_names' = symbol_names /\ relocated' = relocated
      \/ /\ at' = at + 1 /\ status' = status /\ ~R.aborted
         /\ externs' = R.externs /\ symbol_names' = R.names /\ relocated' = relocated \cup {Item}
      \/ /\ at' = at /\ status' = "aborted" /\ R.aborted
         /\ externs' = externs /\ symbol_names' = symbol_names /\ relocated' = relocated
  <2> HIDE DEF R
  <2> QED
    BY DEF LoadSymbols, Advance, Stop, objectVars, R
<1>7. Extends(externs, externs') /\ NamesInv'
  <2>1. CASE externs' = externs /\ symbol_names' = symbol_names /\ relocated' = relocated
    BY <1>2, <2>1, NamesFrame DEF Extends
  <2>2. CASE ~R.aborted /\ externs' = R.externs /\ symbol_names' = R.names /\ relocated' = relocated \cup {Item}
    <3>1. Numbered(R.externs) /\ NamedBy(R.externs, R.names, ReadPointers \cup Q) /\ Extends(externs, R.externs)
      BY <1>5, <2>2 DEF SymbolsRight
    <3>2. ReadPointers' = ReadPointers \cup Q
      BY <1>2, <2>2 DEF ReadPointers
    <3> HIDE DEF R, Q
    <3>3. Numbered(externs)'
      BY <1>2, <2>2, <3>1 DEF Numbered
    <3>4. NamedBy(externs', symbol_names', ReadPointers')
      BY <2>2, <3>1, <3>2
    <3>5. NamedBy(externs, symbol_names, ReadPointers)'
      BY <1>2, <3>4 DEF NamedBy, Knows, AddressIn
    <3> QED
      BY <2>2, <3>1, <3>3, <3>5 DEF NamesInv
  <2> QED
    BY <1>6, <2>1, <2>2
<1>8. Position'
  <2>1. Work' = Work
    BY <1>2, Frame
  <2>2. status' = "aborted" => \E q \in ToSet(prog.relocations[Item]) : ~Inside(q)
    BY <1>1, <1>5, <1>6
  <2>3. at' = at => Item' = Item
    BY <2>1 DEF Item
  <2>4. \A q : Inside(q)' = Inside(q)
    BY <1>2 DEF Inside
  <2> HIDE DEF R, Q
  <2> QED
    BY <1>1, <1>2, <1>6, <2>1, <2>2, <2>3, <2>4 DEF Position
<1>9. LoadedInv'
  <2>1. \A q : Knows(externs, q) => Knows(externs', q)
    BY <1>7, AddressStays
  <2>2. \A q : Knows(externs, q)' = Knows(externs', q)
    BY <1>2 DEF Knows
  <2>3. ASSUME NEW k \in DOMAIN prog.contents, prog.contents[k].op = "graph", prog.contents[k].arg \in relocated',
               NEW q \in ToSet(prog.relocations[prog.contents[k].arg])
        PROVE  Knows(externs', q)
    <3>1. CASE prog.contents[k].arg \in relocated
      BY <1>2, <2>1, <2>3, <3>1 DEF LoadedInv
    <3>2. CASE prog.contents[k].arg \notin relocated
      <4>1. prog.contents[k].arg = Item /\ externs' = R.externs /\ ~R.aborted /\ q \in Q
        BY <1>6, <2>3, <3>2
      <4>2. NamedBy(R.externs, R.names, ReadPointers \cup Q)
        BY <1>5, <4>1 DEF SymbolsRight
      <4> HIDE DEF R, Q
      <4> QED
        BY <4>1, <4>2 DEF NamedBy
    <3> QED
      BY <3>1, <3>2
  <2>4. ASSUME NEW k \in DOMAIN prog.contents, k < at', prog.contents[k].op = "graph", ~prog.core
        PROVE  prog.contents[k].arg \in relocated'
    <3>1. CASE k = at
      <4>1. at' # at
        BY <1>1, <2>4, <3>1
      <4> QED
        BY <1>3, <1>6, <2>4, <3>1, <4>1
    <3>2. CASE k # at
      <4>1. k < at
        BY <1>1, <1>6, <2>4, <3>2, WorkIs
      <4> HIDE DEF R
      <4> QED
        BY <1>2, <1>6, <2>4, <4>1 DEF LoadedInv
    <3> QED
      BY <3>1, <3>2
  <2> QED
    BY <1>2, <2>2, <2>3, <2>4 DEF LoadedInv
<1>10. Directories' /\ SoundInv'
  <2>1. Begun' = Begun
    BY <1>1, <1>2, <1>6, BegunStays
  <2>2. \A k \in Begun : Visited(k)' = Visited(k)
    <3>1. \A k \in Begun : k # at /\ k # at + 1 /\ k # at'
      BY <1>1, <1>2, <1>6, BegunUpTo
    <3> QED
      BY <1>2, <3>1, Frame DEF Visited
  <2>3. Live' => Live
    BY <1>1 DEF Live
  <2> QED
    BY <1>2, <1>7, <2>1, <2>2, <2>3, DirectoriesFrame, SoundFrame DEF FactsInv
<1>11. Files'
  <2>1. \A a \in DOMAIN facts : facts'[a] = [t \in Tables |-> facts'[a][t]]
    BY <1>2 DEF FactsInv, Files
  <2> QED
    BY <1>2, <1>7, <2>1, FilesFrame DEF FactsInv
<1>12. SeenInv'
  BY <1>1, <1>6 DEF SeenInv
<1>13. UnitsInv'
  <2>1. Live' => Live
    BY <1>1 DEF Live
  <2>2. at' = at \/ (at \in DOMAIN Work /\ at' = at + 1 /\ Work[at].op \notin {"labels", "inlines"})
    BY <1>1, <1>6
  <2> QED
    BY <1>2, <2>1, <2>2, UnitsFrame DEF FactsInv
<1> QED
  BY <1>7, <1>8, <1>9, <1>10, <1>11, <1>12, <1>13 DEF FactsInv

\* No unit is done before all records are.
LEMMA NothingPassed ==
  ASSUME Position, at \in Records, NEW op \in {"labels", "inlines"}
  PROVE  Passed(op) = {}
<1>1. prog \in Programs /\ at \in 1 .. Len(prog.contents) /\ Len(prog.contents) \in Nat
  BY RecordIs DEF Position
<1>2. ASSUME NEW k \in DOMAIN Work, k < at
      PROVE  Work[k].op \in {"graph", "record"}
  <2>1. k \in DOMAIN prog.contents
    BY <1>1, <1>2, WorkIs
  <2> QED
    BY <1>1, <2>1, WorkIs
<1> QED
  BY <1>2 DEF Passed

\* A directory is opened: it is empty, but for the bill of materials.
LEMMA EnterStep ==
  ASSUME FactsInv, EnterFunction
  PROVE  FactsInv'
<1> DEFINE a == Dir(at)
<1>1. /\ status = "running" /\ todo = {} /\ prog \in Programs /\ at \in DOMAIN Work /\ Work[at].op = "record"
      /\ at \in Nat /\ Len(Work) \in Nat
  BY DoingIs DEF EnterFunction
<1>2. /\ prog' = prog /\ relocated' = relocated /\ externs' = externs /\ symbol_names' = symbol_names /\ at' = at
      /\ Position /\ NamesInv /\ LoadedInv /\ Directories /\ Files /\ UnitsInv
  BY DEF EnterFunction, FactsInv, objectVars, Stop
<1>3. at \in Records /\ Item = Rec(at)
  <2>1. at \in 1 .. Len(prog.contents)
    BY <1>1, WorkIs
  <2>2. at \in DOMAIN prog.contents /\ Work[at] = prog.contents[at]
    BY <1>1, <2>1, WorkIs
  <2> QED
    BY <1>1, <2>2 DEF Records, Rec, Item
<1>4. entered' = [fn |-> a, allocas |-> Rec(at).allocas, locals |-> Rec(at).locals]
  BY <1>3 DEF EnterFunction, Dir
<1>5. NamesInv' /\ LoadedInv' /\ Extends(externs, externs')
  BY <1>2, NamesFrame, LoadedFrame DEF Extends
<1>6. CASE status' = "failed" /\ UNCHANGED <<todo, SeenNodes, facts>>
  <2>1. Position'
    BY <1>1, <1>2, <1>6, Frame DEF Position
  <2>2. Files'
    BY <1>2, <1>5, <1>6, FilesFrame DEF Files
  <2> QED
    BY <1>5, <1>6, <2>1, <2>2 DEF FactsInv, Directories, SoundInv, SeenInv, UnitsInv, Live
<1>7. CASE /\ status' = "visiting" /\ SeenNodes' = {} /\ todo' = Rec(at).edges
           /\ facts' = Put(facts, a, [Opened(a) EXCEPT !.sbom = @ \cup Rec(at).sbom])
  <2>0. a' = a /\ Records' = Records /\ \A k : Rec(k)' = Rec(k)
    BY <1>1, <1>2, <1>3, DirStays, Frame
  <2>1. Position'
    BY <1>1, <1>2, <1>3, <1>4, <1>7, <2>0, Frame DEF Position
  <2>2. /\ DOMAIN facts' = DOMAIN facts \cup {a}
        /\ facts'[a] = [NoFacts EXCEPT !.sbom = Rec(at).sbom]
        /\ \A b \in DOMAIN facts : b # a => facts'[b] = facts[b]
    BY <1>7 DEF Put, Opened, NoFacts
  <2>3. /\ facts'[a].edges = {} /\ facts'[a].nodes = {} /\ facts'[a].sbom = Rec(at).sbom
        /\ facts'[a].FastNodeInstructions = {} /\ facts'[a].InlineFunctions = {}
        /\ facts'[a] = [t \in Tables |-> facts'[a][t]]
    BY <2>2 DEF NoFacts, Tables
  <2> HIDE DEF a
  <2>4. Begun' = Begun \cup {at} /\ at \notin Begun
    <3>1. \A k \in Records : k \in Int
      BY <1>1, RecordIs
    <3> QED
      BY <1>1, <1>2, <1>3, <1>7, <2>0, <3>1 DEF Begun
  <2>5. ASSUME NEW k \in Begun'
        PROVE  k \in Records /\ k \in Int /\ k <= at /\ Dir(k)' = Dir(k) /\ Rec(k)' = Rec(k)
    <3>1. k \in Records /\ k \in Int /\ k <= at
      BY <1>1, <1>2, <1>3, <2>4, BegunUpTo
    <3> QED
      BY <1>1, <1>2, <2>0, <3>1, DirStays
  <2>6. Directories'
    <3>1. DOMAIN facts' = {Dir(k)' : k \in Begun'}
      <4>1. DOMAIN facts = {Dir(k) : k \in Begun}
        BY <1>1, <1>2 DEF Directories, Live
      <4> QED
        BY <2>2, <2>4, <2>5, <4>1 DEF a
    <3>2. ASSUME NEW k \in LastBegun'
          PROVE  /\ facts'[Dir(k)'].edges = UNION {Lines(e)' : e \in Visited(k)'}
                 /\ facts'[Dir(k)'].sbom = Rec(k)'.sbom
                 /\ \A line \in facts'[Dir(k)'].nodes : LineRight(line, k)'
      <4>1. k \in Begun' /\ \A j \in Begun' : Dir(j) = Dir(k) => j <= k
        BY <2>5 DEF LastBegun
      <4>2. CASE k = at
        <5>1. Visited(k)' = {}
          BY <1>2, <1>7, <2>0, <4>2 DEF Visited
        <5>2. UNION {Lines(e)' : e \in Visited(k)'} = {}
          BY <5>1
        <5>3. Dir(k)' = a /\ Rec(k)' = Rec(at)
          <6>1. Dir(k)' = Dir(k) /\ Rec(k)' = Rec(k)
            BY <2>5, <4>1
          <6> QED
            BY <4>2, <6>1 DEF a
        <5> QED
          BY <2>3, <5>2, <5>3
      <4>3. CASE k # at
        <5>1. k \in Begun
          BY <2>4, <4>1, <4>3
        <5>2. Dir(k) # a
          <6>1. Dir(k) = Dir(at) => at <= k
            BY <2>4, <4>1
          <6>2. k < at
            BY <1>1, <2>5, <4>1, <4>3
          <6> QED
            BY <1>1, <2>5, <4>1, <6>1, <6>2 DEF a
        <5>3. k \in LastBegun
          BY <2>4, <4>1, <5>1 DEF LastBegun
        <5>4. /\ facts[Dir(k)].edges = UNION {Lines(e) : e \in Visited(k)}
              /\ facts[Dir(k)].sbom = Rec(k).sbom
              /\ \A line \in facts[Dir(k)].nodes : LineRight(line, k)
              /\ Dir(k) \in DOMAIN facts
          BY <1>1, <1>2, <5>1, <5>3 DEF Directories, Live
        <5>5. Visited(k)' = Rec(k).edges /\ Visited(k) = Rec(k).edges
          BY <1>1, <1>2, <2>0, <4>3 DEF Visited
        <5>6. \A e \in Rec(k).edges : Lines(e)' = Lines(e)
          BY <1>2, <1>5, <2>5, <4>1, LinesStay
        <5>7. \A line : LineRight(line, k)' = LineRight(line, k)
          BY <2>5, <4>1 DEF LineRight
        <5>8. facts'[Dir(k)] = facts[Dir(k)] /\ Dir(k)' = Dir(k)
          BY <2>2, <2>5, <4>1, <5>2, <5>4
        <5>9. UNION {Lines(e)' : e \in Visited(k)'} = UNION {Lines(e) : e \in Visited(k)}
          BY <5>5, <5>6
        <5> QED
          BY <2>0, <5>4, <5>7, <5>8, <5>9
      <4> QED
        BY <4>2, <4>3
    <3> QED
      BY <3>1, <3>2 DEF Directories
  <2>7. Files'
    <3>1. ASSUME NEW b \in DOMAIN facts, b # a
          PROVE  /\ facts'[b] = [t \in Tables |-> facts'[b][t]]
                 /\ \A e \in facts'[b].edges : \A n \in {e[2], e[3]} :
                      IsGiven(n)' /\ HasLine(b, n)' /\ HasLine(b, <<n[1], -1>>)'
      <4>1. facts'[b] = facts[b]
        BY <2>2, <3>1
      <4>2. \A n : HasLine(b, n)' = HasLine(b, n)
        BY <4>1 DEF HasLine
      <4>3. \A n : IsGiven(n) => IsGiven(n)'
        BY <1>2, <1>5, GivenStays
      <4> QED
        BY <1>2, <4>1, <4>2, <4>3 DEF Files
    <3> QED
      BY <2>2, <2>3, <3>1 DEF Files
  <2>8. SeenInv'
    BY <1>4, <1>7, <2>2 DEF SeenInv, a
  <2>9. UnitsInv'
    <3>1. Passed("labels")' = {} /\ Passed("inlines")' = {}
      <4>1. at' \in Records'
        BY <1>2, <1>3, <2>0
      <4>2. \A op \in {"labels", "inlines"} : Passed(op) = {}
        BY <1>2, <1>3, NothingPassed
      <4> QED
        BY <1>2, <4>2, PassedIs
    <3>2. Passed("labels") = {} /\ Passed("inlines") = {}
      BY <1>2, <1>3, NothingPassed
    <3>3. ASSUME NEW b \in DOMAIN facts'
          PROVE  facts'[b].FastNodeInstructions = {} /\ facts'[b].InlineFunctions = {}
      <4>1. CASE b = a
        BY <2>3, <4>1
      <4>2. CASE b # a
        BY <1>1, <1>2, <2>2, <3>2, <3>3, <4>2 DEF UnitsInv, IsOneOf, Live
      <4> QED
        BY <4>1, <4>2
    <3> QED
      BY <3>1, <3>3 DEF UnitsInv, IsOneOf
  <2>10. SoundInv'
    <3>1. ASSUME NEW k \in Begun', NEW e \in Visited(k)'
          PROVE  Sound(e)
      <4>1. CASE k = at
        BY <1>2, <1>7, <2>0, <3>1, <4>1 DEF Visited
      <4>2. CASE k # at
        <5>1. k \in Begun /\ e \in Visited(k)
          BY <1>2, <2>0, <2>4, <3>1, <4>2 DEF Visited
        <5> QED
          BY <1>1, <5>1 DEF FactsInv, SoundInv, Live
      <4> QED
        BY <4>1, <4>2
    <3> QED
      BY <3>1 DEF SoundInv, Sound
  <2> QED
    BY <1>5, <2>1, <2>6, <2>7, <2>8, <2>9, <2>10 DEF FactsInv
<1> QED
  BY <1>3, <1>6, <1>7 DEF EnterFunction, Dir, Stop

\* A visit that fails leaves all as it is.
LEMMA FailStep ==
  ASSUME FactsInv, status = "visiting", Fail, UNCHANGED <<prog, at, objectVars, entered, trace_sites>>
  PROVE  FactsInv'
<1>1. /\ Position /\ NamesInv /\ LoadedInv /\ Files /\ prog' = prog /\ at' = at /\ relocated' = relocated
      /\ externs' = externs /\ symbol_names' = symbol_names /\ status' = "failed" /\ facts' = facts
  BY DEF FactsInv, objectVars, Fail
<1>2. NamesInv' /\ LoadedInv' /\ Extends(externs, externs')
  BY <1>1, NamesFrame, LoadedFrame DEF Extends
<1>3. Position'
  BY <1>1, Frame DEF Position
<1>4. Files'
  BY <1>1, <1>2, FilesFrame DEF Files
<1> QED
  BY <1>1, <1>2, <1>3, <1>4 DEF FactsInv, Directories, SoundInv, SeenInv, UnitsInv, Live

\* Lines of an edge are written to the directory that is open.
LEMMA WriteStep ==
  ASSUME FactsInv, status = "visiting", NEW e \in todo, Sound(e), NEW E, E \subseteq Lines(e), WriteLines(E),
         UNCHANGED <<prog, at, objectVars, entered, trace_sites>>, NEW a, a = Dir(at)
  PROVE  /\ a \in DOMAIN facts /\ DOMAIN facts' = DOMAIN facts
         /\ \A b \in DOMAIN facts : b # a => facts'[b] = facts[b]
         /\ facts'[a].edges = facts[a].edges \cup E
         /\ facts'[a].nodes = facts[a].nodes \cup {NodeLine(n) : n \in Described(Ends(E)) \ SeenNodes}
         /\ facts'[a].sbom = facts[a].sbom
         /\ facts'[a].FastNodeInstructions = facts[a].FastNodeInstructions
         /\ facts'[a].InlineFunctions = facts[a].InlineFunctions
         /\ Files' /\ \A n \in SeenNodes' : HasLine(a, n)'
<1> DEFINE new == Described(Ends(E)) \ SeenNodes
<1>1. /\ Position /\ NamesInv /\ LoadedInv /\ Directories /\ Files /\ SeenInv /\ UnitsInv
      /\ prog' = prog /\ at' = at /\ externs' = externs /\ entered' = entered
  BY DEF FactsInv, objectVars
<1>2. /\ prog \in Programs /\ at \in Records /\ at \in Int /\ todo \subseteq Rec(at).edges
      /\ entered.fn = a
  BY <1>1, WorkIs DEF Position
<1>3. a \in DOMAIN facts /\ \A n \in SeenNodes : HasLine(a, n)
  BY <1>1, <1>2 DEF SeenInv
<1>4. Extends(externs, externs')
  BY <1>1 DEF Extends
<1>a. e \in Rec(at).edges /\ at <= at /\ Sound(e)
  BY <1>2
<1>8. /\ SeenNodes' = SeenNodes \cup new
      /\ facts' = [facts EXCEPT ![a].edges = @ \cup E,
                                ![a].nodes = @ \cup {NodeLine(n) : n \in new},
                                ![a].instructions = @ \cup UNION {InstructionLines(n) : n \in new}]
  BY <1>2 DEF WriteLines
<1>10. facts[a] = [t \in Tables |-> facts[a][t]]
  BY <1>1, <1>3 DEF Files
<1>11. DOMAIN facts' = DOMAIN facts /\ \A b \in DOMAIN facts : b # a => facts'[b] = facts[b]
  <2> HIDE DEF new
  <2> QED
    BY <1>8
<1>12. /\ facts'[a] = [t \in Tables |-> facts'[a][t]]
       /\ facts'[a].edges = facts[a].edges \cup E
       /\ facts'[a].nodes = facts[a].nodes \cup {NodeLine(n) : n \in new}
       /\ facts'[a].sbom = facts[a].sbom
       /\ facts'[a].FastNodeInstructions = facts[a].FastNodeInstructions
       /\ facts'[a].InlineFunctions = facts[a].InlineFunctions
  <2> DEFINE N == {NodeLine(n) : n \in new}
             I == UNION {InstructionLines(n) : n \in new}
  <2>1. facts'[a] = [facts[a] EXCEPT !.edges = @ \cup E, !.nodes = @ \cup N, !.instructions = @ \cup I]
    <3> HIDE DEF N, I
    <3> QED
      BY <1>3, <1>8 DEF N, I
  <2> HIDE DEF N, I
  <2> QED
    BY <1>10, <2>1 DEF Tables, N
<1>13. \A x : HasLine(a, x) => HasLine(a, x)'
  <2> HIDE DEF new
  <2> QED
    BY <1>12 DEF HasLine
<1>14. ASSUME NEW n \in Described(Ends(E))
      PROVE  HasLine(a, n)'
  <2>1. CASE n \in SeenNodes
    BY <1>3, <1>13, <2>1
  <2>2. CASE n \in new
    <3>1. NodeLine(n) \in facts'[a].nodes
      <4> HIDE DEF new
      <4> QED
        BY <1>12, <2>2
    <3>2. NodeLine(n).node = n
      BY DEF NodeLine
    <3> QED
      BY <3>1, <3>2 DEF HasLine
  <2> QED
    BY <2>1, <2>2
<1>15. Files'
  <2>1. ASSUME NEW b \in DOMAIN facts, NEW x \in facts'[b].edges, NEW n \in {x[2], x[3]}
        PROVE  IsGiven(n)' /\ HasLine(b, n)' /\ HasLine(b, <<n[1], -1>>)'
    <3>1. CASE b = a /\ x \in E
      <4>1. n \in Ends(E)
        BY <2>1, <3>1 DEF Ends
      <4>2. n \in Described(Ends(E)) /\ <<n[1], -1>> \in Described(Ends(E))
        BY <4>1 DEF Described
      <4>3. IsGiven(n)
        BY <1>1, <1>2, <1>a, <3>1, LinesGiven
      <4> QED
        BY <1>1, <1>4, <1>14, <3>1, <4>2, <4>3, GivenStays
    <3>2. CASE ~(b = a /\ x \in E)
      <4>1. x \in facts[b].edges
        <5> HIDE DEF new
        <5> QED
          BY <1>11, <1>12, <2>1, <3>2
      <4>2. IsGiven(n) /\ HasLine(b, n) /\ HasLine(b, <<n[1], -1>>)
        BY <1>1, <4>1 DEF Files
      <4>3. IsGiven(n)'
        BY <1>1, <1>4, <4>2, GivenStays
      <4>4. b # a => \A y : HasLine(b, y)' = HasLine(b, y)
        BY <1>11 DEF HasLine
      <4> QED
        BY <1>13, <4>2, <4>3, <4>4
    <3> QED
      BY <3>1, <3>2
  <2>2. \A b \in DOMAIN facts : facts'[b] = [t \in Tables |-> facts'[b][t]]
    <3>1. \A b \in DOMAIN facts : facts[b] = [t \in Tables |-> facts[b][t]]
      BY <1>1 DEF Files
    <3> HIDE DEF new
    <3> QED
      BY <1>11, <1>12, <3>1
  <2> QED
    BY <1>11, <2>1, <2>2 DEF Files
<1>16. \A n \in SeenNodes' : HasLine(a, n)'
  <2>1. \A n \in new : n \in Described(Ends(E))
    OBVIOUS
  <2> HIDE DEF new
  <2> QED
    BY <1>3, <1>8, <1>13, <1>14, <2>1
<1> QED
  BY <1>3, <1>11, <1>12, <1>15, <1>16

\* The lines of one edge are added to the directory that is open.
LEMMA PrintStep ==
  ASSUME FactsInv, status = "visiting", NEW e \in todo, Sound(e), NEW E, E = Lines(e), PrintEdges(e, E),
         UNCHANGED <<prog, at, objectVars, entered, trace_sites>>
  PROVE  FactsInv'
<1>0. PICK a : a = Dir(at)
  OBVIOUS
<1> DEFINE ends == Ends(E)
           new == Described(ends) \ SeenNodes
<1>1. /\ Position /\ NamesInv /\ LoadedInv /\ Directories /\ Files /\ SeenInv /\ UnitsInv
      /\ prog' = prog /\ at' = at /\ relocated' = relocated /\ externs' = externs /\ symbol_names' = symbol_names
      /\ entered' = entered
  BY DEF FactsInv, objectVars
<1>2. /\ prog \in Programs /\ at \in Records /\ at \in Int /\ todo \subseteq Rec(at).edges
      /\ entered = [fn |-> a, allocas |-> Rec(at).allocas, locals |-> Rec(at).locals]
  BY <1>0, <1>1, WorkIs DEF Position
<1>4. NamesInv' /\ LoadedInv' /\ Extends(externs, externs')
  BY <1>1, NamesFrame, LoadedFrame DEF Extends
<1>5. Records' = Records /\ Work' = Work /\ \A k : Rec(k)' = Rec(k)
  BY <1>1, Frame
<1>6. \A k \in Records : Dir(k)' = Dir(k)
  BY <1>1, <1>2, DirStays
<1>7. CASE Fail
  BY <1>7, FailStep
<1>8. CASE WriteLines(E) /\ todo' = todo \ {e} /\ UNCHANGED status
  <2>1. Position'
    BY <1>1, <1>2, <1>5, <1>6, <1>8 DEF Position
  <2>2. E \subseteq Lines(e)
    OBVIOUS
  <2>3. /\ a \in DOMAIN facts /\ DOMAIN facts' = DOMAIN facts /\ \A b \in DOMAIN facts : b # a => facts'[b] = facts[b]
        /\ Files' /\ \A n \in SeenNodes' : HasLine(a, n)'
    BY <1>0, <1>8, <2>2, WriteStep
  <2>4. /\ facts'[a].edges = facts[a].edges \cup E
        /\ facts'[a].nodes = facts[a].nodes \cup {NodeLine(n) : n \in new}
        /\ facts'[a].sbom = facts[a].sbom
        /\ facts'[a].FastNodeInstructions = facts[a].FastNodeInstructions
        /\ facts'[a].InlineFunctions = facts[a].InlineFunctions
    BY <1>0, <1>8, <2>2, WriteStep
  <2>5. Begun' = Begun /\ at \in Begun
    BY <1>1, <1>2, <1>8, BegunStays DEF Begun
  <2>6. ASSUME NEW k \in Begun
        PROVE  k \in Records /\ k \in Int /\ k <= at /\ Dir(k)' = Dir(k)
    BY <1>1, <1>6, BegunUpTo
  <2>10. SeenInv'
    <3>1. entered'.fn = a
      BY <1>1, <1>2
    <3>2. \A n : HasLine(entered.fn, n)' = HasLine(a, n)'
      BY <3>1 DEF HasLine
    <3> QED
      BY <2>3, <3>1, <3>2 DEF SeenInv
  <2>13. SoundInv'
    <3>1. ASSUME NEW k \in Begun, NEW x \in Visited(k)'
          PROVE  Sound(x)
      <4>1. x = e \/ x \in Visited(k)
        BY <1>1, <1>5, <1>8, <3>1 DEF Visited
      <4> QED
        BY <1>8, <4>1 DEF FactsInv, SoundInv, Live
    <3> QED
      BY <2>5, <3>1 DEF SoundInv, Sound
  <2>11. UnitsInv'
    <3>1. \A b \in DOMAIN facts : /\ facts'[b].FastNodeInstructions = facts[b].FastNodeInstructions
                                  /\ facts'[b].InlineFunctions = facts[b].InlineFunctions
      <4> HIDE DEF new
      <4> QED
        BY <2>3, <2>4
    <3> QED
      BY <1>1, <1>8, <2>3, <3>1, UnitsFrame DEF Live
  <2>12. Directories'
    <3>1. DOMAIN facts' = {Dir(k)' : k \in Begun'}
      <4>1. DOMAIN facts = {Dir(k) : k \in Begun}
        BY <1>1, <1>8 DEF Directories, Live
      <4> QED
        BY <2>3, <2>5, <2>6, <4>1
    <3>2. LastBegun' = LastBegun
      BY <2>5, <2>6 DEF LastBegun
    <3>3. ASSUME NEW k \in LastBegun
          PROVE  /\ facts'[Dir(k)'].edges = UNION {Lines(x)' : x \in Visited(k)'}
                 /\ facts'[Dir(k)'].sbom = Rec(k)'.sbom
                 /\ \A line \in facts'[Dir(k)'].nodes : LineRight(line, k)'
      <4>1. k \in Begun /\ (Dir(at) = Dir(k) => at <= k)
        BY <2>5 DEF LastBegun
      <4>2. \A x \in Rec(k).edges : Lines(x)' = Lines(x)
        BY <1>1, <1>4, <2>6, <4>1, LinesStay
      <4>3. \A line : LineRight(line, k)' = LineRight(line, k)
        BY <1>5, <2>6, <4>1 DEF LineRight
      <4>4. /\ facts[Dir(k)].edges = UNION {Lines(x) : x \in Visited(k)}
            /\ facts[Dir(k)].sbom = Rec(k).sbom
            /\ \A line \in facts[Dir(k)].nodes : LineRight(line, k)
            /\ Dir(k) \in DOMAIN facts
        BY <1>1, <1>8, <4>1 DEF Directories, Live
      <4>5. CASE k = at
        <5>1. Visited(k) = Rec(at).edges \ todo /\ Visited(k)' = Rec(at).edges \ (todo \ {e})
          BY <1>1, <1>5, <1>8, <4>5 DEF Visited
        <5>2. Visited(k)' = Visited(k) \cup {e} /\ Visited(k)' \subseteq Rec(k).edges
          BY <1>2, <4>5, <5>1
        <5>3. UNION {Lines(x)' : x \in Visited(k)'} = UNION {Lines(x) : x \in Visited(k) \cup {e}}
          BY <4>2, <5>2
        <5>4. UNION {Lines(x) : x \in Visited(k) \cup {e}} = (UNION {Lines(x) : x \in Visited(k)}) \cup Lines(e)
          OBVIOUS
        <5>5. ASSUME NEW n \in new
              PROVE  LineRight(NodeLine(n), k)
          <6>1. n[2] \in Int
            <7>1. \A m \in ends : m[2] \in Int
              <8>1. \A x \in E : \A m \in {x[2], x[3]} : IsGiven(m)
                BY <1>1, <1>2, LinesGiven
              <8> QED
                BY <8>1 DEF IsGiven, Ends
            <7>2. n \in Described(ends)
              OBVIOUS
            <7> HIDE DEF ends, new
            <7> QED
              BY <7>1, <7>2 DEF Described
          <6>2. IsRecord(prog, at, Rec(at))
            BY <1>2, RecordIs
          <6>3. Rec(at).allocas \in Nat
            BY <6>2 DEF IsRecord
          <6>4. /\ NodeLine(n).node = n
                /\ NodeLine(n).alloca = (n[2] \in 0 .. Rec(at).allocas - 1)
                /\ NodeLine(n).enclosing = IF n[2] >= 0 THEN a ELSE NULL
            BY <1>2 DEF NodeLine
          <6>5. n[2] >= 0 => ((n[2] \in 0 .. Rec(at).allocas - 1) = (n[2] < Rec(at).allocas))
            BY <6>1, <6>3
          <6> HIDE DEF new
          <6> QED
            BY <1>0, <4>5, <6>4, <6>5 DEF LineRight
        <5>6. facts'[a].nodes = facts[a].nodes \cup {NodeLine(n) : n \in new}
          BY <2>4
        <5>7. \A line \in facts'[a].nodes : LineRight(line, k)
          <6> HIDE DEF new
          <6> QED
            BY <1>0, <4>4, <4>5, <5>5, <5>6
        <5>8. Dir(k)' = a /\ Dir(k) = a /\ Rec(k)' = Rec(k)
          BY <1>0, <1>5, <2>6, <4>1, <4>5
        <5>9. facts'[a].edges = facts[a].edges \cup E /\ facts'[a].sbom = facts[a].sbom
          BY <2>4
        <5> QED
          BY <4>3, <4>4, <5>3, <5>4, <5>7, <5>8, <5>9
      <4>6. CASE k # at
        <5>1. Dir(k) # a
          BY <1>0, <1>2, <2>6, <4>1, <4>6
        <5>2. Visited(k)' = Visited(k) /\ Visited(k) \subseteq Rec(k).edges
          BY <1>1, <1>5, <4>6 DEF Visited
        <5>3. UNION {Lines(x)' : x \in Visited(k)'} = UNION {Lines(x) : x \in Visited(k)}
          BY <4>2, <5>2
        <5>4. facts'[Dir(k)'] = facts[Dir(k)] /\ Rec(k)' = Rec(k)
          BY <1>5, <2>3, <2>6, <4>1, <4>4, <5>1
        <5> QED
          BY <4>3, <4>4, <5>3, <5>4
      <4> QED
        BY <4>5, <4>6
    <3> QED
      BY <3>1, <3>2, <3>3 DEF Directories
  <2> QED
    BY <1>4, <2>1, <2>3, <2>10, <2>11, <2>12, <2>13 DEF FactsInv
<1> QED
  BY <1>7, <1>8 DEF PrintEdges

\* The other steps leave edges and nodes alone.
LEMMA QuietStep ==
  ASSUME FactsInv, prog' = prog, todo' = todo, UNCHANGED <<objectVars, visitorVars>>,
         DOMAIN facts' = DOMAIN facts,
         \A a \in DOMAIN facts : /\ facts'[a] = [t \in Tables |-> facts'[a][t]]
                                 /\ facts'[a].edges = facts[a].edges /\ facts'[a].sbom = facts[a].sbom
                                 /\ facts'[a].nodes = facts[a].nodes,
         status' # "visiting", Live' => Live, todo = {},
         \/ at' = at /\ status # "visiting"
         \/ at' = at + 1 /\ status = "visiting"
         \/ at' = at + 1 /\ at \notin Records /\ status # "visiting" /\ Work[at].op # "graph"
  PROVE  NamesInv' /\ LoadedInv' /\ Directories' /\ SoundInv' /\ Files' /\ SeenInv'
<1>1. /\ Position /\ NamesInv /\ LoadedInv /\ Directories /\ Files
      /\ relocated' = relocated /\ externs' = externs /\ symbol_names' = symbol_names
      /\ prog \in Programs
  BY DEF FactsInv, objectVars, Position
<1>2. Extends(externs, externs')
  BY <1>1 DEF Extends
<1>3. status = "visiting" => Work[at].op # "graph"
  BY <1>1, RecordIs DEF Position
<1>4. NamesInv' /\ LoadedInv'
  BY <1>1, <1>3, NamesFrame, LoadedFrame
<1>5. Begun' = Begun
  BY <1>1, BegunStays
<1>6. \A k \in Begun : Visited(k)' = Visited(k)
  BY Frame DEF Visited
<1>7. Directories' /\ SoundInv' /\ Files'
  BY <1>1, <1>2, <1>5, <1>6, DirectoriesFrame, SoundFrame, FilesFrame DEF FactsInv
<1> QED
  BY <1>4, <1>7 DEF SeenInv

LEMMA FilesAre ==
  ASSUME FactsInv
  PROVE  \A a \in DOMAIN facts : facts[a] = [t \in Tables |-> facts[a][t]]
BY DEF FactsInv, Files

LEMMA ExitStep ==
  ASSUME FactsInv, ExitFunction
  PROVE  FactsInv'
<1>1. /\ Position /\ status = "visiting" /\ todo = {} /\ status' = "running" /\ at' = at + 1
      /\ prog' = prog /\ todo' = todo /\ UNCHANGED <<objectVars, visitorVars>> /\ facts' = facts
  BY DEF FactsInv, ExitFunction
<1>2. at \in Records /\ prog \in Programs
  BY <1>1 DEF Position
<1>3. at \in DOMAIN Work /\ Work[at].op = "record" /\ DOMAIN Work = 1 .. Len(Work) /\ Len(Work) \in Nat
  BY <1>2, RecordIs, WorkIs
<1>4. Position'
  BY <1>1, <1>2, <1>3, Frame DEF Position
<1>5. NamesInv' /\ LoadedInv' /\ Directories' /\ SoundInv' /\ Files' /\ SeenInv'
  BY <1>1, FilesAre, QuietStep DEF Live
<1>6. UnitsInv'
  BY <1>1, <1>3, UnitsFrame DEF FactsInv, Live
<1> QED
  BY <1>4, <1>5, <1>6 DEF FactsInv

LEMMA SiteStep ==
  ASSUME FactsInv, DumpTraceSites
  PROVE  FactsInv'
<1>1. /\ status = "running" /\ todo = {} /\ prog \in Programs /\ at \in DOMAIN Work /\ Work[at].op = "site"
      /\ at \in Nat /\ Len(Work) \in Nat /\ at + 1 \in 1 .. Len(Work) + 1 /\ at \notin Records
  BY DoingIs DEF DumpTraceSites
<1>2. /\ prog' = prog /\ todo' = todo /\ UNCHANGED <<objectVars, visitorVars>> /\ facts' = facts
      /\ (at' = at + 1 /\ status' = status) \/ (at' = at /\ status' = "failed")
  BY DEF DumpTraceSites, Advance, Stop
<1>3. Position'
  BY <1>1, <1>2, Frame DEF FactsInv, Position
<1>4. NamesInv' /\ LoadedInv' /\ Directories' /\ SoundInv' /\ Files' /\ SeenInv'
  BY <1>1, <1>2, FilesAre, QuietStep DEF Live
<1>5. UnitsInv'
  BY <1>1, <1>2, UnitsFrame DEF FactsInv, Live
<1> QED
  BY <1>3, <1>4, <1>5 DEF FactsInv

LEMMA ReturnStep ==
  ASSUME FactsInv, Return
  PROVE  FactsInv'
<1>1. /\ Position /\ status = "running" /\ at \notin DOMAIN Work /\ status' = "done" /\ at' = at
      /\ prog' = prog /\ todo' = todo /\ UNCHANGED <<objectVars, visitorVars>> /\ facts' = facts
  BY DEF FactsInv, Return
<1>2. todo = {} /\ prog \in Programs /\ at \in 1 .. Len(Work) + 1 /\ DOMAIN Work = 1 .. Len(Work) /\ Len(Work) \in Nat
  BY <1>1, WorkIs DEF Position
<1>3. at = Len(Work) + 1
  BY <1>1, <1>2
<1>4. Position'
  BY <1>1, <1>2, <1>3, Frame DEF Position
<1>5. NamesInv' /\ LoadedInv' /\ Directories' /\ SoundInv' /\ Files' /\ SeenInv'
  BY <1>1, <1>2, FilesAre, QuietStep DEF Live
<1>6. UnitsInv'
  BY <1>1, UnitsFrame DEF FactsInv, Live
<1> QED
  BY <1>4, <1>5, <1>6 DEF FactsInv

LEMMA StaticStep ==
  ASSUME FactsInv, VisitStaticEdge
  PROVE  FactsInv'
<1>1. PICK e \in todo : e[1] # "Dlsym" /\ PrintEdges(e, {<<e[1], Node(e[2]), Node(e[3])>>})
  BY DEF VisitStaticEdge
<1>2. {<<e[1], Node(e[2]), Node(e[3])>>} = Lines(e)
  BY <1>1 DEF Lines
<1>3. PrintEdges(e, Lines(e)) /\ Sound(e)
  BY <1>1, <1>2 DEF Sound
<1> QED
  BY <1>3, PrintStep DEF VisitStaticEdge

LEMMA DlsymStep ==
  ASSUME FactsInv, VisitDlsym
  PROVE  FactsInv'
<1>1. PICK e \in todo :
        /\ e[1] = "Dlsym"
        /\ IF e[3][2] # -1 THEN Fail
           ELSE IF PageList(e[3][1]).readable
           THEN PrintEdges(e, Assigns(e) \cup {<<"Dlsym", Node(e[2]), Node(e[3])>>})
           ELSE IF Nameless(Assigns(e)) THEN Fail
           ELSE WriteLines(Assigns(e)) /\ status' = "failed" /\ UNCHANGED todo
  BY DEF VisitDlsym
<1>2. status = "visiting" /\ UNCHANGED <<prog, at, objectVars, entered, trace_sites>>
  BY DEF VisitDlsym
<1>3. Assigns(e) \cup {<<"Dlsym", Node(e[2]), Node(e[3])>>} = Lines(e)
  BY <1>1 DEF Lines
<1>4. CASE Fail
  BY <1>2, <1>4, FailStep
<1>5. CASE e[3][2] = -1 /\ PrintEdges(e, Lines(e))
  BY <1>2, <1>5, PrintStep DEF Sound
<1>6. CASE e[3][2] = -1 /\ WriteLines(Assigns(e)) /\ status' = "failed" /\ UNCHANGED todo
  <2>1. Files'
    <3>1. Assigns(e) \subseteq Lines(e) /\ Sound(e)
      BY <1>3, <1>6 DEF Sound
    <3> QED
      BY <1>2, <1>6, <3>1, WriteStep
  <2>2. /\ Position /\ NamesInv /\ LoadedInv /\ prog' = prog /\ at' = at /\ relocated' = relocated
        /\ externs' = externs /\ symbol_names' = symbol_names
    BY <1>2 DEF FactsInv, objectVars
  <2>3. NamesInv' /\ LoadedInv' /\ Position'
    BY <1>6, <2>2, NamesFrame, LoadedFrame, Frame DEF Position
  <2> QED
    BY <1>6, <2>1, <2>3 DEF FactsInv, Directories, SoundInv, SeenInv, UnitsInv, Live
<1> QED
  BY <1>1, <1>3, <1>4, <1>5, <1>6

\* The part of one more unit is the file, or is empty and leaves the file.
LEMMA OneMorePart ==
  ASSUME NEW file, NEW parts, NEW new, NEW part,
         \/ part # {} /\ new = part
         \/ part = {} /\ new = file /\ IsOneOf(file, parts)
  PROVE  IsOneOf(new, parts \cup {part})
BY DEF IsOneOf

LEMMA LabelsStep ==
  ASSUME FactsInv, AddressMap
  PROVE  FactsInv'
<1> DEFINE L == CULabels(Item)
           Table(a) == {<<l.low, <<a, l.local>>>> : l \in OfFunction(L, a)}
           written == [a \in DOMAIN facts |->
             IF a \in Present(L) THEN [facts[a] EXCEPT !.FastNodeInstructions = Table(a)] ELSE facts[a]]
<1>1. /\ status = "running" /\ todo = {} /\ prog \in Programs /\ at \in DOMAIN Work /\ Work[at].op = "labels"
      /\ at \in Nat /\ Len(Work) \in Nat /\ at + 1 \in 1 .. Len(Work) + 1 /\ at \notin Records
  BY DoingIs DEF AddressMap
<1>2. /\ prog' = prog /\ todo' = todo /\ UNCHANGED <<objectVars, visitorVars>>
      /\ \/ at' = at /\ status' = "failed" /\ facts' = facts
         \/ at' = at /\ status' = "aborted" /\ prog.pretty /\ facts' = facts
         \/ at' = at + 1 /\ status' = status /\ facts' = written
  <2> HIDE DEF L
  <2> QED
    BY DEF AddressMap, Advance, Stop, PrettyLocals, L
<1>3. Position'
  BY <1>1, <1>2, Frame DEF FactsInv, Position
<1>4. CASE facts' = facts /\ at' = at /\ status' \in {"failed", "aborted"}
  <2>1. NamesInv' /\ LoadedInv' /\ Directories' /\ SoundInv' /\ Files' /\ SeenInv'
    BY <1>1, <1>2, <1>4, FilesAre, QuietStep DEF Live
  <2>2. UnitsInv'
    BY <1>4 DEF UnitsInv, Live
  <2> QED
    BY <1>3, <2>1, <2>2 DEF FactsInv
<1>5. CASE at' = at + 1 /\ status' = status /\ facts' = written
  <2>1. ASSUME NEW a \in DOMAIN facts
        PROVE  /\ facts'[a] = [t \in Tables |-> facts'[a][t]]
               /\ facts'[a].edges = facts[a].edges /\ facts'[a].sbom = facts[a].sbom
               /\ facts'[a].nodes = facts[a].nodes /\ facts'[a].InlineFunctions = facts[a].InlineFunctions
               /\ facts'[a].FastNodeInstructions =
                    IF a \in Present(L) THEN Table(a) ELSE facts[a].FastNodeInstructions
    <3>1. facts[a] = [t \in Tables |-> facts[a][t]]
      BY FilesAre
    <3> HIDE DEF L, Table
    <3>2. facts'[a] = IF a \in Present(L) THEN [facts[a] EXCEPT !.FastNodeInstructions = Table(a)] ELSE facts[a]
      BY <1>5
    <3> QED
      BY <3>1, <3>2 DEF Tables
  <2>2. DOMAIN facts' = DOMAIN facts
    <3> HIDE DEF L, Table
    <3> QED
      BY <1>5
  <2>3. NamesInv' /\ LoadedInv' /\ Directories' /\ SoundInv' /\ Files' /\ SeenInv'
    <3> HIDE DEF written, Table, L
    <3> QED
      BY <1>1, <1>2, <1>5, <2>1, <2>2, QuietStep DEF Live
  <2>4. Passed("labels")' = Passed("labels") \cup {Item} /\ Passed("inlines")' = Passed("inlines")
    BY <1>1, <1>2, <1>5, PassedIs DEF FactsInv
  <2>5. ASSUME NEW a \in DOMAIN facts
        PROVE  /\ a \in Present(L) => Callsites(a, Item) = Table(a) /\ Table(a) # {}
               /\ a \notin Present(L) => Callsites(a, Item) = {}
    BY DEF Callsites, OfFunction, Present, CULabels
  <2>6. ASSUME NEW a \in DOMAIN facts'
        PROVE  /\ IsOneOf(facts'[a].FastNodeInstructions, {Callsites(a, u) : u \in Passed("labels")'})
               /\ IsOneOf(facts'[a].InlineFunctions, {Inlined(a, u) : u \in Passed("inlines")'})
    <3> DEFINE parts == {Callsites(a, u) : u \in Passed("labels")}
    <3>1. /\ IsOneOf(facts[a].FastNodeInstructions, parts)
          /\ IsOneOf(facts[a].InlineFunctions, {Inlined(a, u) : u \in Passed("inlines")})
      BY <1>1, <2>2 DEF FactsInv, UnitsInv, Live
    <3>2. {Callsites(a, u) : u \in Passed("labels")'} = parts \cup {Callsites(a, Item)}
      BY <2>4
    <3>3. IsOneOf(facts'[a].FastNodeInstructions, parts \cup {Callsites(a, Item)})
      <4> HIDE DEF L, Table, parts
      <4> QED
        BY <2>1, <2>2, <2>5, <3>1, OneMorePart
    <3> QED
      BY <2>1, <2>2, <2>4, <3>1, <3>2, <3>3
  <2>7. UnitsInv'
    BY <2>6 DEF UnitsInv
  <2> QED
    BY <1>3, <2>3, <2>7 DEF FactsInv
<1> HIDE DEF written
<1> QED
  BY <1>2, <1>4, <1>5

LEMMA InlinesStep ==
  ASSUME FactsInv, InlineEdges
  PROVE  FactsInv'
<1> DEFINE I == Item.inlines
           Table(a) == {l.name : l \in OfFunction(I, a)}
           written == [a \in DOMAIN facts |->
             IF a \in Present(I) THEN [facts[a] EXCEPT !.InlineFunctions = Table(a)] ELSE facts[a]]
<1>1. /\ status = "running" /\ todo = {} /\ prog \in Programs /\ at \in DOMAIN Work /\ Work[at].op = "inlines"
      /\ at \in Nat /\ Len(Work) \in Nat /\ at + 1 \in 1 .. Len(Work) + 1 /\ at \notin Records
  BY DoingIs DEF InlineEdges
<1>2. /\ prog' = prog /\ todo' = todo /\ UNCHANGED <<objectVars, visitorVars>>
      /\ at' = at + 1 /\ status' = status /\ facts' = written
  BY DEF InlineEdges, Advance
<1>3. Position'
  BY <1>1, <1>2, Frame DEF FactsInv, Position
<1>4. ASSUME NEW a \in DOMAIN facts
      PROVE  /\ facts'[a] = [t \in Tables |-> facts'[a][t]]
             /\ facts'[a].edges = facts[a].edges /\ facts'[a].sbom = facts[a].sbom
             /\ facts'[a].nodes = facts[a].nodes
             /\ facts'[a].FastNodeInstructions = facts[a].FastNodeInstructions
             /\ facts'[a].InlineFunctions = IF a \in Present(I) THEN Table(a) ELSE facts[a].InlineFunctions
  <2>1. facts[a] = [t \in Tables |-> facts[a][t]]
    BY FilesAre
  <2> HIDE DEF I, Table
  <2>2. facts'[a] = IF a \in Present(I) THEN [facts[a] EXCEPT !.InlineFunctions = Table(a)] ELSE facts[a]
    BY <1>2
  <2> QED
    BY <2>1, <2>2 DEF Tables
<1>5. DOMAIN facts' = DOMAIN facts
  <2> HIDE DEF I, Table
  <2> QED
    BY <1>2
<1>6. NamesInv' /\ LoadedInv' /\ Directories' /\ SoundInv' /\ Files' /\ SeenInv'
  <2> HIDE DEF written, Table, I
  <2> QED
    BY <1>1, <1>2, <1>4, <1>5, QuietStep DEF Live
<1>7. Passed("inlines")' = Passed("inlines") \cup {Item} /\ Passed("labels")' = Passed("labels")
  BY <1>1, <1>2, PassedIs DEF FactsInv
<1>8. ASSUME NEW a \in DOMAIN facts
      PROVE  /\ a \in Present(I) => Inlined(a, Item) = Table(a) /\ Table(a) # {}
             /\ a \notin Present(I) => Inlined(a, Item) = {}
  BY DEF Inlined, OfFunction, Present
<1>9. ASSUME NEW a \in DOMAIN facts'
      PROVE  /\ IsOneOf(facts'[a].FastNodeInstructions, {Callsites(a, u) : u \in Passed("labels")'})
             /\ IsOneOf(facts'[a].InlineFunctions, {Inlined(a, u) : u \in Passed("inlines")'})
  <2> DEFINE parts == {Inlined(a, u) : u \in Passed("inlines")}
  <2>1. /\ IsOneOf(facts[a].InlineFunctions, parts)
        /\ IsOneOf(facts[a].FastNodeInstructions, {Callsites(a, u) : u \in Passed("labels")})
    BY <1>1, <1>5 DEF FactsInv, UnitsInv, Live
  <2>2. {Inlined(a, u) : u \in Passed("inlines")'} = parts \cup {Inlined(a, Item)}
    BY <1>7
  <2>3. IsOneOf(facts'[a].InlineFunctions, parts \cup {Inlined(a, Item)})
    <3> HIDE DEF I, Table, parts
    <3> QED
      BY <1>4, <1>5, <1>8, <2>1, OneMorePart
  <2> QED
    BY <1>4, <1>5, <1>7, <2>1, <2>2, <2>3
<1>10. UnitsInv'
  BY <1>9 DEF UnitsInv
<1> QED
  BY <1>3, <1>6, <1>10 DEF FactsInv

LEMMA FactsRest ==
  ASSUME FactsInv, UNCHANGED factsVars
  PROVE  FactsInv'
<1>1. /\ Position /\ NamesInv /\ LoadedInv /\ Directories /\ Files /\ SeenInv /\ UnitsInv
      /\ prog' = prog /\ at' = at /\ todo' = todo /\ status' = status /\ relocated' = relocated
      /\ externs' = externs /\ symbol_names' = symbol_names /\ entered' = entered
      /\ SeenNodes' = SeenNodes /\ facts' = facts
  BY DEF FactsInv, factsVars, objectVars, visitorVars
<1>2. /\ Records' = Records /\ Work' = Work /\ (\A k : Rec(k)' = Rec(k))
      /\ Begun' = Begun /\ (\A k : Visited(k)' = Visited(k)) /\ Live' = Live
  BY <1>1, Frame, BegunStays DEF Visited, Live
<1>3. Extends(externs, externs') /\ \A k \in Records : Dir(k)' = Dir(k)
  BY <1>1, DirStays DEF Extends, Position
<1>4. Position'
  <2>1. Item' = Item /\ \A q : Inside(q)' = Inside(q)
    BY <1>1, <1>2 DEF Item, Inside
  <2> QED
    BY <1>1, <1>2, <1>3, <2>1 DEF Position
<1>5. NamesInv' /\ LoadedInv'
  BY <1>1, NamesFrame, LoadedFrame
<1>6. Directories' /\ SoundInv' /\ Files'
  <2>1. \A a \in DOMAIN facts : facts[a] = [t \in Tables |-> facts[a][t]]
    BY FilesAre
  <2> QED
    BY <1>1, <1>2, <1>3, <2>1, DirectoriesFrame, SoundFrame, FilesFrame DEF FactsInv
<1>7. SeenInv' /\ UnitsInv'
  BY <1>1, <1>2, SeenFrame, UnitsFrame
<1> QED
  BY <1>4, <1>5, <1>6, <1>7 DEF FactsInv

LEMMA FactsStep == FactsInv /\ [FactsNext]_factsVars => FactsInv'
<1> SUFFICES ASSUME FactsInv, [FactsNext]_factsVars
             PROVE  FactsInv'
  OBVIOUS
<1>1. CASE LoadSymbols
  BY <1>1, LoadStep
<1>2. CASE EnterFunction
  BY <1>2, EnterStep
<1>3. CASE VisitStaticEdge
  BY <1>3, StaticStep
<1>4. CASE VisitDlsym
  BY <1>4, DlsymStep
<1>5. CASE ExitFunction
  BY <1>5, ExitStep
<1>6. CASE DumpTraceSites
  BY <1>6, SiteStep
<1>7. CASE AddressMap
  BY <1>7, LabelsStep
<1>8. CASE InlineEdges
  BY <1>8, InlinesStep
<1>9. CASE Return
  BY <1>9, ReturnStep
<1>10. CASE UNCHANGED factsVars
  BY <1>10, FactsRest
<1> QED
  BY <1>1, <1>2, <1>3, <1>4, <1>5, <1>6, <1>7, <1>8, <1>9, <1>10 DEF FactsNext

LEMMA FactsAlways == FactsSpec => []FactsInv
  BY FactsStart, FactsStep, PTL DEF FactsSpec

----------------------------------------------------------------------------
(* What the invariant says of the files.                                   *)

\* When all is done every record was entered and every unit was passed.
LEMMA AllDone ==
  ASSUME FactsInv, status = "done"
  PROVE  /\ Begun = Records /\ LastBegun = LastRecords
         /\ \A k \in Records : Visited(k) = Rec(k).edges
         /\ Passed("labels") = ToSet(prog.units) /\ Passed("inlines") = ToSet(prog.units)
<1>1. prog \in Programs /\ at = Len(Work) + 1
  BY DEF FactsInv, Position
<1>2. /\ Len(Work) \in Nat /\ DOMAIN Work = 1 .. Len(Work)
      /\ {Work[k].arg : k \in {j \in DOMAIN Work : Work[j].op = "labels"}} = ToSet(prog.units)
      /\ {Work[k].arg : k \in {j \in DOMAIN Work : Work[j].op = "inlines"}} = ToSet(prog.units)
  BY <1>1, WorkIs
<1>3. \A k \in DOMAIN Work : k < at
  BY <1>1, <1>2
<1>4. \A k \in Records : k < at /\ k # at
  BY <1>1, <1>2, RecordIs
<1>5. Begun = Records
  BY <1>4 DEF Begun
<1>6. \A op : {k \in DOMAIN Work : k < at /\ Work[k].op = op} = {j \in DOMAIN Work : Work[j].op = op}
  BY <1>3
<1>7. Passed("labels") = ToSet(prog.units) /\ Passed("inlines") = ToSet(prog.units)
  BY <1>2, <1>6 DEF Passed
<1> QED
  BY <1>4, <1>5, <1>7 DEF LastBegun, LastRecords, Visited

\* The lines of the last record of a directory: its edges, and for each of
\* its dlsym edges an assignment of everything that the call returned.
StaticLines(E) == {<<e[1], Node(e[2]), Node(e[3])>> : e \in E}
DynamicLine(e) == {<<"Assign", Node(e[2]), <<a, -1>>>> : a \in Dlsyms(e)}
DynamicLines(E) == UNION {DynamicLine(e) : e \in {d \in E : d[1] = "Dlsym"}}
AllLines(E) == UNION {Lines(e) : e \in E}

LEMMA LinesTogether ==
  ASSUME prog \in Programs, NEW said, \A e \in said : e[1] = "Dlsym" => (prog.core => e[3][1] \in DOMAIN prog.pages)
  PROVE  {x \in AllLines(said) : x[3] # <<NULL, -1>> \/ x \in StaticLines(said)}
           = StaticLines(said) \cup DynamicLines(said)
<1>1. ASSUME NEW e \in said, e[1] = "Dlsym"
      PROVE  PagePointers(e[3][1]) \ {NULL} = Dlsyms(e)
  BY <1>1, PagesGiven
<1>2. ASSUME NEW x \in AllLines(said), x[3] # <<NULL, -1>> \/ x \in StaticLines(said)
      PROVE  x \in StaticLines(said) \/ x \in DynamicLines(said)
  <2>1. PICK e \in said : x \in Lines(e)
    BY DEF AllLines
  <2>2. CASE x = <<e[1], Node(e[2]), Node(e[3])>>
    BY <2>2 DEF StaticLines
  <2>3. CASE e[1] = "Dlsym" /\ x \in Assigns(e)
    <3>1. PICK a \in PagePointers(e[3][1]) : x = <<"Assign", Node(e[2]), <<a, -1>>>>
      BY <2>3 DEF Assigns
    <3>2. CASE a = NULL
      BY <1>2, <3>1, <3>2
    <3>3. CASE a # NULL
      <4>1. x \in DynamicLine(e)
        BY <1>1, <2>3, <3>1, <3>3 DEF DynamicLine
      <4> QED
        BY <2>3, <4>1 DEF DynamicLines
    <3> QED
      BY <3>2, <3>3
  <2> QED
    BY <2>1, <2>2, <2>3 DEF Lines
<1>3. ASSUME NEW x \in StaticLines(said)
      PROVE  x \in AllLines(said)
  <2>1. PICK e \in said : x = <<e[1], Node(e[2]), Node(e[3])>>
    BY DEF StaticLines
  <2>2. x \in Lines(e)
    BY <2>1 DEF Lines
  <2> QED
    BY <2>2 DEF AllLines
<1>4. ASSUME NEW x \in DynamicLines(said)
      PROVE  x \in AllLines(said) /\ x[3] # <<NULL, -1>>
  <2>1. PICK e \in said : e[1] = "Dlsym" /\ x \in DynamicLine(e)
    BY DEF DynamicLines
  <2>2. PICK a \in Dlsyms(e) : x = <<"Assign", Node(e[2]), <<a, -1>>>>
    BY <2>1 DEF DynamicLine
  <2>3. a \in PagePointers(e[3][1]) /\ a # NULL
    BY <1>1, <2>1, <2>2
  <2>4. x \in Lines(e)
    BY <2>1, <2>2, <2>3 DEF Lines, Assigns
  <2> QED
    BY <2>1, <2>2, <2>3, <2>4 DEF AllLines
<1> QED
  BY <1>2, <1>3, <1>4

(* The program's position, and every node of a line: an address of the     *)
(* object, of an external symbol or NULL, and the number of a local, for   *)
(* every object, not only the run's.                                       *)
THEOREM FactsTyped == FactsSpec => []FactsTypeOK
<1>1. FactsInv => FactsTypeOK
  <2> SUFFICES ASSUME FactsInv
               PROVE  FactsTypeOK
    OBVIOUS
  <2>1. status \in {"running", "visiting", "done", "failed", "aborted"}
    BY DEF FactsInv, Position
  <2>2. \A a \in DOMAIN facts : \A e \in facts[a].edges : \A n \in {e[2], e[3]} : IsGiven(n)
    BY DEF FactsInv, Files
  <2>3. DOMAIN externs \subseteq {s \in DOMAIN prog.place : prog.place[s] = Extern}
    BY DEF FactsInv, NamesInv, Numbered
  <2> QED
    BY <2>1, <2>2, <2>3 DEF FactsTypeOK, IsGiven, Addresses
<1> QED
  BY <1>1, FactsAlways, PTL

(* Whatever sections are relocated and in whatever order, and whatever the *)
(* addends: external symbols are numbered apart and each has its name at   *)
(* its own address, every pointer that was read has a name, every name is  *)
(* of a symbol that a pointer leads from to that address, and the program  *)
(* stops with no assertion but for a pointer that leaves its section.      *)
THEOREM SymbolsNamed == FactsSpec => []NamesRight
<1>1. FactsInv => NamesRight
  <2> SUFFICES ASSUME FactsInv
               PROVE  NamesRight
    OBVIOUS
  <2>1. \A q : Address(q) = AddressIn(externs, q)
    BY DEF Address, AddressIn
  <2>2. /\ \A s, t \in DOMAIN externs : externs[s] = externs[t] => s = t
        /\ status = "aborted" => prog.pretty \/ \E q \in ToSet(prog.relocations[Item]) : ~Inside(q)
    BY DEF FactsInv, NamesInv, Numbered, Position
  <2>3. NamedBy(externs, symbol_names, ReadPointers)
    BY DEF FactsInv, NamesInv
  <2> QED
    BY <2>1, <2>2, <2>3 DEF NamesRight, NamedBy
<1> QED
  BY <1>1, FactsAlways, PTL

(* A run that ends well leaves a directory for each function described,    *)
(* with exactly the edges of its last record: for each of its dlsym()      *)
(* calls those of what that call returned, whatever pages the core dump    *)
(* holds, and none of a record before.                                     *)
THEOREM LastWins == FactsSpec => []LastRecordWins
<1>1. FactsInv => LastRecordWins
  <2> SUFFICES ASSUME FactsInv, status = "done"
               PROVE  LastRecordWins
    BY DEF LastRecordWins
  <2>1. prog \in Programs /\ Directories
    BY DEF FactsInv, Position
  <2>2. DOMAIN facts = {Dir(k) : k \in Records}
    BY <2>1, AllDone DEF Directories, Live
  <2>3. ASSUME NEW k \in LastRecords
        PROVE  /\ facts[Dir(k)].edges = UNION {Lines(e) : e \in Rec(k).edges}
               /\ facts[Dir(k)].sbom = Rec(k).sbom
    <3>1. k \in LastBegun /\ Visited(k) = Rec(k).edges
      BY <2>3, AllDone DEF LastRecords
    <3> QED
      BY <2>1, <3>1 DEF Directories, Live
  <2>4. ASSUME NEW k \in LastRecords
        PROVE  LET static == {<<e[1], Node(e[2]), Node(e[3])>> : e \in Rec(k).edges}
                   dynamic == UNION {{<<"Assign", Node(e[2]), <<a, -1>>>> : a \in Dlsyms(e)} :
                                       e \in {d \in Rec(k).edges : d[1] = "Dlsym"}}
               IN  {e \in facts[Dir(k)].edges : e[3] # <<NULL, -1>> \/ e \in static} = static \cup dynamic
    <3> DEFINE said == Rec(k).edges
    <3>1. k \in Records /\ k \in Begun /\ Visited(k) = said
      BY <2>4, AllDone DEF LastRecords
    <3>2. \A e \in said : Sound(e)
      BY <3>1 DEF FactsInv, SoundInv, Live
    <3>3. \A e \in said : e[1] = "Dlsym" => (prog.core => e[3][1] \in DOMAIN prog.pages)
      BY <2>1, <3>1, <3>2, PageKnown
    <3>4. {x \in AllLines(said) : x[3] # <<NULL, -1>> \/ x \in StaticLines(said)}
            = StaticLines(said) \cup DynamicLines(said)
      BY <2>1, <3>3, LinesTogether
    <3>5. facts[Dir(k)].edges = AllLines(said)
      BY <2>3 DEF AllLines
    <3> QED
      BY <3>4, <3>5 DEF StaticLines, DynamicLine, DynamicLines
  <2> QED
    BY <2>2, <2>3, <2>4 DEF LastRecordWins
<1> QED
  BY <1>1, FactsAlways, PTL

(* At any moment, whatever SeenNodes suppressed, every node of an edge in  *)
(* a directory that is not being written is described there, its symbol    *)
(* too, and in the end as the last record describes it.                    *)
THEOREM NodesAreDescribed == FactsSpec => []NodesDescribed
<1>1. FactsInv => NodesDescribed
  <2> SUFFICES ASSUME FactsInv
               PROVE  NodesDescribed
    OBVIOUS
  <2>1. \A a \in DOMAIN facts : \A e \in facts[a].edges : \A n \in {e[2], e[3]} :
          /\ \E line \in facts[a].nodes : line.node = n
          /\ \E line \in facts[a].nodes : line.node = <<n[1], -1>>
    BY DEF FactsInv, Files, HasLine
  <2>2. ASSUME status = "done", NEW k \in LastRecords, NEW line \in facts[Dir(k)].nodes
        PROVE  LineRight(line, k)
    <3>1. k \in LastBegun
      BY <2>2, AllDone
    <3> QED
      BY <2>2, <3>1 DEF FactsInv, Directories, Live
  <2> QED
    BY <2>1, <2>2 DEF NodesDescribed, LineRight
<1> QED
  BY <1>1, FactsAlways, PTL

(* A run that ends well leaves in each file of call sites or of inlined    *)
(* functions the part of one unit, whole, however many units describe the  *)
(* function and in whatever order they come.                               *)
THEOREM UnitsKept == FactsSpec => []CallsitesKept
<1>1. FactsInv => CallsitesKept
  <2> SUFFICES ASSUME FactsInv, status = "done"
               PROVE  CallsitesKept
    BY DEF CallsitesKept
  <2>1. Passed("labels") = ToSet(prog.units) /\ Passed("inlines") = ToSet(prog.units)
    BY AllDone
  <2>2. \A a \in DOMAIN facts :
          /\ IsOneOf(facts[a].FastNodeInstructions, {Callsites(a, u) : u \in Passed("labels")})
          /\ IsOneOf(facts[a].InlineFunctions, {Inlined(a, u) : u \in Passed("inlines")})
    BY DEF FactsInv, UnitsInv, Live
  <2> QED
    BY <2>1, <2>2 DEF CallsitesKept
<1> QED
  BY <1>1, FactsAlways, PTL
=============================================================================
