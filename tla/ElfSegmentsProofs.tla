------------------------- MODULE ElfSegmentsProofs -------------------------
(***************************************************************************)
(* Proofs about ElfSegments: its types, the growth of the published sets,  *)
(* and that it implements LoadedObjects, for any threads and objects.      *)
(*                                                                         *)
(* The heart is one part of RescanOK: a thread about to compare-and-swap   *)
(* scanned after it loaded `old`, so its scan contains the set that `old`  *)
(* points to.  If the swap succeeds, that set is still the current one.    *)
(***************************************************************************)
EXTENDS ElfSegments, TLAPS

USE MainAssumption, OutsideAssumption

\* A sequence of sets with a set appended to it.
LEMMA AppendSet ==
  ASSUME NEW s \in Seq(SUBSET Objects), NEW S \in SUBSET Objects
  PROVE  /\ Append(s, S) \in Seq(SUBSET Objects)
         /\ Len(Append(s, S)) = Len(s) + 1
         /\ \A i \in 1 .. Len(s) : Append(s, S)[i] = s[i]
         /\ Append(s, S)[Len(s) + 1] = S
         /\ Len(s) \in Nat
         /\ \A i \in 1 .. Len(s) : s[i] \in SUBSET Objects
  OBVIOUS

\* Under the invariant the known objects are loaded, and include the first ones
\* as soon as there is a published set.
LEMMA KnownObjects ==
  ASSUME Inv
  PROVE  /\ Known \subseteq loaded
         /\ Current \in Nat
         /\ Current # 0 => Main \subseteq Known
         /\ \A i \in 1 .. Current : published[i] \subseteq Known
<1>1. published \in Seq(SUBSET Objects)
  BY DEF Inv, TypeOK
<1>2. Current \in Nat
  BY <1>1 DEF Current
<1>3. CASE Current = 0
  BY <1>2, <1>3 DEF Known
<1>4. CASE Current # 0
  <2>1. Current \in 1 .. Current /\ Known = published[Current]
    BY <1>2, <1>4 DEF Known
  <2>2. \A i \in 1 .. Current : i = Current \/ i < Current
    BY <1>2
  <2> QED
    BY <1>2, <2>1, <2>2 DEF Inv, StrictGrowth
<1> QED
  BY <1>3, <1>4

\* Publishing appends a strict superset of the current set.
LEMMA PublishGrows ==
  ASSUME Inv, NEW t \in Threads, Publish(t)
  PROVE  /\ published' = Append(published, scan[t])
         /\ Main \cup opened[t] \subseteq scan[t]
         /\ scan[t] \subseteq loaded
         /\ \A i \in 1 .. Current :
              published[i] \subseteq scan[t] /\ published[i] # scan[t]
         /\ published' \in Seq(SUBSET Objects)
         /\ Current' = Current + 1
         /\ \A i \in 1 .. Current : published'[i] = published[i]
         /\ published'[Current + 1] = scan[t]
<1>1. /\ pc[t] = "publish"
      /\ ~Unchanged(t)
      /\ Current = old[t]
      /\ published' = Append(published, scan[t])
  BY DEF Publish, Return, Goto
<1>2. /\ Main \cup opened[t] \subseteq scan[t]
      /\ scan[t] \subseteq loaded
      /\ scan[t] \in SUBSET Objects
  BY <1>1 DEF Inv, RescanOK, TypeOK
<1>3. \A i \in 1 .. Current : published[i] \subseteq scan[t] /\ published[i] # scan[t]
  <2> SUFFICES ASSUME NEW i \in 1 .. Current
               PROVE  published[i] \subseteq scan[t] /\ published[i] # scan[t]
    OBVIOUS
  <2>1. Current \in Nat \ {0} /\ Known = published[Current]
    BY KnownObjects DEF Known
  <2>2. Known \subseteq scan[t] /\ Known # scan[t]
    BY <1>1, <2>1 DEF Inv, RescanOK, Unchanged
  <2>3. published[i] \subseteq Known
    BY KnownObjects
  <2> QED
    BY <2>2, <2>3
<1>4. published \in Seq(SUBSET Objects)
  BY DEF Inv, TypeOK
<1>5. /\ published' \in Seq(SUBSET Objects)
      /\ Current' = Current + 1
      /\ \A i \in 1 .. Current : published'[i] = published[i]
      /\ published'[Current + 1] = scan[t]
  BY <1>1, <1>2, <1>4, AppendSet DEF Current
<1> QED
  BY <1>1, <1>2, <1>3, <1>5

-----------------------------------------------------------------------------
(***************************************************************************)
(* The invariant.                                                          *)
(***************************************************************************)
LEMMA InvInit == Init => Inv
<1> SUFFICES ASSUME Init PROVE Inv
  OBVIOUS
<1>1. Current = 0
  BY DEF Init, Current
<1>2. published \in Seq(SUBSET Objects)
  BY DEF Init
<1> QED
  BY <1>1, <1>2 DEF Init, Inv, TypeOK, StrictGrowth, RescanOK, Addresses, Known

LEMMA TypeStep == Inv /\ [Next]_vars => TypeOK'
<1> SUFFICES ASSUME Inv, [Next]_vars PROVE TypeOK'
  OBVIOUS
<1> USE DEF TypeOK, Addresses, Goto, locals
<1>0. TypeOK /\ Current \in Nat
  BY KnownObjects DEF Inv
<1>1. ASSUME NEW t \in Threads, Dlopen(t) PROVE TypeOK'
  BY <1>0, <1>1 DEF Dlopen, Current
<1>2. ASSUME NEW t \in Threads, Ask(t) PROVE TypeOK'
  BY <1>0, <1>2 DEF Ask, Current
<1>3. ASSUME NEW t \in Threads, DlopenReturns(t) PROVE TypeOK'
  BY <1>0, <1>3 DEF DlopenReturns, Current
<1>4. ASSUME NEW t \in Threads, AskFirst(t) PROVE TypeOK'
  BY <1>0, <1>4 DEF AskFirst, Current
<1>5. ASSUME NEW t \in Threads, AskCached(t) \/ AskRescanned(t) PROVE TypeOK'
  <2>1. answer' \in [Threads -> BOOLEAN]
    <3>1. answer' = [answer EXCEPT ![t] = asked[t].addr \in Known]
      BY <1>5 DEF AskCached, AskRescanned, Answers
    <3>2. (asked[t].addr \in Known) \in BOOLEAN
      OBVIOUS
    <3> HIDE DEF TypeOK
    <3>3. answer \in [Threads -> BOOLEAN]
      BY <1>0 DEF TypeOK
    <3> QED
      BY <3>1, <3>2, <3>3, Zenon
  <2> QED
    BY <1>0, <1>5, <2>1 DEF AskCached, AskRescanned, Answers, Current
<1>6. ASSUME NEW t \in Threads, LoadOld(t) PROVE TypeOK'
  BY <1>0, <1>6 DEF LoadOld, Current
<1>7. ASSUME NEW t \in Threads, Scan(t) PROVE TypeOK'
  BY <1>0, <1>7 DEF Scan, Current
<1>8. ASSUME NEW t \in Threads, KeepSet(t) PROVE TypeOK'
  <2>1. Current # 0 /\ Current' = Current
    BY <1>0, <1>8 DEF KeepSet, Unchanged, Return, Current
  <2> QED
    BY <1>0, <1>8, <2>1 DEF KeepSet, Return
<1>9. ASSUME NEW t \in Threads, Publish(t) PROVE TypeOK'
  <2>1. published' \in Seq(SUBSET Objects) /\ Current' = Current + 1
    BY <1>9, PublishGrows
  <2> QED
    BY <1>0, <1>9, <2>1 DEF Publish, Return
<1>10. ASSUME NEW t \in Threads, PublishFails(t) PROVE TypeOK'
  BY <1>0, <1>10 DEF PublishFails, Current
<1>11. CASE UNCHANGED vars
  BY <1>0, <1>11 DEF vars, Current
<1> QED
  BY <1>1, <1>2, <1>3, <1>4, <1>5, <1>6, <1>7, <1>8, <1>9, <1>10, <1>11
  DEF Next, Continue, Rescan

\* What every step but Publish does to the published sets, and every step but
\* Dlopen to the loaded objects.
LEMMA StepFrame ==
  ASSUME Inv, [Next]_vars
  PROVE  /\ loaded \subseteq loaded'
         /\ \/ published' = published
            \/ \E t \in Threads : Publish(t)
<1>1. ASSUME NEW t \in Threads, Dlopen(t)
      PROVE  loaded \subseteq loaded' /\ published' = published
  BY <1>1 DEF Dlopen
<1>2. ASSUME NEW t \in Threads, Ask(t) \/ DlopenReturns(t) \/ AskFirst(t)
                                 \/ AskCached(t) \/ AskRescanned(t)
      PROVE  loaded' = loaded /\ published' = published
  BY <1>2 DEF Ask, DlopenReturns, AskFirst, AskCached, AskRescanned, Answers
<1>3. ASSUME NEW t \in Threads, LoadOld(t) \/ Scan(t) \/ KeepSet(t) \/ PublishFails(t)
      PROVE  loaded' = loaded /\ published' = published
  BY <1>3 DEF LoadOld, Scan, KeepSet, PublishFails, Return
<1>4. ASSUME NEW t \in Threads, Publish(t) PROVE loaded' = loaded
  BY <1>4 DEF Publish, Return
<1>5. CASE UNCHANGED vars
  BY <1>5 DEF vars
<1> QED
  BY <1>1, <1>2, <1>3, <1>4, <1>5 DEF Next, Continue, Rescan

LEMMA GrowthStep == Inv /\ [Next]_vars => (Main \subseteq loaded /\ StrictGrowth)'
<1> SUFFICES ASSUME Inv, [Next]_vars PROVE (Main \subseteq loaded)' /\ StrictGrowth'
  OBVIOUS
<1>1. Main \subseteq loaded' /\ loaded \subseteq loaded'
  BY StepFrame DEF Inv
<1>2. CASE published' = published
  BY <1>1, <1>2 DEF Inv, StrictGrowth, Current
<1>3. ASSUME NEW t \in Threads, Publish(t) PROVE StrictGrowth'
  <2>1. /\ Current \in Nat
        /\ Current' = Current + 1
        /\ \A i \in 1 .. Current : published'[i] = published[i]
        /\ published'[Current + 1] = scan[t]
    BY <1>3, PublishGrows, KnownObjects
  <2>2. \A i \in 1 .. Current' : i \in 1 .. Current \/ i = Current + 1
    BY <2>1
  <2>3. /\ Main \subseteq scan[t] /\ scan[t] \subseteq loaded
        /\ \A i \in 1 .. Current :
             published[i] \subseteq scan[t] /\ published[i] # scan[t]
    BY <1>3, PublishGrows
  <2>4. ASSUME NEW i \in 1 .. Current'
        PROVE  Main \subseteq published'[i] /\ published'[i] \subseteq loaded'
    BY <1>1, <2>1, <2>2, <2>3 DEF Inv, StrictGrowth
  <2>5. ASSUME NEW i \in 1 .. Current', NEW j \in 1 .. Current', i < j
        PROVE  published'[i] \subseteq published'[j] /\ published'[i] # published'[j]
    <3>1. i \in 1 .. Current
      BY <2>1, <2>5
    <3>2. CASE j \in 1 .. Current
      BY <2>1, <2>5, <3>1, <3>2 DEF Inv, StrictGrowth
    <3>3. CASE j = Current + 1
      BY <2>1, <2>3, <3>1, <3>3
    <3> QED
      BY <2>2, <3>2, <3>3
  <2> QED
    BY <2>4, <2>5 DEF StrictGrowth
<1> QED
  BY <1>1, <1>2, <1>3, StepFrame

\* RescanOK for one thread.
ThreadOK(t) ==
  /\ opened[t] \subseteq loaded
  /\ pc[t] = "publish" =>
       /\ Main \cup opened[t] \subseteq scan[t] /\ scan[t] \subseteq loaded
       /\ old[t] # 0 => published[old[t]] \subseteq scan[t]
  /\ pc[t] = "done" => opened[t] \subseteq Known
  /\ pc[t] \in {"idle", "ask"} => opened[t] = {}
  /\ pc[t] = "idle" => asked[t] = NoAddress
  /\ pc[t] = "ask" => asked[t] # NoAddress
  /\ asked[t] # NoAddress => opened[t] = {}

\* A thread that does not move is not disturbed by the others: the sets it
\* compares with stay where they are, and the rest only grows.
LEMMA OthersStep ==
  ASSUME Inv, [Next]_vars, NEW u \in Threads,
         pc'[u] = pc[u], opened'[u] = opened[u], asked'[u] = asked[u],
         old'[u] = old[u], scan'[u] = scan[u]
  PROVE  ThreadOK(u)'
<1>1. loaded \subseteq loaded'
  BY StepFrame
<1>2. ThreadOK(u) /\ old[u] \in 0 .. Current /\ Current \in Nat
  BY KnownObjects DEF Inv, TypeOK, RescanOK, ThreadOK
<1>3. Known \subseteq Known' /\ (old[u] # 0 => published'[old[u]] = published[old[u]])
  <2>1. CASE published' = published
    BY <2>1 DEF Known, Current
  <2>2. ASSUME NEW t \in Threads, Publish(t)
        PROVE  Known \subseteq Known' /\ (old[u] # 0 => published'[old[u]] = published[old[u]])
    <3>1. /\ Current' = Current + 1
          /\ \A i \in 1 .. Current : published'[i] = published[i]
          /\ published'[Current + 1] = scan[t]
      BY <2>2, PublishGrows, KnownObjects
    <3>2. Known' = scan[t]
      BY <1>2, <3>1 DEF Known
    <3>3. Known \subseteq scan[t]
      BY <1>2, <2>2, PublishGrows DEF Known
    <3> QED
      BY <1>2, <3>1, <3>2, <3>3
  <2> QED
    BY <2>1, <2>2, StepFrame
<1> QED
  BY <1>1, <1>2, <1>3 DEF ThreadOK

LEMMA RescanStep == Inv /\ [Next]_vars => RescanOK'
<1> SUFFICES ASSUME Inv, [Next]_vars, NEW u \in Threads PROVE ThreadOK(u)'
  BY DEF RescanOK, ThreadOK
<1>0. TypeOK /\ ThreadOK(u) /\ Current \in Nat /\ Main \subseteq loaded
  BY KnownObjects DEF Inv, RescanOK, ThreadOK
<1> USE DEF TypeOK, Goto, locals
<1>1. ASSUME NEW t \in Threads, Dlopen(t), t = u PROVE ThreadOK(u)'
  BY <1>0, <1>1 DEF Dlopen, ThreadOK
<1>2. ASSUME NEW t \in Threads, Ask(t), t = u PROVE ThreadOK(u)'
  BY <1>0, <1>2 DEF Ask, ThreadOK, NoAddress, Address
<1>3. ASSUME NEW t \in Threads, DlopenReturns(t), t = u PROVE ThreadOK(u)'
  BY <1>0, <1>3 DEF DlopenReturns, ThreadOK
<1>4. ASSUME NEW t \in Threads, AskFirst(t), t = u PROVE ThreadOK(u)'
  BY <1>0, <1>4 DEF AskFirst, ThreadOK
<1>5. ASSUME NEW t \in Threads, AskCached(t) \/ AskRescanned(t), t = u PROVE ThreadOK(u)'
  BY <1>0, <1>5 DEF AskCached, AskRescanned, Answers, ThreadOK
<1>6. ASSUME NEW t \in Threads, LoadOld(t), t = u PROVE ThreadOK(u)'
  BY <1>0, <1>6 DEF LoadOld, ThreadOK
<1>7. ASSUME NEW t \in Threads, Scan(t), t = u PROVE ThreadOK(u)'
  <2>1. old[u] # 0 => published[old[u]] \subseteq loaded
    BY <1>0 DEF Inv, StrictGrowth
  <2> QED
    BY <1>0, <1>7, <2>1 DEF Scan, ThreadOK
<1>8. ASSUME NEW t \in Threads, KeepSet(t), t = u PROVE ThreadOK(u)'
  <2>1. opened[u] \subseteq published[old[u]] /\ old[u] \in 1 .. Current
    BY <1>0, <1>8 DEF KeepSet, Unchanged, Return, ThreadOK
  <2>2. opened[u] \subseteq Known /\ Known' = Known
    BY <1>8, <2>1, KnownObjects DEF KeepSet, Known, Current
  <2> QED
    BY <1>0, <1>8, <2>2 DEF KeepSet, Return, ThreadOK
<1>9. ASSUME NEW t \in Threads, Publish(t), t = u PROVE ThreadOK(u)'
  <2>1. Known' = scan[u] /\ opened[u] \subseteq scan[u]
    BY <1>0, <1>9, PublishGrows DEF Known
  <2> QED
    BY <1>0, <1>9, <2>1 DEF Publish, Return, ThreadOK
<1>10. ASSUME NEW t \in Threads, PublishFails(t), t = u PROVE ThreadOK(u)'
  BY <1>0, <1>10 DEF PublishFails, ThreadOK
<1>11. CASE \/ UNCHANGED vars
            \/ \E t \in Threads \ {u} : Dlopen(t) \/ Ask(t) \/ Continue(t)
  <2>1. /\ pc'[u] = pc[u] /\ opened'[u] = opened[u] /\ asked'[u] = asked[u]
        /\ old'[u] = old[u] /\ scan'[u] = scan[u]
    BY <1>0, <1>11
    DEF vars, Dlopen, Ask, Continue, Rescan, DlopenReturns, AskFirst, AskCached, AskRescanned,
        Answers, LoadOld, Scan, KeepSet, Publish, PublishFails, Return
  <2> QED
    BY <2>1, OthersStep
<1> QED
  BY <1>1, <1>2, <1>3, <1>4, <1>5, <1>6, <1>7, <1>8, <1>9, <1>10, <1>11
  DEF Next, Continue, Rescan

LEMMA InvStep == Inv /\ [Next]_vars => Inv'
BY TypeStep, GrowthStep, RescanStep DEF Inv

\* The inductive invariant holds in every behaviour.
THEOREM Invariance == Spec => []Inv
BY InvInit, InvStep, PTL DEF Spec

\* Every variable keeps its type, and rescan() never returns without a set.
THEOREM TypeCorrect == Spec => []TypeOK
<1>1. Inv => TypeOK
  BY DEF Inv
<1> QED
  BY Invariance, <1>1, PTL

\* The published sets grow strictly: no scan is undone, few sets are leaked.
THEOREM SetsGrow == Spec => []StrictGrowth
<1>1. Inv => StrictGrowth
  BY DEF Inv
<1> QED
  BY Invariance, <1>1, PTL

-----------------------------------------------------------------------------
(***************************************************************************)
(* The refinement.                                                         *)
(***************************************************************************)
LEMMA PromiseInit == Init => Promise!Init
BY DEF Init, Promise!Init, Promise!Idle, Known, Current, PromisedCall

\* A step of t inside rescan() that publishes nothing is not seen.
LEMMA QuietStep ==
  ASSUME Inv, NEW t \in Threads, pc[t] # "idle",
         pc' = [pc EXCEPT ![t] = pc'[t]], pc'[t] # "idle",
         UNCHANGED <<loaded, opened, asked, answer>>
  PROVE  PromisedCall' = PromisedCall
BY DEF PromisedCall, Inv, TypeOK

LEMMA PromiseStep == Inv /\ [Next]_vars => [Promise!Next]_(Promise!vars)
<1> SUFFICES ASSUME Inv, [Next]_vars PROVE [Promise!Next]_(Promise!vars)
  OBVIOUS
<1>0. TypeOK /\ RescanOK
  BY DEF Inv
<1>1. ASSUME NEW t \in Threads, Dlopen(t) PROVE Promise!Open(t)
  <2>1. PICK S \in {{}} \cup {{o} : o \in Objects} :
          loaded' = loaded \cup S /\ opened' = [opened EXCEPT ![t] = S]
    BY <1>1 DEF Dlopen
  <2>2. /\ pc[t] = "idle" /\ pc' = [pc EXCEPT ![t] = "load"]
        /\ asked[t] = NoAddress
        /\ UNCHANGED <<published, asked, answer>>
    BY <1>0, <1>1 DEF Dlopen, Goto, RescanOK
  <2>3. PromisedCall[t] = Promise!Idle
    BY <2>2 DEF PromisedCall, Promise!Idle
  <2>4. PromisedCall' = [PromisedCall EXCEPT ![t] = Promise!Opening(S)]
    BY <1>0, <2>1, <2>2 DEF PromisedCall, Promise!Opening, TypeOK
  <2> QED
    BY <2>1, <2>2, <2>3, <2>4 DEF Promise!Open, Known, Current
<1>2. ASSUME NEW t \in Threads, DlopenReturns(t) PROVE Promise!Opened(t)
  <2>1. /\ pc[t] = "done" /\ pc' = [pc EXCEPT ![t] = "idle"]
        /\ asked[t] = NoAddress
        /\ opened' = [opened EXCEPT ![t] = {}]
        /\ UNCHANGED <<loaded, published, asked, answer>>
    BY <1>2 DEF DlopenReturns, Goto
  <2>2. PromisedCall[t] = Promise!Opening(opened[t])
    BY <2>1 DEF PromisedCall, Promise!Opening
  <2>3. opened[t] \in SUBSET Known
    BY <1>0, <2>1 DEF RescanOK
  <2>4. PromisedCall' = [PromisedCall EXCEPT ![t] = Promise!Idle]
    BY <1>0, <2>1 DEF PromisedCall, Promise!Idle, TypeOK
  <2> QED
    BY <2>1, <2>2, <2>3, <2>4 DEF Promise!Opened, Known, Current
<1>3. ASSUME NEW t \in Threads, Ask(t) PROVE Promise!Ask(t)
  <2>1. PICK a \in Addresses : asked' = [asked EXCEPT ![t] = Address(a)]
    BY <1>3 DEF Ask, Addresses
  <2>2. /\ pc[t] = "idle" /\ pc' = [pc EXCEPT ![t] = "ask"]
        /\ UNCHANGED <<loaded, published, opened, answer>>
    BY <1>3 DEF Ask, Goto
  <2>3. Address(a) # NoAddress /\ Address(a).addr = a
    BY DEF Address, NoAddress
  <2>4. PromisedCall[t] = Promise!Idle
    BY <2>2 DEF PromisedCall, Promise!Idle
  <2>5. PromisedCall' = [PromisedCall EXCEPT ![t] = Promise!Asking(a)]
    BY <1>0, <2>1, <2>2, <2>3 DEF PromisedCall, Promise!Asking, TypeOK
  <2> QED
    BY <2>2, <2>4, <2>5 DEF Promise!Ask, Known, Current, Addresses
<1>4. ASSUME NEW t \in Threads, AskCached(t) \/ AskRescanned(t) PROVE Promise!Answer(t)
  <2>1. /\ Current # 0
        /\ asked[t] # NoAddress
        /\ pc[t] # "idle" /\ pc' = [pc EXCEPT ![t] = "idle"]
        /\ answer' = [answer EXCEPT ![t] = asked[t].addr \in Known]
        /\ UNCHANGED <<loaded, published, opened>>
        /\ asked' = [asked EXCEPT ![t] = NoAddress]
    BY <1>0, <1>4 DEF AskCached, AskRescanned, Answers, Goto, TypeOK
  <2>2. PICK a \in Addresses : asked[t] = Address(a)
    BY <1>0, <2>1 DEF TypeOK
  <2>3. Address(a).addr = a
    BY DEF Address
  <2>4. PromisedCall[t] = Promise!Asking(a)
    BY <2>1, <2>2, <2>3 DEF PromisedCall, Promise!Asking
  <2>5. PromisedCall' = [PromisedCall EXCEPT ![t] = Promise!Idle]
    BY <1>0, <2>1 DEF PromisedCall, Promise!Idle, TypeOK
  <2>6. answer' = [answer EXCEPT ![t] = a \in Known]
    BY <2>1, <2>2, <2>3
  <2> QED
    BY <2>1, <2>4, <2>5, <2>6, KnownObjects DEF Promise!Answer, Known, Current, Addresses
<1>5. ASSUME NEW t \in Threads,
             AskFirst(t) \/ LoadOld(t) \/ Scan(t) \/ KeepSet(t) \/ PublishFails(t)
      PROVE  UNCHANGED Promise!vars
  <2>1. /\ pc[t] # "idle" /\ pc'[t] # "idle"
        /\ pc' = [pc EXCEPT ![t] = pc'[t]]
        /\ UNCHANGED <<loaded, published, opened, asked, answer>>
    BY <1>0, <1>5
    DEF AskFirst, LoadOld, Scan, KeepSet, PublishFails, Return, Goto, locals, TypeOK
  <2> QED
    BY <2>1, QuietStep DEF Promise!vars, Known, Current
<1>6. ASSUME NEW t \in Threads, Publish(t) PROVE Promise!Learn
  <2>1. /\ pc[t] # "idle" /\ pc'[t] # "idle"
        /\ pc' = [pc EXCEPT ![t] = pc'[t]]
        /\ UNCHANGED <<loaded, opened, asked, answer>>
    BY <1>0, <1>6 DEF Publish, Return, Goto, TypeOK
  <2>2. Known' = scan[t] /\ Known \subseteq scan[t] /\ Main \subseteq scan[t]
        /\ scan[t] \subseteq loaded
    BY <1>6, PublishGrows, KnownObjects DEF Known
  <2> QED
    BY <2>1, <2>2, QuietStep DEF Promise!Learn
<1>7. CASE UNCHANGED vars
  BY <1>7 DEF vars, locals, Promise!vars, Known, Current, PromisedCall
<1> QED
  BY <1>1, <1>2, <1>3, <1>4, <1>5, <1>6, <1>7 DEF Next, Continue, Rescan, Promise!Next

\* The cache implements the promised set of loaded objects.
THEOREM SegmentsImplementObjects == Spec => ImplementsObjects
BY PromiseInit, PromiseStep, Invariance, PTL DEF Spec, ImplementsObjects, Promise!Spec
=============================================================================
