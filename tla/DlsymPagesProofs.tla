------------------------- MODULE DlsymPagesProofs -------------------------
(***************************************************************************)
(* Proofs about DlsymPages, for any number of threads, addresses, slots    *)
(* and calls: the inductive invariant Inv, the three safety properties     *)
(* that follow from it, and the refinement of DlsymLog.                    *)
(***************************************************************************)
EXTENDS DlsymPages, SequenceTheorems, TLAPS

-----------------------------------------------------------------------------
(***************************************************************************)
(* Types.                                                                  *)
(***************************************************************************)
LEMMA TypeInit == Init => TypeOK
BY MaxCallsAssumption DEF Init, TypeOK, PageOrNull, Steps

LEMMA TypeStep == TypeOK /\ [Next]_vars => TypeOK'
<1> SUFFICES ASSUME TypeOK, [Next]_vars
             PROVE  TypeOK'
  OBVIOUS
<1> USE PageCapAssumption, MaxCallsAssumption, NullAssumption DEF TypeOK, PageOrNull, Steps, Slots
<1>1. ASSUME NEW t \in Threads, Call(t) PROVE TypeOK'
  BY <1>1 DEF Call, Goto, shared, reader
<1>2. ASSUME NEW t \in Threads, Load(t) PROVE TypeOK'
  BY <1>2 DEF Load, Goto, Enter, shared, reader
<1>3. ASSUME NEW t \in Threads, Claim(t) PROVE TypeOK'
  BY <1>3 DEF Claim, Goto, reader
<1>4. ASSUME NEW t \in Threads, Store(t) PROVE TypeOK'
  BY <1>4 DEF Store, Goto, reader
<1>5. ASSUME NEW t \in Threads, MapPage(t) PROVE TypeOK'
  BY <1>5 DEF MapPage, Goto, reader
<1>6. ASSUME NEW t \in Threads, MapFails(t) PROVE TypeOK'
  BY <1>6 DEF MapFails, shared, reader
<1>7. ASSUME NEW t \in Threads, CasPublishes(t) PROVE TypeOK'
  BY <1>7 DEF CasPublishes, Goto, reader
<1>8. ASSUME NEW t \in Threads, CasFails(t) PROVE TypeOK'
  BY <1>8 DEF CasFails, Goto, shared, reader
<1>9. ASSUME NEW t \in Threads, Unmap(t) PROVE TypeOK'
  BY <1>9 DEF Unmap, Goto, Enter, reader
<1>10. CASE Freeze
  BY <1>10 DEF Freeze, shared
<1>11. CASE ReadPage
  BY <1>11 DEF ReadPage, shared, Claimed
<1>12. CASE UNCHANGED vars
  BY <1>12 DEF vars, shared, reader
<1> QED
  BY <1>1, <1>2, <1>3, <1>4, <1>5, <1>6, <1>7, <1>8, <1>9, <1>10, <1>11, <1>12 DEF Next, Insert

\* Every variable keeps its type (and a store stays within its page).
THEOREM TypeCorrect == Spec => []TypeOK
BY TypeInit, TypeStep, PTL DEF Spec

-----------------------------------------------------------------------------
(***************************************************************************)
(* The set of published pages.                                             *)
(***************************************************************************)
LEMMA PublishedType == TypeOK => PublishedPages \subseteq Pages
BY DEF TypeOK, PublishedPages

LEMMA PublishedSame == published' = published => PublishedPages' = PublishedPages
BY DEF PublishedPages

LEMMA PublishedHas ==
  ASSUME TypeOK
  PROVE  /\ Len(published) \in Nat
         /\ DOMAIN published = 1 .. Len(published)
         /\ \A i \in 1 .. Len(published) : published[i] \in PublishedPages
         /\ \A p \in PublishedPages : \E i \in 1 .. Len(published) : p = published[i]
         /\ published = <<>> <=> Len(published) = 0
<1>1. published \in Seq(Pages)
  BY DEF TypeOK
<1> QED
  BY <1>1 DEF PublishedPages

LEMMA HeadPublished == TypeOK /\ ListLinked => head \in PublishedPages \cup {NULL}
<1> SUFFICES ASSUME TypeOK, ListLinked, published # <<>>
             PROVE  published[Len(published)] \in PublishedPages
  BY DEF ListLinked
<1> QED
  BY PublishedHas

\* A successful compare-and-swap adds the thread's page at the end.
LEMMA PublishedGrows ==
  ASSUME TypeOK, NEW t \in Threads, CasPublishes(t)
  PROVE  /\ fresh[t] \in Pages
         /\ Len(published') = Len(published) + 1
         /\ \A i \in 1 .. Len(published) : published'[i] = published[i]
         /\ published'[Len(published) + 1] = fresh[t]
         /\ PublishedPages' = PublishedPages \cup {fresh[t]}
<1>1. fresh[t] \in Pages /\ published \in Seq(Pages)
  BY DEF TypeOK, CasPublishes, Goto, PageOrNull
<1>2. published' = Append(published, fresh[t])
  BY DEF CasPublishes
<1>3. /\ published' \in Seq(Pages)
      /\ Len(published') = Len(published) + 1
      /\ \A i \in 1 .. Len(published) : published'[i] = published[i]
      /\ published'[Len(published) + 1] = fresh[t]
  BY <1>1, <1>2, AppendProperties
<1>4. DOMAIN published = 1 .. Len(published) /\ DOMAIN published' = 1 .. Len(published')
      /\ Len(published) \in Nat
  BY <1>1, <1>3
<1>5. PublishedPages' = PublishedPages \cup {fresh[t]}
  <2>1. \A i \in DOMAIN published' : i \in DOMAIN published \/ i = Len(published) + 1
    BY <1>3, <1>4
  <2>2. \A i \in DOMAIN published : i \in DOMAIN published' /\ published'[i] = published[i]
    BY <1>3, <1>4
  <2>3. Len(published) + 1 \in DOMAIN published'
    BY <1>3, <1>4
  <2> QED
    BY <1>3, <2>1, <2>2, <2>3 DEF PublishedPages
<1> QED
  BY <1>1, <1>3, <1>5

(***************************************************************************)
(* The inductive invariant, one lemma per action.                          *)
(***************************************************************************)
LEMMA InvCall == ASSUME Inv, NEW t \in Threads, Call(t) PROVE Inv'
<1> USE PageCapAssumption, NullAssumption
<1>0. PublishedPages' = PublishedPages
  BY PublishedSame DEF Call, shared
<1>1. TypeOK'
  BY TypeStep DEF Inv, Next, Insert
<1>2. PagesOwned'
  BY <1>0, PublishedType DEF Inv, TypeOK, PagesOwned, Owners, Call, Goto, shared, reader
<1>3. ListLinked'
  BY DEF Inv, TypeOK, ListLinked, PublishedPages, Call, Goto, shared, reader
<1>4. LocalPages'
  BY <1>0, PublishedType DEF Inv, TypeOK, LocalPages, PagesOwned, Owners, Call, Goto, shared, reader
<1>5. SlotsExact'
  BY <1>0, PublishedType DEF Inv, TypeOK, SlotsExact, PagesOwned, Owners, Fillers, SlotOf, Claimed, Call, Goto, shared, reader
<1>6. NoPageAbandoned'
  BY <1>0, PublishedType DEF Inv, TypeOK, NoPageAbandoned, PagesOwned, ListLinked, Owners, Call, Goto, shared, reader
<1>7. ReaderOnList'
  BY DEF Inv, TypeOK, ReaderOnList, ReaderAt, PagesOwned, Owners, Claimed, Call, Goto, shared, reader
<1> QED
  BY <1>1, <1>2, <1>3, <1>4, <1>5, <1>6, <1>7 DEF Inv

LEMMA InvLoad == ASSUME Inv, NEW t \in Threads, Load(t) PROVE Inv'
<1> USE PageCapAssumption, NullAssumption
<1>0. PublishedPages' = PublishedPages
  BY PublishedSame DEF Load, shared
<1>1. TypeOK'
  BY TypeStep DEF Inv, Next, Insert
<1>2. PagesOwned'
  BY <1>0, PublishedType, HeadPublished DEF Inv, TypeOK, PagesOwned, Owners, Load, Goto, Enter, shared, reader
<1>3. ListLinked'
  BY DEF Inv, TypeOK, ListLinked, PublishedPages, Load, Goto, Enter, shared, reader
<1>4. LocalPages'
  BY <1>0, PublishedType DEF Inv, TypeOK, LocalPages, PagesOwned, Owners, Load, Goto, Enter, shared, reader
<1>5. SlotsExact'
  BY <1>0, PublishedType DEF Inv, TypeOK, SlotsExact, PagesOwned, Owners, Fillers, SlotOf, Claimed, Load, Goto, Enter, shared, reader
<1>6. NoPageAbandoned'
  BY <1>0, PublishedType DEF Inv, TypeOK, NoPageAbandoned, PagesOwned, ListLinked, Owners, Load, Goto, Enter, shared, reader
<1>7. ReaderOnList'
  BY DEF Inv, TypeOK, ReaderOnList, ReaderAt, PagesOwned, Owners, Claimed, Load, Goto, Enter, shared, reader
<1> QED
  BY <1>1, <1>2, <1>3, <1>4, <1>5, <1>6, <1>7 DEF Inv

LEMMA InvClaim == ASSUME Inv, NEW t \in Threads, Claim(t) PROVE Inv'
<1> USE PageCapAssumption, NullAssumption
<1>0. PublishedPages' = PublishedPages
  BY PublishedSame DEF Claim, shared
<1>1. TypeOK'
  BY TypeStep DEF Inv, Next, Insert
<1>2. PagesOwned'
  BY <1>0, PublishedType DEF Inv, TypeOK, PagesOwned, Owners, Claim, Goto, reader
<1>3. ListLinked'
  BY DEF Inv, TypeOK, ListLinked, PublishedPages, Claim, Goto, reader
<1>4. LocalPages'
  BY <1>0, PublishedType DEF Inv, TypeOK, LocalPages, PagesOwned, Owners, Claim, Goto, reader
<1>5. SlotsExact'
  <2>1. PICK p0 \in Pages, i0 \in Nat :
          p0 = cur[t] /\ i0 = count[p0] /\ p0 \in PublishedPages
    BY PublishedType DEF Inv, TypeOK, PagesOwned, Claim, Goto
  <2>2. /\ \A p \in Pages \ {p0} : Claimed(p)' = Claimed(p)
        /\ Claimed(p0)' = Claimed(p0) \cup (IF i0 < PageCap THEN {i0} ELSE {})
        /\ i0 \notin Claimed(p0)
    BY <2>1 DEF Inv, TypeOK, Claim, Claimed, Slots
  <2>3. /\ Fillers' = Fillers \cup (IF i0 < PageCap THEN {t} ELSE {})
        /\ t \notin Fillers
        /\ SlotOf(t)' = <<p0, i0>>
    BY <2>1 DEF Inv, TypeOK, Fillers, SlotOf, Claim, Goto
  <2>4. \A u \in Fillers : SlotOf(u)' = SlotOf(u) /\ cur'[u] = cur[u] /\ idx'[u] = idx[u]
    BY <2>3 DEF Inv, TypeOK, Fillers, SlotOf, Claim, Goto
  <2>5. UNCHANGED <<pointers, filled, cur>> /\ idx'[t] = i0
    BY <2>1 DEF Inv, TypeOK, Claim
  <2>6. <<p0, i0>> \notin filled
    BY <2>1, <2>2 DEF Inv, SlotsExact
  <2>8. \A s \in filled : \E p \in PublishedPages : \E i \in Claimed(p)' : s = <<p, i>>
    BY <2>1, <2>2, PublishedType DEF Inv, SlotsExact
  <2>9. \A p \in PublishedPages : \A i \in Claimed(p)' :
          <<p, i>> \in filled \/ \E u \in Fillers' : SlotOf(u)' = <<p, i>>
    <3> TAKE p \in PublishedPages
    <3> TAKE i \in Claimed(p)'
    <3>1. CASE i \in Claimed(p)
      BY <2>3, <2>4, <3>1 DEF Inv, SlotsExact
    <3>2. CASE i \notin Claimed(p)
      <4>1. p = p0 /\ i = i0 /\ i0 < PageCap
        BY <2>1, <2>2, <3>2, PublishedType DEF Inv
      <4> QED
        BY <2>3, <4>1
    <3> QED
      BY <3>1, <3>2
  <2>10. \A u \in Fillers' : idx'[u] \in Claimed(cur[u])' /\ SlotOf(u)' \notin filled
    BY <2>1, <2>2, <2>3, <2>4, <2>5, <2>6, PublishedType DEF Inv, SlotsExact, PagesOwned, Fillers
  <2>11. \A u, v \in Fillers' : u # v => SlotOf(u)' # SlotOf(v)'
    <3>1. \A u \in Fillers : SlotOf(u) # <<p0, i0>>
      BY <2>1, <2>2 DEF Inv, SlotsExact, SlotOf
    <3> QED
      BY <2>3, <2>4, <3>1 DEF Inv, SlotsExact
  <2> QED
    BY <1>0, <2>5, <2>8, <2>9, <2>10, <2>11 DEF Inv, SlotsExact, Slots
<1>6. NoPageAbandoned'
  BY <1>0, PublishedType DEF Inv, TypeOK, NoPageAbandoned, PagesOwned, ListLinked, Owners, Claim, Goto, reader
<1>7. ReaderOnList'
  BY DEF Inv, TypeOK, ReaderOnList, ReaderAt, PagesOwned, Owners, Claimed, Claim, Goto, reader
<1> QED
  BY <1>1, <1>2, <1>3, <1>4, <1>5, <1>6, <1>7 DEF Inv

LEMMA InvStore == ASSUME Inv, NEW t \in Threads, Store(t) PROVE Inv'
<1> USE PageCapAssumption, NullAssumption
<1>0. PublishedPages' = PublishedPages
  BY PublishedSame DEF Store, shared
<1>1. TypeOK'
  BY TypeStep DEF Inv, Next, Insert
<1>2. PagesOwned'
  BY <1>0, PublishedType DEF Inv, TypeOK, PagesOwned, Owners, Store, Goto, reader
<1>3. ListLinked'
  BY DEF Inv, TypeOK, ListLinked, PublishedPages, Store, Goto, reader
<1>4. LocalPages'
  BY <1>0, PublishedType DEF Inv, TypeOK, LocalPages, PagesOwned, Owners, Store, Goto, reader
<1>5. SlotsExact'
  BY <1>0, PublishedType DEF Inv, TypeOK, SlotsExact, PagesOwned, Owners, Fillers, SlotOf, Claimed, Store, Goto, reader
<1>6. NoPageAbandoned'
  BY <1>0, PublishedType DEF Inv, TypeOK, NoPageAbandoned, PagesOwned, ListLinked, Owners, Store, Goto, reader
<1>7. ReaderOnList'
  BY DEF Inv, TypeOK, ReaderOnList, ReaderAt, PagesOwned, Owners, Claimed, Store, Goto, reader
<1> QED
  BY <1>1, <1>2, <1>3, <1>4, <1>5, <1>6, <1>7 DEF Inv

LEMMA InvMapPage == ASSUME Inv, NEW t \in Threads, MapPage(t) PROVE Inv'
<1> USE PageCapAssumption, NullAssumption
<1>0. PublishedPages' = PublishedPages
  BY PublishedSame DEF MapPage, shared
<1>1. TypeOK'
  BY TypeStep DEF Inv, Next, Insert
<1>2. PagesOwned'
  BY <1>0, PublishedType DEF Inv, TypeOK, PagesOwned, Owners, MapPage, Goto, reader
<1>3. ListLinked'
  <2>1. \A i \in DOMAIN published : next'[published[i]] = next[published[i]]
    BY PublishedHas DEF Inv, TypeOK, PagesOwned, MapPage
  <2> QED
    BY <2>1 DEF Inv, ListLinked, MapPage
<1>4. LocalPages'
  BY <1>0, PublishedType DEF Inv, TypeOK, LocalPages, PagesOwned, Owners, MapPage, Goto, reader
<1>5. SlotsExact'
  BY <1>0, PublishedType DEF Inv, TypeOK, SlotsExact, PagesOwned, Owners, Fillers, SlotOf, Claimed, MapPage, Goto, reader
<1>6. NoPageAbandoned'
  <2>1. \A i \in 1 .. Len(published) : count'[published[i]] = count[published[i]]
    BY PublishedHas DEF Inv, TypeOK, PagesOwned, MapPage
  <2> QED
    BY <2>1, PublishedHas DEF Inv, NoPageAbandoned, MapPage
<1>7. ReaderOnList'
  BY DEF Inv, TypeOK, ReaderOnList, ReaderAt, PagesOwned, Owners, Claimed, MapPage, Goto, reader
<1> QED
  BY <1>1, <1>2, <1>3, <1>4, <1>5, <1>6, <1>7 DEF Inv

LEMMA InvMapFails == ASSUME Inv, NEW t \in Threads, MapFails(t) PROVE Inv'
<1> USE PageCapAssumption, NullAssumption
<1>0. PublishedPages' = PublishedPages
  BY PublishedSame DEF MapFails, shared
<1>1. TypeOK'
  BY TypeStep DEF Inv, Next, Insert
<1>2. PagesOwned'
  BY <1>0, PublishedType DEF Inv, TypeOK, PagesOwned, Owners, MapFails, shared, reader
<1>3. ListLinked'
  BY DEF Inv, TypeOK, ListLinked, PublishedPages, MapFails, shared, reader
<1>4. LocalPages'
  BY <1>0, PublishedType DEF Inv, TypeOK, LocalPages, PagesOwned, Owners, MapFails, shared, reader
<1>5. SlotsExact'
  BY <1>0, PublishedType DEF Inv, TypeOK, SlotsExact, PagesOwned, Owners, Fillers, SlotOf, Claimed, MapFails, shared, reader
<1>6. NoPageAbandoned'
  BY <1>0, PublishedType DEF Inv, TypeOK, NoPageAbandoned, PagesOwned, ListLinked, Owners, MapFails, shared, reader
<1>7. ReaderOnList'
  BY DEF Inv, TypeOK, ReaderOnList, ReaderAt, PagesOwned, Owners, Claimed, MapFails, shared, reader
<1> QED
  BY <1>1, <1>2, <1>3, <1>4, <1>5, <1>6, <1>7 DEF Inv

LEMMA InvCasPublishes == ASSUME Inv, NEW t \in Threads, CasPublishes(t) PROVE Inv'
<1> USE PageCapAssumption, NullAssumption
<1> DEFINE n == Len(published)
<1>0. /\ fresh[t] \in Pages
      /\ Len(published') = n + 1
      /\ \A i \in 1 .. n : published'[i] = published[i]
      /\ published'[n + 1] = fresh[t]
      /\ PublishedPages' = PublishedPages \cup {fresh[t]}
  BY PublishedGrows DEF Inv
<1>a. /\ n \in Nat
      /\ DOMAIN published = 1 .. n
      /\ \A i \in 1 .. n : published[i] \in PublishedPages
      /\ \A p \in PublishedPages : \E i \in 1 .. n : p = published[i]
      /\ published = <<>> <=> n = 0
      /\ PublishedPages \subseteq Pages
  BY PublishedHas, PublishedType DEF Inv
<1> HIDE DEF n
<1>1. TypeOK'
  BY TypeStep DEF Inv, Next, Insert
<1>2. PagesOwned'
  BY <1>0, <1>a DEF Inv, TypeOK, PagesOwned, Owners, CasPublishes, Goto
<1>3. ListLinked'
  <2>1. /\ DOMAIN published' = 1 .. n + 1
        /\ published' # <<>>
    <3>1. published' \in Seq(Pages) /\ Len(published') = n + 1 /\ n + 1 # 0
      BY <1>0, <1>1, <1>a DEF TypeOK
    <3>2. \A s \in Seq(Pages) : DOMAIN s = 1 .. Len(s) /\ (Len(s) # 0 => s # <<>>)
      OBVIOUS
    <3> QED
      BY <3>1, <3>2
  <2>2. head' = published'[n + 1]
    BY <1>0, <1>a DEF CasPublishes
  <2>3. next[fresh[t]] = head /\ fresh[t] \notin PublishedPages
    BY DEF Inv, LocalPages, PagesOwned, Owners, CasPublishes, Goto
  <2>4. \A i \in DOMAIN published' :
          next'[published'[i]] = IF i = 1 THEN NULL ELSE published'[i - 1]
    <3> TAKE i \in DOMAIN published'
    <3>1. CASE i \in 1 .. n
      BY <3>1, <1>0, <1>a DEF Inv, ListLinked, CasPublishes
    <3>2. CASE i = n + 1
      BY <3>2, <2>3, <1>0, <1>a DEF Inv, ListLinked, CasPublishes
    <3> QED
      BY <2>1, <3>1, <3>2, <1>a DEF Inv
  <2>5. ASSUME NEW i \in DOMAIN published', NEW j \in DOMAIN published',
               published'[i] = published'[j]
        PROVE  i = j
    BY <2>1, <2>3, <2>5, <1>0, <1>a DEF Inv, ListLinked
  <2> QED
    BY <2>1, <2>2, <2>4, <2>5, <1>0 DEF ListLinked
<1>4. LocalPages'
  BY <1>0, <1>a DEF Inv, TypeOK, LocalPages, PagesOwned, Owners, CasPublishes, Goto
<1>5. SlotsExact'
  <2>1. Claimed(fresh[t]) = {} /\ \A i \in Slots : pointers[fresh[t]][i] = NULL
    BY DEF Inv, LocalPages, Claimed, Slots, CasPublishes, Goto
  <2>2. Fillers' = Fillers /\ UNCHANGED <<count, pointers, filled, idx>>
    BY DEF Inv, TypeOK, Fillers, CasPublishes, Goto
  <2>3. \A u \in Fillers : cur'[u] = cur[u] /\ SlotOf(u)' = SlotOf(u)
    BY <2>2 DEF Inv, TypeOK, Fillers, SlotOf, CasPublishes, Goto
  <2>4. \A p : Claimed(p)' = Claimed(p)
    BY <2>2 DEF Claimed
  <2> QED
    BY <2>1, <2>2, <2>3, <2>4, <1>0, <1>a DEF Inv, SlotsExact, Slots
<1>6. NoPageAbandoned'
  <2>1. \A i \in 1 .. n : count[published[i]] > PageCap
    <3> TAKE i \in 1 .. n
    <3>1. CASE i = n
      <4>1. cur[t] = published[i] /\ cur[t] # NULL
        BY <3>1, <1>a DEF Inv, ListLinked, CasPublishes
      <4> QED
        BY <4>1 DEF Inv, LocalPages, CasPublishes, Goto
    <3> QED
      BY <3>1, <1>a DEF Inv, NoPageAbandoned
  <2> QED
    BY <2>1, <1>0, <1>a DEF Inv, NoPageAbandoned, CasPublishes
<1>7. ReaderOnList'
  BY DEF Inv, TypeOK, ReaderOnList, ReaderAt, PagesOwned, Owners, Claimed, CasPublishes, Goto, reader
<1> QED
  BY <1>1, <1>2, <1>3, <1>4, <1>5, <1>6, <1>7 DEF Inv

LEMMA InvCasFails == ASSUME Inv, NEW t \in Threads, CasFails(t) PROVE Inv'
<1> USE PageCapAssumption, NullAssumption
<1>0. PublishedPages' = PublishedPages
  BY PublishedSame DEF CasFails, shared
<1>1. TypeOK'
  BY TypeStep DEF Inv, Next, Insert
<1>2. PagesOwned'
  BY <1>0, PublishedType DEF Inv, TypeOK, PagesOwned, Owners, CasFails, Goto, shared, reader
<1>3. ListLinked'
  BY DEF Inv, TypeOK, ListLinked, PublishedPages, CasFails, Goto, shared, reader
<1>4. LocalPages'
  BY <1>0, PublishedType, HeadPublished DEF Inv, TypeOK, LocalPages, PagesOwned, Owners, CasFails, Goto, shared, reader
<1>5. SlotsExact'
  BY <1>0, PublishedType DEF Inv, TypeOK, SlotsExact, PagesOwned, Owners, Fillers, SlotOf, Claimed, CasFails, Goto, shared, reader
<1>6. NoPageAbandoned'
  BY <1>0, PublishedType DEF Inv, TypeOK, NoPageAbandoned, PagesOwned, ListLinked, Owners, CasFails, Goto, shared, reader
<1>7. ReaderOnList'
  BY DEF Inv, TypeOK, ReaderOnList, ReaderAt, PagesOwned, Owners, Claimed, CasFails, Goto, shared, reader
<1> QED
  BY <1>1, <1>2, <1>3, <1>4, <1>5, <1>6, <1>7 DEF Inv

LEMMA InvUnmap == ASSUME Inv, NEW t \in Threads, Unmap(t) PROVE Inv'
<1> USE PageCapAssumption, NullAssumption
<1>0. PublishedPages' = PublishedPages
  BY PublishedSame DEF Unmap, shared
<1>1. TypeOK'
  BY TypeStep DEF Inv, Next, Insert
<1>2. PagesOwned'
  BY <1>0, PublishedType DEF Inv, TypeOK, PagesOwned, Owners, LocalPages, Unmap, Goto, Enter, reader
<1>3. ListLinked'
  BY DEF Inv, TypeOK, ListLinked, PublishedPages, Unmap, Goto, Enter, reader
<1>4. LocalPages'
  BY <1>0, PublishedType DEF Inv, TypeOK, LocalPages, PagesOwned, Owners, Unmap, Goto, Enter, reader
<1>5. SlotsExact'
  BY <1>0, PublishedType DEF Inv, TypeOK, SlotsExact, PagesOwned, Owners, Fillers, SlotOf, Claimed, Unmap, Goto, Enter, reader
<1>6. NoPageAbandoned'
  BY <1>0, PublishedType DEF Inv, TypeOK, NoPageAbandoned, PagesOwned, ListLinked, Owners, Unmap, Goto, Enter, reader
<1>7. ReaderOnList'
  BY DEF Inv, TypeOK, ReaderOnList, ReaderAt, PagesOwned, Owners, Claimed, Unmap, Goto, Enter, reader
<1> QED
  BY <1>1, <1>2, <1>3, <1>4, <1>5, <1>6, <1>7 DEF Inv

LEMMA InvFreeze == ASSUME Inv, Freeze PROVE Inv'
<1> USE NullAssumption
<1>0. PublishedPages' = PublishedPages
  BY PublishedSame DEF Freeze, shared
<1>1. TypeOK'
  BY TypeStep DEF Inv, Next
<1>2. PagesOwned' /\ ListLinked' /\ LocalPages' /\ NoPageAbandoned'
  BY <1>0 DEF Inv, PagesOwned, Owners, ListLinked, LocalPages, NoPageAbandoned,
              Freeze, shared
<1>3. SlotsExact'
  BY <1>0 DEF Inv, SlotsExact, Fillers, SlotOf, Claimed, Freeze, shared
<1>4. ReaderOnList'
  <2> DEFINE n == Len(published)
  <2>1. n \in Nat /\ (published = <<>> <=> n = 0)
    BY PublishedHas DEF Inv
  <2>2. emitted' = {} /\ published' = published /\ phase' = "frozen"
    BY DEF Inv, ReaderOnList, Freeze, shared
  <2>3. rcur' = IF n = 0 THEN NULL ELSE published'[n]
    BY <2>1, <2>2 DEF Inv, ListLinked, Freeze
  <2>4. ReaderAt(n)'
    BY <2>1, <2>2, <2>3 DEF ReaderAt
  <2> QED
    BY <2>1, <2>2, <2>4 DEF ReaderOnList
<1> QED
  BY <1>1, <1>2, <1>3, <1>4 DEF Inv

LEMMA InvReadPage == ASSUME Inv, ReadPage PROVE Inv'
<1> USE NullAssumption
<1>0. PublishedPages' = PublishedPages
  BY PublishedSame DEF ReadPage, shared
<1>1. TypeOK'
  BY TypeStep DEF Inv, Next
<1>2. PagesOwned' /\ ListLinked' /\ LocalPages' /\ NoPageAbandoned'
  BY <1>0 DEF Inv, PagesOwned, Owners, ListLinked, LocalPages, NoPageAbandoned,
              ReadPage, shared
<1>3. SlotsExact'
  BY <1>0 DEF Inv, SlotsExact, Fillers, SlotOf, Claimed, ReadPage, shared
<1>4. ReaderOnList'
  <2>1. /\ Len(published) \in Nat
        /\ DOMAIN published = 1 .. Len(published)
    BY PublishedHas DEF Inv
  <2>2. PICK k \in 0 .. Len(published) : ReaderAt(k)
    BY DEF Inv, ReaderOnList, ReadPage
  <2>3. k # 0 /\ rcur = published[k]
    BY <2>2 DEF ReaderAt, ReadPage
  <2>4. k - 1 \in 0 .. Len(published) /\ k \in DOMAIN published
    BY <2>1, <2>3
  <2>5. /\ published' = published /\ pointers' = pointers /\ count' = count
        /\ phase' = "frozen"
        /\ rcur' = IF k = 1 THEN NULL ELSE published[k - 1]
        /\ emitted' = emitted \cup {pointers[published[k]][i] : i \in Claimed(published[k])}
    BY <2>3, <2>4 DEF Inv, ListLinked, ReadPage, shared
  <2>6. \A j \in k .. Len(published) : j = k \/ j \in k + 1 .. Len(published)
    BY <2>1, <2>4
  <2>7. \A j \in k + 1 .. Len(published) : j \in k .. Len(published)
    BY <2>1, <2>4
  <2>8. k \in k .. Len(published) /\ (k - 1) + 1 = k /\ (k - 1 = 0 <=> k = 1)
    BY <2>1, <2>4
  <2>10. /\ \A s \in emitted' : \E j \in k .. Len(published) :
              \E i \in Claimed(published[j]) : s = pointers[published[j]][i]
         /\ \A j \in k .. Len(published) :
              \A i \in Claimed(published[j]) : pointers[published[j]][i] \in emitted'
    BY <2>2, <2>5, <2>6, <2>7, <2>8 DEF ReaderAt
  <2>11. PICK m \in 0 .. Len(published) : m = k - 1 /\ m + 1 = k
    BY <2>4, <2>8
  <2>12. rcur' = IF m = 0 THEN NULL ELSE published'[m]
    BY <2>4, <2>5, <2>11
  <2>13. ReaderAt(m)'
    BY <2>5, <2>10, <2>11, <2>12 DEF ReaderAt, Claimed
  <2> QED
    BY <2>5, <2>13 DEF ReaderOnList
<1> QED
  BY <1>1, <1>2, <1>3, <1>4 DEF Inv

LEMMA InvStutter == ASSUME Inv, UNCHANGED vars PROVE Inv'
<1>0. PublishedPages' = PublishedPages
  BY PublishedSame DEF vars, shared
<1>1. TypeOK'
  BY TypeStep DEF Inv
<1>2. PagesOwned' /\ ListLinked' /\ LocalPages' /\ NoPageAbandoned'
  BY <1>0 DEF Inv, PagesOwned, Owners, ListLinked, LocalPages, NoPageAbandoned,
              vars, shared
<1>3. SlotsExact'
  BY <1>0 DEF Inv, SlotsExact, Fillers, SlotOf, Claimed, vars, shared
<1>4. ReaderOnList'
  BY DEF Inv, ReaderOnList, ReaderAt, Claimed, vars, shared, reader
<1> QED
  BY <1>1, <1>2, <1>3, <1>4 DEF Inv

LEMMA InvInit == Init => Inv
<1> SUFFICES ASSUME Init PROVE Inv
  OBVIOUS
<1>1. TypeOK
  BY TypeInit
<1>2. PublishedPages = {} /\ Owners = {} /\ Fillers = {} /\ DOMAIN published = {}
  BY DEF Init, PublishedPages, Owners, Fillers
<1>3. PagesOwned /\ ListLinked /\ LocalPages /\ SlotsExact
  BY <1>2 DEF Init, PagesOwned, ListLinked, LocalPages, SlotsExact
<1>4. NoPageAbandoned /\ ReaderOnList
  BY <1>2 DEF Init, NoPageAbandoned, ReaderOnList
<1> QED
  BY <1>1, <1>3, <1>4 DEF Inv

LEMMA InvStep == Inv /\ [Next]_vars => Inv'
BY InvCall, InvLoad, InvClaim, InvStore, InvMapPage, InvMapFails, InvCasPublishes,
   InvCasFails, InvUnmap, InvFreeze, InvReadPage, InvStutter DEF Next, Insert

THEOREM Invariance == Spec => []Inv
BY InvInit, InvStep, PTL DEF Spec

-----------------------------------------------------------------------------
(***************************************************************************)
(* What the invariant is for.                                              *)
(***************************************************************************)
\* No page leaks, none is shared before it is published, none is used after
\* its munmap(): for any number of threads that race to extend the list.
THEOREM PagesAreOwned == Spec => []PagesOwned
BY Invariance, PTL DEF Inv

LEMMA SlotsFromInv == Inv => SlotsOwned
<1> SUFFICES ASSUME Inv PROVE SlotsOwned
  OBVIOUS
<1> DEFINE all == UNION {{<<p, i>> : i \in Claimed(p)} : p \in PublishedPages}
<1>1. \A s : s \in all <=> \E p \in PublishedPages : \E i \in Claimed(p) : s = <<p, i>>
  OBVIOUS
<1>2. \A t \in Fillers : SlotOf(t) \in all
  BY <1>1 DEF Inv, SlotsExact, SlotOf, PagesOwned, Fillers
<1>3. filled \subseteq all
  BY <1>1 DEF Inv, SlotsExact
<1>4. all \subseteq filled \cup {SlotOf(t) : t \in Fillers}
  BY <1>1 DEF Inv, SlotsExact
<1>5. all = filled \cup {SlotOf(t) : t \in Fillers}
  BY <1>2, <1>3, <1>4
<1> QED
  BY <1>5 DEF Inv, SlotsExact, SlotsOwned

\* A claimed slot is stored to or has exactly one thread about to store to it.
THEOREM SlotsAreOwned == Spec => []SlotsOwned
BY Invariance, SlotsFromInv, PTL

\* A page gets a successor only when every slot of it was claimed.
THEOREM PagesAreFilled == Spec => []NoPageAbandoned
BY Invariance, PTL DEF Inv

-----------------------------------------------------------------------------
(***************************************************************************)
(* Refinement: every step of the pages is a step of the log or leaves it   *)
(* unchanged.                                                              *)
(***************************************************************************)
LEMMA LogInit == Init => Log!Init
<1> SUFFICES ASSUME Init PROVE Log!Init
  OBVIOUS
<1>1. LoggedPending = [t \in Threads |-> Log!NoCall]
  BY DEF Init, LoggedPending, Log!NoCall
<1>2. LoggedSymbols = {}
  BY DEF Init, LoggedSymbols
<1>3. LoggedView = Log!NoView
  BY DEF Init, LoggedView, Log!NoView
<1> QED
  BY <1>1, <1>2, <1>3 DEF Log!Init

\* The log is made of the slots stored to, so a step that keeps those slots
\* keeps it.
LEMMA LogSame ==
  ASSUME filled' = filled, \A s \in filled : pointers'[s[1]][s[2]] = pointers[s[1]][s[2]]
  PROVE  LoggedSymbols' = LoggedSymbols
BY DEF LoggedSymbols

LEMMA LogCall == ASSUME Inv, NEW t \in Threads, Call(t) PROVE Log!Begin(t)
<1>1. PICK s \in Symbols \cup {NULL} : sym' = [sym EXCEPT ![t] = s]
  BY DEF Call
<1>2. LoggedPending[t] = Log!NoCall
  BY DEF LoggedPending, Log!NoCall, Call, Goto
<1>3. LoggedPending' = [LoggedPending EXCEPT ![t] = Log!Recording(s)]
  BY <1>1 DEF Inv, TypeOK, LoggedPending, Log!Recording, Call, Goto
<1>4. UNCHANGED <<LoggedSymbols, LoggedView>>
  BY LogSame DEF LoggedView, Call, Goto, shared, reader
<1> QED
  BY <1>2, <1>3, <1>4 DEF Log!Begin

LEMMA LogStore == ASSUME Inv, NEW t \in Threads, Store(t) PROVE Log!Record(t)
<1> USE NullAssumption
<1>1. PICK p \in Pages, i \in Slots : p = cur[t] /\ i = idx[t]
  BY PublishedType DEF Inv, TypeOK, PagesOwned, Store, Goto
<1>2. <<p, i>> \notin filled
  BY <1>1 DEF Inv, SlotsExact, Fillers, SlotOf, Store, Goto
<1>3. /\ filled' = filled \cup {<<p, i>>}
      /\ pointers' = [pointers EXCEPT ![p][i] = sym[t]]
  BY <1>1 DEF Store
<1>4. \A s \in filled : \E q \in Pages, j \in Slots : s = <<q, j>>
  BY PublishedType DEF Inv, SlotsExact, Claimed
<1>5. pointers'[p][i] = sym[t]
  BY <1>1, <1>3 DEF Inv, TypeOK
<1>6. ASSUME NEW s \in filled PROVE pointers'[s[1]][s[2]] = pointers[s[1]][s[2]]
  <2>1. PICK q \in Pages, j \in Slots : s = <<q, j>>
    BY <1>4
  <2>2. q # p \/ j # i
    BY <1>2, <2>1
  <2> QED
    BY <1>1, <1>3, <2>1, <2>2 DEF Inv, TypeOK
<1>7. LoggedSymbols' = LoggedSymbols \cup ({sym[t]} \ {NULL})
  <2> DEFINE at(s) == pointers'[s[1]][s[2]]
  <2>1. at(<<p, i>>) = sym[t]
    BY <1>5
  <2>2. {at(s) : s \in filled'} = {at(s) : s \in filled} \cup {sym[t]}
    BY <1>3, <2>1
  <2>3. {at(s) : s \in filled} = {pointers[s[1]][s[2]] : s \in filled}
    BY <1>6
  <2> QED
    BY <2>2, <2>3 DEF LoggedSymbols
<1>8. LoggedPending[t] = Log!Recording(sym[t])
  BY DEF LoggedPending, Log!Recording, Store, Goto
<1>9. LoggedPending[t] # Log!NoCall /\ LoggedPending[t].sym = sym[t]
  BY <1>8 DEF Log!Recording, Log!NoCall
<1>10. LoggedPending' = [LoggedPending EXCEPT ![t] = Log!NoCall]
  BY DEF Inv, TypeOK, LoggedPending, Log!NoCall, Store, Goto
<1>11. LoggedView = Log!NoView /\ LoggedView' = LoggedView
  BY DEF LoggedView, Log!NoView, Store, Goto, reader
<1> QED
  BY <1>7, <1>9, <1>10, <1>11 DEF Log!Record

\* The other steps of an insertion do not show in the log.
LEMMA LogQuiet ==
  ASSUME Inv, NEW t \in Threads,
         Load(t) \/ Claim(t) \/ MapPage(t) \/ MapFails(t)
           \/ CasPublishes(t) \/ CasFails(t) \/ Unmap(t)
  PROVE  UNCHANGED Log!vars
<1>1. LoggedPending' = LoggedPending
  BY DEF Inv, TypeOK, LoggedPending, Goto, Enter, shared,
         Load, Claim, MapPage, MapFails, CasPublishes, CasFails, Unmap
<1>2. filled' = filled
  BY DEF shared, Load, Claim, MapPage, MapFails, CasPublishes, CasFails, Unmap
<1>3. \A s \in filled : pointers'[s[1]] = pointers[s[1]]
  <2>1. ASSUME NEW s \in filled PROVE s[1] \in mapped
    BY DEF Inv, SlotsExact, PagesOwned
  <2> QED
    BY <2>1 DEF Inv, TypeOK, shared,
         Load, Claim, MapPage, MapFails, CasPublishes, CasFails, Unmap
<1>4. LoggedView' = LoggedView
  BY DEF LoggedView, Goto, reader,
         Load, Claim, MapPage, MapFails, CasPublishes, CasFails, Unmap
<1> QED
  BY <1>1, <1>2, <1>3, <1>4, LogSame DEF Log!vars

\* When the walk is over, what was emitted is the log.
LEMMA WalkIsComplete ==
  Inv /\ phase = "frozen" /\ rcur = NULL => emitted \ {NULL} = LoggedSymbols
<1> SUFFICES ASSUME Inv, phase = "frozen", rcur = NULL
             PROVE  emitted \ {NULL} = LoggedSymbols
  OBVIOUS
<1>1. Len(published) \in Nat /\ \A i \in 1 .. Len(published) : published[i] \in PublishedPages
  BY PublishedHas DEF Inv
<1>2. PICK k \in 0 .. Len(published) : ReaderAt(k)
  BY DEF Inv, ReaderOnList
<1>3. k = 0
  BY <1>1, <1>2, NullAssumption, PublishedType DEF Inv, ReaderAt
<1>4. \A s \in emitted : \E p \in PublishedPages : \E i \in Claimed(p) : s = pointers[p][i]
  BY <1>1, <1>2, <1>3 DEF ReaderAt
<1>5. \A p \in PublishedPages : \A i \in Claimed(p) : pointers[p][i] \in emitted
  <2> TAKE p \in PublishedPages
  <2>1. PICK j \in 1 .. Len(published) : p = published[j]
    BY PublishedHas DEF Inv
  <2> QED
    BY <1>2, <1>3, <2>1 DEF ReaderAt
<1>6. ASSUME NEW s \in emitted \ {NULL} PROVE s \in LoggedSymbols
  <2>1. PICK p \in PublishedPages : \E i \in Claimed(p) : s = pointers[p][i]
    BY <1>4, <1>6
  <2>2. PICK i \in Claimed(p) : s = pointers[p][i]
    BY <2>1
  <2>3. <<p, i>> \in filled
    BY <2>2 DEF Inv, SlotsExact, Claimed
  <2> QED
    BY <2>2, <2>3 DEF LoggedSymbols
<1>7. ASSUME NEW s \in LoggedSymbols PROVE s \in emitted \ {NULL}
  <2>1. PICK f \in filled : s = pointers[f[1]][f[2]] /\ s # NULL
    BY DEF LoggedSymbols
  <2>2. PICK p \in PublishedPages : \E i \in Claimed(p) : f = <<p, i>>
    BY DEF Inv, SlotsExact
  <2> QED
    BY <1>5, <2>1, <2>2
<1> QED
  BY <1>6, <1>7

LEMMA LogFreeze == ASSUME Inv, Freeze PROVE Log!Recover \/ UNCHANGED Log!vars
<1>1. Inv'
  BY InvFreeze
<1>2. UNCHANGED <<LoggedPending, LoggedSymbols>> /\ LoggedView = Log!NoView
  BY LogSame DEF LoggedPending, LoggedView, Log!NoView, Freeze, shared
<1>3. phase' = "frozen"
  BY DEF Freeze
<1>4. CASE rcur' = NULL
  <2>1. (Inv /\ phase = "frozen" /\ rcur = NULL => emitted \ {NULL} = LoggedSymbols)'
    BY WalkIsComplete, PTL
  <2>2. LoggedView' = Log!Recovered(LoggedSymbols')
    BY <1>1, <1>3, <1>4, <2>1 DEF LoggedView, Log!Recovered
  <2> QED
    BY <1>2, <2>2 DEF Log!Recover
<1>5. CASE rcur' # NULL
  BY <1>2, <1>3, <1>5 DEF LoggedView, Log!NoView, Log!vars
<1> QED
  BY <1>4, <1>5

LEMMA LogReadPage == ASSUME Inv, ReadPage PROVE Log!Recover \/ UNCHANGED Log!vars
<1>1. Inv'
  BY InvReadPage
<1>2. UNCHANGED <<LoggedPending, LoggedSymbols>> /\ LoggedView = Log!NoView
  BY LogSame DEF LoggedPending, LoggedView, Log!NoView, ReadPage, shared
<1>3. phase' = "frozen"
  BY DEF ReadPage
<1>4. CASE rcur' = NULL
  <2>1. (Inv /\ phase = "frozen" /\ rcur = NULL => emitted \ {NULL} = LoggedSymbols)'
    BY WalkIsComplete, PTL
  <2>2. LoggedView' = Log!Recovered(LoggedSymbols')
    BY <1>1, <1>3, <1>4, <2>1 DEF LoggedView, Log!Recovered
  <2> QED
    BY <1>2, <2>2 DEF Log!Recover
<1>5. CASE rcur' # NULL
  BY <1>2, <1>3, <1>5 DEF LoggedView, Log!NoView, Log!vars
<1> QED
  BY <1>4, <1>5

LEMMA LogStep == Inv /\ [Next]_vars => [Log!Next]_(Log!vars)
<1> SUFFICES ASSUME Inv, [Next]_vars PROVE [Log!Next]_(Log!vars)
  OBVIOUS
<1>1. CASE UNCHANGED vars
  BY <1>1, LogSame DEF vars, shared, reader, LoggedPending, LoggedView, Log!vars
<1>2. ASSUME NEW t \in Threads, Call(t) \/ Store(t) PROVE Log!Next
  BY <1>2, LogCall, LogStore DEF Log!Next
<1>3. CASE Freeze \/ ReadPage
  BY <1>3, LogFreeze, LogReadPage DEF Log!Next
<1> QED
  BY <1>1, <1>2, <1>3, LogQuiet DEF Next, Insert

\* The lock-free pages implement the log that the analyses rely on: a snapshot
\* at any moment recovers exactly the records completed before it.
THEOREM PagesImplementLog == Spec => ImplementsLog
BY LogInit, LogStep, Invariance, PTL DEF Spec, ImplementsLog, Log!Spec
=============================================================================
