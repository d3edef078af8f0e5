----------------------------- MODULE TlbProofs -----------------------------
(* For every set of pages, every table entry and every length of the list:  *)
(* a page that can be reached without a walk is on the list, and the rights *)
(* it is reached with are the tables'.                                      *)
EXTENDS Tlb, TLAPS

\* What the steps need to know of the list and of the table.
Shape == /\ listed \in Seq(Lin \cup {Nobody}) /\ Len(listed) <= Capacity
         /\ tlb = [l \in Lin |-> tlb[l]]
Inv   == Shape /\ EveryEntryListed

\* The values of a sequence, by their places.
LEMMA InRange ==
  ASSUME NEW S, NEW s \in Seq(S), NEW x
  PROVE  x \in Range(s) <=> \E i \in 1..Len(s) : s[i] = x
  BY DEF Range

\* The list begins empty and the table with nothing in it.
LEMMA InitInv == Init => Inv
  <1> SUFFICES ASSUME Init PROVE Inv
      OBVIOUS
  <1>1. \A l \in Lin : tlb[l].rights = {}
      BY DEF Init, Forgotten
  <1>2. Shape
      BY CapacityAssumption DEF Shape, Init
  <1> QED BY <1>1, <1>2 DEF Inv, EveryEntryListed

\* A flush forgets what is listed, and that is everything there is.
LEMMA FlushInv == ASSUME Inv, Flush PROVE Inv'
  <1>1. tlb' = [l \in Lin |-> IF l \in Named THEN Forgotten ELSE tlb[l]] /\ listed' = <<>>
      BY DEF Flush, Emptied
  <1>2. \A l \in Lin : tlb'[l].rights = {}
      BY <1>1 DEF Inv, EveryEntryListed, Forgotten
  <1>3. Shape'
      BY <1>1, CapacityAssumption DEF Shape
  <1> QED BY <1>2, <1>3 DEF Inv, EveryEntryListed

\* A partial flush keeps the places of what it keeps.
LEMMA FlushNonglobalInv == ASSUME Inv, FlushNonglobal PROVE Inv'
  <1>1. /\ tlb' = [l \in Lin |-> IF l \in Named /\ ~ tlb[l].global THEN Forgotten ELSE tlb[l]]
        /\ listed' = [i \in DOMAIN listed |->
                        IF listed[i] \in Lin /\ tlb[listed[i]].global THEN listed[i] ELSE Nobody]
      BY DEF FlushNonglobal
  <1>2. listed \in Seq(Lin \cup {Nobody}) /\ DOMAIN listed = 1..Len(listed) /\ Len(listed) \in Nat
      BY DEF Inv, Shape
  <1>3. /\ listed' \in Seq(Lin \cup {Nobody}) /\ Len(listed') = Len(listed)
      BY <1>1, <1>2
  <1>4. Shape'
      BY <1>1, <1>3 DEF Inv, Shape
  <1>5. ASSUME NEW l \in Lin, tlb'[l].rights # {} PROVE l \in Named'
    <2>1. l \in Named /\ tlb[l].global /\ l # Nobody
        BY <1>1, <1>5, NobodyAssumption DEF Inv, EveryEntryListed, Forgotten, Named
    <2>2. PICK i \in 1..Len(listed) : listed[i] = l
        BY <2>1, <1>2, InRange DEF Named
    <2>3. listed'[i] = l
        BY <1>1, <1>2, <2>1, <2>2
    <2> QED BY <2>1, <2>2, <2>3, <1>3 DEF Named, Range
  <1> QED BY <1>4, <1>5 DEF Inv, EveryEntryListed

\* What is forgotten alone may stay on the list.
LEMMA InvalidateInv == ASSUME Inv, NEW l \in Lin, Invalidate(l) PROVE Inv'
  <1>1. /\ tlb' = [tlb EXCEPT ![l] = [rights |-> {}, frame |-> "none", global |-> tlb[l].global]]
        /\ listed' = listed
      BY DEF Invalidate
  <1>2. \A k \in Lin : tlb'[k].rights # {} => tlb[k].rights # {}
      BY <1>1 DEF Inv, Shape
  <1> QED BY <1>1, <1>2 DEF Inv, Shape, EveryEntryListed, Named

\* A page that is looked up is put on the list, after a flush if it is full.
LEMMA SetEntryInv == ASSUME Inv, NEW l \in Lin, NEW e, SetEntry(l, e) PROVE Inv'
  <1>1. listed \in Seq(Lin \cup {Nobody}) /\ Len(listed) \in Nat /\ Len(listed) <= Capacity
      BY DEF Inv, Shape
  <1>2. CASE Len(listed) >= Capacity
    <2>1. tlb' = [Emptied EXCEPT ![l] = e] /\ listed' = <<l>>
        BY <1>2 DEF SetEntry
    <2>2. \A k \in Lin : k # l => tlb'[k].rights = {}
        BY <2>1 DEF Emptied, Inv, EveryEntryListed, Forgotten
    <2>3. l \in Named'
        BY <2>1, NobodyAssumption DEF Named, Range
    <2>4. Shape'
      <3>1. <<l>> \in Seq(Lin \cup {Nobody}) /\ Len(<<l>>) = 1
          OBVIOUS
      <3>2. tlb' = [k \in Lin |-> tlb'[k]]
          BY <2>1 DEF Emptied
      <3> QED BY <2>1, <3>1, <3>2, CapacityAssumption DEF Shape
    <2> QED BY <2>2, <2>3, <2>4 DEF Inv, EveryEntryListed
  <1>3. CASE ~ Len(listed) >= Capacity
    <2>1. tlb' = [tlb EXCEPT ![l] = e] /\ listed' = Append(listed, l)
        BY <1>3 DEF SetEntry
    <2>2. /\ listed' \in Seq(Lin \cup {Nobody}) /\ Len(listed') = Len(listed) + 1
          /\ listed'[Len(listed) + 1] = l
          /\ \A i \in 1..Len(listed) : listed'[i] = listed[i]
        BY <1>1, <2>1
    <2>3. l \in Named'
        BY <1>1, <2>2, NobodyAssumption DEF Named, Range
    <2>4. Named \subseteq Named'
        BY <1>1, <2>2 DEF Named, Range
    <2>5. Shape'
      <3>1. Len(listed') <= Capacity
          BY <1>1, <1>3, <2>2, CapacityAssumption
      <3>2. tlb' = [k \in Lin |-> tlb'[k]]
          BY <2>1 DEF Inv, Shape
      <3> QED BY <2>2, <3>1, <3>2 DEF Shape
    <2>6. \A k \in Lin : k # l => tlb'[k] = tlb[k]
        BY <2>1 DEF Inv, Shape
    <2> QED BY <2>3, <2>4, <2>5, <2>6 DEF Inv, EveryEntryListed
  <1> QED BY <1>2, <1>3

\* Every step keeps the invariant.
LEMMA NextInv == ASSUME Inv, [Next]_vars PROVE Inv'
  <1>1. ASSUME NEW l \in Lin, NEW u \in BOOLEAN, NEW w \in BOOLEAN, Translate(l, u, w) PROVE Inv'
      BY <1>1, SetEntryInv DEF Translate
  <1>2. ASSUME NEW l \in Lin, EditPage(l) PROVE Inv'
      BY <1>2 DEF EditPage, Inv, Shape, EveryEntryListed, Named
  <1>3. ASSUME NEW l \in Lin, Invlpg(l) PROVE Inv'
      BY <1>3, InvalidateInv DEF Invlpg
  <1>4. CASE EditRegion
      BY <1>4 DEF EditRegion, Inv, Shape, EveryEntryListed, Named
  <1>5. CASE LoadCr3
      BY <1>5, FlushInv, FlushNonglobalInv DEF LoadCr3
  <1>6. CASE LoadCr0 \/ LoadCr4 \/ SetMode
      BY <1>6, FlushInv DEF LoadCr0, LoadCr4, SetMode
  <1>7. CASE UNCHANGED vars
      BY <1>7 DEF vars, Inv, Shape, EveryEntryListed, Named
  <1> QED BY <1>1, <1>2, <1>3, <1>4, <1>5, <1>6, <1>7 DEF Next

\* Whatever can be reached without a walk is on the list cpu_mmu_tlb_flush
\* goes through, for any number of pages and any length of the list.
THEOREM ListedAlways == Spec => []EveryEntryListed
  <1>1. Init => Inv
      BY InitInv
  <1>2. Inv /\ [Next]_vars => Inv'
      BY NextInv
  <1>3. Inv => EveryEntryListed
      BY DEF Inv
  <1> QED BY <1>1, <1>2, <1>3, PTL DEF Spec

----------------------------------------------------------------------------
(* What is found in the table agrees with the page tables.                  *)

Tables == pde \in RegionEntry /\ pte \in [Lin -> PageEntry]

\* The entry of a page, if there is one, is right.
Right(l) == tlb[l].rights # {} => GivesNoMore(l) /\ (mode # "off" => UseIsMarked(l))

\* What may be done with a right that is granted may be done by the tables.
LEMMA GrantedIsPermitted ==
  ASSUME NEW l \in Lin, NEW u \in BOOLEAN, NEW w \in BOOLEAN, Permitted(l, u, w),
         NEW x \in BOOLEAN, NEW y \in BOOLEAN, Need(x, y) \in Granted(u, w)
  PROVE  Permitted(l, x, y)
  <1>1. (x => u) /\ (y => w)
      BY DEF Need, Granted
  <1>2. \A e : Allows(e, u, w) => Allows(e, x, y)
      BY <1>1 DEF Allows
  <1> QED BY <1>2 DEF Permitted

\* The walk marks entries and changes nothing else of them.
LEMMA MarksOnly ==
  ASSUME Tables, NEW l \in Lin, NEW w \in BOOLEAN,
         pde' = MarkedPde(w), pte' = MarkedPte(l, w), UNCHANGED <<mode, wp>>
  PROVE  /\ Tables'
         /\ \A k \in Lin : Frame(k)' = Frame(k)
         /\ \A k \in Lin : \A u, v \in BOOLEAN : Permitted(k, u, v)' <=> Permitted(k, u, v)
         /\ Large' <=> Large
         /\ pde.accessed => pde'.accessed
         /\ pde.dirty => pde'.dirty
         /\ \A k \in Lin : (pte[k].accessed => pte'[k].accessed) /\ (pte[k].dirty => pte'[k].dirty)
         /\ mode # "off" /\ Large => pde'.accessed /\ (w => pde'.dirty)
         /\ mode # "off" /\ ~Large => pte'[l].accessed /\ (w => pte'[l].dirty)
  <1>1. /\ pde' \in RegionEntry
        /\ pde'.present = pde.present /\ pde'.writable = pde.writable /\ pde'.user = pde.user
        /\ pde'.large = pde.large
        /\ pde.accessed => pde'.accessed
        /\ pde.dirty => pde'.dirty
        /\ mode # "off" /\ Large => pde'.accessed /\ (w => pde'.dirty)
      BY DEF MarkedPde, Tables, RegionEntry, Large
  <1>2. /\ pte' \in [Lin -> PageEntry]
        /\ \A k \in Lin : /\ pte'[k].present = pte[k].present /\ pte'[k].writable = pte[k].writable
                          /\ pte'[k].user = pte[k].user /\ pte'[k].frame = pte[k].frame
                          /\ pte[k].accessed => pte'[k].accessed
                          /\ pte[k].dirty => pte'[k].dirty
        /\ mode # "off" /\ ~Large => pte'[l].accessed /\ (w => pte'[l].dirty)
      BY DEF MarkedPte, Tables, PageEntry
  <1>3. Large' <=> Large
      BY <1>1 DEF Large
  <1>4. \A k \in Lin : Frame(k)' = Frame(k)
      BY <1>2, <1>3 DEF Frame
  <1>5. \A k \in Lin : \A u, v \in BOOLEAN : Permitted(k, u, v)' <=> Permitted(k, u, v)
      BY <1>1, <1>2, <1>3 DEF Permitted, Allows
  <1> QED BY <1>1, <1>2, <1>3, <1>4, <1>5 DEF Tables

\* An entry that stays is as right as it was when the tables give no less, and
\* have no fewer marks.
LEMMA StaysRight ==
  ASSUME NEW k \in Lin, Right(k), tlb'[k] = tlb[k], mode' = mode,
         Frame(k)' = Frame(k), Large' <=> Large,
         \A u, v \in BOOLEAN : Permitted(k, u, v)' <=> Permitted(k, u, v),
         Large => (pde.accessed => pde'.accessed) /\ (pde.dirty => pde'.dirty),
         ~Large => (pte[k].accessed => pte'[k].accessed) /\ (pte[k].dirty => pte'[k].dirty)
  PROVE  Right(k)'
  <1>1. GivesNoMore(k) => GivesNoMore(k)'
      BY DEF GivesNoMore
  <1>2. UseIsMarked(k) => UseIsMarked(k)'
      BY DEF UseIsMarked
  <1> QED BY <1>1, <1>2 DEF Right

\* A walk that is permitted enters what the tables give, and marks it.
LEMMA TranslateRight ==
  ASSUME Inv, Tables, RightsFollowTables,
         NEW l \in Lin, NEW u \in BOOLEAN, NEW w \in BOOLEAN, Translate(l, u, w)
  PROVE  Tables' /\ RightsFollowTables'
  <1> DEFINE e == [rights |-> IF mode = "off" THEN Granted(TRUE, TRUE) ELSE Granted(u, w),
                   frame |-> Frame(l), global |-> Global(l)]
  <1>1. /\ Permitted(l, u, w) /\ SetEntry(l, e) /\ owed' = owed \ {l}
        /\ pde' = MarkedPde(w) /\ pte' = MarkedPte(l, w) /\ UNCHANGED <<mode, wp>>
      BY DEF Translate
  <1>2. /\ Tables'
        /\ \A k \in Lin : Frame(k)' = Frame(k)
        /\ \A k \in Lin : \A x, v \in BOOLEAN : Permitted(k, x, v)' <=> Permitted(k, x, v)
        /\ Large' <=> Large
        /\ (pde.accessed => pde'.accessed) /\ (pde.dirty => pde'.dirty)
        /\ \A k \in Lin : (pte[k].accessed => pte'[k].accessed) /\ (pte[k].dirty => pte'[k].dirty)
        /\ mode # "off" /\ Large => pde'.accessed /\ (w => pde'.dirty)
        /\ mode # "off" /\ ~Large => pte'[l].accessed /\ (w => pte'[l].dirty)
      BY <1>1, MarksOnly
  <1> HIDE DEF e
  <1>3. ASSUME NEW k \in Lin \ owed', k # l PROVE Right(k)'
    <2>1. tlb'[k] = tlb[k] \/ tlb'[k].rights = {}
      <3>1. tlb' = [Emptied EXCEPT ![l] = e] \/ tlb' = [tlb EXCEPT ![l] = e]
          BY <1>1 DEF SetEntry
      <3>2. tlb'[k] = Emptied[k] \/ tlb'[k] = tlb[k]
          BY <1>3, <3>1 DEF Emptied, Inv, Shape
      <3> QED BY <3>2 DEF Emptied, Forgotten
    <2>2. CASE tlb'[k] = tlb[k]
      <3>1. Right(k)
          BY <1>1, <1>3 DEF RightsFollowTables, Right
      <3> QED BY <1>1, <1>2, <2>2, <3>1, StaysRight
    <2>3. CASE tlb'[k].rights = {}
        BY <2>3 DEF Right
    <2> QED BY <2>1, <2>2, <2>3
  <1>4. tlb'[l] = e
      BY <1>1 DEF SetEntry, Emptied, Inv, Shape
  <1>5. Right(l)'
    <2>1. /\ tlb'[l].frame = Frame(l)
          /\ tlb'[l].rights = IF mode = "off" THEN Granted(TRUE, TRUE) ELSE Granted(u, w)
        BY <1>4 DEF e
    <2>2. ASSUME NEW x \in BOOLEAN, NEW y \in BOOLEAN, Need(x, y) \in tlb'[l].rights
          PROVE  Permitted(l, x, y)
      <3>1. CASE mode = "off"
          BY <3>1 DEF Permitted
      <3>2. CASE mode # "off"
          BY <1>1, <2>1, <2>2, <3>2, GrantedIsPermitted
      <3> QED BY <3>1, <3>2
    <2>3. GivesNoMore(l)'
      <3>1. tlb'[l].frame = Frame(l)'
          BY <1>2, <2>1
      <3>2. ASSUME NEW x \in BOOLEAN, NEW y \in BOOLEAN, Need(x, y)' \in tlb'[l].rights
            PROVE  Permitted(l, x, y)'
        <4>1. Need(x, y) \in tlb'[l].rights
            BY <3>2 DEF Need
        <4> QED BY <1>2, <2>2, <4>1
      <3> QED BY <3>1, <3>2 DEF GivesNoMore
    <2>4. mode # "off" => UseIsMarked(l)'
      <3>1. mode # "off" /\ {"system write", "user write"} \cap tlb'[l].rights # {} => w
          BY <2>1 DEF Granted
      <3> QED BY <1>2, <3>1 DEF UseIsMarked
    <2> QED BY <1>1, <2>3, <2>4 DEF Right
  <1> QED BY <1>2, <1>3, <1>5 DEF RightsFollowTables, Right

\* After a flush there is nothing that could be wrong.
LEMMA FlushRight ==
  ASSUME Inv, Flush
  PROVE  \A l \in Lin : tlb'[l].rights = {}
  BY DEF Flush, Emptied, Inv, EveryEntryListed, Forgotten

\* Every step keeps what is used in agreement with the tables.
LEMMA NextRight ==
  ASSUME Inv, Tables, RightsFollowTables, [Next]_vars
  PROVE  Tables' /\ RightsFollowTables'
  <1>1. ASSUME NEW l \in Lin, NEW u \in BOOLEAN, NEW w \in BOOLEAN, Translate(l, u, w)
        PROVE  Tables' /\ RightsFollowTables'
      BY <1>1, TranslateRight
  <1>2. ASSUME NEW l \in Lin, EditPage(l) PROVE Tables' /\ RightsFollowTables'
    <2>1. PICK e \in Pages[l] : pte' = [pte EXCEPT ![l] = e]
        BY <1>2 DEF EditPage
    <2>2. owed' = owed \cup {l} /\ UNCHANGED <<mode, wp, pge, pde, tlb, listed>>
        BY <1>2 DEF EditPage
    <2>3. Tables'
        BY <2>1, <2>2, EntriesAssumption DEF Tables
    <2>4. ASSUME NEW k \in Lin \ owed' PROVE Right(k)'
      <3>1. pte'[k] = pte[k] /\ Right(k)
          BY <2>1, <2>2 DEF Tables, RightsFollowTables, Right
      <3>2. Large' <=> Large
          BY <2>2 DEF Large
      <3>3. Frame(k)' = Frame(k) /\ \A u, v \in BOOLEAN : Permitted(k, u, v)' <=> Permitted(k, u, v)
          BY <2>2, <3>1, <3>2 DEF Frame, Permitted, Allows
      <3> QED BY <2>2, <3>1, <3>2, <3>3, StaysRight
    <2> QED BY <2>3, <2>4 DEF RightsFollowTables, Right
  <1>3. ASSUME NEW l \in Lin, Invlpg(l) PROVE Tables' /\ RightsFollowTables'
    <2>1. /\ tlb' = [tlb EXCEPT ![l] = [rights |-> {}, frame |-> "none", global |-> tlb[l].global]]
          /\ owed' = owed \ {l} /\ UNCHANGED <<mode, wp, pge, pde, pte>>
        BY <1>3 DEF Invlpg, Invalidate, tables
    <2>2. tlb'[l].rights = {} /\ \A k \in Lin : k # l => tlb'[k] = tlb[k]
        BY <2>1 DEF Inv, Shape
    <2>3. Large' <=> Large
        BY <2>1 DEF Large
    <2>4. \A k \in Lin : /\ Frame(k)' = Frame(k)
                         /\ \A u, v \in BOOLEAN : Permitted(k, u, v)' <=> Permitted(k, u, v)
        BY <2>1, <2>3 DEF Frame, Permitted, Allows
    <2>5. ASSUME NEW k \in Lin \ owed' PROVE Right(k)'
      <3>1. CASE k = l
          BY <2>2, <3>1 DEF Right
      <3>2. CASE k # l
        <4>1. Right(k)
            BY <2>1, <3>2 DEF RightsFollowTables, Right
        <4> QED BY <2>1, <2>2, <2>3, <2>4, <3>2, <4>1, StaysRight
      <3> QED BY <3>1, <3>2
    <2> QED BY <2>1, <2>5 DEF RightsFollowTables, Right, Tables
  <1>4. ASSUME EditRegion PROVE Tables' /\ RightsFollowTables'
      BY <1>4, EntriesAssumption DEF EditRegion, Tables, RightsFollowTables
  <1>5. ASSUME LoadCr3 PROVE Tables' /\ RightsFollowTables'
    <2>1. UNCHANGED <<mode, wp, pge, pde, pte>>
        BY <1>5 DEF LoadCr3, tables
    <2>2. Large' <=> Large
        BY <2>1 DEF Large
    <2>3. \A k \in Lin : /\ Frame(k)' = Frame(k)
                         /\ \A u, v \in BOOLEAN : Permitted(k, u, v)' <=> Permitted(k, u, v)
        BY <2>1, <2>2 DEF Frame, Permitted, Allows
    <2>4. CASE pge
      <3>1. /\ tlb' = [l \in Lin |-> IF l \in Named /\ ~ tlb[l].global THEN Forgotten ELSE tlb[l]]
            /\ owed' = {l \in owed : tlb[l].global}
          BY <1>5, <2>4 DEF LoadCr3, FlushNonglobal
      <3>2. ASSUME NEW k \in Lin \ owed' PROVE Right(k)'
        <4>1. CASE tlb'[k].rights = {}
            BY <4>1 DEF Right
        <4>2. CASE tlb'[k].rights # {}
          <5>1. tlb'[k] = tlb[k] /\ tlb[k].rights # {} /\ k \in Named
              BY <3>1, <4>2 DEF Inv, EveryEntryListed, Forgotten
          <5>2. tlb[k].global
              BY <3>1, <4>2, <5>1 DEF Forgotten
          <5>3. Right(k)
              BY <3>1, <3>2, <5>2 DEF RightsFollowTables, Right
          <5> QED BY <2>1, <2>2, <2>3, <5>1, <5>3, StaysRight
        <4> QED BY <4>1, <4>2
      <3> QED BY <2>1, <3>2 DEF RightsFollowTables, Right, Tables
    <2>5. CASE ~pge
        BY <1>5, <2>1, <2>5, FlushRight DEF LoadCr3, RightsFollowTables, Tables
    <2> QED BY <2>4, <2>5
  <1>6. ASSUME LoadCr0 \/ LoadCr4 \/ SetMode PROVE Tables' /\ RightsFollowTables'
    <2>1. Flush /\ UNCHANGED <<pde, pte>>
        BY <1>6 DEF LoadCr0, LoadCr4, SetMode, tables
    <2> QED BY <2>1, FlushRight DEF RightsFollowTables, Tables
  <1>7. ASSUME UNCHANGED vars PROVE Tables' /\ RightsFollowTables'
    <2>1. UNCHANGED <<mode, wp, pde, pte, tlb, owed>>
        BY <1>7 DEF vars
    <2>2. Large' <=> Large
        BY <2>1 DEF Large
    <2>3. \A k \in Lin : /\ Frame(k)' = Frame(k)
                         /\ \A u, v \in BOOLEAN : Permitted(k, u, v)' <=> Permitted(k, u, v)
        BY <2>1, <2>2 DEF Frame, Permitted, Allows
    <2>4. ASSUME NEW k \in Lin \ owed' PROVE Right(k)'
      <3>1. Right(k)
          BY <2>1 DEF RightsFollowTables, Right
      <3> QED BY <2>1, <2>2, <2>3, <3>1, StaysRight
    <2> QED BY <2>1, <2>4 DEF RightsFollowTables, Right, Tables
  <1> QED BY <1>1, <1>2, <1>3, <1>4, <1>5, <1>6, <1>7 DEF Next

\* However the guest edits its tables, marks or invalidates them and loads the
\* control registers, what it may do without a walk is what the tables allow,
\* and has left its marks there; except for what the guest still has to say.
THEOREM RightsAlways == Spec => []RightsFollowTables
  <1>1. Init => Inv /\ Tables /\ RightsFollowTables
    <2> SUFFICES ASSUME Init PROVE Tables /\ RightsFollowTables
        BY InitInv
    <2>1. pte \in [Lin -> PageEntry] /\ pde \in RegionEntry
        BY EntriesAssumption DEF Init
    <2>2. \A l \in Lin : tlb[l].rights = {}
        BY DEF Init, Forgotten
    <2> QED BY <2>1, <2>2 DEF Tables, RightsFollowTables
  <1>2. Inv /\ Tables /\ RightsFollowTables /\ [Next]_vars
          => Inv' /\ Tables' /\ RightsFollowTables'
      BY NextInv, NextRight
  <1> QED BY <1>1, <1>2, PTL DEF Spec
=============================================================================
