-------------------------------- MODULE Tlb --------------------------------
(* Address translation: src/src/cpu/mmu.cpp, prot.cpp and INVLPG.  A linear *)
(* page is looked up in the page tables when the table of translations      *)
(* lacks the right an access needs; what has been found is used until it is *)
(* forgotten.  The guest edits its tables as it likes and is held to say so *)
(* with INVLPG or a load of CR3.  All linear pages lie under one directory  *)
(* entry; the right to execute is not modelled, since the code never        *)
(* refuses it.                                                              *)
EXTENDS Naturals, Sequences, SequencesExt

CONSTANTS Lin,        \* linear pages
          Pages,      \* values the guest gives the table entry of each
          Regions,    \* values it gives the directory entry
          Modes,      \* ways of paging it uses, of "off", "two", "pse", "three"
          Capacity    \* MAX_TLB_ENTRIES, 8192

ASSUME CapacityAssumption == Capacity \in Nat \ {0}

Frames      == {e.frame : e \in UNION {Pages[l] : l \in Lin}}
PageEntry   == [present : BOOLEAN, writable : BOOLEAN, user : BOOLEAN, global : BOOLEAN, frame : Frames,
                accessed : BOOLEAN, dirty : BOOLEAN]
RegionEntry == [present : BOOLEAN, writable : BOOLEAN, user : BOOLEAN, large : BOOLEAN, global : BOOLEAN,
                accessed : BOOLEAN, dirty : BOOLEAN]
ASSUME EntriesAssumption == Regions \subseteq RegionEntry /\ \A l \in Lin : Pages[l] \subseteq PageEntry

VARIABLES mode,    \* CR0.PG, CR4.PAE and CR4.PSE
          wp, pge, \* CR0.WP, CR4.PGE
          pde,     \* the directory entry: present, writable, user, large, accessed, dirty
          pte,     \* page table entries: present, writable, user, global, frame, accessed, dirty
          tlb,     \* m_tlb, m_tlb_tags and m_tlb_attrs: rights, frame and global of a page
          listed,  \* m_tlb_entry_indexes up to m_tlb_entry_count
          owed     \* pages edited and not yet invalidated by the guest
tables == <<pde, pte>>
vars == <<mode, wp, pge, pde, pte, tlb, listed, owed>>

Nobody == "nobody"
ASSUME NobodyAssumption == Nobody \notin Lin
Forgotten == [rights |-> {}, frame |-> "none", global |-> FALSE]

\* What an access needs, and what its success grants: a tag's four pairs of
\* bits.  A page that has only been read is looked up again when written.
Need(u, w)    == IF u THEN (IF w THEN "user write" ELSE "user read")
                 ELSE IF w THEN "system write" ELSE "system read"
Granted(u, w) == {"system read"} \cup (IF w THEN {"system write"} ELSE {})
                 \cup (IF u THEN {"user read"} ELSE {})
                 \cup (IF u /\ w THEN {"user write"} ELSE {})

----------------------------------------------------------------------------
(* The walk.                                                               *)

Large == mode \in {"pse", "three"} /\ pde.large

\* The rights one entry gives.  The supervisor writes where it likes unless
\* CR0.WP is set.
Allows(e, u, w) == e.present /\ (u => e.user) /\ (w => e.writable \/ (~ u /\ ~ wp))

\* In two levels the rights of a large page are not looked at.
Permitted(l, u, w) ==
  \/ mode = "off"
  \/ mode = "pse" /\ Large /\ pde.present
  \/ mode = "three" /\ Large /\ Allows(pde, u, w)
  \/ mode # "off" /\ ~ Large /\ Allows(pde, u, w) /\ Allows(pte[l], u, w)

Frame(l)  == IF mode = "off" THEN <<"same", l>> ELSE IF Large THEN <<"large", l>> ELSE pte[l].frame
Global(l) == mode # "off" /\ IF Large THEN pde.global ELSE pte[l].global

\* The accessed and dirty bits the walk leaves behind.
MarkedPde(w)    == IF mode = "off" THEN pde
                   ELSE [pde EXCEPT !.accessed = TRUE, !.dirty = @ \/ (Large /\ w)]
MarkedPte(l, w) == IF mode = "off" \/ Large THEN pte
                   ELSE [pte EXCEPT ![l].accessed = TRUE, ![l].dirty = @ \/ w]

----------------------------------------------------------------------------
(* The table of translations.                                              *)

Named == Range(listed) \ {Nobody}

\* cpu_mmu_tlb_flush: the pages that are listed are forgotten.
Emptied == [l \in Lin |-> IF l \in Named THEN Forgotten ELSE tlb[l]]
Flush   == tlb' = Emptied /\ listed' = <<>>

\* Mutant: the list is started again although global pages stay.
FlushNonglobalRestart ==
  /\ tlb' = [l \in Lin |-> IF l \in Named /\ ~ tlb[l].global THEN Forgotten ELSE tlb[l]]
  /\ listed' = <<>>

\* cpu_mmu_tlb_flush_nonglobal; the list keeps its length.
FlushNonglobal ==
  /\ tlb' = [l \in Lin |-> IF l \in Named /\ ~ tlb[l].global THEN Forgotten ELSE tlb[l]]
  /\ listed' = [i \in DOMAIN listed |->
                  IF listed[i] \in Lin /\ tlb[listed[i]].global THEN listed[i] ELSE Nobody]

\* cpu_mmu_tlb_invalidate: the tags go, the attributes and the list stay.
Invalidate(l) == /\ tlb' = [tlb EXCEPT ![l] = [rights |-> {}, frame |-> "none", global |-> tlb[l].global]]
                 /\ UNCHANGED listed

\* cpu_set_tlb_entry: when the list is full everything is forgotten first.
SetEntry(l, e) ==
  IF Len(listed) >= Capacity THEN tlb' = [Emptied EXCEPT ![l] = e] /\ listed' = <<l>>
  ELSE tlb' = [tlb EXCEPT ![l] = e] /\ listed' = Append(listed, l)

----------------------------------------------------------------------------
Init == /\ mode = "off" /\ wp = FALSE /\ pge = FALSE
        /\ pde \in Regions /\ pte \in {t \in [Lin -> UNION {Pages[l] : l \in Lin}] : \A l \in Lin : t[l] \in Pages[l]}
        /\ tlb = [l \in Lin |-> Forgotten] /\ listed = <<>> /\ owed = {}

\* cpu_mmu_translate for an access that lacks its right; one that has it
\* changes nothing here, and one that is refused is a page fault.
Translate(l, u, w) ==
  /\ Need(u, w) \notin tlb[l].rights
  /\ Permitted(l, u, w)
  /\ SetEntry(l, [rights |-> IF mode = "off" THEN Granted(TRUE, TRUE) ELSE Granted(u, w),
                  frame |-> Frame(l), global |-> Global(l)])
  /\ pde' = MarkedPde(w) /\ pte' = MarkedPte(l, w)
  /\ owed' = owed \ {l}
  /\ UNCHANGED <<mode, wp, pge>>

\* The guest writes to its tables.
EditPage(l) == /\ \E e \in Pages[l] : pte' = [pte EXCEPT ![l] = e]
               /\ owed' = owed \cup {l}
               /\ UNCHANGED <<mode, wp, pge, pde, tlb, listed>>
EditRegion == /\ \E e \in Regions : pde' = e
              /\ owed' = Lin
              /\ UNCHANGED <<mode, wp, pge, pte, tlb, listed>>

Invlpg(l) == /\ Invalidate(l) /\ owed' = owed \ {l}
             /\ UNCHANGED <<mode, wp, pge, tables>>

\* cpu_prot_set_cr.  What was global when it was looked up stays when CR3 is
\* loaded, if the guest has enabled that.
LoadCr3 == /\ IF pge THEN FlushNonglobal ELSE Flush
           /\ owed' = IF pge THEN {l \in owed : tlb[l].global} ELSE {}
           /\ UNCHANGED <<mode, wp, pge, tables>>

\* Mutant: a change of CR0.WP forgets nothing.
LoadCr0Kept == wp' = ~ wp /\ UNCHANGED <<mode, pge, tables, tlb, listed, owed>>

LoadCr0 == wp' = ~ wp /\ Flush /\ owed' = {} /\ UNCHANGED <<mode, pge, tables>>
LoadCr4 == pge' = ~ pge /\ Flush /\ owed' = {} /\ UNCHANGED <<mode, wp, tables>>
SetMode == /\ \E m \in Modes \ {mode} : mode' = m
           /\ Flush /\ owed' = {} /\ UNCHANGED <<wp, pge, tables>>

Next == \/ \E l \in Lin : \/ \E u, w \in BOOLEAN : Translate(l, u, w)
                          \/ EditPage(l)
                          \/ Invlpg(l)
        \/ EditRegion \/ LoadCr3 \/ LoadCr0 \/ LoadCr4 \/ SetMode
Spec == Init /\ [][Next]_vars

----------------------------------------------------------------------------
(* Properties.                                                             *)

\* A page that can be reached without a walk is on the list, also after pages
\* have been invalidated, looked up again or spared as global ones: the next
\* flush forgets it.
EveryEntryListed == \A l \in Lin : tlb[l].rights # {} => l \in Named

\* A translation that is used gives no more than the tables do, and the same
\* frame, unless the guest has edited them and not said so.  Not so on large
\* pages of two-level paging, which are given to whoever asks.
GivesNoMore(l) ==
  /\ tlb[l].frame = Frame(l)
  /\ ~ (mode = "pse" /\ Large) =>
       \A u, w \in BOOLEAN : Need(u, w) \in tlb[l].rights => Permitted(l, u, w)

\* A page that can be read or written without a walk has been marked accessed
\* or dirty: the guest may clean and evict pages by these bits.
UseIsMarked(l) ==
  LET e == IF Large THEN pde ELSE pte[l]
  IN e.accessed /\ ({"system write", "user write"} \cap tlb[l].rights # {} => e.dirty)

\* What is found in the table agrees with the guest's page tables, however
\* they and the control registers have changed since it was looked up.
RightsFollowTables ==
  \A l \in Lin \ owed : tlb[l].rights # {} => GivesNoMore(l) /\ (mode # "off" => UseIsMarked(l))
=============================================================================
