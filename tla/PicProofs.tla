----------------------------- MODULE PicProofs -----------------------------
(***************************************************************************)
(* Proofs about the interrupt controllers of Pic, for every set of device  *)
(* lines and every repertoire of guest commands, and of the refinement of  *)
(* IrqContract in PicRefinement.                                           *)
(***************************************************************************)
EXTENDS PicRefinement, TLAPS

\* The highest line to send outranks, or is, every eligible one.
Fresh(c) == \A e \in Eligible(c) : Rank(c, c.highest) <= Rank(c, e)

\* What pic_internal_update establishes and every other step keeps for the
\* controllers outside stale: NoLostInterrupt alone is not inductive, because
\* an acknowledge leaves nothing eligible only if it took the best.
Inv == TypeOK /\ NoLostInterrupt /\ SignalsTheBest

----------------------------------------------------------------------------
(* Ranks and the top of a set of lines. *)

\* rol() maps lines to ranks in 0..7 (pic.cpp rol).
LEMMA RankType ==
  ASSUME NEW c, c.base \in Lines, NEW i \in Lines
  PROVE  Rank(c, i) \in 0..7
BY DEF Rank, Lines

\* A non-empty set of ranks has a least one.
LEMMA LeastRank ==
  ASSUME NEW T \in SUBSET (0..7), T # {}
  PROVE  \E m \in T : \A n \in T : m <= n
<1> SUFFICES ASSUME \A m \in T : \E n \in T : n < m
             PROVE  FALSE
  OBVIOUS
<1>0. 0 \notin T
  OBVIOUS
<1>1. 1 \notin T
  BY <1>0
<1>2. 2 \notin T
  BY <1>0, <1>1
<1>3. 3 \notin T
  BY <1>0, <1>1, <1>2
<1>4. 4 \notin T
  BY <1>0, <1>1, <1>2, <1>3
<1>5. 5 \notin T
  BY <1>0, <1>1, <1>2, <1>3, <1>4
<1>6. 6 \notin T
  BY <1>0, <1>1, <1>2, <1>3, <1>4, <1>5
<1>7. 7 \notin T
  BY <1>0, <1>1, <1>2, <1>3, <1>4, <1>5, <1>6
<1>8. PICK i \in T : TRUE
  OBVIOUS
<1>9. i = 0 \/ i = 1 \/ i = 2 \/ i = 3 \/ i = 4 \/ i = 5 \/ i = 6 \/ i = 7
  BY <1>8
<1>10. QED
  BY <1>0, <1>1, <1>2, <1>3, <1>4, <1>5, <1>6, <1>7, <1>8, <1>9

\* The scan over the rotated register finds the best line of a non-empty set.
LEMMA TopIsBest ==
  ASSUME NEW c, c.base \in Lines, NEW S \in SUBSET Lines, S # {}
  PROVE  Top(c, S) \in S /\ \A j \in S : Rank(c, Top(c, S)) <= Rank(c, j)
<1> DEFINE T == {Rank(c, i) : i \in S}
<1>1. T \in SUBSET (0..7) /\ T # {}
  BY RankType
<1>2. PICK m \in T : \A n \in T : m <= n
  BY <1>1, LeastRank
<1>3. \E i \in S : \A j \in S : Rank(c, i) <= Rank(c, j)
  BY <1>2
<1>4. QED
  BY <1>3 DEF Top

\* Only lines are eligible, and the registers that decide it are irr, imr,
\* isr, the special mask and the priority base.
LEMMA EligibleType ==
  ASSUME NEW c \in Controller
  PROVE  Eligible(c) \in SUBSET Lines
BY DEF Controller, Eligible

\* Two records that agree on those five registers agree on eligibility and rank.
LEMMA EligibleFrame ==
  ASSUME NEW c, NEW d, d.irr = c.irr, d.imr = c.imr, d.isr = c.isr,
         d.special = c.special, d.base = c.base
  PROVE  Eligible(d) = Eligible(c) /\ \A i : Rank(d, i) = Rank(c, i)
BY DEF Eligible, Rank

\* pic_internal_update changes only highest_priority_irq_to_send, and leaves
\* in it the best eligible line.
LEMMA RefreshIsFresh ==
  ASSUME NEW c \in Controller
  PROVE  /\ Refresh(c) \in Controller
         /\ Refresh(c).irr = c.irr /\ Refresh(c).imr = c.imr
         /\ Refresh(c).isr = c.isr /\ Refresh(c).pin = c.pin
         /\ Refresh(c).special = c.special /\ Refresh(c).base = c.base
         /\ Eligible(Refresh(c)) = Eligible(c)
         /\ Fresh(Refresh(c))
<1>1. CASE Eligible(c) = {}
  BY <1>1 DEF Refresh, Fresh
<1>2. CASE Eligible(c) # {}
  <2> DEFINE t == Top(c, Eligible(c))
  <2>1. t \in Eligible(c) /\ \A j \in Eligible(c) : Rank(c, t) <= Rank(c, j)
    BY <1>2, EligibleType, TopIsBest DEF Controller
  <2>2. t \in Lines
    BY <2>1, EligibleType
  <2>3. Refresh(c) = [c EXCEPT !.highest = t]
    BY <1>2 DEF Refresh
  <2> HIDE DEF t
  <2>4. /\ Refresh(c) \in Controller
        /\ Refresh(c).irr = c.irr /\ Refresh(c).imr = c.imr
        /\ Refresh(c).isr = c.isr /\ Refresh(c).pin = c.pin
        /\ Refresh(c).special = c.special /\ Refresh(c).base = c.base
        /\ Refresh(c).highest = t
    BY <2>2, <2>3 DEF Controller
  <2>5. Eligible(Refresh(c)) = Eligible(c) /\ \A i : Rank(Refresh(c), i) = Rank(c, i)
    BY <2>4, EligibleFrame
  <2>6. Fresh(Refresh(c))
    BY <2>1, <2>4, <2>5 DEF Fresh
  <2>7. QED
    BY <2>4, <2>5, <2>6
<1>3. QED
  BY <1>1, <1>2

----------------------------------------------------------------------------
(* Type correctness. *)

\* The two forms of pic_internal_update keep the types.
LEMMA SettleType ==
  ASSUME TypeOK, NEW m \in Controller, NEW s \in Controller, Settle(m, s)
  PROVE  /\ ctrl' \in [Ctrls -> Controller]
         /\ intr' \in BOOLEAN
         /\ ctrl'[Master] = Refresh(m)
         /\ ctrl'[Slave] = s
         /\ intr' = (intr \/ Eligible(m) # {})
<1>1. Refresh(m) \in Controller
  BY RefreshIsFresh
<1>2. QED
  BY <1>1 DEF Settle, TypeOK, Ctrls, Master, Slave

\* Raising line 2 of the master latches its request.
LEMMA PulseCascadeType ==
  ASSUME NEW m \in Controller
  PROVE  PulseCascade(m) \in Controller /\ Cascade \in PulseCascade(m).irr
<1>1. Cascade \in Lines
  BY DEF Cascade, Lines
<1>2. QED
  BY <1>1 DEF PulseCascade, Controller

\* pic_internal_update on either controller keeps the types.
LEMMA UpdateType ==
  ASSUME TypeOK, NEW c \in Ctrls, NEW r \in Controller, Update(c, r)
  PROVE  /\ ctrl' \in [Ctrls -> Controller]
         /\ intr' \in BOOLEAN
         /\ stale' \subseteq Ctrls
<1>0. ctrl[Master] \in Controller /\ ctrl[Slave] \in Controller
  BY DEF TypeOK, Ctrls, Master, Slave
<1>1. CASE UpdateMaster(r)
  BY <1>0, <1>1, SettleType DEF UpdateMaster, TypeOK
<1>2. CASE UpdateSlave(r)
  <2>1. CASE Settle(PulseCascade(ctrl[Master]), Refresh(r)) /\ stale' = {}
    BY <1>0, <2>1, SettleType, PulseCascadeType, RefreshIsFresh
  <2>2. CASE ctrl' = [ctrl EXCEPT ![Slave] = r] /\ stale' = stale \ {Slave} /\ intr' = intr
    BY <2>2 DEF TypeOK, Ctrls, Slave
  <2>3. QED
    BY <1>2, <2>1, <2>2 DEF UpdateSlave
<1>3. QED
  BY <1>1, <1>2 DEF Update

\* Which controller record each step hands to pic_internal_update.
LEMMA RecordTypes ==
  ASSUME NEW c \in Controller, NEW i \in Lines
  PROVE  /\ [c EXCEPT !.pin = @ \cup {i}, !.irr = @ \cup {i}] \in Controller
         /\ Drop(c, i) \in Controller
         /\ Accept(c) \in Controller
         /\ VectorOf(c) \in 0..255
<1>1. c.vec + 7 \in 0..255 /\ c.vec + c.highest \in 0..255
  BY DEF Controller, Lines, Offsets
<1>2. QED
  BY <1>1 DEF Controller, Drop, Accept, VectorOf

\* The records the guest's writes produce.
LEMMA ICW1Type ==
  ASSUME NEW c \in Controller, NEW b \in BOOLEAN, NEW d \in BOOLEAN
  PROVE  [c EXCEPT !.imr = {}, !.isr = {}, !.irr = {}, !.base = 7,
                   !.autoeoi = FALSE, !.rotate_on_autoeoi = FALSE,
                   !.icw = 2, !.sngl = b, !.ic4 = d] \in Controller
<1>1. 7 \in Lines /\ 2 \in 2..5
  BY DEF Lines
<1>2. QED
  BY <1>1 DEF Controller

\* The vector offset, and the word expected after it.
LEMMA ICW2Type ==
  ASSUME NEW c \in Controller, NEW off \in Offsets, NEW next \in 2..5
  PROVE  [c EXCEPT !.vec = off, !.icw = next] \in Controller
BY DEF Controller

\* The automatic end-of-interrupt bit closes the initialization.
LEMMA ICW4Type ==
  ASSUME NEW c \in Controller, NEW b \in BOOLEAN
  PROVE  [c EXCEPT !.autoeoi = b, !.icw = 5] \in Controller
<1>1. 5 \in 2..5
  OBVIOUS
<1>2. QED
  BY <1>1 DEF Controller

\* An end of interrupt, with or without rotation.
LEMMA EOIType ==
  ASSUME NEW c \in Controller, NEW l \in Lines, NEW S
  PROVE  [c EXCEPT !.isr = c.isr \ S, !.base = l] \in Controller
BY DEF Controller

\* A device's line belongs to one of the controllers (pic_raise_irq).
LEMMA LineOf ==
  ASSUME NEW l \in DevLines
  PROVE  CtrlOf(l) \in Ctrls /\ l % 8 \in Lines
BY ConstantsOK DEF CtrlOf, Ctrls, Master, Slave, Lines

\* Every step of the devices, the processor and the guest keeps the types.
LEMMA TypeStep ==
  ASSUME TypeOK, [Next]_vars
  PROVE  TypeOK'
<1>0. /\ \A c \in Ctrls : ctrl[c] \in Controller
      /\ ctrl \in [Ctrls -> Controller] /\ intr \in BOOLEAN
      /\ vector \in -1..255 /\ stale \subseteq Ctrls
  BY DEF TypeOK
<1>1. ASSUME NEW l \in DevLines, Raise(l)
      PROVE  TypeOK'
  <2> DEFINE c == CtrlOf(l)
  <2> DEFINE r == [ctrl[c] EXCEPT !.pin = @ \cup {l % 8}, !.irr = @ \cup {l % 8}]
  <2>1. c \in Ctrls /\ r \in Controller
    BY <1>0, LineOf, RecordTypes
  <2>2. Update(c, r) /\ vector' = vector
    BY <1>1 DEF Raise
  <2>3. QED
    BY <1>0, <2>1, <2>2, UpdateType DEF TypeOK
<1>2. ASSUME NEW l \in DevLines, Lower(l)
      PROVE  TypeOK'
  <2>1. CtrlOf(l) \in Ctrls /\ l % 8 \in Lines /\ Cascade \in Lines
    BY LineOf DEF Cascade, Lines
  <2>2. \A d \in Ctrls : /\ Drop(ctrl[d], Cascade) \in Controller
                         /\ Drop(ctrl[CtrlOf(l)], l % 8) \in Controller
    BY <1>0, <2>1, RecordTypes
  <2>3. ctrl' \in [Ctrls -> Controller]
    BY <1>0, <1>2, <2>2 DEF Lower
  <2>4. QED
    BY <1>0, <1>2, <2>3 DEF Lower, TypeOK
<1>3. CASE Acknowledge
  <2>0. Master \in Ctrls /\ Slave \in Ctrls /\ 0 \in Lines
    BY DEF Ctrls, Master, Slave, Lines
  <2>1. \A c \in Ctrls : Accept(ctrl[c]) \in Controller /\ VectorOf(ctrl[c]) \in 0..255
    BY <1>0, <2>0, RecordTypes
  <2>2. ctrl' \in [Ctrls -> Controller]
    BY <1>0, <1>3, <2>1 DEF Acknowledge
  <2>3. vector' \in -1..255
    BY <1>3, <2>0, <2>1 DEF Acknowledge
  <2>4. intr' \in BOOLEAN /\ stale' \subseteq Ctrls
    BY <1>0, <1>3 DEF Acknowledge
  <2>5. QED
    BY <2>2, <2>3, <2>4 DEF TypeOK
<1>4. ASSUME NEW c \in Ctrls, NEW w \in ICW1, WriteICW1(c, w)
      PROVE  TypeOK'
  <2>1. w.sngl \in BOOLEAN /\ w.ic4 \in BOOLEAN
    BY ConstantsOK
  <2>2. [ctrl[c] EXCEPT !.imr = {}, !.isr = {}, !.irr = {}, !.base = 7,
                        !.autoeoi = FALSE, !.rotate_on_autoeoi = FALSE,
                        !.icw = 2, !.sngl = w.sngl, !.ic4 = w.ic4] \in Controller
    BY <1>0, <2>1, ICW1Type
  <2>3. QED
    BY <1>0, <1>4, <2>2 DEF WriteICW1, TypeOK
<1>5. ASSUME NEW c \in Ctrls, WriteICW2(c)
      PROVE  TypeOK'
  <2> DEFINE next == IF ~ctrl[c].sngl THEN 3 ELSE IF ctrl[c].ic4 THEN 4 ELSE 5
  <2>1. next \in 2..5 /\ ICW2[c] \in Offsets
    BY ConstantsOK
  <2>2. ctrl' = [ctrl EXCEPT ![c] = [ctrl[c] EXCEPT !.vec = ICW2[c], !.icw = next]]
    BY <1>5 DEF WriteICW2
  <2> HIDE DEF next
  <2>3. [ctrl[c] EXCEPT !.vec = ICW2[c], !.icw = next] \in Controller
    BY <1>0, <2>1, ICW2Type
  <2>4. QED
    BY <1>0, <1>5, <2>2, <2>3 DEF WriteICW2, TypeOK
<1>6. ASSUME NEW c \in Ctrls, WriteICW3(c)
      PROVE  TypeOK'
  BY <1>0, <1>6 DEF WriteICW3, TypeOK, Controller
<1>7. ASSUME NEW c \in Ctrls, NEW aeoi \in ICW4, WriteICW4(c, aeoi)
      PROVE  TypeOK'
  <2>1. aeoi \in BOOLEAN
    BY ConstantsOK
  <2>2. [ctrl[c] EXCEPT !.autoeoi = aeoi, !.icw = 5] \in Controller
    BY <1>0, <2>1, ICW4Type
  <2>3. QED
    BY <1>0, <1>7, <2>2 DEF WriteICW4, TypeOK
<1>8. ASSUME NEW c \in Ctrls, NEW mask \in Masks, WriteOCW1(c, mask)
      PROVE  TypeOK'
  <2>1. [ctrl[c] EXCEPT !.imr = mask] \in Controller
    BY <1>0, ConstantsOK DEF Controller
  <2>2. QED
    BY <1>0, <1>8, <2>1, UpdateType DEF WriteOCW1, TypeOK
<1>9. ASSUME NEW c \in Ctrls, NEW w \in OCW2, EndOfInterrupt(c, w)
      PROVE  TypeOK'
  <2> DEFINE ended == IF w.specific THEN {w.l}
                      ELSE IF ctrl[c].isr = {} THEN {} ELSE {Top(ctrl[c], ctrl[c].isr)}
  <2> DEFINE lowest == IF w.rotate THEN w.l ELSE ctrl[c].base
  <2> DEFINE r == [ctrl[c] EXCEPT !.isr = @ \ ended, !.base = lowest]
  <2>1. lowest \in Lines
    BY <1>0, ConstantsOK DEF Controller
  <2>2. Update(c, r) /\ vector' = vector
    BY <1>9 DEF EndOfInterrupt
  <2> HIDE DEF ended, lowest
  <2>3. r \in Controller
    BY <1>0, <2>1, EOIType
  <2>4. QED
    BY <1>0, <2>2, <2>3, UpdateType DEF TypeOK
<1>10. ASSUME NEW c \in Ctrls, NEW w \in OCW2, SetPriority(c, w)
       PROVE  TypeOK'
  BY <1>0, <1>10, ConstantsOK DEF SetPriority, TypeOK, Controller
<1>11. ASSUME NEW c \in Ctrls, NEW w \in OCW2, SetAutoRotate(c, w)
       PROVE  TypeOK'
  BY <1>0, <1>11, ConstantsOK DEF SetAutoRotate, TypeOK, Controller
<1>12. ASSUME NEW c \in Ctrls, NEW smm \in OCW3, WriteOCW3(c, smm)
       PROVE  TypeOK'
  BY <1>0, <1>12, ConstantsOK DEF WriteOCW3, TypeOK, Controller
<1>13. CASE UNCHANGED vars
  BY <1>0, <1>13 DEF vars, TypeOK
<1>14. QED
  BY <1>1, <1>2, <1>3, <1>4, <1>5, <1>6, <1>7, <1>8, <1>9, <1>10, <1>11,
     <1>12, <1>13 DEF Next, Device, Guest

\* Power-on leaves both controllers within their types (pic_reset).
LEMMA TypeInit == Init => TypeOK
<1>1. 0 \in Offsets /\ 0 \in Lines
  BY DEF Offsets, Lines
<1>2. QED
  <2>1. ResetController \in Controller
    BY <1>1 DEF ResetController, Controller
  <2>2. Init => ctrl \in [Ctrls -> Controller]
    BY <2>1 DEF Init
  <2>3. -1 \in -1..255
    OBVIOUS
  <2>4. QED
    BY <2>2, <2>3 DEF Init, TypeOK

\* The registers of both controllers keep their ranges under every sequence
\* of edges, acknowledges and command words (pic.cpp, all handlers).
THEOREM TypeCorrect == Spec => []TypeOK
BY TypeInit, TypeStep, PTL DEF Spec

----------------------------------------------------------------------------
(* Requests and pins. *)

\* Dropping a request and its pin, or latching both, keeps irr within pin.
LEMMA RequestsInit == Init => RequestsHavePins
BY DEF Init, ResetController, RequestsHavePins

\* pic_internal_update keeps irr within pin, the cascade pulse included.
LEMMA RequestsUpdate ==
  ASSUME TypeOK, RequestsHavePins, NEW c \in Ctrls, NEW r \in Controller,
         r.irr \subseteq r.pin, Update(c, r)
  PROVE  RequestsHavePins'
<1>0. /\ ctrl[Master] \in Controller /\ ctrl[Slave] \in Controller
      /\ ctrl[Master].irr \subseteq ctrl[Master].pin
      /\ ctrl[Slave].irr \subseteq ctrl[Slave].pin
  BY DEF TypeOK, RequestsHavePins, Ctrls, Master, Slave
<1>1. SUFFICES /\ ctrl'[Master].irr \subseteq ctrl'[Master].pin
               /\ ctrl'[Slave].irr \subseteq ctrl'[Slave].pin
  BY DEF RequestsHavePins, Ctrls, Master, Slave
<1>2. CASE UpdateMaster(r)
  BY <1>0, <1>2, SettleType, RefreshIsFresh DEF UpdateMaster
<1>3. CASE UpdateSlave(r)
  <2>1. CASE Settle(PulseCascade(ctrl[Master]), Refresh(r))
    <3>1. /\ PulseCascade(ctrl[Master]) \in Controller
          /\ PulseCascade(ctrl[Master]).irr \subseteq PulseCascade(ctrl[Master]).pin
      BY <1>0, PulseCascadeType DEF PulseCascade, Controller
    <3>2. QED
      BY <2>1, <3>1, SettleType, RefreshIsFresh
  <2>2. CASE ctrl' = [ctrl EXCEPT ![Slave] = r]
    BY <1>0, <2>2 DEF TypeOK, Ctrls, Master, Slave
  <2>3. QED
    BY <1>3, <2>1, <2>2 DEF UpdateSlave
<1>4. QED
  BY <1>2, <1>3 DEF Update

\* Every step keeps irr within pin.
LEMMA RequestsStep ==
  ASSUME TypeOK, RequestsHavePins, [Next]_vars
  PROVE  RequestsHavePins'
<1>0. /\ \A c \in Ctrls : ctrl[c] \in Controller /\ ctrl[c].irr \subseteq ctrl[c].pin
      /\ ctrl \in [Ctrls -> Controller]
      /\ Master \in Ctrls /\ Slave \in Ctrls
  BY DEF TypeOK, RequestsHavePins, Ctrls, Master, Slave
<1>1. ASSUME NEW l \in DevLines, Raise(l)
      PROVE  RequestsHavePins'
  <2> DEFINE c == CtrlOf(l)
  <2> DEFINE r == [ctrl[c] EXCEPT !.pin = @ \cup {l % 8}, !.irr = @ \cup {l % 8}]
  <2>1. c \in Ctrls /\ r \in Controller
    BY <1>0, LineOf, RecordTypes
  <2>2. r.irr \subseteq r.pin
    BY <1>0, <2>1 DEF Controller
  <2>3. Update(c, r)
    BY <1>1 DEF Raise
  <2> HIDE DEF r, c
  <2>4. QED
    BY <2>1, <2>2, <2>3, RequestsUpdate
<1>2. ASSUME NEW l \in DevLines, Lower(l)
      PROVE  RequestsHavePins'
  <2>1. \A c \in Ctrls : \A j : Drop(ctrl[c], j).irr \subseteq Drop(ctrl[c], j).pin
    BY <1>0 DEF Drop, Controller
  <2>2. CtrlOf(l) \in Ctrls
    BY LineOf
  <2>3. QED
    BY <1>0, <1>2, <2>1, <2>2 DEF Lower, RequestsHavePins
<1>3. CASE Acknowledge
  <2>1. \A c \in Ctrls : Accept(ctrl[c]).irr \subseteq Accept(ctrl[c]).pin
    BY <1>0 DEF Accept, Controller
  <2>2. QED
    BY <1>0, <1>3, <2>1 DEF Acknowledge, RequestsHavePins
<1>4. ASSUME NEW c \in Ctrls, NEW w \in ICW1, WriteICW1(c, w)
      PROVE  RequestsHavePins'
  BY <1>0, <1>4 DEF WriteICW1, RequestsHavePins, Controller
<1>5. ASSUME NEW c \in Ctrls, WriteICW2(c)
      PROVE  RequestsHavePins'
  BY <1>0, <1>5 DEF WriteICW2, RequestsHavePins, Controller
<1>6. ASSUME NEW c \in Ctrls, WriteICW3(c)
      PROVE  RequestsHavePins'
  BY <1>0, <1>6 DEF WriteICW3, RequestsHavePins, Controller
<1>7. ASSUME NEW c \in Ctrls, NEW aeoi \in ICW4, WriteICW4(c, aeoi)
      PROVE  RequestsHavePins'
  BY <1>0, <1>7 DEF WriteICW4, RequestsHavePins, Controller
<1>8. ASSUME NEW c \in Ctrls, NEW mask \in Masks, WriteOCW1(c, mask)
      PROVE  RequestsHavePins'
  <2> DEFINE r == [ctrl[c] EXCEPT !.imr = mask]
  <2>1. r \in Controller /\ r.irr \subseteq r.pin
    BY <1>0, ConstantsOK DEF Controller
  <2>2. Update(c, r)
    BY <1>8 DEF WriteOCW1
  <2> HIDE DEF r
  <2>3. QED
    BY <2>1, <2>2, RequestsUpdate
<1>9. ASSUME NEW c \in Ctrls, NEW w \in OCW2, EndOfInterrupt(c, w)
      PROVE  RequestsHavePins'
  <2> DEFINE ended == IF w.specific THEN {w.l}
                      ELSE IF ctrl[c].isr = {} THEN {} ELSE {Top(ctrl[c], ctrl[c].isr)}
  <2> DEFINE lowest == IF w.rotate THEN w.l ELSE ctrl[c].base
  <2> DEFINE r == [ctrl[c] EXCEPT !.isr = @ \ ended, !.base = lowest]
  <2>1. lowest \in Lines
    BY <1>0, ConstantsOK DEF Controller
  <2>2. Update(c, r)
    BY <1>9 DEF EndOfInterrupt
  <2> HIDE DEF ended, lowest
  <2>3. r \in Controller
    BY <1>0, <2>1, EOIType
  <2>4. r.irr \subseteq r.pin
    BY <1>0 DEF Controller
  <2> HIDE DEF r
  <2>5. QED
    BY <2>2, <2>3, <2>4, RequestsUpdate
<1>10. ASSUME NEW c \in Ctrls, NEW w \in OCW2, SetPriority(c, w)
       PROVE  RequestsHavePins'
  BY <1>0, <1>10 DEF SetPriority, RequestsHavePins, Controller
<1>11. ASSUME NEW c \in Ctrls, NEW w \in OCW2, SetAutoRotate(c, w)
       PROVE  RequestsHavePins'
  BY <1>0, <1>11 DEF SetAutoRotate, RequestsHavePins, Controller
<1>12. ASSUME NEW c \in Ctrls, NEW smm \in OCW3, WriteOCW3(c, smm)
       PROVE  RequestsHavePins'
  BY <1>0, <1>12 DEF WriteOCW3, RequestsHavePins, Controller
<1>13. CASE UNCHANGED vars
  BY <1>13 DEF vars, RequestsHavePins
<1>14. QED
  BY <1>1, <1>2, <1>3, <1>4, <1>5, <1>6, <1>7, <1>8, <1>9, <1>10, <1>11,
     <1>12, <1>13 DEF Next, Device, Guest

\* A controller never holds a request for a line its device has lowered
\* (pic_internal_raise_irq, pic_internal_lower_irq).
THEOREM RequestsBacked == Spec => []RequestsHavePins
<1>1. TypeOK /\ RequestsHavePins /\ [Next]_vars => RequestsHavePins'
  BY RequestsStep
<1>2. QED
  BY <1>1, RequestsInit, TypeCorrect, PTL DEF Spec

----------------------------------------------------------------------------
(* No lost interrupt. *)

\* The invariant, controller by controller.
MasterGood ==
  Master \notin stale =>
    Fresh(ctrl[Master]) /\ (Eligible(ctrl[Master]) # {} => intr)

SlaveGood ==
  Slave \notin stale =>
    /\ Fresh(ctrl[Slave])
    /\ Eligible(ctrl[Slave]) # {} => Cascade \in ctrl[Master].irr

\* The two properties, taken apart by controller.
LEMMA InvParts == Inv <=> TypeOK /\ MasterGood /\ SlaveGood
BY DEF Inv, NoLostInterrupt, SignalsTheBest, MasterGood, SlaveGood, Fresh,
       Ctrls, Master, Slave

\* Withdrawing a request makes nothing new eligible.
LEMMA EligibleShrinks ==
  ASSUME NEW c, NEW d, d.irr \subseteq c.irr, d.imr = c.imr, d.isr = c.isr,
         d.special = c.special, d.base = c.base, d.highest = c.highest
  PROVE  /\ Eligible(d) \subseteq Eligible(c)
         /\ Fresh(c) => Fresh(d)
BY DEF Eligible, Fresh, Rank

\* Taking the best request into service leaves no other one eligible.
LEMMA AcceptSettles ==
  ASSUME NEW c \in Controller, Fresh(c), ~Unsettles(c)
  PROVE  Eligible(Accept(c)) = {}
<1>1. c.highest \in c.irr /\ ~c.autoeoi /\ ~c.special
  BY DEF Unsettles, Spurious
<1>2. /\ Accept(c).irr = c.irr \ {c.highest}
      /\ Accept(c).isr = c.isr \cup {c.highest}
      /\ Accept(c).imr = c.imr /\ Accept(c).base = c.base
      /\ Accept(c).special = c.special
  BY <1>1 DEF Accept, Spurious, Controller
<1>3. ASSUME NEW e \in Eligible(Accept(c))
      PROVE  FALSE
  <2>1. /\ e \in c.irr \ c.imr
        /\ \A s \in c.isr \cup {c.highest} : Rank(c, e) < Rank(c, s)
    BY <1>1, <1>2, <1>3 DEF Eligible, Rank
  <2>2. e \in Eligible(c)
    BY <1>1, <2>1 DEF Eligible
  <2>3. Rank(c, c.highest) <= Rank(c, e) /\ Rank(c, e) < Rank(c, c.highest)
    BY <2>1, <2>2 DEF Fresh
  <2>4. Rank(c, e) \in 0..7 /\ Rank(c, c.highest) \in 0..7
    BY <2>1, RankType DEF Controller
  <2>5. QED
    BY <2>3, <2>4
<1>4. QED
  BY <1>3

\* After pic_internal_update the signals are right again.
LEMMA UpdateKeeps ==
  ASSUME TypeOK, MasterGood, SlaveGood, NEW c \in Ctrls, NEW r \in Controller,
         Update(c, r),
         c = Master /\ Cascade \in ctrl[Master].irr => Cascade \in r.irr
  PROVE  MasterGood' /\ SlaveGood'
<1>0. ctrl[Master] \in Controller /\ ctrl[Slave] \in Controller
  BY DEF TypeOK, Ctrls, Master, Slave
<1>1. CASE c = Master /\ UpdateMaster(r)
  <2>1. /\ ctrl'[Master] = Refresh(r) /\ ctrl'[Slave] = ctrl[Slave]
        /\ intr' = (intr \/ Eligible(r) # {})
        /\ stale' = stale \ {Master}
    BY <1>0, <1>1, SettleType DEF UpdateMaster
  <2>2. /\ Fresh(Refresh(r)) /\ Eligible(Refresh(r)) = Eligible(r)
        /\ Refresh(r).irr = r.irr
    BY RefreshIsFresh
  <2>3. MasterGood'
    BY <2>1, <2>2 DEF MasterGood, Fresh
  <2>4. SlaveGood'
    BY <1>1, <2>1, <2>2 DEF SlaveGood, Fresh, Master, Slave
  <2>5. QED
    BY <2>3, <2>4
<1>2. CASE c = Slave /\ UpdateSlave(r)
  <2>1. CASE Settle(PulseCascade(ctrl[Master]), Refresh(r)) /\ stale' = {}
    <3> DEFINE p == PulseCascade(ctrl[Master])
    <3>1. p \in Controller /\ Cascade \in p.irr /\ Refresh(r) \in Controller
      BY <1>0, PulseCascadeType, RefreshIsFresh
    <3>2. /\ ctrl'[Master] = Refresh(p) /\ ctrl'[Slave] = Refresh(r)
          /\ intr' = (intr \/ Eligible(p) # {})
      BY <2>1, <3>1, SettleType
    <3> HIDE DEF p
    <3>3. /\ Fresh(Refresh(p)) /\ Eligible(Refresh(p)) = Eligible(p)
          /\ Refresh(p).irr = p.irr /\ Fresh(Refresh(r))
      BY <3>1, RefreshIsFresh
    <3>4. QED
      BY <3>1, <3>2, <3>3 DEF MasterGood, SlaveGood, Fresh
  <2>2. CASE /\ Eligible(r) = {} /\ ctrl' = [ctrl EXCEPT ![Slave] = r]
             /\ stale' = stale \ {Slave} /\ intr' = intr
    <3>1. ctrl'[Master] = ctrl[Master] /\ ctrl'[Slave] = r
      BY <2>2 DEF TypeOK, Ctrls, Master, Slave
    <3>2. QED
      BY <2>2, <3>1 DEF MasterGood, SlaveGood, Fresh, Master, Slave
  <2>3. QED
    BY <1>2, <2>1, <2>2 DEF UpdateSlave
<1>3. QED
  BY <1>1, <1>2 DEF Update

\* A write that signals nothing either changes nothing that matters or marks
\* the controller stale.
LEMMA FrameKeeps ==
  ASSUME TypeOK, MasterGood, SlaveGood, NEW c \in Ctrls, NEW r,
         ctrl' = [ctrl EXCEPT ![c] = r], intr' = intr, stale \subseteq stale',
         r.irr = ctrl[c].irr,
         \/ c \in stale'
         \/ /\ r.imr = ctrl[c].imr /\ r.isr = ctrl[c].isr
            /\ r.special = ctrl[c].special /\ r.base = ctrl[c].base
            /\ r.highest = ctrl[c].highest
  PROVE  MasterGood' /\ SlaveGood'
<1>1. c \in stale' \/ /\ Eligible(r) \subseteq Eligible(ctrl[c])
                      /\ Fresh(ctrl[c]) => Fresh(r)
  BY EligibleShrinks
<1>2. CASE c = Master
  <2>1. ctrl'[Master] = r /\ ctrl'[Slave] = ctrl[Slave]
    BY <1>2 DEF TypeOK, Ctrls, Master, Slave
  <2>2. QED
    BY <1>1, <1>2, <2>1 DEF MasterGood, SlaveGood, Fresh
<1>3. CASE c = Slave
  <2>1. ctrl'[Slave] = r /\ ctrl'[Master] = ctrl[Master]
    BY <1>3 DEF TypeOK, Ctrls, Master, Slave
  <2>2. QED
    BY <1>1, <1>3, <2>1 DEF MasterGood, SlaveGood, Fresh
<1>4. QED
  BY <1>2, <1>3 DEF Ctrls, Master, Slave

\* Every step keeps the signals right.
LEMMA SignalStep ==
  ASSUME TypeOK, MasterGood, SlaveGood, [Next]_vars
  PROVE  MasterGood' /\ SlaveGood'
<1>0. /\ \A c \in Ctrls : ctrl[c] \in Controller
      /\ ctrl \in [Ctrls -> Controller]
      /\ Master \in Ctrls /\ Slave \in Ctrls /\ Master # Slave
      /\ \A c \in Ctrls : c = Master \/ c = Slave
  BY DEF TypeOK, Ctrls, Master, Slave
<1>1. ASSUME NEW l \in DevLines, Raise(l)
      PROVE  MasterGood' /\ SlaveGood'
  <2> DEFINE c == CtrlOf(l)
  <2> DEFINE r == [ctrl[c] EXCEPT !.pin = @ \cup {l % 8}, !.irr = @ \cup {l % 8}]
  <2>1. c \in Ctrls /\ r \in Controller
    BY <1>0, LineOf, RecordTypes
  <2>2. ctrl[c].irr \subseteq r.irr
    BY <1>0, <2>1 DEF Controller
  <2>3. Update(c, r)
    BY <1>1 DEF Raise
  <2> HIDE DEF r, c
  <2>4. QED
    BY <2>1, <2>2, <2>3, UpdateKeeps
<1>2. ASSUME NEW l \in DevLines, Lower(l)
      PROVE  MasterGood' /\ SlaveGood'
  <2> DEFINE i == l % 8
  <2>0. i \in Lines /\ CtrlOf(l) \in Ctrls /\ intr' = intr /\ stale' = stale
    BY <1>2, LineOf DEF Lower
  <2>1. \A c \in Ctrls : \A j :
          /\ Eligible(Drop(ctrl[c], j)) \subseteq Eligible(ctrl[c])
          /\ Fresh(ctrl[c]) => Fresh(Drop(ctrl[c], j))
          /\ Drop(ctrl[c], j).irr = ctrl[c].irr \ {j}
    <3> SUFFICES ASSUME NEW c \in Ctrls, NEW j
                 PROVE  /\ Eligible(Drop(ctrl[c], j)) \subseteq Eligible(ctrl[c])
                        /\ Fresh(ctrl[c]) => Fresh(Drop(ctrl[c], j))
                        /\ Drop(ctrl[c], j).irr = ctrl[c].irr \ {j}
      OBVIOUS
    <3> DEFINE d == Drop(ctrl[c], j)
    <3>1. /\ d.irr = ctrl[c].irr \ {j} /\ d.imr = ctrl[c].imr /\ d.isr = ctrl[c].isr
          /\ d.special = ctrl[c].special /\ d.base = ctrl[c].base
          /\ d.highest = ctrl[c].highest
      BY <1>0 DEF Drop, Controller
    <3> HIDE DEF d
    <3>2. Eligible(d) \subseteq Eligible(ctrl[c]) /\ (Fresh(ctrl[c]) => Fresh(d))
      BY <3>1, EligibleShrinks
    <3>3. QED
      BY <3>1, <3>2 DEF d
  <2>2. CASE CtrlOf(l) = Master
    <3>1. i # Cascade
      BY <2>2, ConstantsOK DEF CtrlOf, Master, Slave, Cascade
    <3>2. ctrl'[Master] = Drop(ctrl[Master], i) /\ ctrl'[Slave] = ctrl[Slave]
      BY <1>0, <1>2, <2>2 DEF Lower
    <3>3. QED
      BY <1>0, <2>0, <2>1, <3>1, <3>2 DEF MasterGood, SlaveGood, Fresh
  <2>3. CASE CtrlOf(l) = Slave
    <3> DEFINE r == Drop(ctrl[Slave], i)
    <3>1. /\ ctrl'[Slave] = r
          /\ ctrl'[Master] = IF r.irr = {} THEN Drop(ctrl[Master], Cascade) ELSE ctrl[Master]
      BY <1>0, <1>2, <2>3 DEF Lower
    <3>2. /\ Eligible(r) \subseteq Eligible(ctrl[Slave])
          /\ Fresh(ctrl[Slave]) => Fresh(r)
      BY <1>0, <2>1
    <3> HIDE DEF r
    <3>3. r.irr = {} => Eligible(r) = {}
      BY DEF Eligible
    <3>4. QED
      BY <1>0, <2>0, <2>1, <3>1, <3>2, <3>3 DEF MasterGood, SlaveGood, Fresh
  <2>4. QED
    BY <1>0, <2>0, <2>2, <2>3
<1>3. CASE Acknowledge
  <2> DEFINE m == ctrl[Master]
  <2> DEFINE both == ~Spurious(m) /\ m.highest = Cascade
  <2>1. /\ ctrl'[Master] = Accept(m)
        /\ ctrl'[Slave] = IF both THEN Accept(ctrl[Slave]) ELSE ctrl[Slave]
        /\ stale' = stale \cup {c \in Ctrls : (c = Master \/ both) /\ Unsettles(ctrl[c])}
    BY <1>0, <1>3 DEF Acknowledge
  <2>2. MasterGood'
    <3> SUFFICES ASSUME Master \notin stale'
                 PROVE  Eligible(ctrl'[Master]) = {}
      BY DEF MasterGood, Fresh
    <3>1. ~Unsettles(m) /\ Master \notin stale
      BY <1>0, <2>1
    <3>2. QED
      BY <1>0, <2>1, <3>1, AcceptSettles DEF MasterGood
  <2>3. SlaveGood'
    <3> SUFFICES ASSUME Slave \notin stale'
                 PROVE  /\ Fresh(ctrl'[Slave])
                        /\ Eligible(ctrl'[Slave]) # {} => Cascade \in ctrl'[Master].irr
      BY DEF SlaveGood, Fresh
    <3>0. Slave \notin stale
      BY <2>1
    <3>1. CASE both
      <4>1. ~Unsettles(ctrl[Slave])
        BY <1>0, <2>1, <3>1
      <4>2. Eligible(ctrl'[Slave]) = {}
        BY <1>0, <2>1, <3>0, <3>1, <4>1, AcceptSettles DEF SlaveGood
      <4>3. QED
        BY <4>2 DEF Fresh
    <3>2. CASE ~both
      <4>1. Cascade \in m.irr => Cascade \in Accept(m).irr
        BY <1>0, <3>2 DEF Accept, Spurious, Controller
      <4>2. QED
        BY <2>1, <3>0, <3>2, <4>1 DEF SlaveGood
    <3>3. QED
      BY <3>1, <3>2
  <2>4. QED
    BY <2>2, <2>3
<1>4. ASSUME NEW c \in Ctrls, NEW w \in ICW1, WriteICW1(c, w)
      PROVE  MasterGood' /\ SlaveGood'
  <2>1. ctrl'[c].irr = {} /\ stale' = stale \cup (Ctrls \ {c})
    BY <1>0, <1>4 DEF WriteICW1, Controller
  <2>2. Eligible(ctrl'[c]) = {}
    BY <2>1 DEF Eligible
  <2>3. QED
    BY <1>0, <2>1, <2>2 DEF MasterGood, SlaveGood, Fresh
<1>5. ASSUME NEW c \in Ctrls, WriteICW2(c)
      PROVE  MasterGood' /\ SlaveGood'
  <2> DEFINE next == IF ~ctrl[c].sngl THEN 3 ELSE IF ctrl[c].ic4 THEN 4 ELSE 5
  <2> DEFINE r == [ctrl[c] EXCEPT !.vec = ICW2[c], !.icw = next]
  <2>1. ctrl' = [ctrl EXCEPT ![c] = r] /\ intr' = intr /\ stale' = stale
    BY <1>5 DEF WriteICW2
  <2>2. /\ r.irr = ctrl[c].irr /\ r.imr = ctrl[c].imr /\ r.isr = ctrl[c].isr
        /\ r.special = ctrl[c].special /\ r.base = ctrl[c].base
        /\ r.highest = ctrl[c].highest
    BY <1>0 DEF Controller
  <2> HIDE DEF r
  <2>3. QED
    BY <2>1, <2>2, FrameKeeps
<1>6. ASSUME NEW c \in Ctrls, WriteICW3(c)
      PROVE  MasterGood' /\ SlaveGood'
  <2> DEFINE r == [ctrl[c] EXCEPT !.icw = IF ctrl[c].ic4 THEN 4 ELSE 5]
  <2>1. ctrl' = [ctrl EXCEPT ![c] = r] /\ intr' = intr /\ stale' = stale
    BY <1>0, <1>6 DEF WriteICW3
  <2>2. /\ r.irr = ctrl[c].irr /\ r.imr = ctrl[c].imr /\ r.isr = ctrl[c].isr
        /\ r.special = ctrl[c].special /\ r.base = ctrl[c].base
        /\ r.highest = ctrl[c].highest
    BY <1>0 DEF Controller
  <2> HIDE DEF r
  <2>3. QED
    BY <2>1, <2>2, FrameKeeps
<1>7. ASSUME NEW c \in Ctrls, NEW aeoi \in ICW4, WriteICW4(c, aeoi)
      PROVE  MasterGood' /\ SlaveGood'
  <2> DEFINE r == [ctrl[c] EXCEPT !.autoeoi = aeoi, !.icw = 5]
  <2>1. ctrl' = [ctrl EXCEPT ![c] = r] /\ intr' = intr /\ stale' = stale
    BY <1>7 DEF WriteICW4
  <2>2. /\ r.irr = ctrl[c].irr /\ r.imr = ctrl[c].imr /\ r.isr = ctrl[c].isr
        /\ r.special = ctrl[c].special /\ r.base = ctrl[c].base
        /\ r.highest = ctrl[c].highest
    BY <1>0 DEF Controller
  <2> HIDE DEF r
  <2>3. QED
    BY <2>1, <2>2, FrameKeeps
<1>8. ASSUME NEW c \in Ctrls, NEW mask \in Masks, WriteOCW1(c, mask)
      PROVE  MasterGood' /\ SlaveGood'
  <2> DEFINE r == [ctrl[c] EXCEPT !.imr = mask]
  <2>1. r \in Controller /\ r.irr = ctrl[c].irr
    BY <1>0, ConstantsOK DEF Controller
  <2>2. Update(c, r)
    BY <1>8 DEF WriteOCW1
  <2> HIDE DEF r
  <2>3. QED
    BY <2>1, <2>2, UpdateKeeps
<1>9. ASSUME NEW c \in Ctrls, NEW w \in OCW2, EndOfInterrupt(c, w)
      PROVE  MasterGood' /\ SlaveGood'
  <2> DEFINE ended == IF w.specific THEN {w.l}
                      ELSE IF ctrl[c].isr = {} THEN {} ELSE {Top(ctrl[c], ctrl[c].isr)}
  <2> DEFINE lowest == IF w.rotate THEN w.l ELSE ctrl[c].base
  <2> DEFINE r == [ctrl[c] EXCEPT !.isr = @ \ ended, !.base = lowest]
  <2>1. lowest \in Lines
    BY <1>0, ConstantsOK DEF Controller
  <2>2. Update(c, r)
    BY <1>9 DEF EndOfInterrupt
  <2> HIDE DEF ended, lowest
  <2>3. r \in Controller
    BY <1>0, <2>1, EOIType
  <2>4. r.irr = ctrl[c].irr
    BY <1>0 DEF Controller
  <2> HIDE DEF r
  <2>5. QED
    BY <2>2, <2>3, <2>4, UpdateKeeps
<1>10. ASSUME NEW c \in Ctrls, NEW w \in OCW2, SetPriority(c, w)
       PROVE  MasterGood' /\ SlaveGood'
  <2> DEFINE r == [ctrl[c] EXCEPT !.base = w.l]
  <2>1. ctrl' = [ctrl EXCEPT ![c] = r] /\ intr' = intr /\ stale' = stale \cup {c}
    BY <1>0, <1>10 DEF SetPriority
  <2>2. r.irr = ctrl[c].irr
    BY <1>0 DEF Controller
  <2> HIDE DEF r
  <2>3. QED
    BY <2>1, <2>2, FrameKeeps
<1>11. ASSUME NEW c \in Ctrls, NEW w \in OCW2, SetAutoRotate(c, w)
       PROVE  MasterGood' /\ SlaveGood'
  <2> DEFINE r == [ctrl[c] EXCEPT !.rotate_on_autoeoi = w.rotate]
  <2>1. ctrl' = [ctrl EXCEPT ![c] = r] /\ intr' = intr /\ stale' = stale
    BY <1>0, <1>11 DEF SetAutoRotate
  <2>2. /\ r.irr = ctrl[c].irr /\ r.imr = ctrl[c].imr /\ r.isr = ctrl[c].isr
        /\ r.special = ctrl[c].special /\ r.base = ctrl[c].base
        /\ r.highest = ctrl[c].highest
    BY <1>0 DEF Controller
  <2> HIDE DEF r
  <2>3. QED
    BY <2>1, <2>2, FrameKeeps
<1>12. ASSUME NEW c \in Ctrls, NEW smm \in OCW3, WriteOCW3(c, smm)
       PROVE  MasterGood' /\ SlaveGood'
  <2> DEFINE r == [ctrl[c] EXCEPT !.special = smm]
  <2>1. /\ ctrl' = [ctrl EXCEPT ![c] = r] /\ intr' = intr
        /\ stale' = IF smm = ctrl[c].special THEN stale ELSE stale \cup {c}
    BY <1>0, <1>12 DEF WriteOCW3
  <2>2. /\ r.irr = ctrl[c].irr /\ r.imr = ctrl[c].imr /\ r.isr = ctrl[c].isr
        /\ r.special = smm /\ r.base = ctrl[c].base
        /\ r.highest = ctrl[c].highest
    BY <1>0 DEF Controller
  <2> HIDE DEF r
  <2>3. QED
    BY <2>1, <2>2, FrameKeeps
<1>13. CASE UNCHANGED vars
  BY <1>13 DEF vars, MasterGood, SlaveGood, Fresh
<1>14. QED
  BY <1>1, <1>2, <1>3, <1>4, <1>5, <1>6, <1>7, <1>8, <1>9, <1>10, <1>11,
     <1>12, <1>13 DEF Next, Device, Guest

\* Nothing is eligible at power-on: every line is masked and none requests.
LEMMA SignalInit == Init => MasterGood /\ SlaveGood
<1>1. Eligible(ResetController) = {}
  BY DEF Eligible, ResetController
<1>2. QED
  BY <1>1 DEF Init, MasterGood, SlaveGood, Fresh, Ctrls, Master, Slave

\* The invariant holds from power-on (pic_reset) and through every handler.
LEMMA InvInvariant == Spec => []Inv
<1>1. Init => Inv
  BY TypeInit, SignalInit, InvParts
<1>2. Inv /\ [Next]_vars => Inv'
  <2>1. Inv' <=> TypeOK' /\ MasterGood' /\ SlaveGood'
    BY DEF Inv, NoLostInterrupt, SignalsTheBest, MasterGood, SlaveGood, Fresh,
           Ctrls, Master, Slave
  <2>2. QED
    BY <2>1, InvParts, TypeStep, SignalStep
<1>3. QED
  BY <1>1, <1>2, PTL DEF Spec

\* No request that is unmasked and outranks everything in service goes
\* unsignalled, except where stale records that the code skipped
\* pic_internal_update (all of pic.cpp).
THEOREM NoLost == Spec => []NoLostInterrupt
<1>1. Inv => NoLostInterrupt
  BY DEF Inv
<1>2. QED
  BY <1>1, InvInvariant, PTL

\* The signalled request is the best eligible one on every settled controller
\* (pic_internal_update and the handlers that do not call it).
THEOREM BestSignalled == Spec => []SignalsTheBest
<1>1. Inv => SignalsTheBest
  BY DEF Inv
<1>2. QED
  BY <1>1, InvInvariant, PTL

----------------------------------------------------------------------------
(* Nesting, for guests that leave the priorities and the mask mode alone. *)

FixedPriorities ==
  /\ OCW3 \subseteq {FALSE}
  /\ \A w \in OCW2 : ~w.rotate

\* The line to send outranks everything in service.
Outranks(c) == \A s \in c.isr : Rank(c, c.highest) < Rank(c, s)

\* A signal, once given, stays acceptable: between the update that gave it and
\* the acknowledge nothing enters service and no priority changes.
NestInv ==
  /\ \A c \in Ctrls : ~ctrl[c].special /\ ~ctrl[c].rotate_on_autoeoi
  /\ intr => Outranks(ctrl[Master])
  /\ Cascade \in ctrl[Master].irr => Outranks(ctrl[Slave])

\* What pic_internal_update picks outranks everything in service.
LEMMA RefreshOutranks ==
  ASSUME NEW c \in Controller, ~c.special
  PROVE  /\ Eligible(c) # {} => Outranks(Refresh(c))
         /\ Outranks(c) => Outranks(Refresh(c))
         /\ Refresh(c).special = c.special
         /\ Refresh(c).rotate_on_autoeoi = c.rotate_on_autoeoi
<1>1. CASE Eligible(c) = {}
  BY <1>1 DEF Refresh
<1>2. CASE Eligible(c) # {}
  <2> DEFINE t == Top(c, Eligible(c))
  <2>1. t \in Eligible(c)
    BY <1>2, EligibleType, TopIsBest DEF Controller
  <2>2. t \in Lines
    BY <2>1, EligibleType
  <2>3. Refresh(c) = [c EXCEPT !.highest = t]
    BY <1>2 DEF Refresh
  <2> HIDE DEF t
  <2>4. /\ Refresh(c).isr = c.isr /\ Refresh(c).base = c.base
        /\ Refresh(c).highest = t
        /\ Refresh(c).special = c.special
        /\ Refresh(c).rotate_on_autoeoi = c.rotate_on_autoeoi
    BY <2>2, <2>3 DEF Controller
  <2>5. QED
    BY <2>1, <2>4 DEF Outranks, Eligible, Rank
<1>3. QED
  BY <1>1, <1>2

\* pic_internal_update signals nothing that is outranked by what is in service.
LEMMA NestUpdate ==
  ASSUME TypeOK, NestInv, NEW c \in Ctrls, NEW r \in Controller, Update(c, r),
         r.isr \subseteq ctrl[c].isr, r.base = ctrl[c].base,
         r.highest = ctrl[c].highest, r.special = ctrl[c].special,
         r.rotate_on_autoeoi = ctrl[c].rotate_on_autoeoi,
         c = Master /\ Cascade \in r.irr => Cascade \in ctrl[Master].irr
  PROVE  /\ NestInv'
         /\ \A d \in Ctrls : ctrl'[d].isr \subseteq ctrl[d].isr
<1>0. /\ ctrl[Master] \in Controller /\ ctrl[Slave] \in Controller
      /\ ~ctrl[Master].special /\ ~ctrl[Master].rotate_on_autoeoi
      /\ ~ctrl[Slave].special /\ ~ctrl[Slave].rotate_on_autoeoi
      /\ ~r.special /\ ~r.rotate_on_autoeoi
  BY DEF TypeOK, NestInv, Ctrls, Master, Slave
<1>1. Outranks(ctrl[c]) => Outranks(r)
  BY DEF Outranks, Rank
<1>2. CASE c = Master /\ UpdateMaster(r)
  <2>1. /\ ctrl'[Master] = Refresh(r) /\ ctrl'[Slave] = ctrl[Slave]
        /\ intr' = (intr \/ Eligible(r) # {})
    BY <1>0, <1>2, SettleType DEF UpdateMaster
  <2>2. Refresh(r).irr = r.irr /\ Refresh(r).isr = r.isr
    BY RefreshIsFresh
  <2>3. QED
    BY <1>0, <1>1, <1>2, <2>1, <2>2, RefreshOutranks
    DEF NestInv, Ctrls, Master, Slave
<1>3. CASE c = Slave /\ UpdateSlave(r)
  <2>1. CASE Eligible(r) # {} /\ Settle(PulseCascade(ctrl[Master]), Refresh(r))
    <3> DEFINE p == PulseCascade(ctrl[Master])
    <3>1. /\ p \in Controller /\ Refresh(r) \in Controller
          /\ p.isr = ctrl[Master].isr /\ p.base = ctrl[Master].base
          /\ p.highest = ctrl[Master].highest /\ ~p.special /\ ~p.rotate_on_autoeoi
      BY <1>0, PulseCascadeType, RefreshIsFresh DEF PulseCascade, Controller
    <3>2. /\ ctrl'[Master] = Refresh(p) /\ ctrl'[Slave] = Refresh(r)
          /\ intr' = (intr \/ Eligible(p) # {})
      BY <2>1, <3>1, SettleType
    <3> HIDE DEF p
    <3>3. Outranks(ctrl[Master]) => Outranks(p)
      BY <3>1 DEF Outranks, Rank
    <3>4. Refresh(r).isr = r.isr /\ Refresh(p).isr = p.isr
      BY <3>1, RefreshIsFresh
    <3>5. /\ ~ctrl'[Master].special /\ ~ctrl'[Master].rotate_on_autoeoi
          /\ ~ctrl'[Slave].special /\ ~ctrl'[Slave].rotate_on_autoeoi
      BY <1>0, <3>1, <3>2, RefreshOutranks
    <3>6. intr' => Outranks(ctrl'[Master])
      BY <3>1, <3>2, <3>3, RefreshOutranks DEF NestInv
    <3>7. Outranks(ctrl'[Slave])
      BY <1>0, <2>1, <3>2, RefreshOutranks
    <3>8. ctrl'[Master].isr \subseteq ctrl[Master].isr /\ ctrl'[Slave].isr \subseteq ctrl[Slave].isr
      BY <1>3, <3>1, <3>2, <3>4
    <3>9. QED
      BY <3>5, <3>6, <3>7, <3>8 DEF NestInv, Outranks, Ctrls, Master, Slave
  <2>2. CASE ctrl' = [ctrl EXCEPT ![Slave] = r] /\ intr' = intr
    <3>1. ctrl'[Master] = ctrl[Master] /\ ctrl'[Slave] = r
      BY <2>2 DEF TypeOK, Ctrls, Master, Slave
    <3>2. QED
      BY <1>0, <1>1, <1>3, <2>2, <3>1 DEF NestInv, Ctrls, Master, Slave
  <2>3. QED
    BY <1>3, <2>1, <2>2 DEF UpdateSlave
<1>4. QED
  BY <1>2, <1>3 DEF Update

\* Every step keeps the signalled lines acceptable, and takes into service only
\* what outranks the lines already there.
LEMMA NestStepLemma ==
  ASSUME FixedPriorities, TypeOK, NestInv, [Next]_vars
  PROVE  NestInv' /\ NestingStep
<1>0. /\ \A c \in Ctrls : /\ ctrl[c] \in Controller
                          /\ ~ctrl[c].special /\ ~ctrl[c].rotate_on_autoeoi
      /\ ctrl \in [Ctrls -> Controller]
      /\ Master \in Ctrls /\ Slave \in Ctrls /\ Master # Slave
      /\ \A c \in Ctrls : c = Master \/ c = Slave
  BY DEF TypeOK, NestInv, Ctrls, Master, Slave
<1>a. ASSUME \A d \in Ctrls : ctrl'[d].isr \subseteq ctrl[d].isr
      PROVE  NestingStep
  BY <1>a DEF NestingStep
\* A step that keeps irr, isr, base and highest of both controllers.
<1>b. ASSUME NEW c \in Ctrls, NEW r, ctrl' = [ctrl EXCEPT ![c] = r], intr' = intr,
             r.irr = ctrl[c].irr, r.isr = ctrl[c].isr, r.base = ctrl[c].base,
             r.highest = ctrl[c].highest, ~r.special, ~r.rotate_on_autoeoi
      PROVE  NestInv' /\ NestingStep
  <2>1. \A d \in Ctrls :
          /\ ctrl'[d].irr = ctrl[d].irr /\ ctrl'[d].isr = ctrl[d].isr
          /\ ctrl'[d].base = ctrl[d].base /\ ctrl'[d].highest = ctrl[d].highest
          /\ ~ctrl'[d].special /\ ~ctrl'[d].rotate_on_autoeoi
    BY <1>0, <1>b
  <2>2. QED
    BY <1>0, <1>a, <1>b, <2>1 DEF NestInv, Outranks, Rank
<1>1. ASSUME NEW l \in DevLines, Raise(l)
      PROVE  NestInv' /\ NestingStep
  <2> DEFINE c == CtrlOf(l)
  <2> DEFINE r == [ctrl[c] EXCEPT !.pin = @ \cup {l % 8}, !.irr = @ \cup {l % 8}]
  <2>1. c \in Ctrls /\ r \in Controller
    BY <1>0, LineOf, RecordTypes
  <2>2. /\ r.isr = ctrl[c].isr /\ r.base = ctrl[c].base /\ r.highest = ctrl[c].highest
        /\ r.special = ctrl[c].special
        /\ r.rotate_on_autoeoi = ctrl[c].rotate_on_autoeoi
        /\ r.irr = ctrl[c].irr \cup {l % 8}
    BY <1>0, <2>1 DEF Controller
  <2>3. c = Master => l % 8 # Cascade
    BY ConstantsOK DEF CtrlOf, Master, Slave, Cascade
  <2>4. Update(c, r)
    BY <1>1 DEF Raise
  <2> HIDE DEF r, c
  <2>5. QED
    BY <1>a, <2>1, <2>2, <2>3, <2>4, NestUpdate
<1>2. ASSUME NEW l \in DevLines, Lower(l)
      PROVE  NestInv' /\ NestingStep
  <2>1. \A c \in Ctrls : \A j :
          /\ Drop(ctrl[c], j).irr \subseteq ctrl[c].irr
          /\ Drop(ctrl[c], j).isr = ctrl[c].isr /\ Drop(ctrl[c], j).base = ctrl[c].base
          /\ Drop(ctrl[c], j).highest = ctrl[c].highest
          /\ ~Drop(ctrl[c], j).special /\ ~Drop(ctrl[c], j).rotate_on_autoeoi
    BY <1>0 DEF Drop, Controller
  <2>2. \A d \in Ctrls : \/ ctrl'[d] = ctrl[d]
                         \/ ctrl'[d] = Drop(ctrl[d], l % 8)
                         \/ ctrl'[d] = Drop(ctrl[d], Cascade)
    BY <1>2 DEF Lower
  <2>3. \A d \in Ctrls :
          /\ ctrl'[d].irr \subseteq ctrl[d].irr /\ ctrl'[d].isr = ctrl[d].isr
          /\ ctrl'[d].base = ctrl[d].base /\ ctrl'[d].highest = ctrl[d].highest
          /\ ~ctrl'[d].special /\ ~ctrl'[d].rotate_on_autoeoi
    BY <1>0, <2>1, <2>2
  <2>4. QED
    BY <1>0, <1>2, <1>a, <2>3 DEF Lower, NestInv, Outranks, Rank
<1>3. CASE Acknowledge
  <2> DEFINE m == ctrl[Master]
  <2> DEFINE both == ~Spurious(m) /\ m.highest = Cascade
  <2>1. /\ ctrl'[Master] = Accept(m)
        /\ ctrl'[Slave] = IF both THEN Accept(ctrl[Slave]) ELSE ctrl[Slave]
        /\ intr /\ ~intr'
    BY <1>0, <1>3 DEF Acknowledge
  <2>2. \A c \in Ctrls :
          /\ ~Accept(ctrl[c]).special /\ ~Accept(ctrl[c]).rotate_on_autoeoi
          /\ Accept(ctrl[c]).isr \subseteq ctrl[c].isr \cup {ctrl[c].highest}
          /\ Accept(ctrl[c]).irr \subseteq ctrl[c].irr
    BY <1>0 DEF Accept, Controller
  <2>3. both => Cascade \in m.irr /\ Cascade \notin Accept(m).irr
    BY <1>0 DEF Accept, Spurious, Controller
  <2>4. Outranks(m) /\ (both => Outranks(ctrl[Slave]))
    BY <2>1, <2>3 DEF NestInv
  <2>5. NestInv'
    BY <1>0, <2>1, <2>2, <2>3 DEF NestInv
  <2>6. NestingStep
    BY <1>0, <2>1, <2>2, <2>4 DEF NestingStep, Outranks
  <2>7. QED
    BY <2>5, <2>6
<1>4. ASSUME NEW c \in Ctrls, NEW w \in ICW1, WriteICW1(c, w)
      PROVE  NestInv' /\ NestingStep
  <2>1. /\ ctrl'[c].isr = {} /\ ctrl'[c].irr = {}
        /\ ~ctrl'[c].special /\ ~ctrl'[c].rotate_on_autoeoi
        /\ \A d \in Ctrls \ {c} : ctrl'[d] = ctrl[d]
        /\ ~intr'
    BY <1>0, <1>4 DEF WriteICW1, Controller
  <2>2. NestInv'
    BY <1>0, <2>1 DEF NestInv, Outranks
  <2>3. NestingStep
    BY <1>0, <1>a, <2>1
  <2>4. QED
    BY <2>2, <2>3
<1>5. ASSUME NEW c \in Ctrls, WriteICW2(c)
      PROVE  NestInv' /\ NestingStep
  <2> DEFINE next == IF ~ctrl[c].sngl THEN 3 ELSE IF ctrl[c].ic4 THEN 4 ELSE 5
  <2> DEFINE r == [ctrl[c] EXCEPT !.vec = ICW2[c], !.icw = next]
  <2>1. ctrl' = [ctrl EXCEPT ![c] = r] /\ intr' = intr
    BY <1>5 DEF WriteICW2
  <2>2. /\ r.irr = ctrl[c].irr /\ r.isr = ctrl[c].isr /\ r.base = ctrl[c].base
        /\ r.highest = ctrl[c].highest /\ ~r.special /\ ~r.rotate_on_autoeoi
    BY <1>0 DEF Controller
  <2> HIDE DEF r
  <2>3. QED
    BY <1>b, <2>1, <2>2
<1>6. ASSUME NEW c \in Ctrls, WriteICW3(c)
      PROVE  NestInv' /\ NestingStep
  <2> DEFINE r == [ctrl[c] EXCEPT !.icw = IF ctrl[c].ic4 THEN 4 ELSE 5]
  <2>1. ctrl' = [ctrl EXCEPT ![c] = r] /\ intr' = intr
    BY <1>0, <1>6 DEF WriteICW3
  <2>2. /\ r.irr = ctrl[c].irr /\ r.isr = ctrl[c].isr /\ r.base = ctrl[c].base
        /\ r.highest = ctrl[c].highest /\ ~r.special /\ ~r.rotate_on_autoeoi
    BY <1>0 DEF Controller
  <2> HIDE DEF r
  <2>3. QED
    BY <1>b, <2>1, <2>2
<1>7. ASSUME NEW c \in Ctrls, NEW aeoi \in ICW4, WriteICW4(c, aeoi)
      PROVE  NestInv' /\ NestingStep
  <2> DEFINE r == [ctrl[c] EXCEPT !.autoeoi = aeoi, !.icw = 5]
  <2>1. ctrl' = [ctrl EXCEPT ![c] = r] /\ intr' = intr
    BY <1>7 DEF WriteICW4
  <2>2. /\ r.irr = ctrl[c].irr /\ r.isr = ctrl[c].isr /\ r.base = ctrl[c].base
        /\ r.highest = ctrl[c].highest /\ ~r.special /\ ~r.rotate_on_autoeoi
    BY <1>0 DEF Controller
  <2> HIDE DEF r
  <2>3. QED
    BY <1>b, <2>1, <2>2
<1>8. ASSUME NEW c \in Ctrls, NEW mask \in Masks, WriteOCW1(c, mask)
      PROVE  NestInv' /\ NestingStep
  <2> DEFINE r == [ctrl[c] EXCEPT !.imr = mask]
  <2>1. /\ r \in Controller
        /\ r.irr = ctrl[c].irr /\ r.isr = ctrl[c].isr /\ r.base = ctrl[c].base
        /\ r.highest = ctrl[c].highest /\ r.special = ctrl[c].special
        /\ r.rotate_on_autoeoi = ctrl[c].rotate_on_autoeoi
    BY <1>0, ConstantsOK DEF Controller
  <2>2. Update(c, r)
    BY <1>8 DEF WriteOCW1
  <2> HIDE DEF r
  <2>3. QED
    BY <1>a, <2>1, <2>2, NestUpdate
<1>9. ASSUME NEW c \in Ctrls, NEW w \in OCW2, EndOfInterrupt(c, w)
      PROVE  NestInv' /\ NestingStep
  <2> DEFINE ended == IF w.specific THEN {w.l}
                      ELSE IF ctrl[c].isr = {} THEN {} ELSE {Top(ctrl[c], ctrl[c].isr)}
  <2> DEFINE r == [ctrl[c] EXCEPT !.isr = @ \ ended, !.base = ctrl[c].base]
  <2>1. ~w.rotate /\ ctrl[c].base \in Lines
    BY <1>0 DEF FixedPriorities, Controller
  <2>2. Update(c, r)
    BY <1>9, <2>1 DEF EndOfInterrupt
  <2> HIDE DEF ended
  <2>3. r \in Controller
    BY <1>0, <2>1, EOIType
  <2>4. /\ r.irr = ctrl[c].irr /\ r.isr \subseteq ctrl[c].isr /\ r.base = ctrl[c].base
        /\ r.highest = ctrl[c].highest /\ r.special = ctrl[c].special
        /\ r.rotate_on_autoeoi = ctrl[c].rotate_on_autoeoi
    BY <1>0 DEF Controller
  <2> HIDE DEF r
  <2>5. QED
    BY <1>a, <2>2, <2>3, <2>4, NestUpdate
<1>10. ASSUME NEW c \in Ctrls, NEW w \in OCW2, SetPriority(c, w)
       PROVE  NestInv' /\ NestingStep
  BY <1>10 DEF SetPriority, FixedPriorities
<1>11. ASSUME NEW c \in Ctrls, NEW w \in OCW2, SetAutoRotate(c, w)
       PROVE  NestInv' /\ NestingStep
  <2> DEFINE r == [ctrl[c] EXCEPT !.rotate_on_autoeoi = w.rotate]
  <2>0. ~w.rotate
    BY DEF FixedPriorities
  <2>1. ctrl' = [ctrl EXCEPT ![c] = r] /\ intr' = intr
    BY <1>0, <1>11 DEF SetAutoRotate
  <2>2. /\ r.irr = ctrl[c].irr /\ r.isr = ctrl[c].isr /\ r.base = ctrl[c].base
        /\ r.highest = ctrl[c].highest /\ ~r.special /\ ~r.rotate_on_autoeoi
    BY <1>0, <2>0 DEF Controller
  <2> HIDE DEF r
  <2>3. QED
    BY <1>b, <2>1, <2>2
<1>12. ASSUME NEW c \in Ctrls, NEW smm \in OCW3, WriteOCW3(c, smm)
       PROVE  NestInv' /\ NestingStep
  <2> DEFINE r == [ctrl[c] EXCEPT !.special = smm]
  <2>0. ~smm
    BY DEF FixedPriorities
  <2>1. ctrl' = [ctrl EXCEPT ![c] = r] /\ intr' = intr
    BY <1>0, <1>12 DEF WriteOCW3
  <2>2. /\ r.irr = ctrl[c].irr /\ r.isr = ctrl[c].isr /\ r.base = ctrl[c].base
        /\ r.highest = ctrl[c].highest /\ ~r.special /\ ~r.rotate_on_autoeoi
    BY <1>0, <2>0 DEF Controller
  <2> HIDE DEF r
  <2>3. QED
    BY <1>b, <2>1, <2>2
<1>13. CASE UNCHANGED vars
  BY <1>a, <1>13 DEF vars, NestInv
<1>14. QED
  BY <1>1, <1>2, <1>3, <1>4, <1>5, <1>6, <1>7, <1>8, <1>9, <1>10, <1>11,
     <1>12, <1>13 DEF Next, Device, Guest

\* At power-on nothing is in service.
LEMMA NestInit == Init => NestInv
BY DEF Init, ResetController, NestInv, Outranks, Ctrls, Master, Slave

\* With fixed priorities, a controller only ever takes into service a request
\* that outranks all it has in service, whatever masks, withdrawals, ends of
\* interrupt and re-initializations fall between signal and acknowledge
\* (pic_internal_update, pic_internal_get_interrupt).
THEOREM Nesting ==
  ASSUME FixedPriorities
  PROVE  Spec => NestingOrder
<1>1. TypeOK /\ NestInv /\ [Next]_vars => NestInv' /\ NestingStep
  BY NestStepLemma
<1>2. TypeOK /\ NestInv /\ [Next]_vars => [NestingStep]_vars
  BY <1>1
<1>3. QED
  BY <1>1, <1>2, NestInit, TypeCorrect, PTL DEF Spec, NestingOrder

----------------------------------------------------------------------------
(* Once initialized.  The guest sends no further ICW1; masks, ends of      *)
(* interrupt, rotations and special mask mode remain.                      *)

\* The lines something drives: the devices', and the slave on the master.
Wired(c) == {i \in Lines : 8 * c + i \in DevLines \/ (c = Master /\ i = Cascade)}

\* The cascade request has a slave's request behind it, and the slave's line
\* to send is one that requests, unless its device withdrew; so has INTR.
ReadyInv ==
  /\ \A c \in Ctrls : /\ ctrl[c].icw = 5
                      /\ ctrl[c].vec = ICW2[c]
                      /\ ctrl[c].irr \subseteq Wired(c)
  /\ Cascade \in ctrl[Master].irr => ctrl[Slave].irr # {}
  /\ (Cascade \in ctrl[Master].irr /\ 8 + ctrl[Slave].highest \notin Withdraws)
       => ~Spurious(ctrl[Slave])
  /\ (intr /\ Signalled \notin Withdraws) => ~Spurious(ctrl[Master])

\* A device's line is the eight of its controller and its own number there.
LEMMA LineIs ==
  ASSUME NEW l \in DevLines
  PROVE  /\ CtrlOf(l) \in Ctrls /\ l % 8 \in Wired(CtrlOf(l))
         /\ l = 8 * CtrlOf(l) + (l % 8)
         /\ ~(CtrlOf(l) = Master /\ l % 8 = Cascade)
<1>1. l \in 0..15 /\ l # Cascade
  BY ConstantsOK
<1>2. CASE l > 7
  BY <1>1, <1>2 DEF CtrlOf, Ctrls, Master, Slave, Wired, Lines
<1>3. CASE ~(l > 7)
  BY <1>1, <1>3 DEF CtrlOf, Ctrls, Master, Slave, Wired, Lines, Cascade
<1>4. QED
  BY <1>2, <1>3

\* A wired line that is not the cascade is a device's.
LEMMA WiredIs ==
  ASSUME NEW c \in Ctrls, NEW i \in Wired(c), ~(c = Master /\ i = Cascade)
  PROVE  /\ 8 * c + i \in DevLines
         /\ CtrlOf(8 * c + i) = c
         /\ (8 * c + i) % 8 = i
BY DEF Wired, CtrlOf, Ctrls, Master, Slave, Lines

\* The line to send after pic_internal_update requests, or is the one before.
LEMMA RefreshKeeps ==
  ASSUME NEW c \in Controller
  PROVE  /\ Refresh(c).icw = c.icw /\ Refresh(c).vec = c.vec
         /\ Eligible(c) = {} => Refresh(c).highest = c.highest
         /\ Eligible(c) # {} => Refresh(c).highest \in c.irr
<1>1. CASE Eligible(c) = {}
  BY <1>1 DEF Refresh
<1>2. CASE Eligible(c) # {}
  <2>1. PICK t \in Eligible(c) : t = Top(c, Eligible(c))
    BY <1>2, EligibleType, TopIsBest DEF Controller
  <2>2. t \in c.irr
    BY <2>1 DEF Eligible
  <2>3. Refresh(c) = [c EXCEPT !.highest = t]
    BY <1>2, <2>1 DEF Refresh
  <2>4. QED
    BY <1>2, <2>2, <2>3 DEF Controller
<1>3. QED
  BY <1>1, <1>2

\* The device lines are those of r on controller c, and as before on the other.
LinesAs(c, r) ==
  \A d \in Ctrls : \A i \in Lines :
    ~(d = Master /\ i = Cascade) =>
      /\ i \in ctrl'[d].irr <=> i \in (IF d = c THEN r ELSE ctrl[d]).irr
      /\ i \in ctrl'[d].pin <=> i \in (IF d = c THEN r ELSE ctrl[d]).pin

\* pic_internal_update after a change that withdraws nothing: the signals stay
\* real, the devices' lines are as the change left them, and INTR goes up only
\* for a request.
LEMMA ReadyUpdate ==
  ASSUME TypeOK, ReadyInv, NEW c \in Ctrls, NEW r \in Controller, Update(c, r),
         r.icw = 5, r.vec = ICW2[c], r.irr \subseteq Wired(c),
         ctrl[c].irr \subseteq r.irr, r.highest = ctrl[c].highest,
         c = Master /\ Cascade \in r.irr => Cascade \in ctrl[c].irr
  PROVE  /\ ReadyInv'
         /\ intr' = intr \/ (intr' = TRUE /\ ctrl'[Master].irr # {})
         /\ LinesAs(c, r)
<1>0. /\ ctrl[Master] \in Controller /\ ctrl[Slave] \in Controller
      /\ Master \in Ctrls /\ Slave \in Ctrls /\ Master # Slave
      /\ \A d \in Ctrls : d = Master \/ d = Slave
  BY DEF TypeOK, Ctrls, Master, Slave
<1>1. CASE c = Master /\ UpdateMaster(r)
  <2>1. /\ ctrl'[Master] = Refresh(r) /\ ctrl'[Slave] = ctrl[Slave]
        /\ intr' = (intr \/ Eligible(r) # {}) /\ intr' \in BOOLEAN
    BY <1>0, <1>1, SettleType DEF UpdateMaster
  <2>2. Refresh(r).irr = r.irr /\ Refresh(r).pin = r.pin
    BY RefreshIsFresh
  <2>3. /\ Refresh(r).icw = 5 /\ Refresh(r).vec = ICW2[Master]
        /\ Eligible(r) = {} => Refresh(r).highest = ctrl[Master].highest
        /\ Eligible(r) # {} => Refresh(r).highest \in r.irr
    BY <1>1, RefreshKeeps
  <2>4. /\ \A d \in Ctrls : /\ ctrl'[d].icw = 5 /\ ctrl'[d].vec = ICW2[d]
                            /\ ctrl'[d].irr \subseteq Wired(d)
        /\ Cascade \in ctrl'[Master].irr => Cascade \in ctrl[Master].irr
    BY <1>0, <1>1, <2>1, <2>2, <2>3 DEF ReadyInv
  <2>5. (intr' /\ Signalled' \notin Withdraws) => ~Spurious(ctrl'[Master])
    BY <1>0, <1>1, <2>1, <2>2, <2>3 DEF ReadyInv, Signalled, Spurious
  <2>6. ReadyInv'
    BY <2>1, <2>4, <2>5 DEF ReadyInv
  <2>7. intr' = intr \/ (intr' = TRUE /\ ctrl'[Master].irr # {})
    BY <2>1, <2>2, <2>3 DEF TypeOK
  <2>8. QED
    BY <1>0, <1>1, <2>1, <2>2, <2>6, <2>7 DEF LinesAs
<1>2. CASE c = Slave /\ UpdateSlave(r)
  <2>1. CASE Eligible(r) # {} /\ Settle(PulseCascade(ctrl[Master]), Refresh(r))
    <3>1. PICK p \in Controller :
            /\ p = PulseCascade(ctrl[Master])
            /\ p.irr = ctrl[Master].irr \cup {Cascade}
            /\ p.pin = ctrl[Master].pin \cup {Cascade}
            /\ p.icw = 5 /\ p.vec = ICW2[Master]
            /\ p.highest = ctrl[Master].highest
      <4>1. PulseCascade(ctrl[Master]) \in Controller
        BY <1>0, PulseCascadeType
      <4>2. QED
        BY <1>0, <4>1 DEF PulseCascade, Controller, ReadyInv
    <3>2. Refresh(r) \in Controller
      BY RefreshIsFresh
    <3>3. /\ ctrl'[Master] = Refresh(p) /\ ctrl'[Slave] = Refresh(r)
          /\ intr' = (intr \/ Eligible(p) # {}) /\ intr' \in BOOLEAN
      BY <2>1, <3>1, <3>2, SettleType
    <3>4. /\ Refresh(p).irr = p.irr /\ Refresh(p).pin = p.pin
          /\ Refresh(r).irr = r.irr /\ Refresh(r).pin = r.pin
      BY RefreshIsFresh
    <3>5. /\ Refresh(p).icw = 5 /\ Refresh(p).vec = ICW2[Master]
          /\ Refresh(r).icw = 5 /\ Refresh(r).vec = ICW2[Slave]
          /\ Eligible(p) = {} => Refresh(p).highest = p.highest
          /\ Eligible(p) # {} => Refresh(p).highest \in p.irr
          /\ Refresh(r).highest \in r.irr
      BY <1>2, <2>1, <3>1, RefreshKeeps
    <3>6. Cascade \in Wired(Master)
      BY DEF Wired, Cascade, Lines
    <3>7. \A d \in Ctrls : /\ ctrl'[d].icw = 5 /\ ctrl'[d].vec = ICW2[d]
                           /\ ctrl'[d].irr \subseteq Wired(d)
      BY <1>0, <1>2, <3>1, <3>3, <3>4, <3>5, <3>6 DEF ReadyInv
    <3>8. ~Spurious(ctrl'[Slave]) /\ ctrl'[Slave].irr # {}
      BY <3>3, <3>4, <3>5 DEF Spurious
    <3>9. (intr' /\ Signalled' \notin Withdraws) => ~Spurious(ctrl'[Master])
      <4>1. CASE Eligible(p) # {}
        BY <3>3, <3>4, <3>5, <4>1 DEF Spurious
      <4>2. CASE Eligible(p) = {} /\ p.highest = Cascade
        BY <3>1, <3>3, <3>4, <3>5, <4>2 DEF Spurious
      <4>3. CASE Eligible(p) = {} /\ p.highest # Cascade
        BY <3>1, <3>3, <3>4, <3>5, <4>3 DEF Spurious, Signalled, ReadyInv
      <4>4. QED
        BY <4>1, <4>2, <4>3
    <3>10. ReadyInv'
      BY <3>7, <3>8, <3>9 DEF ReadyInv
    <3>11. intr' = intr \/ (intr' = TRUE /\ ctrl'[Master].irr # {})
      BY <3>1, <3>3, <3>4 DEF TypeOK
    <3>12. QED
      BY <1>0, <1>2, <3>1, <3>3, <3>4, <3>10, <3>11 DEF LinesAs
  <2>2. CASE ctrl' = [ctrl EXCEPT ![Slave] = r] /\ intr' = intr
    <3>1. ctrl'[Master] = ctrl[Master] /\ ctrl'[Slave] = r
      BY <2>2 DEF TypeOK, Ctrls, Master, Slave
    <3>2. /\ \A d \in Ctrls : /\ ctrl'[d].icw = 5 /\ ctrl'[d].vec = ICW2[d]
                              /\ ctrl'[d].irr \subseteq Wired(d)
          /\ Spurious(ctrl'[Slave]) => Spurious(ctrl[Slave])
          /\ ctrl'[Slave].highest = ctrl[Slave].highest
      BY <1>0, <1>2, <3>1 DEF ReadyInv, Spurious
    <3>3. ReadyInv'
      BY <1>2, <2>2, <3>1, <3>2 DEF ReadyInv, Signalled
    <3>4. QED
      BY <1>0, <1>2, <2>2, <3>1, <3>3 DEF LinesAs
  <2>3. QED
    BY <1>2, <2>1, <2>2 DEF UpdateSlave
<1>3. QED
  BY <1>1, <1>2 DEF Update

\* What a step of the initialized controllers is, seen from outside: the
\* device lines asserted and requesting, INTR, and the vector.
Asserted == {l \in DevLines : l % 8 \in ctrl[CtrlOf(l)].pin}
Requested == {l \in DevLines : l % 8 \in ctrl[CtrlOf(l)].irr}

\* Taking the line to send removes that request and nothing else.
LEMMA AcceptIs ==
  ASSUME NEW c \in Controller
  PROVE  /\ Accept(c).icw = c.icw /\ Accept(c).vec = c.vec /\ Accept(c).pin = c.pin
         /\ Accept(c).highest = c.highest
         /\ Accept(c).irr = c.irr \ {c.highest}
BY DEF Accept, Spurious, Controller

\* A wired request on either controller is one the contract knows of.
LEMMA RequestKnown ==
  ASSUME ReadyInv, ctrl[Master].irr # {}
  PROVE  Requested # {}
<1>1. ASSUME NEW c \in Ctrls, NEW i \in ctrl[c].irr, ~(c = Master /\ i = Cascade)
      PROVE  Requested # {}
  <2>1. i \in Wired(c)
    BY <1>1 DEF ReadyInv
  <2>2. 8 * c + i \in Requested
    BY <1>1, <2>1, WiredIs DEF Requested
  <2>3. QED
    BY <2>2
<1>2. Master \in Ctrls /\ Slave \in Ctrls /\ Slave # Master
  BY DEF Ctrls, Master, Slave
<1>3. CASE Cascade \in ctrl[Master].irr
  <2>1. PICK i \in ctrl[Slave].irr : TRUE
    BY <1>3 DEF ReadyInv
  <2>2. QED
    BY <1>1, <1>2, <2>1
<1>4. CASE Cascade \notin ctrl[Master].irr
  BY <1>1, <1>2, <1>4
<1>5. QED
  BY <1>3, <1>4

\* The same, of the state after a step.
LEMMA RequestKnownNext ==
  ASSUME ReadyInv', ctrl'[Master].irr # {}
  PROVE  Requested' # {}
<1>1. ASSUME NEW c \in Ctrls, NEW i \in ctrl'[c].irr, ~(c = Master /\ i = Cascade)
      PROVE  Requested' # {}
  <2>1. i \in Wired(c)
    BY <1>1 DEF ReadyInv
  <2>2. 8 * c + i \in Requested'
    BY <1>1, <2>1, WiredIs DEF Requested
  <2>3. QED
    BY <2>2
<1>2. Master \in Ctrls /\ Slave \in Ctrls /\ Slave # Master
  BY DEF Ctrls, Master, Slave
<1>3. CASE Cascade \in ctrl'[Master].irr
  <2>1. PICK i \in ctrl'[Slave].irr : TRUE
    BY <1>3 DEF ReadyInv
  <2>2. QED
    BY <1>1, <1>2, <2>1
<1>4. CASE Cascade \notin ctrl'[Master].irr
  BY <1>1, <1>2, <1>4
<1>5. QED
  BY <1>3, <1>4

\* A guest's write that ends in pic_internal_update changes no line and
\* raises INTR only for a request: the contract's Signal, or nothing.
LEMMA GuestUpdate ==
  ASSUME TypeOK, ReadyInv, NEW c \in Ctrls, NEW r \in Controller, Update(c, r),
         r.icw = 5, r.vec = ICW2[c], r.irr = ctrl[c].irr, r.pin = ctrl[c].pin,
         r.highest = ctrl[c].highest, vector' = vector
  PROVE  /\ ReadyInv'
         /\ Contract!Signal \/ UNCHANGED <<Asserted, Requested, intr, vector>>
<1>1. r.irr \subseteq Wired(c)
  BY DEF ReadyInv
<1>2. /\ ReadyInv'
      /\ intr' = intr \/ (intr' = TRUE /\ ctrl'[Master].irr # {})
      /\ LinesAs(c, r)
  BY <1>1, ReadyUpdate
<1>3. Asserted' = Asserted /\ Requested' = Requested
  <2>1. \A l \in DevLines : /\ l % 8 \in ctrl'[CtrlOf(l)].irr <=> l % 8 \in ctrl[CtrlOf(l)].irr
                            /\ l % 8 \in ctrl'[CtrlOf(l)].pin <=> l % 8 \in ctrl[CtrlOf(l)].pin
    BY <1>2, LineIs, LineOf DEF LinesAs
  <2>2. QED
    BY <2>1 DEF Asserted, Requested
<1>4. Requested' # {} \/ intr' = intr
  BY <1>2, RequestKnownNext
<1>5. QED
  BY <1>2, <1>3, <1>4 DEF Contract!Signal, Asserted, Requested

\* An edge on a device's line is the contract's Assert, the cascade pulse and
\* the choice of the line to send included (pic_raise_irq).
LEMMA RaiseAsserts ==
  ASSUME TypeOK, ReadyInv, NEW l \in DevLines, Raise(l)
  PROVE  ReadyInv' /\ Contract!Assert(l)
<1>1. PICK c \in Ctrls : c = CtrlOf(l)
  BY LineOf
<1>2. PICK i \in Lines : i = l % 8
  BY LineOf
<1>3. ctrl[c] \in Controller /\ i \in Wired(c) /\ ~(c = Master /\ i = Cascade)
  BY <1>1, <1>2, LineIs DEF TypeOK
<1>4. PICK r \in Controller :
        /\ r = [ctrl[c] EXCEPT !.pin = @ \cup {i}, !.irr = @ \cup {i}]
        /\ r.pin = ctrl[c].pin \cup {i} /\ r.irr = ctrl[c].irr \cup {i}
        /\ r.icw = ctrl[c].icw /\ r.vec = ctrl[c].vec /\ r.highest = ctrl[c].highest
  <2>1. [ctrl[c] EXCEPT !.pin = @ \cup {i}, !.irr = @ \cup {i}] \in Controller
    BY <1>3, RecordTypes
  <2>2. QED
    BY <1>3, <2>1 DEF Controller
<1>5. Update(c, r) /\ i \notin ctrl[c].pin /\ vector' = vector
  BY <1>1, <1>2, <1>4 DEF Raise
<1>6. /\ r.icw = 5 /\ r.vec = ICW2[c] /\ r.irr \subseteq Wired(c)
      /\ ctrl[c].irr \subseteq r.irr
      /\ (c = Master /\ Cascade \in r.irr) => Cascade \in ctrl[c].irr
  BY <1>3, <1>4 DEF ReadyInv
<1>7. /\ ReadyInv'
      /\ intr' = intr \/ (intr' = TRUE /\ ctrl'[Master].irr # {})
      /\ LinesAs(c, r)
  BY <1>4, <1>5, <1>6, ReadyUpdate
<1>8. ASSUME NEW k \in DevLines
      PROVE  /\ k % 8 \in ctrl'[CtrlOf(k)].irr <=> k = l \/ k % 8 \in ctrl[CtrlOf(k)].irr
             /\ k % 8 \in ctrl'[CtrlOf(k)].pin <=> k = l \/ k % 8 \in ctrl[CtrlOf(k)].pin
  <2>1. /\ CtrlOf(k) \in Ctrls /\ k % 8 \in Lines
        /\ ~(CtrlOf(k) = Master /\ k % 8 = Cascade)
    BY LineOf, LineIs
  <2>2. (CtrlOf(k) = c /\ k % 8 = i) <=> k = l
    BY <1>1, <1>2, LineIs
  <2>3. QED
    BY <1>4, <1>7, <2>1, <2>2 DEF LinesAs
<1>9. Asserted' = Asserted \cup {l} /\ Requested' = Requested \cup {l} /\ l \notin Asserted
  BY <1>1, <1>2, <1>5, <1>8 DEF Asserted, Requested
<1>10. intr' \in {intr, TRUE}
  BY <1>7
<1>11. QED
  BY <1>5, <1>7, <1>9, <1>10 DEF Contract!Assert, Asserted, Requested

\* A lowered line is the contract's Deassert; the cascade line goes down with
\* the slave's last request and is not seen (pic_lower_irq).
LEMMA LowerDeasserts ==
  ASSUME TypeOK, ReadyInv, NEW l \in DevLines, Lower(l)
  PROVE  ReadyInv' /\ Contract!Deassert(l)
<1>0. /\ ctrl[Master] \in Controller /\ ctrl[Slave] \in Controller
      /\ Master \in Ctrls /\ Slave \in Ctrls /\ Master # Slave
      /\ \A d \in Ctrls : d = Master \/ d = Slave
      /\ Cascade \in Lines
  BY DEF TypeOK, Ctrls, Master, Slave, Cascade, Lines
<1>1. PICK c \in Ctrls : c = CtrlOf(l)
  BY LineOf
<1>2. PICK i \in Lines : i = l % 8
  BY LineOf
<1>3. /\ i \in Wired(c) /\ ~(c = Master /\ i = Cascade)
      /\ l = 8 * c + i
  BY <1>1, <1>2, LineIs
<1>4. \A d \in Ctrls : \A j \in Lines :
        /\ Drop(ctrl[d], j).irr = ctrl[d].irr \ {j} /\ Drop(ctrl[d], j).pin = ctrl[d].pin \ {j}
        /\ Drop(ctrl[d], j).icw = ctrl[d].icw /\ Drop(ctrl[d], j).vec = ctrl[d].vec
        /\ Drop(ctrl[d], j).highest = ctrl[d].highest
  BY DEF TypeOK, Drop, Controller
<1>5. /\ intr' = intr /\ vector' = vector
      /\ l \in Withdraws \/ i \notin ctrl[c].irr
  BY <1>1, <1>2 DEF Lower
<1>6. \A d \in Ctrls :
        ctrl'[d] = IF d = c THEN Drop(ctrl[c], i)
                   ELSE IF d = Master /\ ctrl[c].irr \ {i} = {} THEN Drop(ctrl[d], Cascade)
                   ELSE ctrl[d]
  BY <1>1, <1>2, <1>4 DEF Lower
<1>7. \A d \in Ctrls : /\ ctrl'[d].icw = 5 /\ ctrl'[d].vec = ICW2[d]
                       /\ ctrl'[d].irr \subseteq Wired(d)
                       /\ ctrl'[d].highest = ctrl[d].highest
  BY <1>0, <1>4, <1>6 DEF ReadyInv
<1>8. \A d \in Ctrls : \A j \in Lines :
        ~(d = Master /\ j = Cascade) =>
          /\ j \in ctrl'[d].irr <=> j \in ctrl[d].irr /\ ~(d = c /\ j = i)
          /\ j \in ctrl'[d].pin <=> j \in ctrl[d].pin /\ ~(d = c /\ j = i)
  BY <1>0, <1>4, <1>6
<1>9. /\ Cascade \in ctrl'[Master].irr => Cascade \in ctrl[Master].irr
      /\ c = Master => (Cascade \in ctrl'[Master].irr <=> Cascade \in ctrl[Master].irr)
      /\ c = Slave => (Cascade \in ctrl'[Master].irr
                         <=> Cascade \in ctrl[Master].irr /\ ctrl'[Slave].irr # {})
  BY <1>0, <1>3, <1>4, <1>6
<1>10. Cascade \in ctrl'[Master].irr => ctrl'[Slave].irr # {}
  BY <1>0, <1>6, <1>9 DEF ReadyInv
<1>11. ASSUME Cascade \in ctrl[Master].irr, 8 + ctrl[Slave].highest \notin Withdraws
       PROVE  ctrl[Slave].highest \in ctrl'[Slave].irr
  <2>1. ctrl[Slave].highest \in ctrl[Slave].irr /\ ctrl[Slave].highest \in Lines
    BY <1>0, <1>11 DEF ReadyInv, Spurious, Controller
  <2>2. ~(c = Slave /\ ctrl[Slave].highest = i)
    <3>1. SUFFICES ASSUME c = Slave, ctrl[Slave].highest = i PROVE FALSE
      OBVIOUS
    <3>2. l = 8 + ctrl[Slave].highest
      BY <1>3, <3>1 DEF Slave
    <3>3. QED
      BY <1>5, <1>11, <2>1, <3>1, <3>2
  <2>3. QED
    BY <1>0, <1>8, <2>1, <2>2
<1>12. (Cascade \in ctrl'[Master].irr /\ 8 + ctrl'[Slave].highest \notin Withdraws)
         => ~Spurious(ctrl'[Slave])
  BY <1>0, <1>7, <1>9, <1>11 DEF Spurious
<1>13. ASSUME intr', Signalled' \notin Withdraws
       PROVE  ~Spurious(ctrl'[Master])
  <2>1. Signalled' = Signalled /\ intr
    BY <1>0, <1>5, <1>7, <1>13 DEF Signalled
  <2>2. ctrl[Master].highest \in ctrl[Master].irr /\ ctrl[Master].highest \in Lines
    BY <1>0, <1>13, <2>1 DEF ReadyInv, Spurious, Controller
  <2>3. CASE ctrl[Master].highest = Cascade
    <3>1. ctrl'[Slave].irr # {}
      BY <1>11, <1>13, <2>1, <2>2, <2>3 DEF Signalled
    <3>2. QED
      BY <1>0, <1>7, <1>9, <2>2, <2>3, <3>1 DEF Spurious
  <2>4. CASE ctrl[Master].highest # Cascade
    <3>1. ctrl[Master].highest \notin Withdraws
      BY <1>13, <2>1, <2>4 DEF Signalled
    <3>2. ~(c = Master /\ ctrl[Master].highest = i)
      <4>1. SUFFICES ASSUME c = Master, ctrl[Master].highest = i PROVE FALSE
        OBVIOUS
      <4>2. l = ctrl[Master].highest
        BY <1>2, <1>3, <4>1 DEF Master, Lines
      <4>3. QED
        BY <1>5, <2>2, <3>1, <4>1, <4>2
    <3>3. ctrl[Master].highest \in ctrl'[Master].irr
      BY <1>0, <1>8, <2>2, <2>4, <3>2
    <3>4. QED
      BY <1>0, <1>7, <3>3 DEF Spurious
  <2>5. QED
    BY <2>3, <2>4
<1>14. ReadyInv'
  BY <1>7, <1>10, <1>12, <1>13 DEF ReadyInv
<1>15. ASSUME NEW k \in DevLines
       PROVE  /\ k % 8 \in ctrl'[CtrlOf(k)].irr <=> k # l /\ k % 8 \in ctrl[CtrlOf(k)].irr
              /\ k % 8 \in ctrl'[CtrlOf(k)].pin <=> k # l /\ k % 8 \in ctrl[CtrlOf(k)].pin
  <2>1. /\ CtrlOf(k) \in Ctrls /\ k % 8 \in Lines
        /\ ~(CtrlOf(k) = Master /\ k % 8 = Cascade)
    BY LineOf, LineIs
  <2>2. (CtrlOf(k) = c /\ k % 8 = i) <=> k = l
    BY <1>1, <1>2, LineIs
  <2>3. QED
    BY <1>8, <2>1, <2>2
<1>16. Asserted' = Asserted \ {l} /\ Requested' = Requested \ {l}
  BY <1>15 DEF Asserted, Requested
<1>17. QED
  BY <1>5, <1>14, <1>16 DEF Contract!Deassert, Asserted, Requested

\* An acknowledge delivers one request, or finds it withdrawn and delivers
\* nothing (pic_get_interrupt).
LEMMA AcknowledgeDelivers ==
  ASSUME TypeOK, ReadyInv, Acknowledge
  PROVE  /\ ReadyInv'
         /\ (\E l \in DevLines : Contract!Deliver(l)) \/ Contract!DeliverNothing
<1>0. /\ ctrl[Master] \in Controller /\ ctrl[Slave] \in Controller
      /\ Master \in Ctrls /\ Slave \in Ctrls /\ Master # Slave
      /\ \A d \in Ctrls : d = Master \/ d = Slave
  BY DEF TypeOK, Ctrls, Master, Slave
<1>1. PICK h \in Lines : h = ctrl[Master].highest
  BY <1>0 DEF Controller
<1>2. PICK k \in Lines : k = ctrl[Slave].highest
  BY <1>0 DEF Controller
<1> DEFINE both == h \in ctrl[Master].irr /\ h = Cascade
<1>3. /\ intr /\ intr' = FALSE
      /\ \A d \in Ctrls : ctrl'[d] = IF d = Master \/ both THEN Accept(ctrl[d]) ELSE ctrl[d]
      /\ vector' = VectorOf(IF both THEN ctrl[Slave] ELSE ctrl[Master])
  BY <1>1 DEF Acknowledge, Spurious
<1>4. \A d \in Ctrls : /\ ctrl[d].icw = 5 /\ ctrl[d].vec = ICW2[d]
                       /\ ctrl[d].irr \subseteq Wired(d)
  BY DEF ReadyInv
<1>5. /\ ctrl'[Master].irr = ctrl[Master].irr \ {h}
      /\ ctrl'[Slave].irr = IF both THEN ctrl[Slave].irr \ {k} ELSE ctrl[Slave].irr
      /\ \A d \in Ctrls : /\ ctrl'[d].icw = 5 /\ ctrl'[d].vec = ICW2[d]
                          /\ ctrl'[d].pin = ctrl[d].pin
                          /\ ctrl'[d].highest = ctrl[d].highest
  <2>1. \A d \in Ctrls :
          /\ Accept(ctrl[d]).icw = ctrl[d].icw /\ Accept(ctrl[d]).vec = ctrl[d].vec
          /\ Accept(ctrl[d]).pin = ctrl[d].pin /\ Accept(ctrl[d]).highest = ctrl[d].highest
          /\ Accept(ctrl[d]).irr = ctrl[d].irr \ {ctrl[d].highest}
    BY <1>0, AcceptIs
  <2>2. /\ ctrl'[Master] = Accept(ctrl[Master])
        /\ ctrl'[Slave] = IF both THEN Accept(ctrl[Slave]) ELSE ctrl[Slave]
    BY <1>0, <1>3
  <2>3. ctrl'[Master].irr = ctrl[Master].irr \ {h}
    BY <1>0, <1>1, <2>1, <2>2
  <2>4. ctrl'[Slave].irr = IF both THEN ctrl[Slave].irr \ {k} ELSE ctrl[Slave].irr
    BY <1>0, <1>2, <2>1, <2>2
  <2>5. ASSUME NEW d \in Ctrls
        PROVE  /\ ctrl'[d].icw = 5 /\ ctrl'[d].vec = ICW2[d]
               /\ ctrl'[d].pin = ctrl[d].pin /\ ctrl'[d].highest = ctrl[d].highest
    <3>1. ctrl'[d] = Accept(ctrl[d]) \/ ctrl'[d] = ctrl[d]
      BY <1>0, <2>2
    <3>2. QED
      BY <1>4, <2>1, <3>1
  <2>6. QED
    BY <2>3, <2>4, <2>5
<1>6. ReadyInv'
  <2>1. \A d \in Ctrls : ctrl'[d].irr \subseteq Wired(d)
    BY <1>0, <1>4, <1>5
  <2>2. Cascade \in ctrl'[Master].irr =>
          Cascade \in ctrl[Master].irr /\ ctrl'[Slave].irr = ctrl[Slave].irr
    BY <1>5
  <2>3. /\ Cascade \in ctrl'[Master].irr => ctrl'[Slave].irr # {}
        /\ (Cascade \in ctrl'[Master].irr /\ 8 + ctrl'[Slave].highest \notin Withdraws)
             => ~Spurious(ctrl'[Slave])
    BY <1>0, <1>5, <2>2 DEF ReadyInv, Spurious
  <2>4. QED
    BY <1>3, <1>5, <2>1, <2>3 DEF ReadyInv
<1>7. Asserted' = Asserted
  BY <1>5, LineOf DEF Asserted
<1>8. ASSUME NEW d \in Ctrls, NEW i \in Lines, i \in ctrl[d].irr, ~(d = Master /\ i = Cascade),
             ctrl'[d].irr = ctrl[d].irr \ {i},
             \A e \in Ctrls \ {d} : \A j \in Lines :
               ~(e = Master /\ j = Cascade) => (j \in ctrl'[e].irr <=> j \in ctrl[e].irr),
             vector' = ICW2[d] + i
      PROVE  \E l \in DevLines : Contract!Deliver(l)
  <2>1. i \in Wired(d)
    BY <1>4, <1>8
  <2>2. PICK l \in DevLines : l = 8 * d + i /\ CtrlOf(l) = d /\ l % 8 = i
    BY <1>8, <2>1, WiredIs
  <2>3. ASSUME NEW n \in DevLines
        PROVE  n % 8 \in ctrl'[CtrlOf(n)].irr <=> n # l /\ n % 8 \in ctrl[CtrlOf(n)].irr
    <3>1. /\ CtrlOf(n) \in Ctrls /\ n % 8 \in Lines
          /\ ~(CtrlOf(n) = Master /\ n % 8 = Cascade)
      BY LineOf, LineIs
    <3>2. (CtrlOf(n) = d /\ n % 8 = i) <=> n = l
      BY <2>2, LineIs
    <3>3. QED
      BY <1>8, <3>1, <3>2
  <2>4. l \in Requested /\ Requested' = Requested \ {l}
    BY <1>8, <2>2, <2>3 DEF Requested
  <2>5. vector' = [n \in DevLines |-> ICW2[CtrlOf(n)] + (n % 8)][l]
    BY <1>8, <2>2
  <2>6. QED
    BY <1>3, <1>7, <2>4, <2>5 DEF Contract!Deliver, Asserted, Requested
<1>9. ASSUME \A d \in Ctrls : \A i \in Lines :
               ~(d = Master /\ i = Cascade) => (i \in ctrl'[d].irr <=> i \in ctrl[d].irr),
             NEW d \in Ctrls, vector' = ICW2[d] + 7
      PROVE  Contract!DeliverNothing
  <2>1. Requested' = Requested
    BY <1>9, LineIs, LineOf DEF Requested
  <2>2. QED
    BY <1>3, <1>7, <1>9, <2>1 DEF Contract!DeliverNothing, Asserted, Requested
<1>10. CASE h \notin ctrl[Master].irr
  <2>1. vector' = ICW2[Master] + 7
    BY <1>0, <1>1, <1>3, <1>4, <1>10 DEF VectorOf, Spurious
  <2>2. QED
    BY <1>0, <1>5, <1>6, <1>9, <1>10, <2>1
<1>11. CASE h \in ctrl[Master].irr /\ h # Cascade
  <2>1. vector' = ICW2[Master] + h
    BY <1>0, <1>1, <1>3, <1>4, <1>11 DEF VectorOf, Spurious
  <2>2. QED
    BY <1>0, <1>5, <1>6, <1>8, <1>11, <2>1
<1>12. CASE both /\ k \in ctrl[Slave].irr
  <2>1. vector' = ICW2[Slave] + k
    BY <1>0, <1>2, <1>3, <1>4, <1>12 DEF VectorOf, Spurious
  <2>2. QED
    BY <1>0, <1>5, <1>6, <1>8, <1>12, <2>1
<1>13. CASE both /\ k \notin ctrl[Slave].irr
  <2>1. vector' = ICW2[Slave] + 7
    BY <1>0, <1>2, <1>3, <1>4, <1>13 DEF VectorOf, Spurious
  <2>2. QED
    BY <1>0, <1>5, <1>6, <1>9, <1>13, <2>1
<1>14. QED
  BY <1>10, <1>11, <1>12, <1>13

\* A write that touches no request and no line to send is not seen.
LEMMA QuietWrite ==
  ASSUME TypeOK, ReadyInv, UNCHANGED <<intr, vector>>,
         \A d \in Ctrls : /\ ctrl'[d].icw = ctrl[d].icw /\ ctrl'[d].vec = ctrl[d].vec
                          /\ ctrl'[d].irr = ctrl[d].irr /\ ctrl'[d].pin = ctrl[d].pin
                          /\ ctrl'[d].highest = ctrl[d].highest
  PROVE  ReadyInv' /\ UNCHANGED <<Asserted, Requested, intr, vector>>
<1>1. Master \in Ctrls /\ Slave \in Ctrls
  BY DEF Ctrls, Master, Slave
<1>2. ReadyInv'
  BY <1>1 DEF ReadyInv, Spurious, Signalled
<1>3. Asserted' = Asserted /\ Requested' = Requested
  BY LineOf DEF Asserted, Requested
<1>4. QED
  BY <1>2, <1>3

\* Every step of the initialized controllers is a step of the contract, and
\* keeps what their signals rest on.
LEMMA ReadyStep ==
  ASSUME ICW1 = {}, TypeOK, ReadyInv, [Next]_vars
  PROVE  ReadyInv' /\ (Contract!Next \/ UNCHANGED <<Asserted, Requested, intr, vector>>)
<1>0. /\ \A c \in Ctrls : ctrl[c] \in Controller /\ ctrl[c].icw = 5 /\ ctrl[c].vec = ICW2[c]
      /\ ctrl \in [Ctrls -> Controller]
  BY DEF TypeOK, ReadyInv
<1>1. ASSUME NEW l \in DevLines, Raise(l)
      PROVE  ReadyInv' /\ Contract!Next
  BY <1>1, RaiseAsserts DEF Contract!Next
<1>2. ASSUME NEW l \in DevLines, Lower(l)
      PROVE  ReadyInv' /\ Contract!Next
  BY <1>2, LowerDeasserts DEF Contract!Next
<1>3. CASE Acknowledge
  BY <1>3, AcknowledgeDelivers DEF Contract!Next
<1>4. ASSUME NEW c \in Ctrls, WriteICW2(c) \/ WriteICW3(c) \/ (\E aeoi \in ICW4 : WriteICW4(c, aeoi))
      PROVE  FALSE
  <2>1. ctrl[c].icw = 2 \/ ctrl[c].icw = 3 \/ ctrl[c].icw = 4
    BY <1>4, Zenon DEF WriteICW2, WriteICW3, WriteICW4
  <2>2. ctrl[c].icw = 5
    BY <1>0
  <2>3. QED
    BY <2>1, <2>2
<1>5. ASSUME NEW c \in Ctrls, NEW mask \in Masks, WriteOCW1(c, mask)
      PROVE  ReadyInv' /\ (Contract!Signal \/ UNCHANGED <<Asserted, Requested, intr, vector>>)
  <2>1. PICK r \in Controller :
          /\ r = [ctrl[c] EXCEPT !.imr = mask]
          /\ r.irr = ctrl[c].irr /\ r.pin = ctrl[c].pin /\ r.icw = ctrl[c].icw
          /\ r.vec = ctrl[c].vec /\ r.highest = ctrl[c].highest
    <3>1. [ctrl[c] EXCEPT !.imr = mask] \in Controller
      BY <1>0, ConstantsOK DEF Controller
    <3>2. QED
      BY <1>0, <3>1 DEF Controller
  <2>2. Update(c, r) /\ vector' = vector
    BY <1>5, <2>1 DEF WriteOCW1
  <2>3. QED
    BY <1>0, <2>1, <2>2, GuestUpdate
<1>6. ASSUME NEW c \in Ctrls, NEW w \in OCW2, EndOfInterrupt(c, w)
      PROVE  ReadyInv' /\ (Contract!Signal \/ UNCHANGED <<Asserted, Requested, intr, vector>>)
  <2> DEFINE ended == IF w.specific THEN {w.l}
                      ELSE IF ctrl[c].isr = {} THEN {} ELSE {Top(ctrl[c], ctrl[c].isr)}
  <2> DEFINE lowest == IF w.rotate THEN w.l ELSE ctrl[c].base
  <2>1. lowest \in Lines
    BY <1>0, ConstantsOK DEF Controller
  <2>2. Update(c, [ctrl[c] EXCEPT !.isr = @ \ ended, !.base = lowest]) /\ vector' = vector
    BY <1>6 DEF EndOfInterrupt
  <2> HIDE DEF ended, lowest
  <2>3. PICK r \in Controller :
          /\ r = [ctrl[c] EXCEPT !.isr = @ \ ended, !.base = lowest]
          /\ r.irr = ctrl[c].irr /\ r.pin = ctrl[c].pin /\ r.icw = ctrl[c].icw
          /\ r.vec = ctrl[c].vec /\ r.highest = ctrl[c].highest
    <3>1. [ctrl[c] EXCEPT !.isr = @ \ ended, !.base = lowest] \in Controller
      BY <1>0, <2>1, EOIType
    <3>2. QED
      BY <1>0, <3>1 DEF Controller
  <2>4. QED
    BY <1>0, <2>2, <2>3, GuestUpdate
<1>7. ASSUME NEW c \in Ctrls, NEW w \in OCW2, SetPriority(c, w)
      PROVE  ReadyInv' /\ UNCHANGED <<Asserted, Requested, intr, vector>>
  <2>1. /\ \A d \in Ctrls : /\ ctrl'[d].icw = ctrl[d].icw /\ ctrl'[d].vec = ctrl[d].vec
                            /\ ctrl'[d].irr = ctrl[d].irr /\ ctrl'[d].pin = ctrl[d].pin
                            /\ ctrl'[d].highest = ctrl[d].highest
        /\ UNCHANGED <<intr, vector>>
    BY <1>0, <1>7 DEF SetPriority, Controller
  <2>2. QED
    BY <2>1, QuietWrite
<1>8. ASSUME NEW c \in Ctrls, NEW w \in OCW2, SetAutoRotate(c, w)
      PROVE  ReadyInv' /\ UNCHANGED <<Asserted, Requested, intr, vector>>
  <2>1. /\ \A d \in Ctrls : /\ ctrl'[d].icw = ctrl[d].icw /\ ctrl'[d].vec = ctrl[d].vec
                            /\ ctrl'[d].irr = ctrl[d].irr /\ ctrl'[d].pin = ctrl[d].pin
                            /\ ctrl'[d].highest = ctrl[d].highest
        /\ UNCHANGED <<intr, vector>>
    BY <1>0, <1>8 DEF SetAutoRotate, Controller
  <2>2. QED
    BY <2>1, QuietWrite
<1>9. ASSUME NEW c \in Ctrls, NEW smm \in OCW3, WriteOCW3(c, smm)
      PROVE  ReadyInv' /\ UNCHANGED <<Asserted, Requested, intr, vector>>
  <2>1. /\ \A d \in Ctrls : /\ ctrl'[d].icw = ctrl[d].icw /\ ctrl'[d].vec = ctrl[d].vec
                            /\ ctrl'[d].irr = ctrl[d].irr /\ ctrl'[d].pin = ctrl[d].pin
                            /\ ctrl'[d].highest = ctrl[d].highest
        /\ UNCHANGED <<intr, vector>>
    BY <1>0, <1>9 DEF WriteOCW3, Controller
  <2>2. QED
    BY <2>1, QuietWrite
<1>10. CASE UNCHANGED vars
  BY <1>10, QuietWrite DEF vars
<1>11. CASE \E c \in Ctrls : Guest(c)
  <2>1. PICK c \in Ctrls : Guest(c)
    BY <1>11
  <2>2. QED
    BY <1>4, <1>5, <1>6, <1>7, <1>8, <1>9, <2>1 DEF Guest, Contract!Next
<1>12. QED
  BY <1>1, <1>2, <1>3, <1>10, <1>11 DEF Next, Device

\* A freshly initialized pair has no line asserted, as the contract begins.
LEMMA ReadyInit ==
  InitReady => TypeOK /\ ReadyInv /\ Contract!Init
<1> SUFFICES ASSUME InitReady
             PROVE  TypeOK /\ ReadyInv /\ Contract!Init
  OBVIOUS
<1>1. \A c \in Ctrls : /\ ReadyController(c) \in Controller
                       /\ ReadyController(c).irr = {} /\ ReadyController(c).pin = {}
                       /\ ReadyController(c).icw = 5 /\ ReadyController(c).vec = ICW2[c]
  <2>1. 0 \in Lines /\ 7 \in Lines /\ 5 \in 2..5 /\ \A c \in Ctrls : ICW2[c] \in Offsets
    BY ConstantsOK DEF Lines
  <2>2. QED
    BY <2>1 DEF ReadyController, ResetController, Controller
<1>2. ctrl = [c \in Ctrls |-> ReadyController(c)] /\ intr = FALSE /\ vector = -1 /\ stale = {}
  BY DEF InitReady
<1>3. -1 \in -1..255
  OBVIOUS
<1>4. TypeOK
  BY <1>1, <1>2, <1>3 DEF TypeOK
<1>5. Master \in Ctrls /\ Slave \in Ctrls
  BY DEF Ctrls, Master, Slave
<1>6. ReadyInv
  BY <1>1, <1>2, <1>5 DEF ReadyInv
<1>7. Asserted = {} /\ Requested = {}
  BY <1>1, <1>2, LineOf DEF Asserted, Requested
<1>8. QED
  BY <1>2, <1>4, <1>6, <1>7 DEF Contract!Init, Asserted, Requested

\* Refinement.  As long as the guest does not re-initialize them, two cascaded
\* controllers are the one flat controller of the contract, for every set of
\* device lines, every mask, end of interrupt, rotation and special mask (all
\* of pic.cpp but ICW1).
THEOREM CascadeIsFlat ==
  ASSUME ICW1 = {}
  PROVE  ReadySpec => ImplementsContract
<1>1. TypeOK /\ ReadyInv /\ [Next]_vars =>
        TypeOK' /\ ReadyInv' /\ [Contract!Next]_(Contract!vars)
  BY TypeStep, ReadyStep DEF Contract!vars, Asserted, Requested
<1>2. QED
  BY <1>1, ReadyInit, PTL DEF ReadySpec, ImplementsContract, Contract!Spec

\* As long as the guest does not re-initialize them, INTR always has a request
\* behind it, through the cascade to the slave's device, unless that device has
\* withdrawn it (pic_get_interrupt's spurious vectors).
THEOREM NoSpurious ==
  ASSUME ICW1 = {}
  PROVE  ReadySpec => []EveryInterruptIsReal
<1>1. TypeOK /\ ReadyInv /\ [Next]_vars => TypeOK' /\ ReadyInv'
  BY TypeStep, ReadyStep
<1>2. TypeOK /\ ReadyInv => EveryInterruptIsReal
  BY DEF TypeOK, ReadyInv, EveryInterruptIsReal, Signalled, Spurious
<1>3. QED
  BY <1>1, <1>2, ReadyInit, PTL DEF ReadySpec

=============================================================================
