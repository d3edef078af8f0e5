-------------------------------- MODULE Pic --------------------------------
(***************************************************************************)
(* The two cascaded 8259A interrupt controllers of src/pic.cpp, the INTR   *)
(* line to the processor (cpu.m_intr_line_state) and the three parties     *)
(* that act on them: devices raise and lower lines, the guest writes       *)
(* command words, the processor acknowledges.  A byte register is the set  *)
(* of its 1 bits.  This is a machine with apic = 0 in its configuration,   *)
(* where ioapic_raise_irq, ioapic_lower_irq and apic_has_interrupt do      *)
(* nothing; module Apic is one with apic = 1, as exe/default.conf has.     *)
(***************************************************************************)
EXTENDS Integers

CONSTANTS
  DevLines,   \* the lines (0..15) that devices drive
  Withdraws,  \* the lines whose device may drop a request nobody accepted
  Masks,      \* the OCW1 bytes the guest writes
  OCW2,       \* the OCW2 bytes it writes, as [rotate, specific, eoi, l]
  OCW3,       \* the OCW3 bytes it writes: does bit pattern 0x60 appear?
  ICW1,       \* the ICW1 bytes it writes, as [sngl, ic4]
  ICW2,       \* the vector offsets it programs: ICW2[0], ICW2[1]
  ICW4        \* the AEOI bits of the ICW4 bytes it writes

VARIABLES
  ctrl,       \* pic.ctrl[0] (master) and pic.ctrl[1] (slave)
  intr,       \* the processor's INTR line
  vector,     \* the last vector pic_get_interrupt returned, -1 before any
  stale       \* history: see Settle and Unsettle

vars == <<ctrl, intr, vector, stale>>

Lines == 0..7
Offsets == {8 * k : k \in 0..31}      \* value & ~7
Ctrls == {0, 1}
Master == 0
Slave == 1
Cascade == 2      \* the master's line that the slave drives

ASSUME ConstantsOK ==
  /\ DevLines \subseteq 0..15 \ {Cascade}
  /\ Withdraws \subseteq DevLines
  /\ Masks \subseteq SUBSET Lines
  /\ OCW2 \subseteq [rotate : BOOLEAN, specific : BOOLEAN, eoi : BOOLEAN, l : Lines]
  /\ OCW3 \subseteq BOOLEAN
  /\ ICW1 \subseteq [sngl : BOOLEAN, ic4 : BOOLEAN]
  /\ ICW2 \in [Ctrls -> Offsets]
  /\ ICW4 \subseteq BOOLEAN

\* icw is the initialization word expected next, 5 once in_initialization is 0.
Controller ==
  [vec : Offsets, imr : SUBSET Lines, irr : SUBSET Lines,
   isr : SUBSET Lines, pin : SUBSET Lines, icw : 2..5, sngl : BOOLEAN,
   ic4 : BOOLEAN, special : BOOLEAN, autoeoi : BOOLEAN,
   rotate_on_autoeoi : BOOLEAN, base : Lines, highest : Lines]

TypeOK ==
  /\ ctrl \in [Ctrls -> Controller]
  /\ intr \in BOOLEAN
  /\ vector \in -1..255
  /\ stale \subseteq Ctrls

----------------------------------------------------------------------------
(* Priority.  rol() turns the registers so that bit i of the result is     *)
(* line (priority_base + 1 + i) & 7: i is that line's rank, 0 the highest. *)

Rank(c, i) == (i + 7 - c.base) % 8

Top(c, S) == CHOOSE i \in S : \A j \in S : Rank(c, i) <= Rank(c, j)

\* Mutant: the in-service register does not hold requests back.
EligibleIgnoresService(c) == c.irr \ c.imr

\* The requests that pic_internal_update would signal one of.
Eligible(c) ==
  {i \in c.irr \ c.imr :
     IF c.special THEN i \notin c.isr
                  ELSE \A s \in c.isr : Rank(c, i) < Rank(c, s)}

\* Mutant: a request that is still eligible stays signalled.
RefreshKeepsBest(c) ==
  IF Eligible(c) = {} \/ c.highest \in Eligible(c) THEN c
  ELSE [c EXCEPT !.highest = Top(c, Eligible(c))]

Refresh(c) ==
  IF Eligible(c) = {} THEN c ELSE [c EXCEPT !.highest = Top(c, Eligible(c))]

----------------------------------------------------------------------------
(* pic_internal_update.  The master raises INTR; the slave pulses the      *)
(* master's line 2, which makes the master update in turn.                 *)
(*                                                                         *)
(* stale holds the controllers for which the code has done something after *)
(* which the signalled request may be out of date, and has not called      *)
(* pic_internal_update on them since.                                      *)

Settle(m, s) ==
  /\ ctrl' = [c \in Ctrls |-> IF c = Master THEN Refresh(m) ELSE s]
  /\ intr' = (intr \/ Eligible(m) # {})

UpdateMaster(m) ==
  /\ Settle(m, ctrl[Slave])
  /\ stale' = stale \ {Master}

\* Mutant: line 2 is raised without being lowered first, so it has no edge.
PulseNoEdge(m) ==
  IF Cascade \in m.pin THEN m
  ELSE [m EXCEPT !.pin = @ \cup {Cascade}, !.irr = @ \cup {Cascade}]

PulseCascade(m) ==
  [m EXCEPT !.pin = @ \cup {Cascade}, !.irr = @ \cup {Cascade}]

UpdateSlave(s) ==
  \/ /\ Eligible(s) # {}
     /\ Settle(PulseCascade(ctrl[Master]), Refresh(s))
     /\ stale' = {}
  \/ /\ Eligible(s) = {}
     /\ ctrl' = [ctrl EXCEPT ![Slave] = s]
     /\ stale' = stale \ {Slave}
     /\ UNCHANGED intr

\* Controller c becomes r and pic_internal_update(c) runs.
Update(c, r) ==
  \/ c = Master /\ UpdateMaster(r)
  \/ c = Slave /\ UpdateSlave(r)

----------------------------------------------------------------------------
(* Devices: pic_raise_irq and pic_lower_irq.                               *)

CtrlOf(l) == IF l > 7 THEN Slave ELSE Master

Raise(l) ==
  LET c == CtrlOf(l)
      i == l % 8
  IN /\ i \notin ctrl[c].pin
     /\ Update(c, [ctrl[c] EXCEPT !.pin = @ \cup {i}, !.irr = @ \cup {i}])
     /\ UNCHANGED vector

Drop(c, i) == [c EXCEPT !.pin = @ \ {i}, !.irr = @ \ {i}]

\* The slave's last request to go takes the master's line 2 down with it.
Lower(l) ==
  LET c == CtrlOf(l)
      r == Drop(ctrl[c], l % 8)
  IN /\ l \in Withdraws \/ l % 8 \notin ctrl[c].irr
     /\ ctrl' = [d \in Ctrls |->
                   IF d = c THEN r
                   ELSE IF d = Master /\ r.irr = {} THEN Drop(ctrl[d], Cascade)
                   ELSE ctrl[d]]
     /\ UNCHANGED <<intr, vector, stale>>

----------------------------------------------------------------------------
(* The processor: pic_get_interrupt, called by cpu_run when INTR is up.    *)

Spurious(c) == c.highest \notin c.irr

\* Mutant: acceptance leaves the request in irr.
AcceptKeepsRequest(c) ==
  IF Spurious(c) THEN c ELSE [c EXCEPT !.isr = @ \cup {c.highest}]

Accept(c) ==
  IF Spurious(c) THEN c
  ELSE [c EXCEPT !.irr = @ \ {c.highest},
                 !.isr = IF c.autoeoi THEN @ ELSE @ \cup {c.highest},
                 !.base = IF c.autoeoi /\ c.rotate_on_autoeoi THEN c.highest ELSE @]

VectorOf(c) == c.vec + (IF Spurious(c) THEN 7 ELSE c.highest)

\* Mutant: acknowledging does not lower INTR.
AcknowledgeKeepsINTR ==
  /\ intr
  /\ ctrl' = [ctrl EXCEPT ![Master] = Accept(@)]
  /\ vector' = VectorOf(ctrl[Master])
  /\ UNCHANGED <<intr, stale>>

\* Accepting leaves other eligible requests unsignalled in these cases.
Unsettles(c) == Spurious(c) \/ c.autoeoi \/ c.special

Acknowledge ==
  LET m == ctrl[Master]
      s == ctrl[Slave]
      both == ~Spurious(m) /\ m.highest = Cascade
  IN /\ intr
     /\ intr' = FALSE
     /\ ctrl' = [c \in Ctrls |-> IF c = Master \/ both THEN Accept(ctrl[c]) ELSE ctrl[c]]
     /\ vector' = VectorOf(IF both THEN s ELSE m)
     /\ stale' = stale \cup {c \in Ctrls : (c = Master \/ both) /\ Unsettles(ctrl[c])}

----------------------------------------------------------------------------
(* The guest: pic_writeb.                                                  *)

\* Command port, bit 4 set.  INTR goes down whichever controller is written,
\* so the other one's signalled request is forgotten.
WriteICW1(c, w) ==
  /\ ctrl' = [ctrl EXCEPT
       ![c] = [@ EXCEPT !.imr = {}, !.isr = {}, !.irr = {}, !.base = 7,
                        !.autoeoi = FALSE, !.rotate_on_autoeoi = FALSE,
                        !.icw = 2, !.sngl = w.sngl, !.ic4 = w.ic4]]
  /\ intr' = FALSE
  /\ stale' = stale \cup (Ctrls \ {c})
  /\ UNCHANGED vector

WriteICW2(c) ==
  /\ ctrl[c].icw = 2
  /\ ctrl' = [ctrl EXCEPT
       ![c] = [@ EXCEPT !.vec = ICW2[c],
                        !.icw = IF ~ctrl[c].sngl THEN 3 ELSE IF ctrl[c].ic4 THEN 4 ELSE 5]]
  /\ UNCHANGED <<intr, vector, stale>>

WriteICW3(c) ==
  /\ ctrl[c].icw = 3
  /\ ctrl' = [ctrl EXCEPT ![c].icw = IF ctrl[c].ic4 THEN 4 ELSE 5]
  /\ UNCHANGED <<intr, vector, stale>>

WriteICW4(c, aeoi) ==
  /\ ctrl[c].icw = 4
  /\ ctrl' = [ctrl EXCEPT ![c] = [@ EXCEPT !.autoeoi = aeoi, !.icw = 5]]
  /\ UNCHANGED <<intr, vector, stale>>

WriteOCW1(c, mask) ==
  /\ ctrl[c].icw = 5
  /\ Update(c, [ctrl[c] EXCEPT !.imr = mask])
  /\ UNCHANGED vector

\* Mutant: an end of interrupt signals nothing.
EndWithoutUpdate(c, w) ==
  LET r == ctrl[c]
  IN /\ w.eoi
     /\ ctrl' = [ctrl EXCEPT ![c].isr = IF r.isr = {} THEN {} ELSE @ \ {Top(r, r.isr)}]
     /\ UNCHANGED <<intr, vector, stale>>

\* End of interrupt; with the rotate bit the line named in the byte, even for
\* a non-specific EOI, becomes the lowest.
EndOfInterrupt(c, w) ==
  LET r == ctrl[c]
      ended == IF w.specific THEN {w.l}
               ELSE IF r.isr = {} THEN {} ELSE {Top(r, r.isr)}
  IN /\ w.eoi
     /\ Update(c, [r EXCEPT !.isr = @ \ ended, !.base = IF w.rotate THEN w.l ELSE @])
     /\ UNCHANGED vector

\* Set-priority changes the order and signals nothing.
SetPriority(c, w) ==
  /\ ~w.eoi /\ w.specific /\ w.rotate
  /\ ctrl' = [ctrl EXCEPT ![c].base = w.l]
  /\ stale' = stale \cup {c}
  /\ UNCHANGED <<intr, vector>>

SetAutoRotate(c, w) ==
  /\ ~w.eoi /\ ~w.specific
  /\ ctrl' = [ctrl EXCEPT ![c].rotate_on_autoeoi = w.rotate]
  /\ UNCHANGED <<intr, vector, stale>>

\* The special mask is the last OCW3 byte's, so a byte that only selects a
\* register to read switches it off.
WriteOCW3(c, smm) ==
  /\ ctrl' = [ctrl EXCEPT ![c].special = smm]
  /\ stale' = IF smm = ctrl[c].special THEN stale ELSE stale \cup {c}
  /\ UNCHANGED <<intr, vector>>

----------------------------------------------------------------------------
(* Power-on: static storage is zero, then pic_reset runs.                  *)

ResetController ==
  [vec |-> 0, imr |-> Lines, irr |-> {}, isr |-> {}, pin |-> {}, icw |-> 5,
   sngl |-> FALSE, ic4 |-> FALSE, special |-> FALSE, autoeoi |-> FALSE,
   rotate_on_autoeoi |-> FALSE, base |-> 0, highest |-> 0]

Init ==
  /\ ctrl = [c \in Ctrls |-> ResetController]
  /\ intr = FALSE
  /\ vector = -1
  /\ stale = {}

Device(l) == Raise(l) \/ Lower(l)

Guest(c) ==
  \/ \E w \in ICW1 : WriteICW1(c, w)
  \/ WriteICW2(c)
  \/ WriteICW3(c)
  \/ \E aeoi \in ICW4 : WriteICW4(c, aeoi)
  \/ \E mask \in Masks : WriteOCW1(c, mask)
  \/ \E w \in OCW2 : EndOfInterrupt(c, w) \/ SetPriority(c, w) \/ SetAutoRotate(c, w)
  \/ \E smm \in OCW3 : WriteOCW3(c, smm)

Next ==
  \/ \E l \in DevLines : Device(l)
  \/ Acknowledge
  \/ \E c \in Ctrls : Guest(c)

Spec == Init /\ [][Next]_vars

\* A guest that has initialized both controllers the PC way and runs its
\* interrupt handlers: it takes the interrupts the processor is offered and
\* ends them.
ReadyController(c) ==
  [ResetController EXCEPT !.vec = ICW2[c], !.imr = {}, !.base = 7, !.ic4 = TRUE]

InitReady ==
  /\ ctrl = [c \in Ctrls |-> ReadyController(c)]
  /\ intr = FALSE
  /\ vector = -1
  /\ stale = {}

HandlerFairness ==
  /\ WF_vars(Acknowledge)
  /\ \A c \in Ctrls : WF_vars(ctrl[c].isr # {} /\ \E w \in OCW2 : EndOfInterrupt(c, w))

ReadySpec == InitReady /\ [][Next]_vars /\ HandlerFairness

----------------------------------------------------------------------------
(* Properties *)

\* A request is latched only for a line that is asserted: once a device has
\* lowered its line, no controller still holds the request
\* (pic_internal_lower_irq clears both).
RequestsHavePins == \A c \in Ctrls : ctrl[c].irr \subseteq ctrl[c].pin

\* No lost interrupt.  If a request is unmasked and outranks everything in
\* service, it has been signalled: by INTR for the master, by a request on
\* line 2 for the slave.  The code fails to guarantee this only for the
\* controllers in stale.
NoLostInterrupt ==
  /\ Eligible(ctrl[Master]) # {} /\ Master \notin stale => intr
  /\ Eligible(ctrl[Slave]) # {} /\ Slave \notin stale => Cascade \in ctrl[Master].irr

\* The request that would be accepted next is never outranked by another
\* eligible one.
SignalsTheBest ==
  \A c \in Ctrls \ stale : \A e \in Eligible(ctrl[c]) :
    Rank(ctrl[c], ctrl[c].highest) <= Rank(ctrl[c], e)

\* Nesting.  A controller takes a request into service only if it outranks
\* everything the controller has in service, even when masks, withdrawals,
\* EOIs and re-initializations come between the signal and the acknowledge.
NestingStep ==
  \A c \in Ctrls : \A i \in ctrl'[c].isr \ ctrl[c].isr :
    \A s \in ctrl[c].isr : Rank(ctrl[c], i) < Rank(ctrl[c], s)
NestingOrder == [][NestingStep]_vars

\* No spurious interrupt.  While the guest leaves both controllers as
\* initialized, INTR always has a request behind it, all the way to the slave's
\* device, unless that device has withdrawn it: the processor never receives
\* vector 7 or 15 from a line that did not ask.
Signalled ==
  IF ctrl[Master].highest = Cascade THEN 8 + ctrl[Slave].highest
  ELSE ctrl[Master].highest
EveryInterruptIsReal ==
  intr /\ Signalled \notin Withdraws =>
    /\ ~Spurious(ctrl[Master])
    /\ ctrl[Master].highest = Cascade => ~Spurious(ctrl[Slave])

\* Service.  A request that stays unmasked is accepted, provided the lines
\* that outrank it stop interrupting at some point.
Pending(l) == l % 8 \in ctrl[CtrlOf(l)].irr
Masked(l) ==
  \/ l % 8 \in ctrl[CtrlOf(l)].imr
  \/ l > 7 /\ Cascade \in ctrl[Master].imr
Place(l) == IF l <= 1 THEN l ELSE IF l > 7 THEN l - 6 ELSE l + 7
Above(l) == {k \in DevLines : Place(k) < Place(l)}
Served ==
  \A l \in DevLines :
    <>[][\A k \in Above(l) : ~Raise(k)]_vars => (Pending(l) ~> ~Pending(l) \/ Masked(l))

=============================================================================
