-------------------------------- MODULE Apic --------------------------------
(***************************************************************************)
(* The I/O APIC of src/ioapic.cpp, the local APIC of src/apic.cpp and the  *)
(* processor line they share with the 8259s (m_intr_line_state).  Devices  *)
(* raise and lower pins; the guest programs the redirection table, the     *)
(* task priority and the ends of interrupt; the processor acknowledges.    *)
(*                                                                         *)
(* A 256-bit register is the set of its 1 bits.  A pin keeps its vector    *)
(* and its trigger mode, delivery is fixed, and no interprocessor          *)
(* interrupt uses the vector of a pin.  The 8259s are one request here:    *)
(* module Pic has them whole.                                              *)
(***************************************************************************)
EXTENDS Integers, FiniteSets

CONSTANTS
  Pins,       \* the inputs of the I/O APIC that devices drive
  LevelPins,  \* those the guest programs as level-triggered
  VecOf,      \* the vector in each pin's redirection entry
  IpiVecs,    \* the vectors the guest sends to itself
  Tprs        \* the classes the guest writes to the task priority

VARIABLES
  redir,      \* ioapic.redtbl, the low half of each entry
  ioapic,     \* ioapic.irr and ioapic.pin_state
  apic,       \* irr, isr, tmr, task_priority >> 4, intr_line_state
  intr,       \* the processor's INTR line
  pic,        \* the 8259s have signalled a request nobody has taken
  high,       \* history: the pins the devices hold up
  lost        \* history: see the section on what the code loses track of

vars == <<redir, ioapic, apic, intr, pic, high, lost>>

Vectors == {VecOf[l] : l \in Pins} \cup IpiVecs

ASSUME ConstantsOK ==
  /\ Pins \subseteq 0..23 /\ LevelPins \subseteq Pins
  /\ VecOf \in [Pins -> 16..254] /\ IpiVecs \subseteq 16..254
  /\ \A k, l \in Pins : VecOf[k] = VecOf[l] => k = l
  /\ \A l \in Pins : VecOf[l] \notin IpiVecs
  /\ Tprs \subseteq 0..15

----------------------------------------------------------------------------
(* The local APIC.                                                         *)

\* highest_set_bit
Highest(S) == IF S = {} THEN -1 ELSE CHOOSE v \in S : \A w \in S : w <= v

\* Mutant: what is in service is not looked at.
DeliverableIgnoresService(a) ==
  a.irr # {} /\ Highest(a.irr) \div 16 > a.tpr

\* The request that apic_send_highest_priority_interrupt would signal.
Deliverable(a) ==
  /\ Highest(a.isr) < Highest(a.irr)
  /\ Highest(a.irr) \div 16 > a.tpr

Send(a) == [a EXCEPT !.line = @ \/ Deliverable(a)]

\* The messages of vectors V arrive, those of L level-triggered.  One that is
\* already requested is dropped and leaves its trigger mode.
Receive(a, V, L) ==
  LET new == V \ a.irr
  IN IF new = {} THEN a
     ELSE Send([a EXCEPT !.irr = @ \cup new, !.tmr = (@ \ new) \cup (L \cap new)])

\* The local APIC becomes a, and raises INTR if it raised its own line.
Become(a) ==
  /\ apic' = a
  /\ intr' = (intr \/ (a.line /\ ~apic.line))

----------------------------------------------------------------------------
(* What the code loses track of.                                           *)
(*                                                                         *)
(* eoi: level pins still up when their interrupt was ended.  Ending it     *)
(* clears remote IRR and sends nothing, and no raise while remote IRR was  *)
(* set has been recorded.                                                  *)
(* orphan: level pins whose remote IRR was set by a raise under the mask   *)
(* and that went down before they were sent: no end of interrupt is owed   *)
(* for them, and until one comes every raise is ignored.                   *)
(* icw1, ack: the local APIC's, the 8259s' request is signalled but the    *)
(* other controller has lowered the line they share.                       *)

\* The pins of S are sent to the local APIC.
Settled(S) == [lost EXCEPT !.eoi = @ \ S, !.orphan = @ \ S]

----------------------------------------------------------------------------
(* The I/O APIC.                                                           *)

\* Mutant: a request under the mask is forgotten.
UpdateForgetting(t, io) ==
  LET sent == {l \in io.irr : ~t[l].masked}
  IN /\ redir' = t
     /\ ioapic' = [io EXCEPT !.irr = sent \cap LevelPins]
     /\ Become(Receive(apic, {VecOf[l] : l \in sent}, {VecOf[l] : l \in sent \cap LevelPins}))
     /\ lost' = Settled(sent)

\* ioapic_update: every unmasked request is sent; a level request stays, and is
\* sent again by every later update.
Update(t, io) ==
  LET sent == {l \in io.irr : ~t[l].masked}
  IN /\ redir' = t
     /\ ioapic' = [io EXCEPT !.irr = @ \ (sent \ LevelPins)]
     /\ Become(Receive(apic, {VecOf[l] : l \in sent}, {VecOf[l] : l \in sent \cap LevelPins}))
     /\ lost' = Settled(sent)

Raise(l) ==
  LET t == [redir EXCEPT ![l].polarity = TRUE]
      io == [irr |-> ioapic.irr \cup {l}, pin |-> ioapic.pin \cup {l}]
  IN /\ high' = high \cup {l}
     /\ UNCHANGED pic
     /\ \/ /\ l \in LevelPins /\ ~t[l].remote
           /\ Update([t EXCEPT ![l].remote = TRUE], io)
        \/ /\ l \notin LevelPins /\ l \notin ioapic.pin
           /\ Update(t, io)
        \/ /\ IF l \in LevelPins THEN t[l].remote ELSE l \in ioapic.pin
           /\ redir' = t
           /\ UNCHANGED <<ioapic, apic, intr, lost>>

\* Mutant: the request of an edge pin goes with the pin.
LowerForgetting(l) ==
  /\ high' = high \ {l}
  /\ redir' = [redir EXCEPT ![l].polarity = FALSE]
  /\ ioapic' = [irr |-> ioapic.irr \ {l}, pin |-> ioapic.pin \ {l}]
  /\ lost' = [lost EXCEPT !.eoi = @ \ {l}]
  /\ UNCHANGED <<apic, intr, pic>>

Lower(l) ==
  /\ high' = high \ {l}
  /\ redir' = [redir EXCEPT ![l].polarity = FALSE]
  /\ ioapic' = [irr |-> IF l \in LevelPins THEN ioapic.irr \ {l} ELSE ioapic.irr,
                pin |-> ioapic.pin \ {l}]
  /\ lost' = [lost EXCEPT
       !.eoi = @ \ {l},
       !.orphan = IF l \in LevelPins /\ redir[l].remote /\ VecOf[l] \notin apic.irr \cup apic.isr
                  THEN @ \cup {l} ELSE @]
  /\ UNCHANGED <<apic, intr, pic>>

\* The guest masks or unmasks a pin: it writes back the entry it read, or one
\* with the read-only bits 0.  Nothing happens if the entry is the same.
WriteRedir(l, masked, keep) ==
  LET e == [masked |-> masked, remote |-> keep /\ redir[l].remote,
            polarity |-> keep /\ redir[l].polarity]
      freed == {l} \cap (IF e.remote THEN {} ELSE lost.orphan)
      sent == {k \in ioapic.irr : IF k = l THEN ~masked ELSE ~redir[k].masked}
  IN /\ e # redir[l]
     /\ redir' = [redir EXCEPT ![l] = e]
     /\ ioapic' = [ioapic EXCEPT !.irr = @ \ (sent \ LevelPins)]
     /\ Become(Receive(apic, {VecOf[k] : k \in sent}, {VecOf[k] : k \in sent \cap LevelPins}))
     /\ lost' = [Settled(sent) EXCEPT !.eoi = @ \cup ((freed \cap high) \ sent),
                                      !.orphan = @ \ freed]
     /\ UNCHANGED <<pic, high>>

\* ioapic_remote_eoi
RemoteEoi(v) ==
  [l \in Pins |-> IF VecOf[l] = v THEN [redir[l] EXCEPT !.remote = FALSE] ELSE redir[l]]

----------------------------------------------------------------------------
(* The guest and the local APIC's registers.                               *)

\* Mutant: what waits behind the ended interrupt is not looked at.
EndOfInterruptOnly ==
  LET v == Highest(apic.isr)
      ended == {l \in Pins : VecOf[l] = v /\ v \in apic.tmr}
  IN /\ v # -1
     /\ Become([apic EXCEPT !.isr = @ \ {v}])
     /\ redir' = IF v \in apic.tmr THEN RemoteEoi(v) ELSE redir
     /\ lost' = [lost EXCEPT !.eoi = @ \cup {l \in ended \cap high : v \notin apic.irr},
                             !.orphan = @ \ ended]
     /\ UNCHANGED <<ioapic, pic, high>>

EndOfInterrupt ==
  LET v == Highest(apic.isr)
      ended == {l \in Pins : VecOf[l] = v /\ v \in apic.tmr}
  IN /\ v # -1
     /\ Become(Send([apic EXCEPT !.isr = @ \ {v}]))
     /\ redir' = IF v \in apic.tmr THEN RemoteEoi(v) ELSE redir
     /\ lost' = [lost EXCEPT !.eoi = @ \cup {l \in ended \cap high : v \notin apic.irr},
                             !.orphan = @ \ ended]
     /\ UNCHANGED <<ioapic, pic, high>>

WriteTaskPriority(c) ==
  /\ Become(Send([apic EXCEPT !.tpr = c]))
  /\ UNCHANGED <<redir, ioapic, pic, high, lost>>

\* Fixed delivery, by shorthand or to its own id; an external one does not look
\* whether the vector is requested already and leaves its trigger mode.
SendIpi(v, level) ==
  /\ Become(Receive(apic, {v}, IF level THEN {v} ELSE {}))
  /\ UNCHANGED <<redir, ioapic, pic, high, lost>>

SendExternal(v) ==
  /\ Become(Send([apic EXCEPT !.irr = @ \cup {v}]))
  /\ UNCHANGED <<redir, ioapic, pic, high, lost>>

----------------------------------------------------------------------------
(* The 8259s, as far as they use the same line and the same acknowledge.   *)

Request8259 ==
  /\ pic' = TRUE /\ intr' = TRUE
  /\ lost' = [lost EXCEPT !.icw1 = FALSE, !.ack = FALSE]
  /\ UNCHANGED <<redir, ioapic, apic, high>>

Initialize8259 ==
  /\ pic' = FALSE /\ intr' = FALSE
  /\ lost' = [lost EXCEPT !.icw1 = @ \/ apic.line, !.ack = FALSE]
  /\ UNCHANGED <<redir, ioapic, apic, high>>

----------------------------------------------------------------------------
(* The processor: pic_get_interrupt, which asks the local APIC first.      *)

\* Mutant: the processor's line stays up.
AcknowledgeLineUp ==
  /\ intr /\ apic.line
  /\ LET v == Highest(apic.irr)
     IN apic' = [apic EXCEPT !.irr = @ \ {v}, !.isr = @ \cup {v}, !.line = FALSE]
  /\ lost' = [lost EXCEPT !.icw1 = FALSE, !.ack = pic]
  /\ UNCHANGED <<redir, ioapic, intr, pic, high>>

AcknowledgeApic ==
  /\ intr /\ apic.line
  /\ LET v == Highest(apic.irr)
     IN apic' = [apic EXCEPT !.irr = @ \ {v}, !.isr = @ \cup {v}, !.line = FALSE]
  /\ intr' = FALSE
  /\ lost' = [lost EXCEPT !.icw1 = FALSE, !.ack = pic]
  /\ UNCHANGED <<redir, ioapic, pic, high>>

Acknowledge8259 ==
  /\ intr /\ ~apic.line
  /\ pic' = FALSE /\ intr' = FALSE
  /\ UNCHANGED <<redir, ioapic, apic, high, lost>>

----------------------------------------------------------------------------
Init ==
  /\ redir = [l \in Pins |-> [masked |-> TRUE, remote |-> FALSE, polarity |-> FALSE]]
  /\ ioapic = [irr |-> {}, pin |-> {}]
  /\ apic = [irr |-> {}, isr |-> {}, tmr |-> {}, tpr |-> 0, line |-> FALSE]
  /\ intr = FALSE /\ pic = FALSE /\ high = {}
  /\ lost = [eoi |-> {}, orphan |-> {}, icw1 |-> FALSE, ack |-> FALSE]

Next ==
  \/ \E l \in Pins : Raise(l) \/ Lower(l)
  \/ \E l \in Pins, m, k \in BOOLEAN : WriteRedir(l, m, k)
  \/ EndOfInterrupt
  \/ \E c \in Tprs : WriteTaskPriority(c)
  \/ \E v \in IpiVecs : SendExternal(v) \/ \E level \in BOOLEAN : SendIpi(v, level)
  \/ Request8259 \/ Initialize8259
  \/ AcknowledgeApic \/ Acknowledge8259

Spec == Init /\ [][Next]_vars

\* The processor runs and takes interrupts, and its handlers end them.
FairSpec == Spec /\ WF_vars(AcknowledgeApic) /\ WF_vars(EndOfInterrupt)

----------------------------------------------------------------------------
(* Signals and requests belong together whatever the guest does with ends  *)
(* of interrupt and priorities.  A request that may be delivered has been  *)
(* signalled: it never waits for an unrelated message.  And behind a       *)
(* signalled line there is a request above everything in service:          *)
(* apic_get_interrupt never finds irr empty, where it aborts, and what it  *)
(* accepts nests inside what it interrupts.                                *)
SignalledInOrder ==
  /\ Deliverable(apic) => apic.line
  /\ apic.line => Highest(apic.irr) > Highest(apic.isr)

(* The one line shared by both controllers stays up for a local APIC       *)
(* request until it is taken, unless an 8259 was initialized meanwhile,    *)
(* and the processor never acknowledges a line nobody asked for.           *)
SharedLineHeard ==
  /\ apic.line /\ ~lost.icw1 => intr
  /\ pic /\ ~lost.ack => intr
  /\ intr => apic.line \/ pic

(* No level pin goes deaf.  But for an orphan, remote IRR is only set      *)
(* while an end of interrupt is owed that clears it or the request still   *)
(* waits under the mask; and an unmasked pin that is up has its vector     *)
(* requested or in service, but for the two ways the code loses track.     *)
LevelPinsHeard ==
  /\ \A l \in LevelPins \ lost.orphan : redir[l].remote =>
       \/ VecOf[l] \in (apic.irr \cup apic.isr) \cap apic.tmr
       \/ redir[l].masked /\ l \in ioapic.irr
  /\ \A l \in (LevelPins \cap high) \ (lost.eoi \cup lost.orphan) :
       redir[l].masked \/ VecOf[l] \in apic.irr \cup apic.isr

(* A rising edge reaches the local APIC at once or, under the mask, when   *)
(* it is lifted: no later lowering, masking or raise drops it.             *)
EdgeRemembered ==
  [][\A l \in Pins \ LevelPins :
       l \in ioapic.irr /\ l \notin ioapic'.irr => VecOf[l] \in apic'.irr]_vars

(* The highest vector is always served, nothing can hold it back for ever, *)
(* as long as no 8259 is initialized while it is signalled.                *)
TopServed ==
  LET v == Highest(Vectors)
  IN <>[]~lost.icw1 => (v \in apic.irr ~> v \in apic.isr)

=============================================================================
