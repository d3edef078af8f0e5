----------------------------- MODULE ApicProofs -----------------------------
(* For every set of pins, vectors and priorities: what the local APIC       *)
(* signals, what the line it shares with the 8259s shows, and what the      *)
(* remote IRR of a level pin and the request of an edge pin stand for.      *)
EXTENDS Apic, TLAPS, WellFoundedInduction

(* Sets of vectors have a highest one.                                      *)

\* A non-empty set of natural numbers has a least one.
LEMMA Least ==
  ASSUME NEW T \in SUBSET Nat, T # {}
  PROVE  \E m \in T : \A n \in T : m <= n
  <1>1. PICK m \in T : \A n \in T : ~ (<<n, m>> \in OpToRel(<, Nat))
      BY WFMin, NatLessThanWellFounded, Zenon
  <1>2. \A n \in T : ~ (n < m)
      BY <1>1, Zenon DEF OpToRel
  <1>3. \A n \in T : n \in Nat
      OBVIOUS
  <1> QED BY <1>2, <1>3

\* highest_set_bit: -1 of no bit, or a bit that none is above.
LEMMA HighestIs ==
  ASSUME NEW S \in SUBSET (0..255)
  PROVE  /\ Highest(S) \in Int /\ -1 <= Highest(S) /\ Highest(S) <= 255
         /\ S = {} => Highest(S) = -1
         /\ S # {} => Highest(S) \in S
         /\ \A w \in S : w <= Highest(S)
  <1>1. CASE S = {}
      BY <1>1 DEF Highest
  <1>2. CASE S # {}
    <2> DEFINE T == {n \in 0..255 : 255 - n \in S}
    <2>1. PICK m \in T : \A n \in T : m <= n
      <3>1. PICK w \in S : TRUE
          BY <1>2
      <3>2. 255 - w \in T
          BY <3>1
      <3>3. T \in SUBSET Nat
          OBVIOUS
      <3>4. T # {}
          BY <3>2
      <3> HIDE DEF T
      <3> QED BY <3>3, <3>4, Least
    <2>2. 255 - m \in S
        BY <2>1
    <2>3. \A w \in S : w <= 255 - m
      <3> SUFFICES ASSUME NEW w \in S PROVE w <= 255 - m
          OBVIOUS
      <3>1. 255 - w \in T
          OBVIOUS
      <3>2. m <= 255 - w
          BY <2>1, <3>1
      <3> QED BY <2>1, <3>2
    <2>4. Highest(S) \in S /\ \A w \in S : w <= Highest(S)
        BY <1>2, <2>2, <2>3 DEF Highest
    <2>5. Highest(S) \in 0..255
        BY <2>4
    <2> QED BY <1>2, <2>4, <2>5
  <1> QED BY <1>1, <1>2

\* More bits do not lower the highest.
LEMMA HighestGrows ==
  ASSUME NEW T \in SUBSET (0..255), NEW S \in SUBSET T
  PROVE  Highest(S) <= Highest(T)
  <1>1. S \in SUBSET (0..255)
      OBVIOUS
  <1>2. /\ Highest(S) \in Int /\ Highest(T) \in Int /\ -1 <= Highest(T)
        /\ S = {} => Highest(S) = -1
        /\ S # {} => Highest(S) \in S
        /\ \A w \in T : w <= Highest(T)
      BY <1>1, HighestIs
  <1> QED BY <1>2

\* What is above stays above when it grows and the other shrinks.
LEMMA StillAbove ==
  ASSUME NEW T \in SUBSET (0..255), NEW S \in SUBSET T,
         NEW U \in SUBSET (0..255), NEW V \in SUBSET U, Highest(S) > Highest(U)
  PROVE  Highest(T) > Highest(V)
  <1>1. Highest(S) <= Highest(T) /\ Highest(V) <= Highest(U)
      BY HighestGrows
  <1>2. S \in SUBSET (0..255) /\ V \in SUBSET (0..255)
      OBVIOUS
  <1>3. /\ Highest(S) \in Int /\ Highest(T) \in Int
        /\ Highest(U) \in Int /\ Highest(V) \in Int
      BY <1>2, HighestIs
  <1> QED BY <1>1, <1>3

----------------------------------------------------------------------------
(* The types, and the order the local APIC keeps.                           *)

Entry == [masked : BOOLEAN, remote : BOOLEAN, polarity : BOOLEAN]
IoApic == [irr : SUBSET Pins, pin : SUBSET Pins]
Bits == SUBSET (16..254)
Local == [irr : Bits, isr : Bits, tmr : Bits, tpr : 0..15, line : BOOLEAN]

TypeOK ==
  /\ redir \in [Pins -> Entry] /\ ioapic \in IoApic /\ apic \in Local
  /\ intr \in BOOLEAN /\ pic \in BOOLEAN /\ high \in SUBSET Pins
  /\ lost \in [eoi : SUBSET Pins, orphan : SUBSET Pins, icw1 : BOOLEAN, ack : BOOLEAN]

Above(a) == Highest(a.irr) > Highest(a.isr)
Ordered(a) == (Deliverable(a) => a.line) /\ (a.line => Above(a))

\* INTR follows the line that the local APIC raises.
Signals == intr' = (intr \/ (apic'.line /\ ~apic.line))

\* The vectors that the pins of S send.
Sent(S) == {VecOf[l] : l \in S}

\* The highest bits of a local APIC's registers are numbers.
LEMMA HighestOf ==
  ASSUME NEW a \in Local
  PROVE  /\ a.irr \in SUBSET (0..255) /\ a.isr \in SUBSET (0..255)
         /\ Highest(a.irr) \in Int /\ Highest(a.isr) \in Int
  <1>1. a.irr \in SUBSET (0..255) /\ a.isr \in SUBSET (0..255)
      BY DEF Local, Bits
  <1> QED BY <1>1, HighestIs

\* Looking for a request to signal changes the line only, and leaves it right.
LEMMA SendKeeps ==
  ASSUME NEW a \in Local, a.line => Above(a)
  PROVE  /\ Send(a) \in Local /\ Ordered(Send(a))
         /\ Send(a).irr = a.irr /\ Send(a).isr = a.isr /\ Send(a).tmr = a.tmr
         /\ Send(a).tpr = a.tpr
         /\ a.line => Send(a).line
  <1>1. Deliverable(a) \in BOOLEAN
      BY DEF Deliverable
  <1>2. /\ Send(a) \in Local
        /\ Send(a).irr = a.irr /\ Send(a).isr = a.isr /\ Send(a).tmr = a.tmr
        /\ Send(a).tpr = a.tpr /\ Send(a).line = (a.line \/ Deliverable(a))
      BY <1>1 DEF Send, Local
  <1>3. Deliverable(Send(a)) <=> Deliverable(a)
      BY <1>2 DEF Deliverable
  <1>4. Above(Send(a)) <=> Above(a)
      BY <1>2 DEF Above
  <1>5. Deliverable(a) => Above(a)
      BY HighestOf DEF Deliverable, Above
  <1> QED BY <1>2, <1>3, <1>4, <1>5 DEF Ordered

\* Messages are requested afterwards, mark their trigger mode if they are new,
\* and are signalled if they may be delivered.
LEMMA ReceiveKeeps ==
  ASSUME NEW a \in Local, Ordered(a), NEW V \in Bits, NEW L \in Bits,
         NEW b, b = Receive(a, V, L)
  PROVE  /\ b \in Local /\ Ordered(b)
         /\ b.irr = a.irr \cup V /\ b.isr = a.isr /\ b.tpr = a.tpr
         /\ b.tmr = (a.tmr \ (V \ a.irr)) \cup (L \cap (V \ a.irr))
         /\ a.line => b.line
  <1> DEFINE new == V \ a.irr
             i == a.irr \cup new
             t == (a.tmr \ new) \cup (L \cap new)
             c == [a EXCEPT !.irr = i, !.tmr = t]
  <1>1. /\ new = {} => b = a
        /\ new # {} => b = Send(c)
      BY DEF Receive
  <1>2. /\ i \in Bits /\ t \in Bits /\ i = a.irr \cup V
        /\ new = {} => i = a.irr /\ t = a.tmr
      BY DEF Local, Bits
  <1>3. t = (a.tmr \ (V \ a.irr)) \cup (L \cap (V \ a.irr))
      OBVIOUS
  <1> HIDE DEF new, i, t
  <1>4. /\ c \in Local /\ c.irr = i /\ c.tmr = t
        /\ c.isr = a.isr /\ c.tpr = a.tpr /\ c.line = a.line
      BY <1>2 DEF Local
  <1> HIDE DEF c
  <1>5. CASE new = {}
      BY <1>1, <1>2, <1>3, <1>5
  <1>6. CASE new # {}
    <2>1. a.line => Above(c)
      <3>1. c.irr \in SUBSET (0..255) /\ c.isr \in SUBSET (0..255)
          BY <1>4, HighestOf
      <3>2. a.irr \in SUBSET c.irr /\ c.isr \in SUBSET a.isr /\ a.isr \in SUBSET (0..255)
          BY <1>2, <1>4, HighestOf
      <3>3. a.line => Highest(a.irr) > Highest(a.isr)
          BY DEF Ordered, Above
      <3> QED BY <3>1, <3>2, <3>3, StillAbove DEF Above
    <2>2. c.line => a.line
        BY <1>4 DEF Local
    <2>3. c.line => Above(c)
        BY <2>1, <2>2
    <2>4. /\ b \in Local /\ Ordered(b) /\ b.irr = c.irr /\ b.isr = c.isr
          /\ b.tmr = c.tmr /\ b.tpr = c.tpr
          /\ c.line => b.line
      <3>1. b = Send(c)
          BY <1>1, <1>6
      <3> QED BY <1>4, <2>3, <3>1, SendKeeps
    <2> QED BY <1>2, <1>3, <1>4, <2>4
  <1> QED BY <1>5, <1>6

\* A vector is sent if its pin is.
LEMMA SentIs ==
  ASSUME NEW S \in SUBSET Pins
  PROVE  /\ Sent(S) \in Bits
         /\ \A l \in Pins : VecOf[l] \in Sent(S) <=> l \in S
  <1>1. \A l \in Pins : VecOf[l] \in 16..254
      BY ConstantsOK
  <1>2. Sent(S) \in Bits
      BY <1>1 DEF Sent, Bits
  <1>3. ASSUME NEW l \in Pins, VecOf[l] \in Sent(S) PROVE l \in S
    <2>1. PICK k \in S : VecOf[l] = VecOf[k]
        BY <1>3 DEF Sent
    <2> QED BY <2>1, ConstantsOK
  <1>4. \A l \in S : VecOf[l] \in Sent(S)
      BY DEF Sent
  <1> QED BY <1>2, <1>3, <1>4

\* The messages of pins S reach the local APIC.
LEMMA Arrive ==
  ASSUME TypeOK, Ordered(apic), NEW S \in SUBSET Pins,
         Become(Receive(apic, Sent(S), Sent(S \cap LevelPins)))
  PROVE  /\ apic' \in Local /\ intr' \in BOOLEAN /\ Ordered(apic')
         /\ apic'.irr = apic.irr \cup Sent(S) /\ apic'.isr = apic.isr
         /\ apic.line => apic'.line
         /\ \A l \in LevelPins :
              \/ VecOf[l] \in apic.tmr
              \/ l \in S /\ VecOf[l] \notin apic.irr
              => VecOf[l] \in apic'.tmr
  <1> DEFINE V == Sent(S)
             L == Sent(S \cap LevelPins)
  <1>1. /\ V \in Bits /\ L \in Bits
        /\ \A l \in LevelPins : (VecOf[l] \in V <=> l \in S) /\ (VecOf[l] \in L <=> l \in S)
    <2>1. S \cap LevelPins \in SUBSET Pins
        OBVIOUS
    <2> QED BY <2>1, SentIs, ConstantsOK
  <1>2. apic \in Local /\ apic' = Receive(apic, V, L)
      BY DEF TypeOK, Become
  <1>3. intr' \in BOOLEAN
      BY DEF Become
  <1> HIDE DEF V, L
  <1>4. /\ apic' \in Local /\ Ordered(apic')
        /\ apic'.irr = apic.irr \cup V /\ apic'.isr = apic.isr
        /\ apic'.tmr = (apic.tmr \ (V \ apic.irr)) \cup (L \cap (V \ apic.irr))
        /\ apic.line => apic'.line
      BY <1>1, <1>2, ReceiveKeeps
  <1> QED BY <1>1, <1>3, <1>4 DEF V

\* The pins an update of the I/O APIC sends: unmasked in t and requested in io.
Unmasked(t, S) == {l \in S : ~t[l].masked}

\* ioapic_update keeps the types, and sends what is requested and unmasked.
LEMMA UpdateKeeps ==
  ASSUME TypeOK, Ordered(apic), NEW t \in [Pins -> Entry], NEW io \in IoApic, Update(t, io)
  PROVE  /\ redir' = t /\ ioapic' \in IoApic /\ apic' \in Local /\ intr' \in BOOLEAN
         /\ lost' \in [eoi : SUBSET Pins, orphan : SUBSET Pins, icw1 : BOOLEAN, ack : BOOLEAN]
         /\ Ordered(apic') /\ Signals
         /\ apic.line => apic'.line
         /\ Unmasked(t, io.irr) \in SUBSET Pins
         /\ Become(Receive(apic, Sent(Unmasked(t, io.irr)), Sent(Unmasked(t, io.irr) \cap LevelPins)))
         /\ ioapic'.irr = io.irr \ (Unmasked(t, io.irr) \ LevelPins)
         /\ lost' = Settled(Unmasked(t, io.irr))
  <1> DEFINE S == Unmasked(t, io.irr)
  <1>1. S \in SUBSET Pins
      BY DEF Unmasked, IoApic
  <1>2. /\ redir' = t /\ ioapic' = [io EXCEPT !.irr = @ \ (S \ LevelPins)]
        /\ Become(Receive(apic, Sent(S), Sent(S \cap LevelPins)))
        /\ lost' = Settled(S)
      BY DEF Update, Unmasked, Sent
  <1> HIDE DEF S
  <1>3. /\ apic' \in Local /\ intr' \in BOOLEAN /\ Ordered(apic')
        /\ apic.line => apic'.line
      BY <1>1, <1>2, Arrive
  <1>4. ioapic' \in IoApic /\ ioapic'.irr = io.irr \ (S \ LevelPins)
      BY <1>2 DEF IoApic
  <1>5. lost' \in [eoi : SUBSET Pins, orphan : SUBSET Pins, icw1 : BOOLEAN, ack : BOOLEAN]
      BY <1>2 DEF Settled, TypeOK
  <1>6. Signals
      BY <1>2 DEF Become, Signals
  <1> QED BY <1>1, <1>2, <1>3, <1>4, <1>5, <1>6 DEF S

\* Every step keeps the types, and the local APIC signals in order.
LEMMA LocalStep ==
  ASSUME TypeOK, Ordered(apic), [Next]_vars
  PROVE  TypeOK' /\ Ordered(apic')
  <1> USE DEF Local
  <1>1. ASSUME NEW l \in Pins, Raise(l) PROVE TypeOK' /\ Ordered(apic')
    <2> DEFINE t == [redir EXCEPT ![l].polarity = TRUE]
               u == [t EXCEPT ![l].remote = TRUE]
               io == [irr |-> ioapic.irr \cup {l}, pin |-> ioapic.pin \cup {l}]
    <2>1. t \in [Pins -> Entry] /\ u \in [Pins -> Entry] /\ io \in IoApic
        BY DEF TypeOK, Entry, IoApic
    <2>2. high' \in SUBSET Pins /\ pic' \in BOOLEAN
        BY <1>1 DEF Raise, TypeOK
    <2>3. \/ Update(u, io) \/ Update(t, io)
          \/ redir' = t /\ UNCHANGED <<ioapic, apic, intr, lost>>
        BY <1>1 DEF Raise
    <2> HIDE DEF t, u, io
    <2>4. CASE Update(u, io)
        BY <2>1, <2>2, <2>4, UpdateKeeps DEF TypeOK
    <2>5. CASE Update(t, io)
        BY <2>1, <2>2, <2>5, UpdateKeeps DEF TypeOK
    <2>6. CASE redir' = t /\ UNCHANGED <<ioapic, apic, intr, lost>>
        BY <2>1, <2>2, <2>6 DEF TypeOK
    <2> QED BY <2>3, <2>4, <2>5, <2>6
  <1>2. ASSUME NEW l \in Pins, Lower(l) PROVE TypeOK' /\ Ordered(apic')
    <2>1. redir' \in [Pins -> Entry] /\ high' \in SUBSET Pins
        BY <1>2 DEF Lower, TypeOK, Entry
    <2>2. ioapic' \in IoApic
        BY <1>2 DEF Lower, TypeOK, IoApic
    <2>3. lost' \in [eoi : SUBSET Pins, orphan : SUBSET Pins, icw1 : BOOLEAN, ack : BOOLEAN]
        BY <1>2 DEF Lower, TypeOK
    <2> QED BY <1>2, <2>1, <2>2, <2>3 DEF Lower, TypeOK
  <1>3. ASSUME NEW l \in Pins, NEW m \in BOOLEAN, NEW k \in BOOLEAN, WriteRedir(l, m, k)
        PROVE  TypeOK' /\ Ordered(apic')
    <2> DEFINE S == {p \in ioapic.irr : IF p = l THEN ~m ELSE ~redir[p].masked}
    <2>1. S \in SUBSET Pins
        BY DEF TypeOK, IoApic
    <2>2. Become(Receive(apic, Sent(S), Sent(S \cap LevelPins)))
        BY <1>3 DEF WriteRedir, Sent
    <2>3. redir' \in [Pins -> Entry]
        BY <1>3 DEF WriteRedir, TypeOK, Entry
    <2>4. ioapic' \in IoApic
        BY <1>3 DEF WriteRedir, TypeOK, IoApic
    <2>5. lost' \in [eoi : SUBSET Pins, orphan : SUBSET Pins, icw1 : BOOLEAN, ack : BOOLEAN]
        BY <1>3, <2>1 DEF WriteRedir, Settled, TypeOK
    <2> HIDE DEF S
    <2>6. apic' \in Local /\ intr' \in BOOLEAN /\ Ordered(apic')
        BY <2>1, <2>2, Arrive
    <2> QED BY <1>3, <2>3, <2>4, <2>5, <2>6 DEF WriteRedir, TypeOK
  <1>4. ASSUME EndOfInterrupt PROVE TypeOK' /\ Ordered(apic')
    <2> DEFINE v == Highest(apic.isr)
               rest == apic.isr \ {v}
               b == [apic EXCEPT !.isr = rest]
               ended == {l \in Pins : VecOf[l] = v /\ v \in apic.tmr}
    <2>1. apic' = Send(b) /\ intr' \in BOOLEAN
        BY <1>4 DEF EndOfInterrupt, Become
    <2>2. redir' \in [Pins -> Entry]
        BY <1>4 DEF EndOfInterrupt, RemoteEoi, TypeOK, Entry
    <2>3. lost' \in [eoi : SUBSET Pins, orphan : SUBSET Pins, icw1 : BOOLEAN, ack : BOOLEAN]
        BY <1>4 DEF EndOfInterrupt, TypeOK
    <2>4. rest \in SUBSET apic.isr
        OBVIOUS
    <2> HIDE DEF rest, v, ended
    <2>5. /\ b \in Local /\ b.irr = apic.irr /\ b.isr = rest
          /\ b.line => apic.line
        BY <2>4 DEF TypeOK, Bits
    <2> HIDE DEF b
    <2>6. b.line => Above(b)
      <3>1. apic.irr \in SUBSET (0..255) /\ apic.isr \in SUBSET (0..255)
          BY HighestOf DEF TypeOK
      <3>2. apic.line => Highest(apic.irr) > Highest(apic.isr)
          BY DEF Ordered, Above
      <3> QED BY <2>4, <2>5, <3>1, <3>2, StillAbove DEF Above
    <2>7. apic' \in Local /\ Ordered(apic')
        BY <2>1, <2>5, <2>6, SendKeeps
    <2> QED BY <1>4, <2>1, <2>2, <2>3, <2>7 DEF EndOfInterrupt, TypeOK
  <1>5. ASSUME NEW c \in Tprs, WriteTaskPriority(c) PROVE TypeOK' /\ Ordered(apic')
    <2> DEFINE b == [apic EXCEPT !.tpr = c]
    <2>1. apic' = Send(b) /\ intr' \in BOOLEAN
        BY <1>5 DEF WriteTaskPriority, Become
    <2>2. b \in Local /\ (b.line => apic.line) /\ b.irr = apic.irr /\ b.isr = apic.isr
        BY ConstantsOK DEF TypeOK
    <2> HIDE DEF b
    <2>3. b.line => Above(b)
        BY <2>2 DEF Ordered, Above
    <2>4. apic' \in Local /\ Ordered(apic')
        BY <2>1, <2>2, <2>3, SendKeeps
    <2> QED BY <1>5, <2>1, <2>4 DEF WriteTaskPriority, TypeOK
  <1>6. ASSUME NEW v \in IpiVecs, SendExternal(v) PROVE TypeOK' /\ Ordered(apic')
    <2> DEFINE more == apic.irr \cup {v}
               b == [apic EXCEPT !.irr = more]
    <2>1. apic' = Send(b) /\ intr' \in BOOLEAN
        BY <1>6 DEF SendExternal, Become
    <2>2. more \in Bits /\ apic.irr \in SUBSET more
      <3>1. v \in 16..254 /\ apic.irr \in SUBSET (16..254)
          BY ConstantsOK DEF TypeOK, Bits
      <3> QED BY <3>1 DEF Bits
    <2> HIDE DEF more
    <2>3. /\ b \in Local /\ b.irr = more /\ b.isr = apic.isr
          /\ b.line => apic.line
        BY <2>2 DEF TypeOK
    <2> HIDE DEF b
    <2>4. b.line => Above(b)
      <3>1. more \in SUBSET (0..255) /\ apic.isr \in SUBSET (0..255) /\ apic.isr \in SUBSET apic.isr
          BY <2>2, HighestOf DEF TypeOK, Bits
      <3>2. apic.line => Highest(apic.irr) > Highest(apic.isr)
          BY DEF Ordered, Above
      <3> QED BY <2>2, <2>3, <3>1, <3>2, StillAbove DEF Above
    <2>5. apic' \in Local /\ Ordered(apic')
        BY <2>1, <2>3, <2>4, SendKeeps
    <2> QED BY <1>6, <2>1, <2>5 DEF SendExternal, TypeOK
  <1>7. ASSUME NEW v \in IpiVecs, NEW level \in BOOLEAN, SendIpi(v, level)
        PROVE  TypeOK' /\ Ordered(apic')
    <2> DEFINE V == {v}
               L == IF level THEN {v} ELSE {}
    <2>1. apic' = Receive(apic, V, L) /\ intr' \in BOOLEAN
        BY <1>7 DEF SendIpi, Become
    <2>2. V \in Bits /\ L \in Bits
        BY ConstantsOK DEF Bits
    <2> HIDE DEF V, L
    <2>3. apic' \in Local /\ Ordered(apic')
        BY <2>1, <2>2, ReceiveKeeps DEF TypeOK
    <2> QED BY <1>7, <2>1, <2>3 DEF SendIpi, TypeOK
  <1>8. ASSUME Request8259 \/ Initialize8259 \/ Acknowledge8259 PROVE TypeOK' /\ Ordered(apic')
      BY <1>8 DEF Request8259, Initialize8259, Acknowledge8259, TypeOK
  <1>9. ASSUME AcknowledgeApic PROVE TypeOK' /\ Ordered(apic')
    <2> DEFINE v == Highest(apic.irr)
               i == apic.irr \ {v}
               s == apic.isr \cup {v}
    <2>1. apic' = [apic EXCEPT !.irr = i, !.isr = s, !.line = FALSE] /\ apic.line
        BY <1>9 DEF AcknowledgeApic
    <2>2. v \in apic.irr
      <3>1. v > Highest(apic.isr)
          BY <2>1 DEF Ordered, Above
      <3>2. apic.isr \in SUBSET (0..255) /\ apic.irr \in SUBSET (0..255)
          BY HighestOf DEF TypeOK
      <3>3. Highest(apic.isr) >= -1 /\ Highest(apic.isr) \in Int
          BY <3>2, HighestIs
      <3>4. apic.irr = {} => v = -1
          BY <3>2, HighestIs
      <3>5. apic.irr # {}
          BY <3>1, <3>3, <3>4
      <3> QED BY <3>2, <3>5, HighestIs
    <2>3. i \in Bits /\ s \in Bits /\ i \in SUBSET apic.irr /\ v \in s
        BY <2>2 DEF TypeOK, Bits
    <2> HIDE DEF i, s
    <2>4. apic' \in Local /\ apic'.irr = i /\ apic'.isr = s /\ apic'.line = FALSE
        BY <2>1, <2>3 DEF TypeOK
    <2>5. ~ (Highest(s) < Highest(i))
      <3>1. Highest(i) <= v
        <4>1. apic.irr \in SUBSET (0..255)
            BY HighestOf DEF TypeOK
        <4> QED BY <2>3, <4>1, HighestGrows
      <3>2. v <= Highest(s) /\ Highest(s) \in Int
        <4>1. s \in SUBSET (0..255)
            BY <2>3 DEF Bits
        <4> QED BY <2>3, <4>1, HighestIs
      <3>3. Highest(i) \in Int /\ v \in Int
        <4>1. i \in SUBSET (0..255) /\ apic.irr \in SUBSET (0..255)
            BY <2>3, HighestOf DEF TypeOK, Bits
        <4> QED BY <4>1, HighestIs
      <3> QED BY <3>1, <3>2, <3>3
    <2>6. Ordered(apic')
        BY <2>4, <2>5 DEF Ordered, Deliverable
    <2>7. lost' \in [eoi : SUBSET Pins, orphan : SUBSET Pins, icw1 : BOOLEAN, ack : BOOLEAN]
        BY <1>9 DEF AcknowledgeApic, TypeOK
    <2> QED BY <1>9, <2>4, <2>6, <2>7 DEF AcknowledgeApic, TypeOK
  <1>10. ASSUME UNCHANGED vars PROVE TypeOK' /\ Ordered(apic')
      BY <1>10 DEF vars, TypeOK
  <1> QED BY <1>1, <1>2, <1>3, <1>4, <1>5, <1>6, <1>7, <1>8, <1>9, <1>10 DEF Next

----------------------------------------------------------------------------
(* The line shared with the 8259s.                                          *)

\* A step of the guest or a device: it lowers no line and takes no request.
Quiet ==
  /\ apic.line => apic'.line
  /\ Signals
  /\ pic' = pic /\ lost'.icw1 = lost.icw1 /\ lost'.ack = lost.ack

\* Such a step keeps the shared line up for those who asked.
LEMMA QuietKeepsLine ==
  ASSUME SharedLineHeard, Quiet
  PROVE  SharedLineHeard'
  BY DEF SharedLineHeard, Quiet, Signals

\* Updating the I/O APIC is such a step.
LEMMA UpdateIsQuiet ==
  ASSUME TypeOK, Ordered(apic), NEW t \in [Pins -> Entry], NEW io \in IoApic, Update(t, io),
         pic' = pic
  PROVE  Quiet
  <1>1. (apic.line => apic'.line) /\ Signals /\ lost' = Settled(Unmasked(t, io.irr))
      BY UpdateKeeps
  <1> QED BY <1>1 DEF Quiet, Settled, TypeOK

\* Every step keeps the shared line up for those who asked.
LEMMA LineStep ==
  ASSUME TypeOK, Ordered(apic), SharedLineHeard, [Next]_vars
  PROVE  SharedLineHeard'
  <1>1. ASSUME NEW l \in Pins, Raise(l) PROVE SharedLineHeard'
    <2> DEFINE t == [redir EXCEPT ![l].polarity = TRUE]
               u == [t EXCEPT ![l].remote = TRUE]
               io == [irr |-> ioapic.irr \cup {l}, pin |-> ioapic.pin \cup {l}]
    <2>1. t \in [Pins -> Entry] /\ u \in [Pins -> Entry] /\ io \in IoApic
        BY DEF TypeOK, Entry, IoApic
    <2>2. pic' = pic
        BY <1>1 DEF Raise
    <2>3. Update(u, io) \/ Update(t, io) \/ UNCHANGED <<apic, intr, lost>>
        BY <1>1 DEF Raise
    <2> HIDE DEF t, u, io
    <2>4. CASE UNCHANGED <<apic, intr, lost>>
        BY <2>2, <2>4 DEF SharedLineHeard
    <2> QED BY <2>1, <2>2, <2>3, <2>4, UpdateIsQuiet, QuietKeepsLine
  <1>2. ASSUME NEW l \in Pins, Lower(l) PROVE SharedLineHeard'
      BY <1>2 DEF Lower, SharedLineHeard, TypeOK
  <1>3. ASSUME NEW l \in Pins, NEW m \in BOOLEAN, NEW k \in BOOLEAN, WriteRedir(l, m, k)
        PROVE  SharedLineHeard'
    <2> DEFINE S == {p \in ioapic.irr : IF p = l THEN ~m ELSE ~redir[p].masked}
    <2>1. S \in SUBSET Pins
        BY DEF TypeOK, IoApic
    <2>2. Become(Receive(apic, Sent(S), Sent(S \cap LevelPins)))
        BY <1>3 DEF WriteRedir, Sent
    <2>3. pic' = pic /\ lost'.icw1 = lost.icw1 /\ lost'.ack = lost.ack
        BY <1>3 DEF WriteRedir, Settled, TypeOK
    <2> HIDE DEF S
    <2>4. apic.line => apic'.line
        BY <2>1, <2>2, Arrive
    <2>5. Signals
        BY <2>2 DEF Become, Signals
    <2> QED BY <2>3, <2>4, <2>5, QuietKeepsLine DEF Quiet
  <1>4. ASSUME NEW b, Become(Send(b)), b.line = apic.line, b \in Local, pic' = pic,
               lost'.icw1 = lost.icw1, lost'.ack = lost.ack
        PROVE  SharedLineHeard'
    <2>1. Send(b).line = (b.line \/ Deliverable(b))
        BY <1>4 DEF Send, Local
    <2>2. apic' = Send(b) /\ Signals
        BY <1>4 DEF Become, Signals
    <2>3. apic.line => apic'.line
        BY <1>4, <2>1, <2>2
    <2> QED BY <1>4, <2>2, <2>3, QuietKeepsLine DEF Quiet
  <1>5. ASSUME EndOfInterrupt PROVE SharedLineHeard'
    <2> DEFINE rest == apic.isr \ {Highest(apic.isr)}
               b == [apic EXCEPT !.isr = rest]
    <2>1. /\ Become(Send(b)) /\ pic' = pic /\ lost'.icw1 = lost.icw1 /\ lost'.ack = lost.ack
        BY <1>5 DEF EndOfInterrupt, TypeOK
    <2>2. rest \in Bits
        BY DEF TypeOK, Local, Bits
    <2> HIDE DEF rest
    <2>3. b.line = apic.line /\ b \in Local
        BY <2>2 DEF TypeOK, Local
    <2> HIDE DEF b
    <2> QED BY <1>4, <2>1, <2>3
  <1>6. ASSUME NEW c \in Tprs, WriteTaskPriority(c) PROVE SharedLineHeard'
    <2> DEFINE b == [apic EXCEPT !.tpr = c]
    <2>1. /\ Become(Send(b)) /\ pic' = pic /\ lost'.icw1 = lost.icw1 /\ lost'.ack = lost.ack
        BY <1>6 DEF WriteTaskPriority
    <2>2. b.line = apic.line /\ b \in Local
        BY ConstantsOK DEF TypeOK, Local
    <2> HIDE DEF b
    <2> QED BY <1>4, <2>1, <2>2
  <1>7. ASSUME NEW v \in IpiVecs, SendExternal(v) PROVE SharedLineHeard'
    <2> DEFINE more == apic.irr \cup {v}
               b == [apic EXCEPT !.irr = more]
    <2>1. /\ Become(Send(b)) /\ pic' = pic /\ lost'.icw1 = lost.icw1 /\ lost'.ack = lost.ack
        BY <1>7 DEF SendExternal
    <2>2. more \in Bits
      <3>1. v \in 16..254 /\ apic.irr \in SUBSET (16..254)
          BY ConstantsOK DEF TypeOK, Local, Bits
      <3> QED BY <3>1 DEF Bits
    <2> HIDE DEF more
    <2>3. b.line = apic.line /\ b \in Local
        BY <2>2 DEF TypeOK, Local
    <2> HIDE DEF b
    <2> QED BY <1>4, <2>1, <2>3
  <1>8. ASSUME NEW v \in IpiVecs, NEW level \in BOOLEAN, SendIpi(v, level) PROVE SharedLineHeard'
    <2> DEFINE V == {v}
               L == IF level THEN {v} ELSE {}
    <2>1. /\ Become(Receive(apic, V, L)) /\ pic' = pic
          /\ lost'.icw1 = lost.icw1 /\ lost'.ack = lost.ack
        BY <1>8 DEF SendIpi
    <2>2. V \in Bits /\ L \in Bits
        BY ConstantsOK DEF Bits
    <2> HIDE DEF V, L
    <2>3. apic' = Receive(apic, V, L) /\ Signals
        BY <2>1 DEF Become, Signals
    <2>4. apic.line => apic'.line
        BY <2>2, <2>3, ReceiveKeeps DEF TypeOK
    <2> QED BY <2>1, <2>3, <2>4, QuietKeepsLine DEF Quiet
  <1>9. ASSUME Request8259 \/ Initialize8259 \/ Acknowledge8259 PROVE SharedLineHeard'
      BY <1>9 DEF Request8259, Initialize8259, Acknowledge8259, SharedLineHeard, TypeOK
  <1>10. ASSUME AcknowledgeApic PROVE SharedLineHeard'
    <2>1. apic'.line = FALSE
        BY <1>10 DEF AcknowledgeApic, TypeOK, Local
    <2> QED BY <1>10, <2>1 DEF AcknowledgeApic, SharedLineHeard, TypeOK
  <1>11. ASSUME UNCHANGED vars PROVE SharedLineHeard'
      BY <1>11 DEF vars, SharedLineHeard
  <1> QED BY <1>1, <1>2, <1>3, <1>5, <1>6, <1>7, <1>8, <1>9, <1>10, <1>11 DEF Next

----------------------------------------------------------------------------
(* What the remote IRR of a level pin, and a level pin that is up, stand    *)
(* for: the vector of the pin is requested or in service, and marked as     *)
(* level-triggered, or the pin waits under its mask.                        *)

Owed(l) == VecOf[l] \in apic.irr \cup apic.isr
Waits(l) == redir[l].masked /\ l \in ioapic.irr

LevelInv ==
  /\ \A l \in LevelPins : Owed(l) => VecOf[l] \in apic.tmr
  /\ \A l \in LevelPins \ lost.orphan : redir[l].remote => Owed(l) \/ Waits(l)
  /\ \A l \in (LevelPins \cap high) \ (lost.eoi \cup lost.orphan) : Owed(l) \/ Waits(l)

\* When the requested pins R are looked at and the unmasked ones are sent, a
\* level pin that is requested is owed or waits, and what was owed still is.
LEMMA LevelArrive ==
  ASSUME TypeOK, Ordered(apic), LevelInv, NEW S \in SUBSET Pins, NEW R \in SUBSET Pins,
         Become(Receive(apic, Sent(S), Sent(S \cap LevelPins))),
         \A l \in Pins : l \in S <=> l \in R /\ ~redir'[l].masked,
         ioapic'.irr = R \ (S \ LevelPins)
  PROVE  /\ \A l \in LevelPins : Owed(l)' => VecOf[l] \in apic'.tmr
         /\ \A l \in LevelPins : Owed(l) \/ l \in R => Owed(l)' \/ Waits(l)'
         /\ \A l \in S : Owed(l)'
  <1>1. /\ apic'.irr = apic.irr \cup Sent(S) /\ apic'.isr = apic.isr
        /\ \A l \in LevelPins :
              \/ VecOf[l] \in apic.tmr
              \/ l \in S /\ VecOf[l] \notin apic.irr
              => VecOf[l] \in apic'.tmr
      BY Arrive
  <1>2. \A l \in Pins : VecOf[l] \in Sent(S) <=> l \in S
      BY SentIs
  <1>3. \A l \in Pins : Owed(l)' <=> Owed(l) \/ l \in S
      BY <1>1, <1>2 DEF Owed
  <1>4. LevelPins \in SUBSET Pins
      BY ConstantsOK
  <1>5. \A l \in LevelPins : Owed(l)' => VecOf[l] \in apic'.tmr
    <2> SUFFICES ASSUME NEW l \in LevelPins, Owed(l)' PROVE VecOf[l] \in apic'.tmr
        OBVIOUS
    <2>1. CASE Owed(l)
        BY <1>1, <2>1 DEF LevelInv
    <2>2. CASE ~Owed(l)
        BY <1>1, <1>3, <1>4, <2>2 DEF Owed
    <2> QED BY <2>1, <2>2
  <1>6. ASSUME NEW l \in LevelPins, Owed(l) \/ l \in R PROVE Owed(l)' \/ Waits(l)'
      BY <1>3, <1>4, <1>6 DEF Waits
  <1>7. \A l \in S : Owed(l)'
      BY <1>3
  <1> QED BY <1>5, <1>6, <1>7

\* A step that leaves the pins, their entries and what is owed for them alone.
LEMMA LevelAlone ==
  ASSUME TypeOK, LevelInv, UNCHANGED <<redir, ioapic, high>>,
         lost'.eoi = lost.eoi, lost'.orphan = lost.orphan,
         \A l \in LevelPins : Owed(l)' <=> Owed(l),
         \A l \in LevelPins : VecOf[l] \in apic.tmr => VecOf[l] \in apic'.tmr
  PROVE  LevelInv'
  <1>1. \A l \in LevelPins : Waits(l)' <=> Waits(l)
      BY DEF Waits
  <1> QED BY <1>1 DEF LevelInv

\* An update of the I/O APIC while it holds what it held, and entries t that
\* set remote IRR only for pins requested in io.
LEMMA LevelUpdate ==
  ASSUME TypeOK, Ordered(apic), LevelInv,
         NEW t \in [Pins -> Entry], NEW io \in IoApic, Update(t, io),
         \A k \in Pins : t[k].masked = redir[k].masked,
         ioapic.irr \in SUBSET io.irr,
         \A k \in LevelPins : t[k].remote => redir[k].remote \/ k \in io.irr,
         \A k \in LevelPins \cap high' : k \in high \/ k \in io.irr
  PROVE  LevelInv'
  <1> DEFINE S == Unmasked(t, io.irr)
             R == io.irr
  <1>1. /\ redir' = t /\ S \in SUBSET Pins /\ R \in SUBSET Pins
        /\ Become(Receive(apic, Sent(S), Sent(S \cap LevelPins)))
        /\ ioapic'.irr = R \ (S \ LevelPins)
        /\ lost' = Settled(S)
      BY UpdateKeeps DEF IoApic
  <1>2. \A l \in Pins : l \in S <=> l \in R /\ ~redir'[l].masked
      BY <1>1 DEF Unmasked
  <1>3. lost'.eoi = lost.eoi \ S /\ lost'.orphan = lost.orphan \ S
      BY <1>1 DEF Settled, TypeOK
  <1>4. LevelPins \in SUBSET Pins
      BY ConstantsOK
  <1>5. /\ \A l \in LevelPins : t[l].remote => redir[l].remote \/ l \in R
        /\ \A l \in LevelPins \cap high' : l \in high \/ l \in R
        /\ ioapic.irr \in SUBSET R
      OBVIOUS
  <1> HIDE DEF S, R
  <1>6. /\ \A l \in LevelPins : Owed(l)' => VecOf[l] \in apic'.tmr
        /\ \A l \in LevelPins : Owed(l) \/ l \in R => Owed(l)' \/ Waits(l)'
        /\ \A l \in S : Owed(l)'
      BY <1>1, <1>2, LevelArrive
  <1>7. \A l \in LevelPins : Owed(l) \/ Waits(l) => Owed(l)' \/ Waits(l)'
      BY <1>5, <1>6 DEF Waits
  <1>8. ASSUME NEW l \in LevelPins \ lost'.orphan, redir'[l].remote PROVE Owed(l)' \/ Waits(l)'
      BY <1>1, <1>3, <1>4, <1>5, <1>6, <1>7, <1>8 DEF LevelInv
  <1>9. ASSUME NEW l \in (LevelPins \cap high') \ (lost'.eoi \cup lost'.orphan)
        PROVE  Owed(l)' \/ Waits(l)'
      BY <1>3, <1>4, <1>5, <1>6, <1>7 DEF LevelInv
  <1> QED BY <1>6, <1>8, <1>9 DEF LevelInv

\* Raising a line either delivers it, marked, or leaves it waiting under its
\* mask (ioapic_raise_irq, ioapic_update).
LEMMA LevelRaise ==
  ASSUME TypeOK, Ordered(apic), LevelInv, NEW l \in Pins, Raise(l)
  PROVE  LevelInv'
  <1> DEFINE t == [redir EXCEPT ![l].polarity = TRUE]
             u == [t EXCEPT ![l].remote = TRUE]
             io == [irr |-> ioapic.irr \cup {l}, pin |-> ioapic.pin \cup {l}]
  <1>1. t \in [Pins -> Entry] /\ u \in [Pins -> Entry] /\ io \in IoApic
      BY DEF TypeOK, Entry, IoApic
  <1>2. \A k \in Pins : /\ t[k].masked = redir[k].masked /\ u[k].masked = redir[k].masked
                        /\ t[k].remote = redir[k].remote /\ (k # l => u[k].remote = redir[k].remote)
      BY DEF TypeOK, Entry
  <1>3. ioapic.irr \in SUBSET io.irr /\ l \in io.irr
      OBVIOUS
  <1>4. high' = high \cup {l}
      BY <1>1 DEF Raise
  <1>5. LevelPins \in SUBSET Pins
      BY ConstantsOK
  <1>6. \/ Update(u, io) \/ Update(t, io)
        \/ /\ IF l \in LevelPins THEN t[l].remote ELSE l \in ioapic.pin
           /\ redir' = t
           /\ UNCHANGED <<ioapic, apic, intr, lost>>
      BY DEF Raise
  <1> HIDE DEF t, u, io
  <1>7. CASE Update(u, io)
    <2>1. \A k \in Pins : u[k].masked = redir[k].masked
        BY <1>2
    <2>2. \A k \in LevelPins : u[k].remote => redir[k].remote \/ k \in io.irr
        BY <1>2, <1>3, <1>5
    <2>3. \A k \in LevelPins \cap high' : k \in high \/ k \in io.irr
        BY <1>3, <1>4
    <2> QED BY <1>1, <1>3, <1>7, <2>1, <2>2, <2>3, LevelUpdate
  <1>8. CASE Update(t, io)
    <2>1. \A k \in Pins : t[k].masked = redir[k].masked
        BY <1>2
    <2>2. \A k \in LevelPins : t[k].remote => redir[k].remote \/ k \in io.irr
        BY <1>2, <1>5
    <2>3. \A k \in LevelPins \cap high' : k \in high \/ k \in io.irr
        BY <1>3, <1>4
    <2> QED BY <1>1, <1>3, <1>8, <2>1, <2>2, <2>3, LevelUpdate
  <1>9. CASE /\ IF l \in LevelPins THEN t[l].remote ELSE l \in ioapic.pin
             /\ redir' = t
             /\ UNCHANGED <<ioapic, apic, intr, lost>>
    <2>1. \A k \in LevelPins : (Owed(k)' <=> Owed(k)) /\ (Waits(k)' <=> Waits(k))
        BY <1>2, <1>5, <1>9 DEF Owed, Waits
    <2>2. l \in LevelPins => redir[l].remote
        BY <1>2, <1>9
    <2>3. \A k \in LevelPins : redir'[k].remote = redir[k].remote
        BY <1>2, <1>5, <1>9
    <2> QED BY <1>4, <1>9, <2>1, <2>2, <2>3 DEF LevelInv
  <1> QED BY <1>6, <1>7, <1>8, <1>9

\* Lowering a level line forgets what waited under the mask, and orphans a
\* remote IRR nobody will end (ioapic_lower_irq).
LEMMA LevelLower ==
  ASSUME TypeOK, LevelInv, NEW l \in Pins, Lower(l)
  PROVE  LevelInv'
  <1>1. /\ high' = high \ {l} /\ apic' = apic
        /\ lost'.eoi = lost.eoi \ {l}
        /\ lost'.orphan = IF l \in LevelPins /\ redir[l].remote /\ ~Owed(l)
                          THEN lost.orphan \cup {l} ELSE lost.orphan
      BY DEF Lower, TypeOK, Owed
  <1>2. \A k \in Pins : redir'[k].masked = redir[k].masked /\ redir'[k].remote = redir[k].remote
      BY DEF Lower, TypeOK, Entry
  <1>3. LevelPins \in SUBSET Pins
      BY ConstantsOK
  <1>4. \A k \in LevelPins : (Owed(k)' <=> Owed(k)) /\ (k # l => (Waits(k)' <=> Waits(k)))
    <2>1. \A k \in LevelPins : k # l => (k \in ioapic'.irr <=> k \in ioapic.irr)
        BY DEF Lower
    <2> QED BY <1>1, <1>2, <1>3, <2>1 DEF Owed, Waits
  <1> QED BY <1>1, <1>2, <1>3, <1>4 DEF LevelInv

\* A redirection entry that is unmasked delivers what waited under it, and one
\* rewritten without its remote IRR stops being orphaned (ioapic_write).
LEMMA LevelWrite ==
  ASSUME TypeOK, Ordered(apic), LevelInv, NEW l \in Pins, NEW m \in BOOLEAN, NEW keep \in BOOLEAN,
         WriteRedir(l, m, keep)
  PROVE  LevelInv'
  <1> DEFINE S == {p \in ioapic.irr : IF p = l THEN ~m ELSE ~redir[p].masked}
             e == [masked |-> m, remote |-> keep /\ redir[l].remote,
                   polarity |-> keep /\ redir[l].polarity]
             freed == {l} \cap (IF e.remote THEN {} ELSE lost.orphan)
  <1>1. S \in SUBSET Pins /\ ioapic.irr \in SUBSET Pins
      BY DEF TypeOK, IoApic
  <1>2. Become(Receive(apic, Sent(S), Sent(S \cap LevelPins)))
      BY DEF WriteRedir, Sent
  <1>3. /\ redir'[l].masked = m /\ (redir'[l].remote => redir[l].remote)
        /\ \A k \in Pins : k # l => redir'[k] = redir[k]
      BY DEF WriteRedir, TypeOK
  <1>4. \A k \in Pins : k \in S <=> k \in ioapic.irr /\ ~redir'[k].masked
      BY <1>3
  <1>5. ioapic'.irr = ioapic.irr \ (S \ LevelPins) /\ high' = high
      BY DEF WriteRedir, TypeOK, IoApic
  <1>6. /\ lost'.eoi = (lost.eoi \ S) \cup ((freed \cap high) \ S)
        /\ lost'.orphan = (lost.orphan \ S) \ freed
      BY DEF WriteRedir, Settled, TypeOK
  <1>7. freed \in SUBSET {l} /\ (l \in freed => ~redir'[l].remote)
      BY DEF WriteRedir, TypeOK
  <1> HIDE DEF S, e, freed
  <1>8. LevelPins \in SUBSET Pins
      BY ConstantsOK
  <1>9. /\ \A k \in LevelPins : Owed(k)' => VecOf[k] \in apic'.tmr
        /\ \A k \in LevelPins : Owed(k) \/ k \in ioapic.irr => Owed(k)' \/ Waits(k)'
        /\ \A k \in S : Owed(k)'
      BY <1>1, <1>2, <1>4, <1>5, LevelArrive
  <1>10. \A k \in LevelPins : Owed(k) \/ Waits(k) => Owed(k)' \/ Waits(k)'
      BY <1>9 DEF Waits
  <1>11. ASSUME NEW k \in LevelPins \ lost'.orphan, redir'[k].remote PROVE Owed(k)' \/ Waits(k)'
      BY <1>3, <1>6, <1>7, <1>8, <1>9, <1>10, <1>11 DEF LevelInv
  <1>12. ASSUME NEW k \in (LevelPins \cap high') \ (lost'.eoi \cup lost'.orphan)
         PROVE  Owed(k)' \/ Waits(k)'
      BY <1>5, <1>6, <1>7, <1>9, <1>10 DEF LevelInv
  <1> QED BY <1>9, <1>11, <1>12 DEF LevelInv

\* An end of interrupt clears the remote IRR of the lines of its vector, whose
\* devices then count as heard or as lost.eoi (apic_write, ioapic_remote_eoi).
LEMMA LevelEnd ==
  ASSUME TypeOK, LevelInv, EndOfInterrupt
  PROVE  LevelInv'
  <1> DEFINE v == Highest(apic.isr)
             ended == {l \in Pins : VecOf[l] = v /\ v \in apic.tmr}
             rest == apic.isr \ {v}
             b == [apic EXCEPT !.isr = rest]
  <1>1. ioapic' = ioapic /\ high' = high /\ apic' = Send(b)
      BY DEF EndOfInterrupt, Become
  <1>2. /\ lost'.eoi = lost.eoi \cup {l \in ended \cap high : v \notin apic.irr}
        /\ lost'.orphan = lost.orphan \ ended
      BY DEF EndOfInterrupt, TypeOK
  <1>3. \A l \in Pins : /\ redir'[l].masked = redir[l].masked
                        /\ l \in ended => ~redir'[l].remote
                        /\ l \notin ended => redir'[l].remote = redir[l].remote
      BY DEF EndOfInterrupt, RemoteEoi, TypeOK, Entry
  <1>4. apic'.irr = apic.irr /\ apic'.isr = rest /\ apic'.tmr = apic.tmr
    <2>1. rest \in Bits
        BY DEF TypeOK, Local, Bits
    <2> HIDE DEF rest
    <2>2. b.irr = apic.irr /\ b.isr = rest /\ b.tmr = apic.tmr /\ b \in Local
        BY <2>1 DEF TypeOK, Local
    <2> HIDE DEF b
    <2> QED BY <1>1, <2>2 DEF Send, Local
  <1>5. LevelPins \in SUBSET Pins
      BY ConstantsOK
  <1>6. \A l \in LevelPins : Waits(l)' <=> Waits(l)
      BY <1>1, <1>3, <1>5 DEF Waits
  <1>7. \A l \in LevelPins : /\ Owed(l)' => Owed(l)
                             /\ VecOf[l] # v => (Owed(l)' <=> Owed(l))
                             /\ v \in apic.irr => (Owed(l)' <=> Owed(l))
      BY <1>4 DEF Owed
  <1>8. \A l \in LevelPins : Owed(l) /\ VecOf[l] = v => l \in ended
      BY <1>5 DEF LevelInv
  <1>9. \A l \in LevelPins : Owed(l)' => VecOf[l] \in apic'.tmr
      BY <1>4, <1>7 DEF LevelInv
  <1>10. ASSUME NEW l \in LevelPins \ lost'.orphan, redir'[l].remote PROVE Owed(l)' \/ Waits(l)'
    <2>1. l \notin ended /\ redir[l].remote
        BY <1>3, <1>5, <1>10
    <2>2. l \notin lost.orphan
        BY <1>2, <2>1
    <2>3. Owed(l) \/ Waits(l)
        BY <2>1, <2>2 DEF LevelInv
    <2> QED BY <1>6, <1>7, <1>8, <2>1, <2>3
  <1>11. ASSUME NEW l \in (LevelPins \cap high') \ (lost'.eoi \cup lost'.orphan)
         PROVE  Owed(l)' \/ Waits(l)'
    <2>1. CASE l \in ended
      <3>1. v \in apic.irr /\ VecOf[l] = v
          BY <1>1, <1>2, <1>11, <2>1
      <3>2. Owed(l)
          BY <3>1 DEF Owed
      <3> QED BY <1>7, <3>1, <3>2
    <2>2. CASE l \notin ended
      <3>1. l \in high /\ l \notin lost.eoi /\ l \notin lost.orphan
          BY <1>1, <1>2, <1>11, <2>2
      <3>2. Owed(l) \/ Waits(l)
          BY <3>1 DEF LevelInv
      <3> QED BY <1>6, <1>7, <1>8, <2>2, <3>2
    <2> QED BY <2>1, <2>2
  <1> QED BY <1>9, <1>10, <1>11 DEF LevelInv

\* Every step keeps the level pins heard.
LEMMA LevelStep ==
  ASSUME TypeOK, Ordered(apic), LevelInv, [Next]_vars
  PROVE  LevelInv'
  <1>1. \A l \in LevelPins : VecOf[l] \notin IpiVecs
      BY ConstantsOK
  <1>2. ASSUME NEW c \in Tprs, WriteTaskPriority(c) PROVE LevelInv'
    <2> DEFINE b == [apic EXCEPT !.tpr = c]
    <2>1. apic' = Send(b)
        BY <1>2 DEF WriteTaskPriority, Become
    <2>2. b.irr = apic.irr /\ b.isr = apic.isr /\ b.tmr = apic.tmr /\ b \in Local
        BY ConstantsOK DEF TypeOK, Local
    <2> HIDE DEF b
    <2>3. apic'.irr = apic.irr /\ apic'.isr = apic.isr /\ apic'.tmr = apic.tmr
        BY <2>1, <2>2 DEF Send, Local
    <2>4. \A l \in LevelPins : Owed(l)' <=> Owed(l)
        BY <2>3 DEF Owed
    <2> QED BY <1>2, <2>3, <2>4, LevelAlone DEF WriteTaskPriority
  <1>3. ASSUME NEW v \in IpiVecs, SendExternal(v) PROVE LevelInv'
    <2> DEFINE more == apic.irr \cup {v}
               b == [apic EXCEPT !.irr = more]
    <2>1. apic' = Send(b)
        BY <1>3 DEF SendExternal, Become
    <2>2. more \in Bits
      <3>1. v \in 16..254 /\ apic.irr \in SUBSET (16..254)
          BY ConstantsOK DEF TypeOK, Local, Bits
      <3> QED BY <3>1 DEF Bits
    <2>3. \A l \in LevelPins : VecOf[l] \in more <=> VecOf[l] \in apic.irr
        BY <1>1
    <2> HIDE DEF more
    <2>4. b.irr = more /\ b.isr = apic.isr /\ b.tmr = apic.tmr /\ b \in Local
        BY <2>2 DEF TypeOK, Local
    <2> HIDE DEF b
    <2>5. apic'.irr = more /\ apic'.isr = apic.isr /\ apic'.tmr = apic.tmr
        BY <2>1, <2>4 DEF Send, Local
    <2>6. \A l \in LevelPins : Owed(l)' <=> Owed(l)
        BY <2>3, <2>5 DEF Owed
    <2> QED BY <1>3, <2>5, <2>6, LevelAlone DEF SendExternal
  <1>4. ASSUME NEW v \in IpiVecs, NEW level \in BOOLEAN, SendIpi(v, level) PROVE LevelInv'
    <2> DEFINE V == {v}
               L == IF level THEN {v} ELSE {}
    <2>1. apic' = Receive(apic, V, L)
        BY <1>4 DEF SendIpi, Become
    <2>2. V \in Bits /\ L \in Bits
        BY ConstantsOK DEF Bits
    <2>3. \A l \in LevelPins : VecOf[l] \notin V
        BY <1>1
    <2> HIDE DEF V, L
    <2>4. /\ apic'.irr = apic.irr \cup V /\ apic'.isr = apic.isr
          /\ apic'.tmr = (apic.tmr \ (V \ apic.irr)) \cup (L \cap (V \ apic.irr))
        BY <2>1, <2>2, ReceiveKeeps DEF TypeOK
    <2>5. \A l \in LevelPins : /\ Owed(l)' <=> Owed(l)
                               /\ VecOf[l] \in apic.tmr => VecOf[l] \in apic'.tmr
        BY <2>3, <2>4 DEF Owed
    <2> QED BY <1>4, <2>5, LevelAlone DEF SendIpi
  <1>5. ASSUME Request8259 \/ Initialize8259 \/ Acknowledge8259 PROVE LevelInv'
    <2>1. /\ UNCHANGED <<redir, ioapic, high, apic>>
          /\ lost'.eoi = lost.eoi /\ lost'.orphan = lost.orphan
        BY <1>5 DEF Request8259, Initialize8259, Acknowledge8259, TypeOK
    <2>2. \A l \in LevelPins : Owed(l)' <=> Owed(l)
        BY <2>1 DEF Owed
    <2> QED BY <2>1, <2>2, LevelAlone
  <1>6. ASSUME AcknowledgeApic PROVE LevelInv'
    <2> DEFINE v == Highest(apic.irr)
    <2>1. /\ UNCHANGED <<redir, ioapic, high>>
          /\ lost'.eoi = lost.eoi /\ lost'.orphan = lost.orphan
        BY <1>6 DEF AcknowledgeApic, TypeOK
    <2>2. apic.irr # {}
      <3>1. Highest(apic.irr) > Highest(apic.isr)
          BY <1>6 DEF AcknowledgeApic, Ordered, Above
      <3>2. apic.isr \in SUBSET (0..255) /\ apic.irr \in SUBSET (0..255)
          BY HighestOf DEF TypeOK
      <3>3. Highest(apic.isr) >= -1 /\ Highest(apic.isr) \in Int
          BY <3>2, HighestIs
      <3>4. apic.irr = {} => Highest(apic.irr) = -1
          BY <3>2, HighestIs
      <3> QED BY <3>1, <3>3, <3>4
    <2>3. v \in apic.irr
        BY <2>2, HighestOf, HighestIs DEF TypeOK
    <2>4. apic'.irr = apic.irr \ {v} /\ apic'.isr = apic.isr \cup {v} /\ apic'.tmr = apic.tmr
        BY <1>6 DEF AcknowledgeApic, TypeOK, Local
    <2>5. \A l \in LevelPins : Owed(l)' <=> Owed(l)
        BY <2>3, <2>4 DEF Owed
    <2> QED BY <2>1, <2>4, <2>5, LevelAlone
  <1>7. ASSUME UNCHANGED vars PROVE LevelInv'
    <2>1. \A l \in LevelPins : Owed(l)' <=> Owed(l)
        BY <1>7 DEF vars, Owed
    <2> QED BY <1>7, <2>1, LevelAlone DEF vars
  <1> QED BY <1>2, <1>3, <1>4, <1>5, <1>6, <1>7, LevelRaise, LevelLower, LevelWrite, LevelEnd DEF Next

----------------------------------------------------------------------------
Inv == TypeOK /\ Ordered(apic) /\ SharedLineHeard /\ LevelInv

\* The registers start empty.
LEMMA InitIsInv == Init => Inv
  <1> SUFFICES ASSUME Init PROVE Inv
      OBVIOUS
  <1>1. TypeOK
    <2>1. redir \in [Pins -> Entry]
        BY DEF Init, Entry
    <2>2. ioapic \in IoApic /\ apic \in Local
        BY DEF Init, IoApic, Local, Bits
    <2>3. lost \in [eoi : SUBSET Pins, orphan : SUBSET Pins, icw1 : BOOLEAN, ack : BOOLEAN]
        BY DEF Init
    <2> QED BY <2>1, <2>2, <2>3 DEF Init, TypeOK
  <1>2. apic.irr = {} /\ apic.isr = {} /\ apic.line = FALSE
      BY DEF Init
  <1>3. ~Deliverable(apic)
    <2>1. Highest(apic.irr) = -1 /\ Highest(apic.isr) = -1
        BY <1>2 DEF Highest
    <2> QED BY <2>1 DEF Deliverable
  <1>4. Ordered(apic)
      BY <1>2, <1>3 DEF Ordered
  <1>5. SharedLineHeard
      BY DEF Init, SharedLineHeard
  <1>6. LevelInv
      BY <1>2, ConstantsOK DEF Init, LevelInv, Owed, Waits
  <1> QED BY <1>1, <1>4, <1>5, <1>6 DEF Inv

\* The inductive invariant holds in every behaviour of the controllers.
LEMMA SpecInv == Spec => []Inv
  <1>1. Inv /\ [Next]_vars => Inv'
    <2> SUFFICES ASSUME Inv, [Next]_vars PROVE Inv'
        OBVIOUS
    <2>1. TypeOK' /\ Ordered(apic')
        BY LocalStep DEF Inv
    <2>2. SharedLineHeard'
        BY LineStep DEF Inv
    <2>3. LevelInv'
        BY LevelStep DEF Inv
    <2> QED BY <2>1, <2>2, <2>3 DEF Inv
  <1> QED BY <1>1, InitIsInv, PTL DEF Spec

(* What may be delivered is signalled, and what is signalled is above       *)
(* everything in service: apic_get_interrupt never finds an empty irr.      *)
THEOREM SafetySignalledInOrder == Spec => []SignalledInOrder
  <1>1. Inv => SignalledInOrder
      BY DEF Inv, Ordered, Above, SignalledInOrder
  <1> QED BY <1>1, SpecInv, PTL

(* The line both controllers share is up for whoever asked, but for the two *)
(* ways the code loses it, and never up for nobody.                         *)
THEOREM SafetySharedLineHeard == Spec => []SharedLineHeard
  <1>1. Inv => SharedLineHeard
      BY DEF Inv
  <1> QED BY <1>1, SpecInv, PTL

(* A level pin's remote IRR is set for an end of interrupt that will clear  *)
(* it, and an unmasked pin that is up is requested or in service, but for   *)
(* what the code loses track of.                                            *)
THEOREM SafetyLevelPinsHeard == Spec => []LevelPinsHeard
  <1>1. Inv => LevelPinsHeard
    <2> SUFFICES ASSUME Inv PROVE LevelPinsHeard
        OBVIOUS
    <2>1. \A l \in LevelPins : Owed(l) => VecOf[l] \in (apic.irr \cup apic.isr) \cap apic.tmr
        BY DEF Inv, LevelInv, Owed
    <2>2. \A l \in LevelPins \ lost.orphan : redir[l].remote => Owed(l) \/ Waits(l)
        BY DEF Inv, LevelInv
    <2>3. \A l \in (LevelPins \cap high) \ (lost.eoi \cup lost.orphan) : Owed(l) \/ Waits(l)
        BY DEF Inv, LevelInv
    <2> QED BY <2>1, <2>2, <2>3 DEF LevelPinsHeard, Owed, Waits
  <1> QED BY <1>1, SpecInv, PTL

(* The request of an edge pin leaves the I/O APIC for the local APIC and    *)
(* nowhere else.                                                            *)
THEOREM StepEdgeRemembered == Spec => EdgeRemembered
  <1> DEFINE Kept == \A l \in Pins \ LevelPins :
                       l \in ioapic.irr /\ l \notin ioapic'.irr => VecOf[l] \in apic'.irr
  <1>1. ASSUME Inv, NEW S \in SUBSET Pins,
               Become(Receive(apic, Sent(S), Sent(S \cap LevelPins))),
               \A l \in Pins : l \in ioapic.irr /\ l \notin ioapic'.irr => l \in S
        PROVE  Kept
    <2>1. apic'.irr = apic.irr \cup Sent(S)
        BY <1>1, Arrive DEF Inv
    <2> QED BY <1>1, <2>1, SentIs
  <1>2. ASSUME Inv, NEW t \in [Pins -> Entry], NEW io \in IoApic, Update(t, io),
               ioapic.irr \in SUBSET io.irr
        PROVE  Kept
    <2> DEFINE S == Unmasked(t, io.irr)
    <2>1. /\ S \in SUBSET Pins /\ Become(Receive(apic, Sent(S), Sent(S \cap LevelPins)))
          /\ ioapic'.irr = io.irr \ (S \ LevelPins)
        BY <1>2, UpdateKeeps DEF Inv
    <2> HIDE DEF S
    <2>2. \A l \in Pins : l \in ioapic.irr /\ l \notin ioapic'.irr => l \in S
        BY <1>2, <2>1
    <2> QED BY <1>1, <1>2, <2>1, <2>2
  <1>3. ASSUME Inv, [Next]_vars PROVE Kept
    <2>1. ASSUME NEW l \in Pins, Raise(l) PROVE Kept
      <3> DEFINE t == [redir EXCEPT ![l].polarity = TRUE]
                 u == [t EXCEPT ![l].remote = TRUE]
                 io == [irr |-> ioapic.irr \cup {l}, pin |-> ioapic.pin \cup {l}]
      <3>1. t \in [Pins -> Entry] /\ u \in [Pins -> Entry] /\ io \in IoApic
          BY <1>3 DEF Inv, TypeOK, Entry, IoApic
      <3>2. ioapic.irr \in SUBSET io.irr
          OBVIOUS
      <3>3. Update(u, io) \/ Update(t, io) \/ ioapic' = ioapic
          BY <2>1 DEF Raise
      <3> HIDE DEF t, u, io
      <3> QED BY <1>2, <1>3, <3>1, <3>2, <3>3
    <2>2. ASSUME NEW l \in Pins, Lower(l) PROVE Kept
        BY <2>2 DEF Lower
    <2>3. ASSUME NEW l \in Pins, NEW m \in BOOLEAN, NEW k \in BOOLEAN, WriteRedir(l, m, k)
          PROVE  Kept
      <3> DEFINE S == {p \in ioapic.irr : IF p = l THEN ~m ELSE ~redir[p].masked}
      <3>1. S \in SUBSET Pins
          BY <1>3 DEF Inv, TypeOK, IoApic
      <3>2. Become(Receive(apic, Sent(S), Sent(S \cap LevelPins)))
          BY <2>3 DEF WriteRedir, Sent
      <3>3. ioapic'.irr = ioapic.irr \ (S \ LevelPins)
          BY <1>3, <2>3 DEF WriteRedir, Inv, TypeOK, IoApic
      <3> HIDE DEF S
      <3> QED BY <1>1, <1>3, <3>1, <3>2, <3>3
    <2>4. CASE ioapic' = ioapic
        BY <2>4
    <2> QED BY <1>3, <2>1, <2>2, <2>3, <2>4
         DEF Next, vars, EndOfInterrupt, WriteTaskPriority, SendExternal, SendIpi,
             Request8259, Initialize8259, AcknowledgeApic, Acknowledge8259
  <1> QED BY <1>3, SpecInv, PTL DEF EdgeRemembered, Spec
=============================================================================
