---------------------------- MODULE ClockProofs ----------------------------
(* For every rate, count and bound: no slice is empty, no timer is fast,    *)
(* the clock's flags go with its line, and only HLT makes the local APIC    *)
(* timer late.                                                              *)
EXTENDS Clock, TLAPS, WellFoundedInduction

(* The records the timers are.                                              *)

Whys == {"periodic", "alarm", "update"}
Rtc  == [period : Nat \ {0}, last : Nat, rate : 0..Second, pie : BOOLEAN, aie : BOOLEAN,
         uie : BOOLEAN, flags : SUBSET Whys, irq : BOOLEAN, ticks : Nat, max : Nat,
         secs : Nat]
Lapic == [count : Nat, reload : Nat, next : Int, periodic : BOOLEAN, masked : BOOLEAN,
          fired : Nat]
Pm   == [on : BOOLEAN, last : Nat, irq : BOOLEAN, wraps : Nat]
Chan == [count : Nat, load : Nat, last : Nat, periodic : BOOLEAN, running : BOOLEAN,
         rw : {0, 3}, rmode : {0, 2}, wmode : {0, 2}, interim : {0},
         latched : {0}, latch : {0}, status : {FALSE}, line : BOOLEAN]
Slice == [on : BOOLEAN, left : Nat, len : Nat]

----------------------------------------------------------------------------
(* Arithmetic.                                                              *)

\* A non-empty set of natural numbers has a least one.
LEMMA LeastNat ==
  ASSUME NEW T \in SUBSET Nat, T # {}
  PROVE  \E m \in T : \A n \in T : m <= n
  <1>1. PICK m \in T : \A n \in T : ~ (<<n, m>> \in OpToRel(<, Nat))
      BY WFMin, NatLessThanWellFounded, Zenon
  <1>2. \A n \in T : ~ (n < m)
      BY <1>1, Zenon DEF OpToRel
  <1>3. \A n \in T : n \in Nat
      OBVIOUS
  <1> QED BY <1>2, <1>3

\* Quotient and remainder.
LEMMA Divides ==
  ASSUME NEW a \in Nat, NEW n \in Nat \ {0}
  PROVE  /\ a \div n \in Nat /\ a % n \in Nat /\ a % n < n
         /\ a = n * (a \div n) + (a % n)
  OBVIOUS

\* A product with a larger factor is larger.
LEMMA TimesGrows ==
  ASSUME NEW n \in Nat, NEW x \in Nat, NEW y \in Nat, x <= y
  PROVE  n * x \in Nat /\ n * y \in Nat /\ n * x <= n * y
  OBVIOUS

\* Division keeps the order.
LEMMA DivGrows ==
  ASSUME NEW a \in Nat, NEW b \in Nat, NEW n \in Nat \ {0}, a <= b
  PROVE  a \div n <= b \div n
  <1>1. /\ a \div n \in Nat /\ b \div n \in Nat
        /\ a = n * (a \div n) + (a % n) /\ a % n \in Nat
        /\ b = n * (b \div n) + (b % n) /\ b % n < n /\ b % n \in Nat
      BY Divides
  <1>2. ASSUME b \div n + 1 <= a \div n PROVE FALSE
    <2>1. n * (b \div n + 1) <= n * (a \div n)
        BY <1>1, <1>2, TimesGrows
    <2>2. n * (b \div n + 1) = n * (b \div n) + n
        BY <1>1
    <2> QED BY <1>1, <2>1, <2>2
  <1> QED BY <1>1, <1>2

\* A remainder that has become smaller has passed the divisor.
LEMMA Wrapped ==
  ASSUME NEW a \in Nat, NEW b \in Nat, NEW n \in Nat \ {0}, a <= b, b % n < a % n
  PROVE  a \div n + 1 <= b \div n
  <1>1. /\ a \div n \in Nat /\ b \div n \in Nat
        /\ a = n * (a \div n) + (a % n) /\ a % n \in Nat
        /\ b = n * (b \div n) + (b % n) /\ b % n < n /\ b % n \in Nat
      BY Divides
  <1>2. a \div n <= b \div n
      BY DivGrows
  <1>3. a \div n # b \div n
      BY <1>1
  <1> QED BY <1>1, <1>2, <1>3

----------------------------------------------------------------------------
(* The real-time clock.                                                     *)

\* A look accounts for one period or for nothing, and asks for a wait.
LEMMA RtcLooks ==
  ASSUME NEW c \in Rtc, NEW t \in Nat, NEW rings \in BOOLEAN
  PROVE  /\ RtcLook(c, t, rings) \in Rtc
         /\ (c.irq <=> c.flags # {}) => (RtcLook(c, t, rings).irq <=> RtcLook(c, t, rings).flags # {})
         /\ \/ t < c.last + c.period /\ RtcLook(c, t, rings) = c
            \/ /\ c.last + c.period <= t
               /\ LET d == RtcLook(c, t, rings)
                      second == ~c.pie \/ c.ticks + 1 = c.max
                  IN /\ d.last = t /\ d.period = c.period /\ d.rate = c.rate
                     /\ d.pie = c.pie /\ d.max = c.max
                     /\ d.ticks = IF ~c.pie THEN c.ticks ELSE IF second THEN 0 ELSE c.ticks + 1
                     /\ d.secs = IF second THEN c.secs + 1 ELSE c.secs
  <1> DEFINE second == ~c.pie \/ c.ticks + 1 = c.max
             why == (IF c.pie THEN {"periodic"} ELSE {}) \cup
                    (IF second /\ c.aie /\ rings THEN {"alarm"} ELSE {}) \cup
                    (IF second /\ c.uie THEN {"update"} ELSE {})
             ticks == IF ~c.pie THEN c.ticks ELSE IF second THEN 0 ELSE c.ticks + 1
             secs == IF second THEN c.secs + 1 ELSE c.secs
             flags == IF why = {} THEN c.flags ELSE why
             irq == c.irq \/ why # {}
  <1>0. /\ c.period \in Nat \ {0} /\ c.last \in Nat /\ c.ticks \in Nat /\ c.secs \in Nat
        /\ c.irq \in BOOLEAN /\ c.flags \in SUBSET Whys
      BY DEF Rtc
  <1>1. CASE t < c.last + c.period
    <2>1. RtcLook(c, t, rings) = c
        BY <1>1 DEF RtcLook
    <2> QED BY <1>0, <1>1, <2>1
  <1>2. CASE ~(t < c.last + c.period)
    <2>1. RtcLook(c, t, rings) = [c EXCEPT !.last = t, !.ticks = ticks, !.secs = secs,
                                           !.flags = flags, !.irq = irq]
        BY <1>2 DEF RtcLook
    <2>2. ticks \in Nat /\ secs \in Nat /\ irq \in BOOLEAN
        BY <1>0
    <2>3. flags \in SUBSET Whys
        BY <1>0 DEF Whys
    <2>4. (c.irq <=> c.flags # {}) => (irq <=> flags # {})
        BY <1>0
    <2> HIDE DEF ticks, secs, flags, irq
    <2>5. PICK d \in Rtc : /\ d = RtcLook(c, t, rings)
                           /\ d.last = t /\ d.period = c.period /\ d.rate = c.rate
                           /\ d.pie = c.pie /\ d.max = c.max /\ d.ticks = ticks
                           /\ d.secs = secs /\ d.flags = flags /\ d.irq = irq
      <3>1. RtcLook(c, t, rings) \in Rtc
          BY <2>1, <2>2, <2>3 DEF Rtc
      <3> QED BY <2>1, <3>1 DEF Rtc
    <2>6. c.last + c.period <= t
        BY <1>0, <1>2
    <2> QED BY <2>4, <2>5, <2>6 DEF ticks, secs
  <1> QED BY <1>1, <1>2

\* The clock always asks for another look.
LEMMA RtcWaits ==
  ASSUME NEW c \in Rtc, NEW t \in Nat
  PROVE  RtcWait(c, t) \in Nat \ {0}
  <1>0. c.period \in Nat \ {0} /\ c.last \in Nat
      BY DEF Rtc
  <1>1. PICK rings \in BOOLEAN : rings = FALSE
      OBVIOUS
  <1>2. PICK d : d = RtcLook(c, t, rings)
      OBVIOUS
  <1>3. (t < c.last + c.period /\ d = c) \/ d.last = t
      BY <1>2, RtcLooks
  <1>4. RtcWait(c, t) = d.last + c.period - t
      BY <1>1, <1>2 DEF RtcWait
  <1> QED BY <1>0, <1>3, <1>4

\* Registers A and B as the guest writes them.
Written(c, r, p, a, u) == [c EXCEPT !.rate = r, !.pie = p, !.aie = a, !.uie = u]

\* The clock d is c with registers A and B written at t.
Rated(c, r, p, t, d) ==
  /\ d \in Rtc /\ d.flags = c.flags /\ d.irq = c.irq /\ d.secs = c.secs
  /\ r # 0 => /\ d.last = t /\ d.pie = p
              /\ p => d.period = Second \div r /\ d.ticks = 0 /\ d.max = r
              /\ ~p => d.period = Second

\* A new rate starts a new second; without one only the enables change.
LEMMA RtcUpdates ==
  ASSUME NEW c \in Rtc, NEW t \in Nat, NEW r \in 0..Second,
         NEW p \in BOOLEAN, NEW a \in BOOLEAN, NEW u \in BOOLEAN,
         NEW d, d = UpdateTimer(Written(c, r, p, a, u), t)
  PROVE  Rated(c, r, p, t, d)
  <1>1. PICK e \in Rtc : /\ e = Written(c, r, p, a, u)
                         /\ e.rate = r /\ e.pie = p /\ e.flags = c.flags /\ e.irq = c.irq
                         /\ e.secs = c.secs
    <2>1. Written(c, r, p, a, u) \in Rtc
        BY DEF Rtc, Written
    <2> QED BY <2>1 DEF Rtc, Written
  <1>2. d = UpdateTimer(e, t)
      BY <1>1
  <1>3. Second \in Nat \ {0}
      BY ClockConstants
  <1>4. CASE r = 0
      BY <1>1, <1>2, <1>4 DEF UpdateTimer, Rated
  <1>5. CASE r # 0 /\ ~p
    <2>1. d = [e EXCEPT !.period = Second, !.last = t]
        BY <1>1, <1>2, <1>5 DEF UpdateTimer
    <2> QED BY <1>1, <1>3, <1>5, <2>1 DEF Rtc, Rated
  <1>6. CASE r # 0 /\ p
    <2>1. PICK q \in Nat \ {0} : q = Second \div r
      <3>1. r \in Nat \ {0} /\ r <= Second
          BY <1>3, <1>6
      <3>2. r \div r = 1
          BY <3>1
      <3>3. Second \div r \in Nat /\ 1 <= Second \div r
          BY <1>3, <3>1, <3>2, Divides, DivGrows
      <3> QED BY <3>3
    <2>2. d = [e EXCEPT !.period = q, !.ticks = 0, !.max = r, !.last = t]
        BY <1>1, <1>2, <1>6, <2>1 DEF UpdateTimer
    <2>3. r \in Nat
        BY <1>3
    <2>4. [e EXCEPT !.period = q, !.ticks = 0, !.max = r, !.last = t] \in Rtc
        BY <2>3 DEF Rtc
    <2>5. /\ d.period = q /\ d.ticks = 0 /\ d.max = r /\ d.last = t
          /\ d.flags = e.flags /\ d.irq = e.irq /\ d.secs = e.secs /\ d.pie = e.pie
          /\ d \in Rtc
        BY <2>2, <2>4 DEF Rtc
    <2> QED BY <1>1, <1>6, <2>1, <2>4, <2>5 DEF Rated
  <1> QED BY <1>4, <1>5, <1>6

\* The seconds counted, and the part of the next one that a periodic
\* interrupt has counted, have passed.
RtcPace(c, t) ==
  /\ c.last <= t
  /\ c.secs * ShortestSecond + (IF c.pie THEN c.ticks * c.period ELSE 0) <= c.last
  /\ c.pie => c.max * c.period >= ShortestSecond
  /\ ~c.pie => c.period >= ShortestSecond

\* The shortest second is one of a rate that can be programmed, or the clock's.
LEMMA Shortest ==
  /\ ShortestSecond \in Nat /\ ShortestSecond <= Second
  /\ \A r \in Rates \ {0} : ShortestSecond <= r * (Second \div r)
  <1> DEFINE ls == {Second} \cup {r * (Second \div r) : r \in Rates \ {0}}
  <1>1. Second \in Nat \ {0} /\ Rates \subseteq 0..Second
      BY ClockConstants
  <1>2. \A r \in Rates \ {0} : r * (Second \div r) \in Nat
    <2>1. SUFFICES ASSUME NEW r \in Rates \ {0} PROVE r * (Second \div r) \in Nat
        OBVIOUS
    <2>2. r \in Nat \ {0}
        BY <1>1
    <2>3. Second \div r \in Nat
        BY <1>1, <2>2, Divides
    <2> QED BY <2>2, <2>3, TimesGrows
  <1>3. ls \in SUBSET Nat /\ ls # {}
      BY <1>1, <1>2
  <1>4. \E l \in ls : \A m \in ls : l <= m
      BY <1>3, LeastNat
  <1>5. ShortestSecond = CHOOSE l \in ls : \A m \in ls : l <= m
      BY DEF ShortestSecond
  <1>6. ShortestSecond \in ls /\ \A m \in ls : ShortestSecond <= m
    <2> HIDE DEF ls
    <2> QED BY <1>4, <1>5
  <1> QED BY <1>3, <1>6

\* A look keeps the pace: it counts a second when its last tick has passed.
LEMMA PaceLooks ==
  ASSUME NEW c \in Rtc, NEW t \in Nat, NEW u \in Nat, t <= u, RtcPace(c, t), NEW rings \in BOOLEAN
  PROVE  RtcPace(RtcLook(c, u, rings), u)
  <1>0. /\ c.period \in Nat \ {0} /\ c.last \in Nat /\ c.ticks \in Nat /\ c.secs \in Nat
        /\ c.max \in Nat /\ c.pie \in BOOLEAN
      BY DEF Rtc
  <1>1. CASE RtcLook(c, u, rings) = c
      BY <1>0, <1>1 DEF RtcPace
  <1>2. CASE ~(RtcLook(c, u, rings) = c)
    <2> DEFINE second == ~c.pie \/ c.ticks + 1 = c.max
    <2>1. PICK d \in Rtc :
            /\ d = RtcLook(c, u, rings)
            /\ c.last + c.period <= u
            /\ d.last = u /\ d.period = c.period /\ d.pie = c.pie /\ d.max = c.max
            /\ d.ticks = IF ~c.pie THEN c.ticks ELSE IF second THEN 0 ELSE c.ticks + 1
            /\ d.secs = IF second THEN c.secs + 1 ELSE c.secs
        BY <1>2, RtcLooks
    <2>2. PICK s \in Nat : s = ShortestSecond
        BY Shortest
    <2>3. PICK k \in Nat : k = c.secs * s
        BY <1>0, <2>2
    <2>4. PICK n \in Nat : n = c.ticks * c.period
        BY <1>0
    <2>5. /\ (c.secs + 1) * s = k + s
          /\ (c.ticks + 1) * c.period = n + c.period
          /\ 0 * c.period = 0
        BY <1>0, <2>2, <2>3, <2>4
    <2>6. CASE ~c.pie
        BY <1>0, <2>1, <2>2, <2>3, <2>5, <2>6 DEF RtcPace
    <2>7. CASE c.pie /\ second
      <3>1. n + c.period >= s
          BY <2>2, <2>5, <2>7 DEF RtcPace
      <3>2. k + n <= c.last
          BY <2>2, <2>3, <2>4, <2>7 DEF RtcPace
      <3>3. d.secs * s = k + s /\ d.ticks * d.period = 0
          BY <2>1, <2>5, <2>7
      <3> QED BY <1>0, <2>1, <2>2, <2>7, <3>1, <3>2, <3>3 DEF RtcPace
    <2>8. CASE c.pie /\ ~second
      <3>1. k + n <= c.last
          BY <2>2, <2>3, <2>4, <2>8 DEF RtcPace
      <3>2. d.secs * s = k /\ d.ticks * d.period = n + c.period
          BY <2>1, <2>3, <2>5, <2>8
      <3> QED BY <1>0, <2>1, <2>2, <2>8, <3>1, <3>2 DEF RtcPace
    <2> QED BY <2>6, <2>7, <2>8
  <1> QED BY <1>1, <1>2

\* A new rate of the guest's keeps it.
LEMMA PaceUpdates ==
  ASSUME NEW c \in Rtc, NEW t \in Nat, RtcPace(c, t),
         NEW r \in Rates, r # 0, NEW p \in BOOLEAN, NEW a \in BOOLEAN, NEW u \in BOOLEAN
  PROVE  RtcPace(UpdateTimer(Written(c, r, p, a, u), t), t)
  <1>0. r \in 0..Second /\ r \in Nat \ {0} /\ Second \in Nat
      BY ClockConstants
  <1>d. PICK d : d = UpdateTimer(Written(c, r, p, a, u), t)
      OBVIOUS
  <1>1. /\ d \in Rtc /\ d.secs = c.secs /\ d.last = t /\ d.pie = p
        /\ p => d.period = Second \div r /\ d.ticks = 0 /\ d.max = r
        /\ ~p => d.period = Second
    <2>1. Rated(c, r, p, t, d)
        BY <1>0, <1>d, RtcUpdates, Zenon
    <2> QED BY <1>0, <2>1 DEF Rated
  <1>2. PICK s \in Nat : s = ShortestSecond /\ s <= Second /\ s <= r * (Second \div r)
      BY Shortest
  <1>3. c.secs * s <= t
    <2>1. c.secs \in Nat /\ c.ticks \in Nat /\ c.period \in Nat /\ c.last \in Nat
        BY DEF Rtc
    <2>2. c.ticks * c.period \in Nat /\ c.secs * s \in Nat
        BY <2>1, TimesGrows
    <2> QED BY <1>2, <2>1, <2>2 DEF RtcPace
  <1>4. p => d.ticks * d.period = 0
    <2>1. d.period \in Nat
        BY <1>1 DEF Rtc
    <2> QED BY <1>1, <2>1
  <1>5. RtcPace(d, t)
    <2>1. d.last <= t /\ d.secs * s <= d.last
        BY <1>0, <1>1, <1>3
    <2>2. (IF d.pie THEN d.ticks * d.period ELSE 0) = 0
        BY <1>1, <1>4
    <2>3. d.secs * s + (IF d.pie THEN d.ticks * d.period ELSE 0) <= d.last
      <3>1. d.secs * s \in Nat
          BY <1>1, <1>2, TimesGrows DEF Rtc
      <3> QED BY <2>1, <2>2, <3>1
    <2>4. d.pie => s <= d.max * d.period
        BY <1>1, <1>2
    <2>5. ~d.pie => s <= d.period
        BY <1>1, <1>2
    <2>6. d.max * d.period \in Nat /\ d.period \in Nat
        BY <1>1, TimesGrows DEF Rtc
    <2> QED BY <1>2, <2>1, <2>3, <2>4, <2>5, <2>6 DEF RtcPace
  <1> QED BY <1>d, <1>5

----------------------------------------------------------------------------
(* The 8254, the local APIC timer and the power management timer.           *)

\* A product of two numbers that are not 0 is not.
LEMMA TimesIsPositive ==
  ASSUME NEW x \in Nat \ {0}, NEW y \in Nat \ {0}
  PROVE  x * y \in Nat \ {0}
  OBVIOUS

\* What the counter reads is below its count, whatever has overflowed.
LEMMA CountBelow ==
  ASSUME NEW c \in Chan, NEW t \in Nat
  PROVE  /\ GetCount(c, t) \in Nat
         /\ c.count # 0 => GetCount(c, t) < c.count
  <1>1. c.count \in Nat /\ c.load \in Nat /\ Scale \in Nat \ {0} /\ Byte \in Nat \ {0}
      BY ByteOK DEF Chan
  <1>2. Width \in Nat \ {0}
      BY <1>1, TimesIsPositive DEF Width
  <1>3. PICK d \in Int : d = t - c.load
      BY <1>1
  <1>4. PICK q \in Int : q = d \div Scale
      BY <1>1, <1>3
  <1>5. PICK v \in Nat : v = (c.count - q) % Width
      BY <1>1, <1>2, <1>4
  <1>6. GetCount(c, t) = IF c.count = 0 THEN 0 ELSE v % c.count
      BY <1>3, <1>4, <1>5 DEF GetCount
  <1> QED BY <1>1, <1>6

\* A look at the 8254, and the wait it asks for.
LEMMA PitLooks ==
  ASSUME NEW c \in Chan, NEW t \in Nat, c.running => c.count # 0
  PROVE  /\ Next0(c, t).chan \in Chan
         /\ Next0(c, t).chan.running => Next0(c, t).chan.count # 0
         /\ Wait0(c, t) # Never => Wait0(c, t) \in Nat \ {0}
  <1>1. PICK v \in Nat : v = GetCount(c, t) /\ (c.count # 0 => v < c.count)
      BY CountBelow
  <1>2. /\ c.count \in Nat /\ c.running \in BOOLEAN /\ Scale \in Nat \ {0}
      BY ByteOK DEF Chan
  <1>3. PICK d : d = Next0(c, t).chan
      OBVIOUS
  <1>4i. PICK i \in BOOLEAN : i = (c.running /\ v > c.last)
      BY Zenon
  <1>4u. PICK u \in BOOLEAN : u = (c.line \/ i)
      BY Zenon
  <1>4f. PICK x \in BOOLEAN, y \in BOOLEAN : x = FALSE /\ y = TRUE
      OBVIOUS
  <1>4. \/ d = c
        \/ d = [c EXCEPT !.running = x, !.line = y]
        \/ c.running /\ d = [c EXCEPT !.last = v, !.line = u]
      BY <1>1, <1>3, <1>4i, <1>4u, <1>4f DEF Next0
  <1>5. d \in Chan /\ d.count = c.count /\ (d.running => c.running)
    <2>1. CASE d = c
        BY <2>1
    <2>2. CASE d = [c EXCEPT !.running = x, !.line = y]
      <3>1. d \in Chan
          BY <2>2 DEF Chan
      <3>2. d.count = c.count /\ d.running = x
          BY <2>2 DEF Chan
      <3> QED BY <1>4f, <3>1, <3>2
    <2>3. CASE c.running /\ d = [c EXCEPT !.last = v, !.line = u]
      <3>1. d \in Chan
          BY <2>3 DEF Chan
      <3>2. d.count = c.count /\ c.running
          BY <2>3 DEF Chan
      <3> QED BY <3>1, <3>2
    <2> QED BY <1>4, <2>1, <2>2, <2>3
  <1>6. d.running => (c.count - v) * Scale \in Nat \ {0}
    <2>0. d.running => c.count # 0
        BY <1>5
    <2>1. d.running => c.count - v \in Nat \ {0}
        BY <1>1, <1>2, <2>0
    <2> QED BY <1>2, <2>1, TimesIsPositive
  <1>7. Wait0(c, t) = IF d.running THEN (c.count - v) * Scale ELSE Never
      BY <1>1, <1>3 DEF Wait0, Never
  <1> QED BY <1>3, <1>5, <1>6, <1>7

\* The interrupts of the local APIC timer since its load have had their time,
\* and the next has not.
ApicPace(a, t) ==
  /\ a.reload <= t
  /\ a.fired * a.count <= t - a.reload
  /\ a.next # Never => a.reload + a.fired * a.count + a.count <= a.next

\* The timer has not come to the end of its first count.
First(a) == a.count # 0 /\ a.fired = 0 /\ a.next = a.reload + a.count

\* A look at the local APIC timer, and the wait it asks for: none but one that
\* ends with the count, or now for a masked timer exactly a period late.
LEMMA ApicLooks ==
  ASSUME NEW a \in Lapic, NEW t \in Nat, NEW u \in Nat, t <= u, ApicPace(a, t),
         NEW b, b = ApicLook(a, u)
  PROVE  /\ b \in Lapic /\ ApicPace(b, u)
         /\ b.count = a.count /\ b.reload = a.reload
         /\ b.masked = a.masked /\ b.periodic = a.periodic
         /\ First(b) => b = a /\ u < b.next /\ ApicWait(a, u) = b.next - u
         /\ ApicWait(a, u) # Never => ApicWait(a, u) \in Nat
         /\ ApicWait(a, u) = 0 => b.masked /\ b.periodic /\ b.next = u
         /\ b.fired # a.fired => a.count # 0 /\ a.next <= u
  <1>0. /\ a.count \in Nat /\ a.reload \in Nat /\ a.next \in Int /\ a.fired \in Nat
        /\ a.periodic \in BOOLEAN /\ a.masked \in BOOLEAN
      BY DEF Lapic
  <1>1. PICK k \in Nat : k = a.fired * a.count
      BY <1>0, TimesGrows
  <1>2. /\ (a.fired + 1) * a.count = k + a.count
        /\ a.reload <= t /\ k <= t - a.reload
        /\ a.next # Never => a.reload + k + a.count <= a.next
      BY <1>0, <1>1 DEF ApicPace
  <1>3. ApicWait(a, u) = IF b.count = 0 \/ b.fired # a.fired \/ b.next = Never \/ b.next < u
                         THEN Never ELSE b.next - u
      BY DEF ApicWait
  <1>4. CASE a.count = 0 \/ a.next = Never \/ a.next > u
    <2>1. b = a
        BY <1>4 DEF ApicLook
    <2>2. ApicPace(b, u)
        BY <1>0, <1>1, <1>2, <2>1 DEF ApicPace
    <2>3. First(b) => u < b.next
        BY <1>0, <1>4, <2>1 DEF First, Never
    <2>4. First(b) => ApicWait(a, u) = b.next - u
        BY <1>0, <1>3, <2>1, <2>3 DEF First, Never
    <2>5. ApicWait(a, u) # Never => ApicWait(a, u) \in Nat \ {0}
        BY <1>0, <1>3, <1>4, <2>1
    <2> QED BY <2>1, <2>2, <2>3, <2>4, <2>5 DEF Never
  <1>5. CASE a.count # 0 /\ a.next # Never /\ a.next <= u
    <2> DEFINE next == IF a.periodic THEN a.next + a.count ELSE Never
               fired == IF a.masked THEN a.fired ELSE a.fired + 1
    <2>1. b = [a EXCEPT !.next = next, !.fired = fired]
        BY <1>0, <1>5 DEF ApicLook
    <2>2. next \in Int /\ fired \in Nat
        BY <1>0 DEF Never
    <2>3. fired * a.count = IF a.masked THEN k ELSE k + a.count
        BY <1>1, <1>2
    <2>4. /\ a.periodic => next = a.next + a.count
          /\ ~a.periodic => next = Never
          /\ fired # a.fired => ~a.masked
        BY <1>0
    <2> HIDE DEF next, fired
    <2>5. /\ b \in Lapic /\ b.next = next /\ b.fired = fired
          /\ b.count = a.count /\ b.reload = a.reload
          /\ b.masked = a.masked /\ b.periodic = a.periodic
        BY <2>1, <2>2 DEF Lapic
    <2>6. ApicPace(b, u)
      <3>1. fired * a.count <= u - a.reload
          BY <1>0, <1>2, <1>5, <2>3
      <3>2. next # Never => a.reload + fired * a.count + a.count <= next
          BY <1>0, <1>2, <1>5, <2>3, <2>4
      <3> QED BY <1>2, <2>5, <3>1, <3>2, <1>0 DEF ApicPace
    <2>7. ~First(b)
      <3>0. a.reload + k + a.count <= a.next
          BY <1>2, <1>5
      <3>1. a.next # a.reload
          BY <1>0, <1>5, <3>0
      <3> QED BY <1>0, <2>4, <2>5, <3>1 DEF First, Never
    <2>8. ApicWait(a, u) # Never => ApicWait(a, u) \in Nat
        BY <1>0, <1>3, <2>2, <2>5
    <2>9. ApicWait(a, u) = 0 => b.masked /\ b.periodic /\ b.next = u
      <3>1. SUFFICES ASSUME ApicWait(a, u) = 0 PROVE b.masked /\ b.periodic /\ b.next = u
          OBVIOUS
      <3>2. b.fired = a.fired /\ b.next # Never /\ b.next - u = 0
          BY <1>3, <3>1 DEF Never
      <3>3. b.masked
          BY <1>0, <2>5, <3>2 DEF fired
      <3> QED BY <1>0, <2>2, <2>4, <2>5, <3>2, <3>3
    <2> QED BY <1>5, <2>5, <2>6, <2>7, <2>8, <2>9
  <1> QED BY <1>0, <1>4, <1>5

\* The wraps counted have been.
AcpiPace(p, t) == p.last <= t \div AcpiScale /\ p.wraps <= p.last \div AcpiWrap

\* A look at the power management timer, and the wait it asks for.
LEMMA AcpiLooks ==
  ASSUME NEW p \in Pm, NEW t \in Nat, NEW u \in Nat, t <= u, AcpiPace(p, t),
         NEW q, q = AcpiLook(p, u)
  PROVE  /\ q \in Pm /\ AcpiPace(q, u)
         /\ AcpiWait(p, u) # Never => AcpiWait(p, u) \in Nat \ {0}
  <1>0. /\ p.last \in Nat /\ p.wraps \in Nat /\ p.on \in BOOLEAN
        /\ AcpiWrap \in Nat \ {0} /\ AcpiScale \in Nat \ {0}
      BY ClockConstants DEF Pm
  <1>1. PICK n \in Nat : n = u \div AcpiScale
      BY <1>0, Divides
  <1>2. p.last <= n /\ p.last \div AcpiWrap \in Nat /\ n \div AcpiWrap \in Nat
      BY <1>0, <1>1, DivGrows, Divides DEF AcpiPace
  <1>3. PICK w \in Nat : w = n % AcpiWrap /\ w < AcpiWrap
      BY <1>0, <1>1, Divides
  <1>4. AcpiCount(u) = w
      BY <1>1, <1>3 DEF AcpiCount
  <1>5. CASE ~p.on
    <2>1. q = [p EXCEPT !.irq = FALSE]
        BY <1>5 DEF AcpiLook
    <2>2. q \in Pm /\ q.last = p.last /\ q.wraps = p.wraps
        BY <2>1 DEF Pm
    <2> QED BY <1>1, <1>2, <1>5, <2>2 DEF AcpiPace, AcpiWait
  <1>6. CASE p.on
    <2> DEFINE wrapped == w < p.last % AcpiWrap
               wraps == IF wrapped THEN p.wraps + 1 ELSE p.wraps
    <2>1. q = [p EXCEPT !.irq = wrapped, !.last = n, !.wraps = wraps]
        BY <1>1, <1>4, <1>6 DEF AcpiLook
    <2>2. wraps \in Nat /\ wrapped \in BOOLEAN
        BY <1>0
    <2>3. wraps <= n \div AcpiWrap
      <3>1. CASE wrapped
          BY <1>0, <1>2, <1>3, <3>1, Wrapped DEF AcpiPace
      <3>2. CASE ~wrapped
        <4>1. p.last \div AcpiWrap <= n \div AcpiWrap
            BY <1>0, <1>2, DivGrows
        <4> QED BY <1>0, <1>2, <3>2, <4>1 DEF AcpiPace
      <3> QED BY <3>1, <3>2
    <2> HIDE DEF wraps, wrapped
    <2>4. q \in Pm /\ q.last = n /\ q.wraps = wraps
        BY <2>1, <2>2 DEF Pm
    <2>5. AcpiWait(p, u) \in Nat \ {0}
      <3>1. AcpiWrap - w \in Nat \ {0}
          BY <1>0, <1>3
      <3> QED BY <1>0, <1>4, <1>6, <3>1, TimesIsPositive DEF AcpiWait
    <2> QED BY <1>1, <2>3, <2>4, <2>5 DEF AcpiPace
  <1> QED BY <1>0, <1>5, <1>6

----------------------------------------------------------------------------
(* The loop.                                                                *)

Types ==
  /\ now \in Nat /\ slice \in Slice
  /\ pit \in Chan /\ rtc \in Rtc /\ apic \in Lapic /\ acpi \in Pm
  /\ late \in [apic : Nat, halt : Nat]

\* A slice ends with the first count of the local APIC timer at the latest;
\* only what HLT left of a slice takes the clock past it.
InTime ==
  First(apic) => IF slice.on THEN now + slice.left <= apic.next
                 ELSE now <= apic.next + late.halt

Inv ==
  /\ Types
  /\ pit.running => pit.count # 0
  /\ slice.left <= slice.len
  /\ ApicPace(apic, now)
  /\ AcpiPace(acpi, now)
  /\ InTime
  /\ NoEmptySlice
  /\ FlagsAreSignalled
  /\ LateByHaltOnly

\* The least wait is one of them; it is 0 only if the local APIC timer's is.
LEMMA SoonestIs ==
  ASSUME NEW t \in Nat, RtcWait(rtc, t) \in Nat \ {0},
         Wait0(pit, t) # Never => Wait0(pit, t) \in Nat \ {0},
         ApicWait(apic, t) # Never => ApicWait(apic, t) \in Nat,
         AcpiWait(acpi, t) # Never => AcpiWait(acpi, t) \in Nat \ {0}
  PROVE  /\ Soonest(t) \in Nat
         /\ ApicWait(apic, t) # Never => Soonest(t) <= ApicWait(apic, t)
         /\ Soonest(t) = 0 => ApicWait(apic, t) = 0
  <1> DEFINE waits == {RtcWait(rtc, t), Wait0(pit, t), ApicWait(apic, t), AcpiWait(acpi, t)} \ {Never}
  <1>1. waits \in SUBSET Nat
      OBVIOUS
  <1>2. RtcWait(rtc, t) \in waits
      BY DEF Never
  <1>3. Soonest(t) = CHOOSE w \in waits : \A x \in waits : w <= x
      BY DEF Soonest
  <1>4. Soonest(t) \in waits /\ \A x \in waits : Soonest(t) <= x
    <2> HIDE DEF waits
    <2>1. waits # {}
        BY <1>2
    <2>2. \E w \in waits : \A x \in waits : w <= x
        BY <1>1, <2>1, LeastNat
    <2> QED BY <1>3, <2>2
  <1> QED BY <1>1, <1>4

\* What every timer is after a look, and how long it leaves the processor.
LEMMA Looks ==
  ASSUME Inv, NEW t \in Nat, now <= t, Look(t)
  PROVE  /\ rtc' \in Rtc /\ FlagsAreSignalled'
         /\ pit' \in Chan /\ (pit'.running => pit'.count # 0)
         /\ apic' \in Lapic /\ ApicPace(apic', t)
         /\ acpi' \in Pm /\ AcpiPace(acpi', t)
         /\ Soonest(t) \in Nat
         /\ First(apic') => apic' = apic /\ t + Soonest(t) <= apic.next
         /\ Soonest(t) = 0 => apic'.masked /\ apic'.periodic /\ apic'.next = t
         /\ Lateness(t) \in Nat
         /\ Lateness(t) = late.apic \/ (First(apic) /\ Lateness(t) = t - apic.next)
  <1>0. /\ now \in Nat /\ pit \in Chan /\ rtc \in Rtc /\ apic \in Lapic /\ acpi \in Pm
        /\ (pit.running => pit.count # 0) /\ (rtc.irq <=> rtc.flags # {})
        /\ ApicPace(apic, now) /\ AcpiPace(acpi, now) /\ late.apic \in Nat
      BY DEF Inv, Types, FlagsAreSignalled
  <1>1. PICK rings \in BOOLEAN :
          /\ rtc' = RtcLook(rtc, t, rings) /\ pit' = Next0(pit, t).chan
          /\ apic' = ApicLook(apic, t) /\ acpi' = AcpiLook(acpi, t)
      BY DEF Look
  <1>2. rtc' \in Rtc /\ FlagsAreSignalled' /\ RtcWait(rtc, t) \in Nat \ {0}
    <2>1. rtc' \in Rtc /\ (rtc'.irq <=> rtc'.flags # {})
      <3>1. PICK c : c = RtcLook(rtc, t, rings)
          OBVIOUS
      <3>2. c \in Rtc /\ (c.irq <=> c.flags # {})
          BY <1>0, <3>1, RtcLooks
      <3>3. rtc' = c
          BY <1>1, <3>1, Zenon
      <3> QED BY <3>2, <3>3
    <2>2. RtcWait(rtc, t) \in Nat \ {0}
        BY <1>0, RtcWaits
    <2> QED BY <2>1, <2>2 DEF FlagsAreSignalled
  <1>3. /\ pit' \in Chan /\ (pit'.running => pit'.count # 0)
        /\ Wait0(pit, t) # Never => Wait0(pit, t) \in Nat \ {0}
      BY <1>0, <1>1, PitLooks
  <1>4. /\ apic' \in Lapic /\ ApicPace(apic', t)
        /\ First(apic') => apic' = apic /\ t < apic'.next /\ ApicWait(apic, t) = apic'.next - t
        /\ ApicWait(apic, t) # Never => ApicWait(apic, t) \in Nat
        /\ ApicWait(apic, t) = 0 => apic'.masked /\ apic'.periodic /\ apic'.next = t
        /\ apic'.fired # apic.fired => apic.count # 0 /\ apic.next <= t
      BY <1>0, <1>1, ApicLooks
  <1>5. /\ acpi' \in Pm /\ AcpiPace(acpi', t)
        /\ AcpiWait(acpi, t) # Never => AcpiWait(acpi, t) \in Nat \ {0}
      BY <1>0, <1>1, AcpiLooks
  <1>6. /\ Soonest(t) \in Nat
        /\ ApicWait(apic, t) # Never => Soonest(t) <= ApicWait(apic, t)
        /\ Soonest(t) = 0 => ApicWait(apic, t) = 0
      BY <1>2, <1>3, <1>4, <1>5, SoonestIs
  <1>7. First(apic') => apic' = apic /\ t + Soonest(t) <= apic.next
    <2>1. SUFFICES ASSUME First(apic') PROVE apic' = apic /\ t + Soonest(t) <= apic.next
        OBVIOUS
    <2>2. apic' = apic /\ t < apic.next /\ ApicWait(apic, t) = apic.next - t /\ apic.next \in Int
        BY <1>0, <1>4, <2>1 DEF Lapic
    <2>3. Soonest(t) <= apic.next - t
        BY <1>6, <2>2 DEF Never
    <2> QED BY <1>6, <2>2, <2>3
  <1>8. /\ Lateness(t) \in Nat
        /\ Lateness(t) = late.apic \/ (First(apic) /\ Lateness(t) = t - apic.next)
    <2>1. CASE apic'.fired = 1 /\ apic.fired = 0 /\ apic.next = apic.reload + apic.count
      <3>1. Lateness(t) = t - apic.next
          BY <2>1 DEF Lateness
      <3>2. apic.count # 0 /\ apic.next <= t /\ apic.next \in Int
          BY <1>0, <1>4, <2>1 DEF Lapic
      <3> QED BY <2>1, <3>1, <3>2 DEF First
    <2>2. CASE ~(apic'.fired = 1 /\ apic.fired = 0 /\ apic.next = apic.reload + apic.count)
        BY <1>0, <2>2 DEF Lateness
    <2> QED BY <2>1, <2>2
  <1> QED BY <1>2, <1>3, <1>4, <1>5, <1>6, <1>7, <1>8

\* The clock goes on, the timers stay.
LEMMA TimePasses ==
  ASSUME NEW t \in Nat, NEW u \in Nat, t <= u
  PROVE  /\ \A a \in Lapic : ApicPace(a, t) => ApicPace(a, u)
         /\ \A p \in Pm : AcpiPace(p, t) => AcpiPace(p, u)
  <1>1. ASSUME NEW a \in Lapic, ApicPace(a, t) PROVE ApicPace(a, u)
    <2>1. a.reload \in Nat /\ a.fired * a.count \in Nat
        BY TimesGrows DEF Lapic
    <2> QED BY <1>1, <2>1 DEF ApicPace
  <1>2. ASSUME NEW p \in Pm, AcpiPace(p, t) PROVE AcpiPace(p, u)
    <2>1. /\ t \div AcpiScale \in Nat /\ u \div AcpiScale \in Nat
          /\ t \div AcpiScale <= u \div AcpiScale
        BY ClockConstants, Divides, DivGrows
    <2> QED BY <1>2, <2>1 DEF AcpiPace, Pm
  <1> QED BY <1>1, <1>2

\* devices_get_next sizes the slice by the soonest event.
LEMMA BeginKeeps ==
  ASSUME Inv, BeginSlice
  PROVE  Inv'
  <1>0. /\ now \in Nat /\ slice \in Slice /\ late \in [apic : Nat, halt : Nat]
        /\ ~slice.on /\ InTime /\ late.apic <= late.halt /\ MaxSlice \in Nat \ {0}
      BY ClockConstants DEF Inv, Types, BeginSlice, LateByHaltOnly
  <1>1. Look(now) /\ now' = now /\ late' = [late EXCEPT !.apic = Lateness(now)]
      BY DEF BeginSlice
  <1>2. /\ rtc' \in Rtc /\ FlagsAreSignalled'
        /\ pit' \in Chan /\ (pit'.running => pit'.count # 0)
        /\ apic' \in Lapic /\ ApicPace(apic', now)
        /\ acpi' \in Pm /\ AcpiPace(acpi', now)
        /\ Soonest(now) \in Nat
        /\ First(apic') => apic' = apic /\ now + Soonest(now) <= apic.next
        /\ Soonest(now) = 0 => apic'.masked /\ apic'.periodic /\ apic'.next = now
        /\ Lateness(now) \in Nat
        /\ Lateness(now) = late.apic \/ (First(apic) /\ Lateness(now) = now - apic.next)
      BY <1>0, <1>1, Looks
  <1>3. PICK len \in Nat : /\ slice' = [on |-> TRUE, left |-> len, len |-> len]
                           /\ len = IF ~halted /\ Soonest(now) > MaxSlice THEN MaxSlice ELSE Soonest(now)
      BY <1>0, <1>2 DEF BeginSlice
  <1>4. len <= Soonest(now) /\ (len = 0 => Soonest(now) = 0)
      BY <1>0, <1>2, <1>3
  <1>5. /\ late'.apic = Lateness(now) /\ late'.halt = late.halt
        /\ late' \in [apic : Nat, halt : Nat]
      BY <1>0, <1>1, <1>2
  <1>6. LateByHaltOnly'
    <2>1. First(apic) => now - apic.next <= late.halt
      <3>1. apic.next \in Int
          BY DEF Inv, Types, Lapic
      <3> QED BY <1>0, <3>1 DEF InTime
    <2> QED BY <1>0, <1>2, <1>5, <2>1 DEF LateByHaltOnly
  <1>7. slice' \in Slice /\ slice'.on /\ slice'.left = len /\ slice'.len = len
      BY <1>3 DEF Slice
  <1>8. InTime'
    <2>1. apic.next \in Int
        BY DEF Inv, Types, Lapic
    <2>2. First(apic') => now + len <= apic'.next
        BY <1>0, <1>2, <1>3, <1>4, <2>1
    <2> QED BY <1>1, <1>7, <2>2 DEF InTime
  <1>9. NoEmptySlice'
      BY <1>1, <1>2, <1>4, <1>7 DEF NoEmptySlice
  <1>10. Types' /\ slice'.left <= slice'.len
      BY <1>0, <1>1, <1>2, <1>3, <1>5, <1>7 DEF Types
  <1> QED BY <1>1, <1>2, <1>6, <1>8, <1>9, <1>10 DEF Inv

\* After HLT the rest of the slice and the time to the next event pass at once.
LEMMA ForwardKeeps ==
  ASSUME Inv, slice.on, NEW t \in Nat, NEW r \in Nat, now <= t, t + r = now + slice.left,
         MoveForward(t, r)
  PROVE  Inv'
  <1>0. /\ now \in Nat /\ slice \in Slice /\ late.apic \in Nat /\ late.halt \in Nat
        /\ InTime /\ late.apic <= late.halt /\ slice.left \in Nat /\ apic.next \in Int
        /\ slice.left <= slice.len /\ slice.len \in Nat
      BY DEF Inv, Types, LateByHaltOnly, Slice, Lapic
  <1>1. /\ Look(t) /\ now' = t + r + Soonest(t)
        /\ slice' = [slice EXCEPT !.on = FALSE, !.left = 0]
        /\ late' = [apic |-> Lateness(t), halt |-> IF r > late.halt THEN r ELSE late.halt]
      BY DEF MoveForward
  <1>2. /\ rtc' \in Rtc /\ FlagsAreSignalled'
        /\ pit' \in Chan /\ (pit'.running => pit'.count # 0)
        /\ apic' \in Lapic /\ ApicPace(apic', t)
        /\ acpi' \in Pm /\ AcpiPace(acpi', t)
        /\ Soonest(t) \in Nat
        /\ First(apic') => apic' = apic /\ t + Soonest(t) <= apic.next
        /\ Lateness(t) \in Nat
        /\ Lateness(t) = late.apic \/ (First(apic) /\ Lateness(t) = t - apic.next)
      BY <1>0, <1>1, Looks
  <1>3. now' \in Nat /\ t <= now'
      BY <1>0, <1>1, <1>2
  <1>4. PICK h \in Nat : late'.halt = h /\ r <= h /\ late.halt <= h
      BY <1>0, <1>1
  <1>5. late' \in [apic : Nat, halt : Nat] /\ late'.apic = Lateness(t)
      BY <1>0, <1>1, <1>2
  <1>6. slice' \in Slice /\ ~slice'.on /\ slice'.left = 0 /\ slice'.len = slice.len
      BY <1>0, <1>1 DEF Slice
  <1>7. First(apic) => t + r <= apic.next
      BY <1>0 DEF InTime
  <1>8. LateByHaltOnly'
      BY <1>0, <1>2, <1>4, <1>5, <1>7 DEF LateByHaltOnly
  <1>9. InTime'
    <2>1. First(apic') => now' <= apic'.next + h
        BY <1>0, <1>1, <1>2, <1>4, <1>7
    <2> QED BY <1>4, <1>6, <2>1 DEF InTime
  <1>10. NoEmptySlice'
      BY <1>6 DEF NoEmptySlice
  <1>11. ApicPace(apic', now') /\ AcpiPace(acpi', now')
      BY <1>2, <1>3, TimePasses
  <1>12. Types' /\ slice'.left <= slice'.len
      BY <1>0, <1>2, <1>3, <1>5, <1>6 DEF Types
  <1> QED BY <1>2, <1>8, <1>9, <1>10, <1>11, <1>12 DEF Inv

\* HLT with interrupts disabled: the slice ends before its cycles have passed.
LEMMA StandStillKeeps ==
  ASSUME Inv, slice.on, NEW t \in Nat, now <= t, t <= now + slice.left, StandStill(t)
  PROVE  Inv'
  <1>0. /\ now \in Nat /\ slice \in Slice /\ late.halt \in Nat
        /\ InTime /\ slice.left \in Nat /\ apic.next \in Int /\ apic \in Lapic /\ acpi \in Pm
        /\ slice.len \in Nat
      BY DEF Inv, Types, Slice, Lapic
  <1>1. /\ now' = t /\ slice' = [slice EXCEPT !.on = FALSE, !.left = 0]
        /\ UNCHANGED <<pit, rtc, apic, acpi, late>>
      BY DEF StandStill
  <1>2. slice' \in Slice /\ ~slice'.on /\ slice'.left = 0 /\ slice'.len = slice.len
      BY <1>0, <1>1 DEF Slice
  <1>3. ApicPace(apic, t) /\ AcpiPace(acpi, t)
      BY <1>0, TimePasses DEF Inv
  <1>4. InTime'
    <2>1. First(apic) => t <= apic.next + late.halt
        BY <1>0 DEF InTime
    <2> QED BY <1>1, <1>2, <2>1 DEF InTime
  <1>5. NoEmptySlice'
      BY <1>2 DEF NoEmptySlice
  <1>6. Types' /\ slice'.left <= slice'.len
      BY <1>0, <1>1, <1>2 DEF Inv, Types
  <1> QED BY <1>1, <1>3, <1>4, <1>5, <1>6 DEF Inv, FlagsAreSignalled, LateByHaltOnly

\* An instruction that leaves the local APIC timer's count alone.
LEMMA SpendKeeps ==
  ASSUME Inv, Spend(FALSE), late' = late,
         rtc' \in Rtc, FlagsAreSignalled',
         pit' \in Chan, pit'.running => pit'.count # 0,
         apic' \in Lapic, apic'.count = apic.count, apic'.reload = apic.reload,
         apic'.next = apic.next, apic'.fired = apic.fired,
         acpi' \in Pm, acpi'.last = acpi.last, acpi'.wraps = acpi.wraps
  PROVE  Inv'
  <1>0. /\ now \in Nat /\ slice.left \in Nat /\ slice.len \in Nat /\ slice \in Slice
        /\ slice.on /\ slice.left > 0 /\ slice.left <= slice.len
        /\ late.halt \in Nat /\ apic.next \in Int /\ InTime
        /\ apic \in Lapic /\ acpi \in Pm /\ late \in [apic : Nat, halt : Nat]
      BY DEF Inv, Types, Slice, Lapic, Spend
  <1>1. now' = now + 1 /\ slice' = [slice EXCEPT !.left = slice.left - 1, !.on = slice.left - 1 > 0]
      BY DEF Spend
  <1>2. /\ slice'.left = slice.left - 1 /\ slice'.len = slice.len
        /\ slice'.on = (slice.left - 1 > 0) /\ slice' \in Slice
    <2>0. (slice.left - 1 > 0) \in BOOLEAN
        OBVIOUS
    <2>1. PICK x \in BOOLEAN : x = (slice.left - 1 > 0)
        BY <2>0, Zenon
    <2>2. PICK k \in Nat : k = slice.left - 1
        BY <1>0
    <2>3. slice' = [slice EXCEPT !.left = k, !.on = x]
        BY <1>1, <2>1, <2>2
    <2>4. slice' \in Slice /\ slice'.left = k /\ slice'.on = x /\ slice'.len = slice.len
        BY <1>0, <2>3 DEF Slice
    <2> QED BY <2>1, <2>2, <2>4
  <1>3. ApicPace(apic', now') /\ AcpiPace(acpi', now')
    <2>1. now' \in Nat /\ now <= now'
        BY <1>0, <1>1
    <2>2. ApicPace(apic, now') /\ AcpiPace(acpi, now')
        BY <1>0, <2>1, TimePasses DEF Inv
    <2> QED BY <2>2 DEF ApicPace, AcpiPace
  <1>4. InTime'
    <2>1. First(apic') => First(apic)
        BY DEF First
    <2>2. First(apic) => now + slice.left <= apic.next
        BY <1>0 DEF InTime
    <2>3. First(apic') => /\ slice.left - 1 > 0 => now + 1 + (slice.left - 1) <= apic.next
                          /\ now + 1 <= apic.next + late.halt
        BY <1>0, <2>1, <2>2
    <2> QED BY <1>1, <1>2, <2>3 DEF InTime
  <1>5. NoEmptySlice'
      BY <1>0, <1>2 DEF NoEmptySlice
  <1>6. Types' /\ slice'.left <= slice'.len
      BY <1>0, <1>1, <1>2 DEF Types
  <1> QED BY <1>3, <1>4, <1>5, <1>6 DEF Inv, LateByHaltOnly

\* Every step of the loop and the guest keeps the invariant.
LEMMA InvStep ==
  ASSUME Inv, [Next]_vars
  PROVE  Inv'
  <1>0. /\ now \in Nat /\ slice.left \in Nat /\ slice.len \in Nat /\ slice \in Slice
        /\ rtc \in Rtc /\ pit \in Chan /\ apic \in Lapic /\ acpi \in Pm
        /\ (pit.running => pit.count # 0) /\ FlagsAreSignalled
      BY DEF Inv, Types, Slice
  <1>1. CASE BeginSlice
      BY <1>1, BeginKeeps
  <1>2. CASE Instruction
      BY <1>0, <1>2, SpendKeeps DEF Instruction, FlagsAreSignalled
  <1>3. ASSUME NEW m \in BOOLEAN, Halt(m) PROVE Inv'
    <2>1. /\ slice.on /\ slice.left > 0
          /\ IF m THEN StandStill(now + 1) ELSE MoveForward(now + 1, slice.left - 1)
        BY <1>3 DEF Halt
    <2>2. /\ now + 1 \in Nat /\ slice.left - 1 \in Nat /\ now <= now + 1
          /\ (now + 1) + (slice.left - 1) = now + slice.left
          /\ now + 1 <= now + slice.left
        BY <1>0, <2>1
    <2>3. CASE m
        BY <2>1, <2>2, <2>3, StandStillKeeps
    <2>4. CASE ~m
        BY <2>1, <2>2, <2>4, ForwardKeeps
    <2> QED BY <2>3, <2>4
  <1>4. CASE Wake
    <2>1. UNCHANGED <<now, slice, pit, rtc, apic, acpi, late>>
        BY <1>4 DEF Wake
    <2> QED BY <2>1 DEF Inv, Types, InTime, NoEmptySlice, FlagsAreSignalled, LateByHaltOnly
  <1>5. CASE StayHalted
    <2>1. slice.on /\ IF deaf THEN StandStill(now) ELSE MoveForward(now, slice.left)
        BY <1>5 DEF StayHalted
    <2>2. CASE deaf
        BY <1>0, <2>1, <2>2, StandStillKeeps
    <2>3. CASE ~deaf
        BY <1>0, <2>1, <2>3, ForwardKeeps
    <2> QED BY <2>2, <2>3
  <1>6. CASE ReadRtc
    <2>1. rtc' = [rtc EXCEPT !.flags = {}, !.irq = FALSE]
        BY <1>6 DEF ReadRtc
    <2>2. rtc' \in Rtc /\ FlagsAreSignalled'
        BY <1>0, <2>1 DEF Rtc, FlagsAreSignalled
    <2> QED BY <1>0, <1>6, <2>2, SpendKeeps DEF ReadRtc
  <1>7. ASSUME NEW n \in PitCounts, NEW m \in PitModes, LoadPit(n, m)
        PROVE  Inv'
    <2>1. n \in Counts /\ Byte * Byte \in Nat \ {0}
        BY ClockConstants, ByteOK, TimesIsPositive
    <2>2. n \in Nat
        BY <2>1 DEF Counts
    <2>3. PICK v \in Nat \ {0} : v = IF n = 0 THEN Byte * Byte ELSE n
        BY <2>1, <2>2
    <2>4p. PICK p \in BOOLEAN : p = (m = 2 \/ m = 3)
        BY Zenon
    <2>4u. PICK u \in BOOLEAN : u = (pit.line \/ m = 2)
        BY Zenon
    <2>4. SetMode(pit, 3, m)
            = [pit EXCEPT !.rw = 3, !.rmode = 2, !.wmode = 2, !.periodic = p, !.line = u]
      <3>1. p = (m \in {2, 3})
          BY <2>4p
      <3>2. SetMode(pit, 3, m) = [pit EXCEPT !.rw = 3, !.rmode = 3 - 1, !.wmode = 3 - 1,
                                             !.periodic = p, !.line = u]
          BY <2>4u, <3>1 DEF SetMode
      <3>3. 3 - 1 = 2
          OBVIOUS
      <3> QED BY <3>2, <3>3
    <2>5. PICK c \in Chan : c = SetMode(pit, 3, m)
      <3>1. SetMode(pit, 3, m) \in Chan
          BY <1>0, <2>4 DEF Chan
      <3> QED BY <3>1
    <2>6. pit' = [c EXCEPT !.count = v, !.load = now, !.last = 0, !.running = TRUE]
        BY <1>7, <2>3, <2>5 DEF LoadPit, SetCount
    <2>7. pit' \in Chan /\ pit'.count # 0
        BY <1>0, <2>6 DEF Chan
    <2> QED BY <1>0, <1>7, <2>7, SpendKeeps DEF LoadPit, FlagsAreSignalled
  <1>8. ASSUME NEW r \in Rates, NEW p \in BOOLEAN, NEW a \in BOOLEAN, NEW u \in BOOLEAN,
               WriteRtc(r, p, a, u)
        PROVE  Inv'
    <2>1. rtc' = UpdateTimer(Written(rtc, r, p, a, u), now) /\ r \in 0..Second
        BY <1>8, ClockConstants DEF WriteRtc, Written
    <2>2. rtc' \in Rtc /\ rtc'.flags = rtc.flags /\ rtc'.irq = rtc.irq
      <3>1. Rated(rtc, r, p, now, rtc')
          BY <1>0, <2>1, RtcUpdates, Zenon
      <3> QED BY <3>1 DEF Rated
    <2>3. FlagsAreSignalled'
        BY <1>0, <2>2 DEF FlagsAreSignalled
    <2> QED BY <1>0, <1>8, <2>2, <2>3, SpendKeeps DEF WriteRtc
  <1>9. ASSUME NEW n \in ApicCounts, WriteApicCount(n)
        PROVE  Inv'
    <2>1. /\ slice.on /\ slice.left > 0 /\ now' = now + 1
          /\ slice' = [slice EXCEPT !.left = 0, !.on = FALSE]
          /\ apic' = [apic EXCEPT !.count = n, !.reload = now, !.next = now + n, !.fired = 0]
          /\ UNCHANGED <<pit, rtc, acpi, late>> /\ n \in Nat
      <3>1. n \in Nat
          BY ClockConstants
      <3>2. Spend(TRUE)
          BY <1>9 DEF WriteApicCount
      <3>3. (0 > 0) = FALSE
          OBVIOUS
      <3>4. /\ slice.on /\ slice.left > 0 /\ now' = now + 1
            /\ slice' = [slice EXCEPT !.left = 0, !.on = 0 > 0]
          BY <3>2 DEF Spend
      <3>5. slice' = [slice EXCEPT !.left = 0, !.on = FALSE]
          BY <3>3, <3>4, Zenon
      <3> QED BY <1>9, <3>1, <3>4, <3>5, Zenon DEF WriteApicCount
    <2>2. /\ apic' \in Lapic /\ apic'.count = n /\ apic'.reload = now
          /\ apic'.next = now + n /\ apic'.fired = 0
      <3>1. PICK k \in Int : k = now + n
          BY <1>0, <2>1
      <3>2. apic' = [apic EXCEPT !.count = n, !.reload = now, !.next = k, !.fired = 0]
          BY <2>1, <3>1
      <3>3. n \in Nat /\ 0 \in Nat
          BY <2>1
      <3> QED BY <1>0, <3>1, <3>2, <3>3 DEF Lapic
    <2>3. slice' \in Slice /\ slice'.left = 0 /\ ~slice'.on /\ slice'.len = slice.len
        BY <1>0, <2>1 DEF Slice
    <2>4. ApicPace(apic', now')
        BY <1>0, <2>1, <2>2 DEF ApicPace
    <2>5. AcpiPace(acpi', now')
        BY <1>0, <2>1, TimePasses DEF Inv
    <2>6. InTime'
      <3>1. late.halt \in Nat
          BY DEF Inv, Types
      <3>2. First(apic') => now' <= apic'.next + late'.halt
          BY <1>0, <2>1, <2>2, <3>1 DEF First
      <3> QED BY <2>3, <3>2 DEF InTime
    <2>7. Types' /\ slice'.left <= slice'.len
        BY <1>0, <2>1, <2>2, <2>3 DEF Inv, Types
    <2> QED BY <1>0, <2>1, <2>3, <2>4, <2>5, <2>6, <2>7
            DEF Inv, NoEmptySlice, FlagsAreSignalled, LateByHaltOnly
  <1>10. ASSUME NEW p \in BOOLEAN, NEW m \in BOOLEAN, WriteApicMode(p, m)
         PROVE  Inv'
    <2>1. apic' = [apic EXCEPT !.periodic = p, !.masked = m]
        BY <1>10 DEF WriteApicMode
    <2>2. /\ apic' \in Lapic /\ apic'.count = apic.count /\ apic'.reload = apic.reload
          /\ apic'.next = apic.next /\ apic'.fired = apic.fired
        BY <1>0, <2>1 DEF Lapic
    <2> QED BY <1>0, <1>10, <2>2, SpendKeeps DEF WriteApicMode, FlagsAreSignalled
  <1>11. ASSUME NEW b \in BOOLEAN, EnableAcpi(b)
         PROVE  Inv'
    <2>1. acpi' = [acpi EXCEPT !.on = b]
        BY <1>11 DEF EnableAcpi
    <2>2. acpi' \in Pm /\ acpi'.last = acpi.last /\ acpi'.wraps = acpi.wraps
        BY <1>0, <2>1 DEF Pm
    <2> QED BY <1>0, <1>11, <2>2, SpendKeeps DEF EnableAcpi, FlagsAreSignalled
  <1>12. CASE UNCHANGED vars
      BY <1>12 DEF vars, Inv, Types, InTime, NoEmptySlice, FlagsAreSignalled, LateByHaltOnly
  <1> QED BY <1>1, <1>2, <1>3, <1>4, <1>5, <1>6, <1>7, <1>8, <1>9, <1>10, <1>11, <1>12
          DEF Next, Step

\* Power-on: no timer runs.
LEMMA InitIsInv == Init => Inv
  <1> SUFFICES ASSUME Init PROVE Inv
      OBVIOUS
  <1>1. Second \in Nat \ {0} /\ Rates \subseteq 0..Second
      BY ClockConstants
  <1>2. rtc \in Rtc /\ FlagsAreSignalled
    <2>1. PICK r \in Rates :
            rtc = [period |-> Second, last |-> 0, rate |-> r, pie |-> FALSE, aie |-> FALSE,
                   uie |-> FALSE, flags |-> {}, irq |-> FALSE, ticks |-> 0, max |-> 0, secs |-> 0]
        BY DEF Init
    <2>2. r \in 0..Second
        BY <1>1
    <2> QED BY <1>1, <2>1, <2>2 DEF Rtc, FlagsAreSignalled
  <1>3. /\ pit = Reset /\ now = 0 /\ slice = [on |-> FALSE, left |-> 0, len |-> 0]
        /\ apic = [count |-> 0, reload |-> 0, next |-> -1, periodic |-> FALSE, masked |-> TRUE,
                   fired |-> 0]
        /\ acpi = [on |-> FALSE, last |-> 0, irq |-> FALSE, wraps |-> 0]
        /\ late = [apic |-> 0, halt |-> 0]
      BY DEF Init, Never
  <1>4. pit \in Chan /\ ~pit.running
      BY <1>3 DEF Reset, Chan
  <1>5. slice \in Slice /\ slice.left <= slice.len /\ NoEmptySlice
      BY <1>3 DEF Slice, NoEmptySlice
  <1>6. apic \in Lapic /\ ApicPace(apic, now) /\ InTime
      BY <1>3 DEF Lapic, ApicPace, InTime, First, Never
  <1>7. acpi \in Pm /\ AcpiPace(acpi, now)
    <2>1. 0 \div AcpiScale \in Nat /\ 0 \div AcpiWrap \in Nat
        BY ClockConstants, Divides
    <2> QED BY <1>3, <2>1 DEF Pm, AcpiPace
  <1>8. LateByHaltOnly /\ now \in Nat /\ late \in [apic : Nat, halt : Nat]
      BY <1>3 DEF LateByHaltOnly
  <1> QED BY <1>2, <1>4, <1>5, <1>6, <1>7, <1>8 DEF Inv, Types

\* The invariant holds in every behaviour of the loop.
LEMMA SpecInv == Spec => []Inv
  BY InitIsInv, InvStep, PTL DEF Spec

\* cpu_run is never asked for no cycles, but for a masked periodic local APIC
\* timer that is late by exactly a period (devices_get_next, apic_next).
THEOREM SafetyNoEmptySlice == Spec => []NoEmptySlice
  <1>1. Inv => NoEmptySlice
      BY DEF Inv
  <1> QED BY <1>1, SpecInv, PTL

\* Register C has a flag exactly while IRQ 8 is up, whether a period, an alarm
\* or an update raised it, and however many of them before it is read
\* (cmos_clock, and the read of register C).
THEOREM SafetyFlagsAreSignalled == Spec => []FlagsAreSignalled
  <1>1. Inv => FlagsAreSignalled
      BY DEF Inv
  <1> QED BY <1>1, SpecInv, PTL

\* The first interrupt after a load of the local APIC timer is late by no more
\* than what HLT left of a slice (pc_execute, apic_next, and the cancelled
\* slice of a new count).
THEOREM SafetyLateByHaltOnly == Spec => []LateByHaltOnly
  <1>1. Inv => LateByHaltOnly
      BY DEF Inv
  <1> QED BY <1>1, SpecInv, PTL

----------------------------------------------------------------------------
(* No timer is fast, if the guest never leaves the divider out.             *)

\* Only a look and a new rate change what the clock has counted.
LEMMA PaceStep ==
  ASSUME 0 \notin Rates, Inv, RtcPace(rtc, now), Inv', [Next]_vars
  PROVE  RtcPace(rtc', now')
  <1>0. now \in Nat /\ now' \in Nat /\ rtc \in Rtc /\ rtc' \in Rtc /\ slice.left \in Nat
      BY DEF Inv, Types, Slice
  <1>1. ASSUME NEW t \in Nat, now <= t, t <= now', Look(t)
        PROVE  RtcPace(rtc', now')
    <2>0. PICK rings \in BOOLEAN : rtc' = RtcLook(rtc, t, rings)
        BY <1>1 DEF Look
    <2>1. RtcPace(rtc', t)
        BY <1>0, <1>1, <2>0, PaceLooks
    <2> QED BY <1>0, <1>1, <2>1 DEF RtcPace, Rtc
  <1>2. ASSUME NEW t \in Nat, NEW r \in Nat, now <= t, MoveForward(t, r)
        PROVE  RtcPace(rtc', now')
    <2>1. Look(t) /\ now' = t + r + Soonest(t)
        BY <1>2 DEF MoveForward
    <2>2. Soonest(t) \in Nat
        BY <1>2, <2>1, Looks
    <2>3. t <= now'
        BY <2>1, <2>2
    <2> QED BY <1>1, <1>2, <2>1, <2>3
  <1>3. CASE BeginSlice
      BY <1>0, <1>1, <1>3 DEF BeginSlice
  <1>6. ASSUME rtc' = rtc, now' = now \/ now' = now + 1
        PROVE  RtcPace(rtc', now')
      BY <1>0, <1>6 DEF RtcPace, Rtc
  <1>4. ASSUME NEW m \in BOOLEAN, Halt(m) PROVE RtcPace(rtc', now')
    <2>1. slice.left - 1 \in Nat /\ now + 1 \in Nat /\ now <= now + 1
        BY <1>0, <1>4 DEF Halt
    <2>2. CASE m
        BY <1>4, <1>6, <2>2 DEF Halt, StandStill
    <2>3. CASE ~m
        BY <1>2, <1>4, <2>1, <2>3 DEF Halt
    <2> QED BY <2>2, <2>3
  <1>5. CASE StayHalted
    <2>1. CASE deaf
        BY <1>5, <1>6, <2>1 DEF StayHalted, StandStill
    <2>2. CASE ~deaf
        BY <1>0, <1>2, <1>5, <2>2 DEF StayHalted
    <2> QED BY <2>1, <2>2
  <1>7. CASE \/ Instruction \/ Wake \/ UNCHANGED vars
             \/ \E n \in PitCounts, m \in PitModes : LoadPit(n, m)
             \/ \E n \in ApicCounts : WriteApicCount(n)
             \/ \E p, m \in BOOLEAN : WriteApicMode(p, m)
             \/ \E b \in BOOLEAN : EnableAcpi(b)
      BY <1>6, <1>7 DEF Instruction, Wake, vars, LoadPit, WriteApicCount, WriteApicMode,
                        EnableAcpi, Spend
  <1>8. CASE ReadRtc
    <2>1. now' = now + 1 /\ rtc' = [rtc EXCEPT !.flags = {}, !.irq = FALSE]
        BY <1>8 DEF ReadRtc, Spend
    <2>2. /\ rtc'.last = rtc.last /\ rtc'.secs = rtc.secs /\ rtc'.pie = rtc.pie
          /\ rtc'.ticks = rtc.ticks /\ rtc'.period = rtc.period /\ rtc'.max = rtc.max
        BY <1>0, <2>1 DEF Rtc
    <2> QED BY <1>0, <2>1, <2>2 DEF RtcPace, Rtc
  <1>9. ASSUME NEW r \in Rates, NEW p \in BOOLEAN, NEW a \in BOOLEAN, NEW u \in BOOLEAN,
               WriteRtc(r, p, a, u)
        PROVE  RtcPace(rtc', now')
    <2>1. now' = now + 1 /\ rtc' = UpdateTimer(Written(rtc, r, p, a, u), now) /\ r # 0
        BY <1>9 DEF WriteRtc, Spend, Written
    <2>2. RtcPace(rtc', now)
        BY <1>0, <2>1, PaceUpdates
    <2> QED BY <1>0, <2>1, <2>2 DEF RtcPace, Rtc
  <1> QED BY <1>3, <1>4, <1>5, <1>7, <1>8, <1>9 DEF Next, Step

\* A second of the real-time clock takes a second of ticks, the local APIC
\* timer fires once for each time its count has run out, and no wrap of the
\* power management timer is counted twice, for a guest that never programs the
\* rate 0 (cmos_clock, cmos_update_timer, apic_next, acpi_next).
THEOREM SafetyNeverFast ==
  ASSUME 0 \notin Rates
  PROVE  Spec => []NeverFast
  <1>1. Init => RtcPace(rtc, now)
    <2>1. Init => /\ now = 0 /\ rtc.last = 0 /\ rtc.secs = 0 /\ rtc.pie = FALSE
                  /\ rtc.period = Second
        BY DEF Init
    <2>2. ShortestSecond \in Nat /\ ShortestSecond <= Second /\ 0 * ShortestSecond = 0
        BY Shortest
    <2> QED BY <2>1, <2>2 DEF RtcPace
  <1>2. Inv /\ RtcPace(rtc, now) /\ Inv' /\ [Next]_vars => RtcPace(rtc, now)'
      BY PaceStep
  <1>3. Inv /\ RtcPace(rtc, now) => NeverFast
    <2> SUFFICES ASSUME Inv, RtcPace(rtc, now) PROVE NeverFast
        OBVIOUS
    <2>1. /\ now \in Nat /\ rtc \in Rtc /\ acpi \in Pm /\ ApicPace(apic, now) /\ AcpiPace(acpi, now)
        BY DEF Inv, Types
    <2>2. rtc.secs * ShortestSecond <= now
      <3>1. /\ rtc.secs * ShortestSecond \in Nat /\ rtc.ticks * rtc.period \in Nat
            /\ rtc.last \in Nat
          BY <2>1, Shortest, TimesGrows DEF Rtc
      <3> QED BY <2>1, <3>1 DEF RtcPace
    <2>3. apic.fired * apic.count <= now - apic.reload
        BY <2>1 DEF ApicPace
    <2>4. acpi.wraps <= (now \div AcpiScale) \div AcpiWrap
      <3>1. /\ acpi.last \in Nat /\ acpi.wraps \in Nat /\ now \div AcpiScale \in Nat
            /\ acpi.last <= now \div AcpiScale
          BY <2>1, ClockConstants, Divides DEF AcpiPace, Pm
      <3>2. /\ acpi.last \div AcpiWrap <= (now \div AcpiScale) \div AcpiWrap
            /\ acpi.last \div AcpiWrap \in Nat /\ (now \div AcpiScale) \div AcpiWrap \in Nat
          BY <3>1, ClockConstants, DivGrows, Divides
      <3> QED BY <2>1, <3>1, <3>2 DEF AcpiPace
    <2> QED BY <2>2, <2>3, <2>4 DEF NeverFast
  <1> QED BY <1>1, <1>2, <1>3, SpecInv, PTL DEF Spec

=============================================================================
