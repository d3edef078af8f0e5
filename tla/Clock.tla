------------------------------- MODULE Clock -------------------------------
(***************************************************************************)
(* The machine's loop, pc_execute of src/pc.cpp, and the time it keeps:    *)
(* it asks every timer for its next event (cmos_next, pit_next, apic_next, *)
(* acpi_next), runs the processor for at most that many cycles, and moves  *)
(* the clock on when the processor halts.  The timers are looked at only   *)
(* there.  Time is get_now(): tick_base and the processor's cycles.        *)
(*                                                                         *)
(* An interrupt is a bit, pending, that wakes a halted processor; module   *)
(* Pic and module Apic say how it is delivered.                            *)
(***************************************************************************)
EXTENDS PitChannel

CONSTANTS
  Horizon,    \* the bound on time
  MaxSlice,   \* the longest slice of a processor that is not halted (200000)
  Second,     \* ticks_per_second
  Rates,      \* the interrupt rates the guest gives the real-time clock, 0 to
              \* leave the divider out
  Uses,       \* the sets of "pit", "rtc", "apic", "acpi" a guest programs
  PitCounts,  \* the counts it loads into the 8254
  PitModes,   \* under which modes
  ApicCounts, \* and into the local APIC timer
  AcpiWrap,   \* the values of the 24-bit ACPI counter
  AcpiScale   \* cycles per count of it

ASSUME ClockConstants ==
  /\ Horizon \in Nat /\ MaxSlice \in Nat \ {0} /\ Second \in Nat \ {0}
  /\ Rates \subseteq 0..Second /\ Uses \subseteq SUBSET {"pit", "rtc", "apic", "acpi"}
  /\ PitCounts \subseteq Counts /\ PitModes \subseteq 0..5 /\ ApicCounts \subseteq Nat
  /\ AcpiWrap \in Nat \ {0} /\ AcpiScale \in Nat \ {0}

VARIABLES
  uses,     \* which of Uses this guest has
  now,
  slice,    \* cycles left in the slice and its length, both 0 between slices
  halted,   \* the last slice ended with HLT
  deaf,     \* and IF was clear: no interrupt ends it
  pending,  \* an interrupt is signalled to the processor
  pit,
  rtc,      \* the real-time clock
  apic,     \* the local APIC timer
  acpi,     \* the power management timer
  late      \* history: how late the local APIC timer first fired after its
            \* last load, and the most cycles a halt has left of a slice

vars == <<uses, now, slice, halted, deaf, pending, pit, rtc, apic, acpi, late>>

Never == -1

----------------------------------------------------------------------------
(* The real-time clock.                                                    *)

\* Mutant: a new rate goes on in the middle of the second.
UpdateTimerMidSecond(c, t) ==
  IF c.rate = 0 THEN c
  ELSE IF c.pie
       THEN [c EXCEPT !.period = Second \div c.rate, !.max = c.rate, !.last = t]
       ELSE [c EXCEPT !.period = Second, !.last = t]

\* cmos_update_timer
UpdateTimer(c, t) ==
  IF c.rate = 0 THEN c
  ELSE IF c.pie
       THEN [c EXCEPT !.period = Second \div c.rate, !.ticks = 0, !.max = c.rate, !.last = t]
       ELSE [c EXCEPT !.period = Second, !.last = t]

\* cmos_clock: one period at most is accounted for, however many have passed,
\* and the flags of an interrupt not yet read are replaced.  rings: hour, minute
\* and second are all what the alarm's register reads as.  The code reads the
\* register last selected for each, whichever that is (cmos_ram_read), and
\* neither it nor the time of day is modelled.
RtcLook(c, t, rings) ==
  LET second == ~c.pie \/ c.ticks + 1 = c.max
      why == (IF c.pie THEN {"periodic"} ELSE {}) \cup
             (IF second /\ c.aie /\ rings THEN {"alarm"} ELSE {}) \cup
             (IF second /\ c.uie THEN {"update"} ELSE {})
  IN IF t < c.last + c.period THEN c
     ELSE [c EXCEPT !.last = t,
                    !.ticks = IF ~c.pie THEN @ ELSE IF second THEN 0 ELSE @ + 1,
                    !.secs = IF second THEN @ + 1 ELSE @,
                    !.flags = IF why = {} THEN @ ELSE why,
                    !.irq = @ \/ why # {}]

\* cmos_next, the same whether the alarm rings or not.
RtcWait(c, t) == RtcLook(c, t, FALSE).last + c.period - t

----------------------------------------------------------------------------
(* The local APIC timer.  Its count is written with its divider here.      *)

\* apic_next: a periodic timer moves on by one period, even if it is still due.
ApicLook(a, t) ==
  IF a.count = 0 \/ a.next = Never \/ a.next > t THEN a
  ELSE [a EXCEPT !.next = IF a.periodic THEN @ + a.count ELSE Never,
                 !.fired = IF a.masked THEN @ ELSE @ + 1]

\* A timer that fires asks for nothing, nor does one still due after moving on
\* unless it is due now.
ApicWait(a, t) ==
  LET b == ApicLook(a, t)
  IN IF b.count = 0 \/ b.fired # a.fired \/ b.next = Never \/ b.next < t THEN Never
     ELSE b.next - t

----------------------------------------------------------------------------
(* The ACPI timer, 24 bits of a count that never stops.                    *)

AcpiCount(t) == (t \div AcpiScale) % AcpiWrap

\* acpi_next: IRQ 9 is up from the look that sees the counter wrap to the next.
AcpiLook(p, t) ==
  LET wrapped == AcpiCount(t) < p.last % AcpiWrap
  IN IF ~p.on THEN [p EXCEPT !.irq = FALSE]
     ELSE [p EXCEPT !.irq = wrapped, !.last = t \div AcpiScale,
                    !.wraps = IF wrapped THEN @ + 1 ELSE @]

AcpiWait(p, t) == IF p.on THEN (AcpiWrap - AcpiCount(t)) * AcpiScale ELSE Never

----------------------------------------------------------------------------
(* The loop.                                                               *)

\* devices_get_next_raw: the least of the waits; the clock's is always one.
Soonest(t) ==
  LET waits == {RtcWait(rtc, t), Wait0(pit, t), ApicWait(apic, t), AcpiWait(acpi, t)} \ {Never}
  IN CHOOSE w \in waits : \A x \in waits : w <= x

\* Every timer is looked at, at time t.
Look(t) ==
  /\ \E rings \in BOOLEAN : rtc' = RtcLook(rtc, t, rings)
  /\ pit' = Next0(pit, t).chan
  /\ apic' = ApicLook(apic, t)
  /\ acpi' = AcpiLook(acpi, t)
  /\ pending' = (pending \/ (rtc'.irq /\ ~rtc.irq) \/ Next0(pit, t).irq
                         \/ apic'.fired # apic.fired \/ (acpi'.irq /\ ~acpi.irq))

\* How long ago the local APIC timer was due, if it first fires at t.
Lateness(t) ==
  IF apic'.fired = 1 /\ apic.fired = 0 /\ apic.next = apic.reload + apic.count
  THEN t - apic.next ELSE late.apic

\* devices_get_next, and cpu_run begins.
BeginSlice ==
  /\ ~slice.on /\ now <= Horizon
  /\ Look(now)
  /\ LET w == Soonest(now)
         len == IF ~halted /\ w > MaxSlice THEN MaxSlice ELSE w
     IN slice' = [on |-> TRUE, left |-> len, len |-> len]
  /\ late' = [late EXCEPT !.apic = Lateness(now)]
  /\ UNCHANGED <<now, halted, deaf>>

\* The cycles of one instruction, the last of the slice if it cancels it.
Spend(cancels) ==
  LET left == IF cancels THEN 0 ELSE slice.left - 1
  IN /\ slice.on /\ slice.left > 0 /\ ~halted
     /\ now' = now + 1
     /\ slice' = [slice EXCEPT !.left = left, !.on = left > 0]

Instruction ==
  /\ Spend(FALSE)
  /\ pending' \in {pending, FALSE}
  /\ UNCHANGED <<halted, deaf, pit, rtc, apic, acpi, late>>

\* A control word for both bytes, and the bytes.
LoadPit(n, mode) ==
  /\ "pit" \in uses
  /\ Spend(FALSE)
  /\ pit' = SetCount(SetMode(pit, 3, mode), n, now)
  /\ pending' = (pending \/ (pit'.line /\ ~pit.line))
  /\ UNCHANGED <<halted, deaf, rtc, apic, acpi, late>>

\* Registers A and B.
WriteRtc(rate, pie, aie, uie) ==
  /\ "rtc" \in uses
  /\ Spend(FALSE)
  /\ rtc' = UpdateTimer([rtc EXCEPT !.rate = rate, !.pie = pie, !.aie = aie, !.uie = uie], now)
  /\ UNCHANGED <<halted, deaf, pending, pit, apic, acpi, late>>

\* Mutant: reading register C leaves IRQ 8 up.
ReadRtcLineUp ==
  /\ "rtc" \in uses
  /\ Spend(FALSE)
  /\ rtc' = [rtc EXCEPT !.flags = {}]
  /\ UNCHANGED <<halted, deaf, pending, pit, apic, acpi, late>>

ReadRtc ==
  /\ "rtc" \in uses
  /\ Spend(FALSE)
  /\ rtc' = [rtc EXCEPT !.flags = {}, !.irq = FALSE]
  /\ UNCHANGED <<halted, deaf, pending, pit, apic, acpi, late>>

\* Mutant: a new count does not end the slice.
WriteApicCountQuietly(n) ==
  /\ "apic" \in uses
  /\ Spend(FALSE)
  /\ apic' = [apic EXCEPT !.count = n, !.reload = now, !.next = now + n, !.fired = 0]
  /\ UNCHANGED <<halted, deaf, pending, pit, rtc, acpi, late>>

WriteApicCount(n) ==
  /\ "apic" \in uses
  /\ Spend(TRUE)
  /\ apic' = [apic EXCEPT !.count = n, !.reload = now, !.next = now + n, !.fired = 0]
  /\ UNCHANGED <<halted, deaf, pending, pit, rtc, acpi, late>>

\* The mode and the mask, which do not end it.
WriteApicMode(periodic, masked) ==
  /\ "apic" \in uses
  /\ Spend(FALSE)
  /\ apic' = [apic EXCEPT !.periodic = periodic, !.masked = masked]
  /\ UNCHANGED <<halted, deaf, pending, pit, rtc, acpi, late>>

EnableAcpi(on) ==
  /\ "acpi" \in uses
  /\ Spend(FALSE)
  /\ acpi' = [acpi EXCEPT !.on = on]
  /\ UNCHANGED <<halted, deaf, pending, pit, rtc, apic, late>>

\* What pc_execute does after HLT with r cycles of the slice not run, with
\* interrupts enabled: it looks at the timers once more and adds both r and the
\* next event to the clock.
MoveForward(t, r) ==
  /\ Look(t)
  /\ now' = t + r + Soonest(t)
  /\ slice' = [slice EXCEPT !.on = FALSE, !.left = 0]
  /\ late' = [apic |-> Lateness(t), halt |-> IF r > late.halt THEN r ELSE late.halt]

\* With interrupts disabled it returns, and the clock stands still.
StandStill(t) ==
  /\ now' = t
  /\ slice' = [slice EXCEPT !.on = FALSE, !.left = 0]
  /\ UNCHANGED <<pending, pit, rtc, apic, acpi, late>>

\* HLT, with IF clear or set.
Halt(masked) ==
  /\ slice.on /\ slice.left > 0 /\ ~halted
  /\ halted' = TRUE /\ deaf' = masked
  /\ IF masked THEN StandStill(now + 1) ELSE MoveForward(now + 1, slice.left - 1)

\* cpu_run with the processor still halted: it takes an interrupt or is back at
\* once.
Wake ==
  /\ slice.on /\ halted /\ ~deaf /\ pending
  /\ halted' = FALSE /\ pending' = FALSE
  /\ UNCHANGED <<now, slice, deaf, pit, rtc, apic, acpi, late>>

StayHalted ==
  /\ slice.on /\ halted /\ (deaf \/ ~pending)
  /\ IF deaf THEN StandStill(now) ELSE MoveForward(now, slice.left)
  /\ UNCHANGED <<halted, deaf>>

Init ==
  /\ uses \in Uses
  /\ now = 0 /\ halted = FALSE /\ deaf = FALSE /\ pending = FALSE
  /\ slice = [on |-> FALSE, left |-> 0, len |-> 0]
  /\ pit = Reset
  /\ rtc \in {[period |-> Second, last |-> 0, rate |-> r, pie |-> FALSE, aie |-> FALSE,
               uie |-> FALSE, flags |-> {}, irq |-> FALSE, ticks |-> 0, max |-> 0, secs |-> 0] : r \in Rates}
  /\ apic = [count |-> 0, reload |-> 0, next |-> Never, periodic |-> FALSE, masked |-> TRUE,
             fired |-> 0]
  /\ acpi = [on |-> FALSE, last |-> 0, irq |-> FALSE, wraps |-> 0]
  /\ late = [apic |-> 0, halt |-> 0]

Step ==
  \/ BeginSlice \/ Instruction \/ Wake \/ StayHalted \/ ReadRtc
  \/ \E m \in BOOLEAN : Halt(m)
  \/ \E n \in PitCounts, m \in PitModes : LoadPit(n, m)
  \/ \E r \in Rates, p, a, u \in BOOLEAN : WriteRtc(r, p, a, u)
  \/ \E n \in ApicCounts : WriteApicCount(n)
  \/ \E p, m \in BOOLEAN : WriteApicMode(p, m)
  \/ \E b \in BOOLEAN : EnableAcpi(b)

Next == Step /\ UNCHANGED uses

Spec == Init /\ [][Next]_vars

----------------------------------------------------------------------------
(* No slice is empty: cpu_execute counts down before it tests for 0, and   *)
(* would run 2^32 instructions.  A masked periodic timer that is late by   *)
(* exactly a period asks for one.                                          *)
NoEmptySlice ==
  slice.on /\ slice.len = 0 => apic.masked /\ apic.periodic /\ apic.next = now

(* No timer is fast.  A second of the real-time clock takes as many ticks  *)
(* as the rate has, each at least Second \div rate cycles, whatever the    *)
(* guest makes of the rates but 0, under which the last period stays in    *)
(* force.  The local APIC timer fires no more often than its count has run *)
(* out.  No wrap of the power management timer is counted twice.           *)
ShortestSecond ==
  LET ls == {Second} \cup {r * (Second \div r) : r \in Rates \ {0}}
  IN CHOOSE l \in ls : \A m \in ls : l <= m
NeverFast ==
  /\ rtc.secs * ShortestSecond <= now
  /\ apic.fired * apic.count <= now - apic.reload
  /\ acpi.wraps <= (now \div AcpiScale) \div AcpiWrap

(* Flags the guest has not read and IRQ 8 go together: with flags set and  *)
(* the line down, or the other way round, no clock interrupt would come.   *)
FlagsAreSignalled == rtc.irq <=> rtc.flags # {}

(* The first interrupt after a load is late by no more than what HLT left  *)
(* of a slice, which pc_execute adds to the clock besides the time to the  *)
(* next event; without halts it is never late.  (Later ones of a periodic  *)
(* timer may be as late as a slice: apic_next returns -1 when it fires.)   *)
LateByHaltOnly == late.apic <= late.halt

=============================================================================
