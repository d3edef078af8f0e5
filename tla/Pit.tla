-------------------------------- MODULE Pit --------------------------------
(***************************************************************************)
(* Channel 0 of the timer, driven by the guest through its ports and       *)
(* looked at by the machine's loop (pit_next).  Module Clock has the loop. *)
(***************************************************************************)
EXTENDS PitChannel, Sequences

CONSTANTS
  Bytes,    \* the bytes the guest writes
  Accesses, \* the access modes it programs
  Modes,    \* and the counting modes
  Gaps,     \* the cycles from one look to the next
  ReadUntil,\* the bound on the time at which it latches and reads the counter
  Horizon   \* the bound on time

ASSUME PitConstants ==
  /\ Bytes \subseteq 0 .. Byte - 1 /\ Accesses \subseteq 1..3 /\ Modes \subseteq 0..5
  /\ Gaps \subseteq Nat /\ ReadUntil \in Nat /\ Horizon \in Nat

VARIABLES
  now,
  chan,
  snap,     \* history: the count when it was last latched
  out,      \* history: the bytes of that latch read so far
  word,     \* history: the bytes written of the word the guest is writing
  irqs,     \* history: interrupts of the looks since the last load
  early,    \* history: interrupts of control words
  wraps     \* history: looks since the load that should have seen a wrap, -1
            \* if the mode was not always periodic since

vars == <<now, chan, snap, out, word, irqs, early, wraps>>

----------------------------------------------------------------------------
\* A raised line that was up already is no interrupt (pic_internal_raise_irq).
Control(access, mode) ==
  /\ chan' = SetMode(chan, access, mode)
  /\ word' = <<>>
  /\ early' = IF chan'.line /\ ~chan.line THEN early + 1 ELSE early
  /\ wraps' = IF chan'.periodic THEN wraps ELSE -1
  /\ UNCHANGED <<now, snap, out, irqs>>

\* The guest latches a channel only when it has given it an access mode.
LatchCount ==
  /\ chan.rw # 0
  /\ chan' = Latch(chan, now)
  /\ IF chan.latched = 0
     THEN snap' = GetCount(chan, now) % (Byte * Byte) /\ out' = <<>>
     ELSE UNCHANGED <<snap, out>>
  /\ UNCHANGED <<now, word, irqs, early, wraps>>

\* The read-back command: the status, the count, or both.
ReadBack(count, status) ==
  /\ chan.rw # 0
  /\ LET c == IF count THEN Latch(chan, now) ELSE chan
     IN chan' = [c EXCEPT !.status = @ \/ status]
  /\ IF count /\ chan.latched = 0
     THEN snap' = GetCount(chan, now) % (Byte * Byte) /\ out' = <<>>
     ELSE UNCHANGED <<snap, out>>
  /\ UNCHANGED <<now, word, irqs, early, wraps>>

Write(b) ==
  /\ chan' = WriteByte(chan, b, now)
  /\ word' = IF chan.rw = 3 /\ Len(word) = 1 THEN Append(word, b) ELSE <<b>>
  /\ LET loads == chan.wmode # 2
     IN /\ irqs' = IF loads THEN 0 ELSE irqs
        /\ wraps' = IF loads THEN (IF chan.periodic THEN 0 ELSE -1) ELSE wraps
  /\ UNCHANGED <<now, snap, out, early>>

Read ==
  LET r == ReadByte(chan, now)
  IN /\ chan' = r.chan
     /\ out' = IF ~chan.status /\ chan.latched # 0 THEN Append(out, r.byte) ELSE out
     /\ UNCHANGED <<now, snap, word, irqs, early, wraps>>

\* The loop comes round after a slice of n cycles.
Look(n) ==
  /\ now + n <= Horizon
  /\ now' = now + n
  /\ LET r == Next0(chan, now')
         periods(t) == (t - chan.load) \div (Scale * chan.count)
     IN /\ chan' = r.chan
        /\ irqs' = irqs + (IF r.irq THEN 1 ELSE 0)
        /\ wraps' = IF wraps >= 0 /\ chan.count # 0 /\ periods(now') # periods(now)
                     THEN wraps + 1 ELSE wraps
  /\ UNCHANGED <<snap, out, word, early>>

Init ==
  /\ now = 0 /\ chan = Reset
  /\ snap = 0 /\ out = <<>> /\ word = <<>> /\ irqs = 0 /\ early = 0 /\ wraps = -1

Next ==
  \/ \E a \in Accesses, m \in Modes : Control(a, m)
  \/ now <= ReadUntil /\ LatchCount
  \/ \E c, s \in BOOLEAN : now <= ReadUntil /\ ReadBack(c, s)
  \/ \E b \in Bytes : Write(b)
  \/ now <= ReadUntil /\ Read
  \/ \E n \in Gaps : Look(n)

Spec == Init /\ [][Next]_vars

----------------------------------------------------------------------------
(* Words stay whole.  A latched word is read back as it was, low byte      *)
(* first, and a count is loaded from the two bytes written for it, whatever *)
(* time passes and whatever latch, read-back, control word, read or write  *)
(* comes between, and whether a status latched meanwhile is read before it *)
(* or dropped by it.                                                       *)
WordsAreWhole ==
  /\ chan.latched = 0 /\ Len(out) = 2 => out[1] + Byte * out[2] = snap
  /\ chan.rw = 3 /\ Len(word) = 2 =>
       chan.count = (IF word = <<0, 0>> THEN Byte * Byte ELSE word[1] + Byte * word[2])

(* Ticks follow time.  IRQ 0 is raised at most once for each time the      *)
(* counter has run out, and two more times: once for the load, once for    *)
(* the jump of the counter, which comes again each time the difference of  *)
(* pit_get_count has run through its type.  And if the loop comes round    *)
(* before the counter can pass its last value, no tick is lost: the one    *)
(* the first jump may hide is made up for by the load's, and each later    *)
(* jump hides one.  Control words of mode 2 raise the line besides: that   *)
(* is an interrupt once in all, before the first tick.                     *)
Overflows == (now - chan.load) \div (Scale * Width)

TicksFollowTime ==
  /\ chan.count # 0 => irqs <= (now - chan.load) \div (Scale * chan.count) + 2 + Overflows
  /\ (\A g \in Gaps : g < Scale * (chan.count - 1)) => irqs + Overflows >= wraps
  /\ early <= IF chan.line THEN 1 ELSE 0

=============================================================================
