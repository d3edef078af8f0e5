----------------------------- MODULE PitChannel -----------------------------
(***************************************************************************)
(* One channel of the 8254 timer of src/pit.cpp: its registers as a record *)
(* and what each port access and each look at the clock makes of them.     *)
(* Time is get_now(), in processor cycles.  The channel is channel 0, and  *)
(* line is the pin of IRQ 0: an interrupt is a rise of it.                 *)
(***************************************************************************)
EXTENDS Integers

CONSTANTS
  Byte,    \* values of a byte: a count is two bytes, a uint32_t four
  Scale    \* cycles per timer tick: ticks_per_second / PIT_CLOCK_SPEED

ASSUME ByteOK == Byte \in Nat \ {0, 1} /\ Scale \in Nat \ {0}

Width == Byte * Byte * Byte * Byte
Counts == 0 .. Byte * Byte

\* latched is whats_latched >> 2: the byte or bytes of counter_latch to come,
\* 0 for none.  rmode and wmode are 2 and 3 for the two bytes of a word.
Reset ==
  [count |-> 0, load |-> 0, last |-> 0, periodic |-> FALSE, running |-> FALSE,
   rw |-> 0, rmode |-> 0, wmode |-> 0, interim |-> 0,
   latched |-> 0, latch |-> 0, status |-> FALSE, line |-> FALSE]

\* pit_get_count: the difference is a uint32_t before it is reduced, so the
\* counter jumps when the ticks since the load pass the count.
GetCount(c, now) ==
  IF c.count = 0 THEN 0 ELSE ((c.count - (now - c.load) \div Scale) % Width) % c.count

\* pit_set_count: 0 stands for the largest count.  The counter reads 0.
SetCount(c, v, now) ==
  [c EXCEPT !.count = IF v = 0 THEN Byte * Byte ELSE v, !.load = now,
            !.last = 0, !.running = TRUE]

\* pit_channel_latch_counter.  whats_latched is assigned as a whole: a status
\* latched before and not yet read is dropped.
Latch(c, now) ==
  LET v == GetCount(c, now) % (Byte * Byte)
  IN IF c.latched # 0 THEN c
     ELSE [c EXCEPT !.latched = c.rw, !.status = FALSE,
                    !.latch = CASE c.rw = 1 -> v % Byte
                                [] c.rw = 2 -> (v \div Byte) % Byte
                                [] OTHER -> v]

\* A control word with an access mode.  Mode 2 raises the line, and nothing
\* lowers it but the next tick, to raise it again.
SetMode(c, access, mode) ==
  [c EXCEPT !.rw = access, !.rmode = access - 1, !.wmode = access - 1,
            !.periodic = mode \in {2, 3}, !.line = @ \/ mode = 2]

\* Mutant: the bytes of a word are told apart by the read flip-flop.
WriteByteShared(c, b, now) ==
  CASE c.rmode = 0 -> SetCount(c, b, now)
    [] c.rmode = 1 -> SetCount(c, b * Byte, now)
    [] c.rmode = 2 -> [c EXCEPT !.interim = b, !.rmode = 3]
    [] c.rmode = 3 -> [SetCount(c, b * Byte + c.interim, now) EXCEPT !.rmode = 2]

\* A byte written to the channel's port.
WriteByte(c, b, now) ==
  CASE c.wmode = 0 -> SetCount(c, b, now)
    [] c.wmode = 1 -> SetCount(c, b * Byte, now)
    [] c.wmode = 2 -> [c EXCEPT !.interim = b, !.wmode = 3]
    [] c.wmode = 3 -> [SetCount(c, b * Byte + c.interim, now) EXCEPT !.wmode = 2]

\* A byte read from it: the latched status, then the latched count, then the
\* count as it is.
ReadByte(c, now) ==
  LET v == GetCount(c, now)
  IN CASE c.status -> [byte |-> -1, chan |-> [c EXCEPT !.status = FALSE]]
       [] ~c.status /\ c.latched \in 1..2 ->
            [byte |-> c.latch % Byte, chan |-> [c EXCEPT !.latched = 0]]
       [] ~c.status /\ c.latched = 3 ->
            [byte |-> c.latch % Byte,
             chan |-> [c EXCEPT !.latched = 2, !.latch = @ \div Byte]]
       [] OTHER ->
            [byte |-> (IF c.rmode \in {0, 2} THEN v ELSE v \div Byte) % Byte,
             chan |-> [c EXCEPT !.rmode = IF @ < 2 THEN @ ELSE 5 - @]]

\* Mutant: the count of the last look is not kept up to date.
NextStale(c, now) ==
  LET v == GetCount(c, now)
      irq == c.running /\ v > c.last
  IN IF irq /\ ~c.periodic
     THEN [irq |-> TRUE, chan |-> [c EXCEPT !.running = FALSE, !.line = TRUE]]
     ELSE [irq |-> irq, chan |-> [c EXCEPT !.line = @ \/ irq]]

\* pit_next: a counter larger than at the last look has wrapped, and IRQ 0 is
\* lowered and raised; a counter just loaded reads 0 and seems to wrap at once.
Next0(c, now) ==
  LET v == GetCount(c, now)
      irq == c.running /\ v > c.last
  IN IF irq /\ ~c.periodic
     THEN [irq |-> TRUE, chan |-> [c EXCEPT !.running = FALSE, !.line = TRUE]]
     ELSE [irq |-> irq,
           chan |-> IF c.running THEN [c EXCEPT !.last = v, !.line = @ \/ irq] ELSE c]

\* Mutant: those that are left.
Wait0Left(c, now) ==
  LET n == Next0(c, now)
  IN IF n.chan.running THEN GetCount(c, now) * Scale ELSE -1

\* The cycles it asks for, -1 for none: those since the counter wrapped.
Wait0(c, now) ==
  LET n == Next0(c, now)
  IN IF n.chan.running THEN (c.count - GetCount(c, now)) * Scale ELSE -1

=============================================================================
