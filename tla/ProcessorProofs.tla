--------------------------- MODULE ProcessorProofs ---------------------------
(***************************************************************************)
(* What holds of CpuRun for every set of budgets, and of the string        *)
(* instructions, which a slice's end or a page fault interrupts, for every *)
(* memory, count and order of faults.                                      *)
(*                                                                         *)
(* Of CpuRun: the counters satisfy Counters, which is inductive on its     *)
(* own; Pending adds where a pending interrupt and a shadow can be, and    *)
(* needs the counters only to know that the count is positive.             *)
(*                                                                         *)
(* Of Strings: StringInv holds the program against the reference Elements  *)
(* in the middle of an element too.                                        *)
(***************************************************************************)
EXTENDS CpuRun, Strings, TLAPS, WellFoundedInduction

(* Where the flags are, phase by phase: interrupts are blocked only between *)
(* slices, and a shadow reaches the top of the loop only with them blocked. *)
Pending ==
  /\ Prompt
  /\ phase = "exec" => ~blocked
  /\ phase # "exec" /\ shadow => blocked
  /\ phase = "exec" /\ shadow => clk.run = 1
  /\ phase = "loop" /\ blocked => done = 0 /\ clk.refill = 0

(* SliceBound bounds the whole slice by the budget and one instruction; the *)
(* one is there only in a slice that began with interrupts blocked, so a    *)
(* slice about to pass a shadow has done nothing yet.                       *)
Counters ==
  /\ EveryCycleCounted
  /\ SliceBound

Inv == TypeOK /\ Counters /\ Pending

----------------------------------------------------------------------------
(* The clock.  Every operation on it is a Split, and a Split keeps the time. *)

(* A clock with cycles left to run, and time told. *)
Live(c, told, rest) ==
  /\ c \in Clock
  /\ c.run >= 1 /\ c.refill >= 0
  /\ Cycles(c) = told
  /\ c.run + c.refill <= rest

(* Dividing the cycles to run differently does not change the time. *)
LEMMA SplitKeepsTime ==
  ASSUME NEW c \in Clock, NEW run \in Nat, NEW refill \in Int
  PROVE  /\ Split(c, run, refill) \in Clock
         /\ Cycles(Split(c, run, refill)) = Cycles(c)
         /\ Split(c, run, refill).run = run
         /\ Split(c, run, refill).refill = refill
  BY DEF Clock, Split, Cycles

(* The case that leaves one cycle and no refill. *)
LEMMA SplitOff ==
  ASSUME NEW c \in Clock
  PROVE  /\ Split(c, 1, 0) \in Clock
         /\ Cycles(Split(c, 1, 0)) = Cycles(c)
         /\ Split(c, 1, 0).run = 1
         /\ Split(c, 1, 0).refill = 0
  BY DEF Clock, Split, Cycles

(* cpu_request_fast_return never adds cycles to a slice, and leaves one. *)
LEMMA FastReturnLive ==
  ASSUME NEW c, NEW told \in Int, NEW rest \in Int, Live(c, told, rest)
  PROVE  Live(FastReturn(c), told, rest) /\ FastReturn(c).run = 1
<1>1. c \in Clock /\ 1 \in Nat /\ c.run - 1 \in Int /\ FastReturn(c) = Split(c, 1, c.run - 1)
  BY DEF Live, Clock, FastReturn
<1>2. /\ FastReturn(c) \in Clock /\ Cycles(FastReturn(c)) = Cycles(c)
      /\ FastReturn(c).run = 1 /\ FastReturn(c).refill = c.run - 1
  BY <1>1, SplitKeepsTime
<1>3. QED
  BY <1>2 DEF Live, Clock

(* Nor does HLT. *)
LEMMA HaltLive ==
  ASSUME NEW c, NEW told \in Int, NEW rest \in Int, Live(c, told, rest)
  PROVE  Live(Halt(c), told, rest) /\ Halt(c).run = 1 /\ Halt(c).refill = 0
<1>1. c \in Clock /\ 1 \in Nat /\ 0 \in Int /\ Halt(c) = Split(c, 1, 0)
  BY DEF Live, Halt
<1>2. /\ Halt(c) \in Clock /\ Cycles(Halt(c)) = Cycles(c)
      /\ Halt(c).run = 1 /\ Halt(c).refill = 0
  BY <1>1, SplitOff
<1>3. QED
  BY <1>2 DEF Live, Clock

(* interrupt_guard leaves two cycles, or one if there was only one; then no  *)
(* refill is left and the slice is over.                                     *)
LEMMA GuardLive ==
  ASSUME NEW c, NEW told \in Int, NEW rest \in Int, Live(c, told, rest)
  PROVE  /\ Live(Guard(c), told, rest)
         /\ c.run # 1 => Guard(c).run = 2
         /\ c.run = 1 => Guard(c).run = 1 /\ Guard(c).refill = 0
<1>1. /\ c \in Clock /\ 1 \in Nat /\ 2 \in Nat /\ 0 \in Int
      /\ c.run - 2 \in Int
  BY DEF Live, Clock
<1>2. CASE c.run = 1
  <2>1. Guard(c) = Split(c, 1, 0)
    BY <1>2 DEF Guard
  <2>2. /\ Guard(c) \in Clock /\ Cycles(Guard(c)) = Cycles(c)
        /\ Guard(c).run = 1 /\ Guard(c).refill = 0
    BY <1>1, <2>1, SplitOff
  <2>3. QED
    BY <1>2, <2>2 DEF Live, Clock
<1>3. CASE c.run # 1
  <2>1. c.run >= 2
    BY <1>3 DEF Live, Clock
  <2>2. Guard(c) = Split(c, 2, c.run - 2)
    BY <1>3 DEF Guard
  <2>3. /\ Guard(c) \in Clock /\ Cycles(Guard(c)) = Cycles(c)
        /\ Guard(c).run = 2 /\ Guard(c).refill = c.run - 2
    BY <1>1, <2>2, SplitKeepsTime
  <2>4. QED
    BY <1>3, <2>1, <2>3 DEF Live, Clock
<1>4. QED
  BY <1>2, <1>3

(* What a request to return in an instruction can make of the clock. *)
LEMMA CutLive ==
  ASSUME NEW told \in Int, NEW rest \in Int, Live(clk, told, rest),
         NEW c \in Cut
  PROVE  Live(c, told, rest) /\ c.run = 1
<1>1. Live(FastReturn(clk), told, rest) /\ FastReturn(clk).run = 1
  BY FastReturnLive
<1>2. /\ Live(FastReturn(FastReturn(clk)), told, rest)
      /\ FastReturn(FastReturn(clk)).run = 1
  BY <1>1, FastReturnLive
<1>3. QED
  BY <1>1, <1>2 DEF Cut

(* An instruction that completes counts once, whatever it made of the clock. *)
LEMMA FinishLive ==
  ASSUME NEW c, NEW told \in Int, NEW rest \in Int, Live(c, told, rest),
         Finish(c)
  PROVE  /\ clk' \in Clock
         /\ Cycles(clk') = told + 1
         /\ phase' # "out" => Live(clk', told + 1, rest - 1)
         /\ phase' = "exec" => c.run # 1 /\ clk'.run = c.run - 1
         /\ phase' # "exec" => c.run = 1
         /\ phase' = "loop" => c.refill # 0
         /\ phase' \in {"out", "loop", "exec"}
<1>1. c \in Clock
  BY DEF Live
<1>2. CASE c.run # 1
  <2>1. phase' = "exec" /\ clk' = [c EXCEPT !.run = @ - 1] /\ c.run >= 2
    BY <1>2 DEF Finish, Live, Clock
  <2>2. QED
    BY <1>1, <1>2, <2>1 DEF Live, Clock, Cycles
<1>3. CASE c.run = 1
  <2> DEFINE over == [c EXCEPT !.run = 0]
  <2>1. /\ over \in Clock /\ c.refill \in Nat
        /\ Cycles(over) = told + 1
    BY <1>1, <1>3 DEF Live, Clock, Cycles
  <2>2. /\ clk' = Split(over, c.refill, 0)
        /\ phase' = IF c.refill = 0 THEN "out" ELSE "loop"
    BY <1>3 DEF Finish
  <2>3. /\ clk' \in Clock /\ Cycles(clk') = told + 1
        /\ clk'.run = c.refill /\ clk'.refill = 0
    BY <2>1, <2>2, SplitKeepsTime
  <2>4. c.refill <= rest - 1
    BY <1>1, <1>3 DEF Live, Clock
  <2>5. QED
    BY <1>3, <2>1, <2>2, <2>3, <2>4 DEF Live
<1>4. QED
  BY <1>2, <1>3

----------------------------------------------------------------------------
(* The inductive invariant.                                                *)

(* Init establishes the invariant. *)
LEMMA InitInv == Init => Inv
<1> SUFFICES ASSUME Init PROVE Inv
  OBVIOUS
<1>1. TypeOK
  <2>1. clk \in Clock /\ budget \in Nat /\ done \in Nat
    BY DEF Init, Clock
  <2>2. /\ phase \in {"out", "loop", "exec"}
        /\ intf \in BOOLEAN /\ intr \in BOOLEAN
        /\ blocked \in BOOLEAN /\ halted \in BOOLEAN /\ shadow \in BOOLEAN
    BY Zenon DEF Init
  <2>3. QED
    BY <2>1, <2>2 DEF TypeOK
<1>2. Counters
  BY DEF Init, Counters, EveryCycleCounted, SliceBound, Cycles
<1>3. Pending
  BY DEF Init, Pending, Prompt
<1>4. QED
  BY <1>1, <1>2, <1>3 DEF Inv

(* In a slice, the clock is live. *)
LEMMA SliceLive ==
  ASSUME Inv, phase # "out"
  PROVE  /\ done \in Nat /\ budget + 1 - done \in Int
         /\ Live(clk, done, budget + 1 - done)
  BY DEF Inv, TypeOK, Clock, Counters, EveryCycleCounted, SliceBound, Live

(* An instruction that completes keeps the invariant, if it makes of the     *)
(* clock something live, blocks interrupts only in a slice's last cycle,     *)
(* guards the next instruction, and cuts the slice for a pending interrupt.  *)
LEMMA CompleteInv ==
  ASSUME Inv, NEW c, NEW g \in BOOLEAN, Complete(c, g),
         Live(c, done, budget + 1 - done),
         intf' \in BOOLEAN, intr' \in BOOLEAN,
         blocked' \in BOOLEAN, halted' \in BOOLEAN,
         blocked' => c.run = 1 /\ c.refill = 0,
         g => c.run = 2 \/ blocked',
         intr' /\ intf' => c.run = 1 \/ c.run = 2
  PROVE  Inv'
<1>1. /\ phase = "exec" /\ Finish(c) /\ done' = done + 1 /\ shadow' = g
      /\ budget' = budget
  BY DEF Complete
<1>2. done \in Nat /\ budget \in Nat /\ budget + 1 - done \in Int
  BY DEF Inv, TypeOK
<1>3. /\ clk' \in Clock /\ Cycles(clk') = done + 1
      /\ phase' # "out" => Live(clk', done + 1, budget + 1 - done - 1)
      /\ phase' = "exec" => c.run # 1 /\ clk'.run = c.run - 1
      /\ phase' # "exec" => c.run = 1
      /\ phase' = "loop" => c.refill # 0
      /\ phase' \in {"out", "loop", "exec"}
  BY <1>1, <1>2, FinishLive
<1>4. TypeOK'
  <2>1. done' \in Nat /\ budget' \in Nat /\ shadow' \in BOOLEAN
    BY <1>1, <1>2
  <2>2. QED
    BY <1>3, <2>1 DEF TypeOK
<1>5. Counters'
  <2>1. EveryCycleCounted'
    BY <1>1, <1>3 DEF EveryCycleCounted, Cycles
  <2>2. done' <= budget' + 1
    BY <1>1, <1>2 DEF Live, Clock
  <2>3. phase' # "out" => /\ clk'.run >= 1 /\ clk'.refill >= 0
                          /\ done' + clk'.run + clk'.refill <= budget' + 1
    BY <1>1, <1>2, <1>3 DEF Live, Clock
  <2>4. QED
    BY <2>1, <2>2, <2>3 DEF Counters, SliceBound
<1>6. Pending'
  <2>1. phase' = "exec" => ~blocked' /\ c.run # 1
    BY <1>3
  <2>2. phase' = "exec" /\ c.run = 2 => clk'.run = 1
    BY <1>3
  <2>3. Prompt'
    BY <2>1, <2>2 DEF Prompt
  <2>4. phase' # "exec" /\ shadow' => blocked'
    BY <1>1, <1>3
  <2>5. phase' = "exec" /\ shadow' => clk'.run = 1
    BY <1>1, <2>1, <2>2
  <2>6. ~(phase' = "loop" /\ blocked')
    BY <1>3
  <2>7. QED
    BY <2>1, <2>3, <2>4, <2>5, <2>6 DEF Pending
<1>7. QED
  BY <1>4, <1>5, <1>6 DEF Inv

(* Every instruction does what CompleteInv asks. *)
LEMMA StepInv ==
  ASSUME Inv, Step
  PROVE  Inv'
<1>1. /\ phase = "exec" /\ ~blocked
      /\ intf \in BOOLEAN /\ intr \in BOOLEAN /\ blocked \in BOOLEAN
      /\ halted \in BOOLEAN
      /\ intr /\ intf => clk.run = 1
  BY DEF Inv, TypeOK, Pending, Prompt, Step, Plain, Access, Lower, Cli,
         Guarded, SetFlags, Hlt, Complete
<1>2. /\ done \in Nat /\ budget + 1 - done \in Int
      /\ Live(clk, done, budget + 1 - done)
  BY <1>1, SliceLive
<1>3. CASE Plain
  <2>1. Complete(clk, FALSE)
    BY <1>3 DEF Plain
  <2>2. UNCHANGED <<intf, intr, blocked, halted>>
    BY <1>3 DEF Plain, irqState
  <2>3. QED
    BY <1>1, <1>2, <2>1, <2>2, CompleteInv
<1>4. CASE Access
  <2>1. PICK c \in Cut : Complete(c, FALSE)
    BY <1>4 DEF Access
  <2>2. Live(c, done, budget + 1 - done) /\ c.run = 1
    BY <1>2, CutLive
  <2>3. intr' \in BOOLEAN /\ UNCHANGED <<intf, blocked, halted>>
    BY <1>1, <1>4 DEF Access
  <2>4. QED
    BY <1>1, <2>1, <2>2, <2>3, CompleteInv
<1>5. CASE Lower
  <2>1. Complete(clk, FALSE)
    BY <1>5 DEF Lower
  <2>2. intr' = FALSE /\ UNCHANGED <<intf, blocked, halted>>
    BY <1>5 DEF Lower
  <2>3. QED
    BY <1>1, <1>2, <2>1, <2>2, CompleteInv
<1>6. CASE Cli
  <2>1. Complete(clk, FALSE)
    BY <1>6 DEF Cli
  <2>2. intf' = FALSE /\ UNCHANGED <<intr, blocked, halted>>
    BY <1>6 DEF Cli
  <2>3. QED
    BY <1>1, <1>2, <2>1, <2>2, CompleteInv
<1>7. CASE Guarded
  <2>1. Complete(Guard(clk), TRUE)
    BY <1>7 DEF Guarded
  <2>2. /\ Live(Guard(clk), done, budget + 1 - done)
        /\ clk.run # 1 => Guard(clk).run = 2
        /\ clk.run = 1 => Guard(clk).run = 1 /\ Guard(clk).refill = 0
    BY <1>2, GuardLive
  <2>3. /\ intf' \in BOOLEAN /\ UNCHANGED <<intr, halted>>
        /\ blocked' \in BOOLEAN
        /\ blocked' <=> clk.run = 1
    BY <1>1, <1>7 DEF Guarded
  <2>4. QED
    BY <1>1, <2>1, <2>2, <2>3, CompleteInv
<1>8. CASE SetFlags
  <2>1. intf' \in BOOLEAN /\ UNCHANGED <<intr, blocked, halted>>
    BY <1>8 DEF SetFlags
  <2>2. CASE intf' = intf
    <3>1. Complete(clk, FALSE)
      BY <1>8, <2>2 DEF SetFlags
    <3>2. QED
      BY <1>1, <1>2, <2>1, <2>2, <3>1, CompleteInv
  <2>3. CASE intf' # intf
    <3>1. Complete(FastReturn(clk), FALSE)
      BY <1>8, <2>3 DEF SetFlags
    <3>2. Live(FastReturn(clk), done, budget + 1 - done) /\ FastReturn(clk).run = 1
      BY <1>2, FastReturnLive
    <3>3. QED
      BY <1>1, <2>1, <3>1, <3>2, CompleteInv
  <2>4. QED
    BY <2>2, <2>3
<1>9. CASE Hlt
  <2>1. Complete(Halt(clk), FALSE)
    BY <1>9 DEF Hlt
  <2>2. Live(Halt(clk), done, budget + 1 - done) /\ Halt(clk).run = 1
    BY <1>2, HaltLive
  <2>3. blocked' = FALSE /\ halted' = TRUE /\ UNCHANGED <<intf, intr>>
    BY <1>9 DEF Hlt
  <2>4. QED
    BY <1>1, <2>1, <2>2, <2>3, CompleteInv
<1>10. QED
  BY <1>3, <1>4, <1>5, <1>6, <1>7, <1>8, <1>9 DEF Step

(* What cpu_run does between instructions, and what happens between slices. *)
LEMMA AroundInv ==
  ASSUME Inv, DeviceRaises \/ EnterRun \/ Top \/ Fault
  PROVE  Inv'
<1>1. /\ clk \in Clock /\ budget \in Nat /\ done \in Nat
      /\ intf \in BOOLEAN /\ intr \in BOOLEAN
      /\ blocked \in BOOLEAN /\ halted \in BOOLEAN /\ shadow \in BOOLEAN
      /\ phase \in {"out", "loop", "exec"}
  BY DEF Inv, TypeOK
<1>2. Cycles(clk) = done /\ Pending /\ SliceBound
  BY DEF Inv, Counters, EveryCycleCounted
<1>3. CASE DeviceRaises
  <2>1. /\ phase = "out" /\ phase' = "out" /\ intr' = TRUE
        /\ clk' = Split(clk, 1, clk.run - 1)
        /\ UNCHANGED <<budget, intf, blocked, halted, shadow, done>>
    BY <1>3 DEF DeviceRaises, FastReturn
  <2>2. clk' \in Clock /\ Cycles(clk') = Cycles(clk)
    <3>1. 1 \in Nat /\ clk.run - 1 \in Int
      BY <1>1 DEF Clock
    <3>2. QED
      BY <1>1, <2>1, <3>1, SplitKeepsTime
  <2>3. TypeOK'
    BY <1>1, <2>1, <2>2 DEF TypeOK
  <2>4. Counters'
    <3>1. EveryCycleCounted'
      BY <1>2, <2>1, <2>2 DEF EveryCycleCounted, Cycles
    <3>2. QED
      BY <1>2, <2>1, <3>1 DEF Counters, SliceBound
  <2>5. Pending'
    BY <1>2, <2>1 DEF Pending, Prompt
  <2>6. QED
    BY <2>3, <2>4, <2>5 DEF Inv
<1>4. CASE EnterRun
  <2>1. PICK b \in Budgets :
          /\ budget' = b
          /\ clk' = [run |-> b, refill |-> 0, offset |-> b, ran |-> 0]
    BY <1>4 DEF EnterRun
  <2>2. /\ phase = "out" /\ phase' = "loop" /\ done' = 0
        /\ UNCHANGED <<intf, intr, blocked, halted, shadow>>
    BY <1>4 DEF EnterRun, irqState
  <2>3. b \in Nat /\ b >= 1
    BY BudgetsOK
  <2>4. clk' \in Clock /\ clk'.refill = 0
    BY <2>1, <2>3 DEF Clock
  <2>5. TypeOK'
    <3>1. budget' \in Nat /\ done' \in Nat
      BY <2>1, <2>2, <2>3
    <3>2. QED
      BY <1>1, <2>2, <2>4, <3>1 DEF TypeOK
  <2>6. Counters'
    BY <2>1, <2>2, <2>3 DEF Counters, EveryCycleCounted, SliceBound, Cycles
  <2>7. Pending'
    BY <1>2, <2>2, <2>4 DEF Pending, Prompt
  <2>8. QED
    BY <2>5, <2>6, <2>7 DEF Inv
<1>5. CASE TakeInterrupt
  <2>1. /\ phase = "loop" /\ ~blocked /\ intr /\ intf /\ phase' = "exec"
        /\ intr' = FALSE /\ halted' = FALSE
        /\ intf' \in BOOLEAN /\ clk' \in {clk, FastReturn(clk)}
        /\ UNCHANGED <<budget, blocked, shadow, done>>
    BY <1>1, <1>5 DEF TakeInterrupt, Interruptible
  <2>2. /\ done \in Nat /\ budget + 1 - done \in Int
        /\ Live(clk', done, budget + 1 - done)
    BY <2>1, SliceLive, FastReturnLive
  <2>3. TypeOK'
    BY <1>1, <2>1, <2>2 DEF TypeOK, Live
  <2>4. Counters'
    <3>1. EveryCycleCounted'
      BY <2>1, <2>2 DEF EveryCycleCounted, Live, Cycles
    <3>2. SliceBound'
      BY <1>1, <2>1, <2>2 DEF SliceBound, Live, Clock
    <3>3. QED
      BY <3>1, <3>2 DEF Counters
  <2>5. Pending'
    BY <1>2, <2>1 DEF Pending, Prompt
  <2>6. QED
    BY <2>3, <2>4, <2>5 DEF Inv
<1>6. CASE StayHalted
  <2>1. /\ phase = "loop" /\ phase' = "out"
        /\ UNCHANGED <<clk, budget, intf, intr, blocked, halted, shadow, done>>
    BY <1>6 DEF StayHalted, irqState
  <2>2. TypeOK'
    BY <1>1, <2>1 DEF TypeOK
  <2>3. Counters'
    <3>1. done <= budget + 1
      BY <1>1, <1>2, <2>1 DEF SliceBound, Clock
    <3>2. EveryCycleCounted'
      BY <1>2, <2>1 DEF EveryCycleCounted, Cycles
    <3>3. QED
      BY <2>1, <3>1, <3>2 DEF Counters, SliceBound
  <2>4. Pending'
    BY <1>2, <2>1 DEF Pending, Prompt
  <2>5. QED
    BY <2>2, <2>3, <2>4 DEF Inv
<1>7. CASE PassShadow
  <2>1. /\ phase = "loop" /\ blocked /\ phase' = "exec" /\ blocked' = FALSE
        /\ clk' = Split(clk, 1, budget)
        /\ UNCHANGED <<budget, intf, intr, halted, shadow, done>>
    BY <1>7 DEF PassShadow
  <2>2. done = 0
    BY <1>2, <2>1 DEF Pending
  <2>3. /\ clk' \in Clock /\ Cycles(clk') = Cycles(clk)
        /\ clk'.run = 1 /\ clk'.refill = budget
    <3>1. 1 \in Nat /\ budget \in Int
      BY <1>1
    <3>2. QED
      BY <1>1, <2>1, <3>1, SplitKeepsTime
  <2>4. TypeOK'
    BY <1>1, <2>1, <2>3 DEF TypeOK
  <2>5. Counters'
    <3>1. EveryCycleCounted'
      BY <1>2, <2>1, <2>3 DEF EveryCycleCounted, Cycles
    <3>2. SliceBound'
      BY <1>1, <2>1, <2>2, <2>3 DEF SliceBound
    <3>3. QED
      BY <3>1, <3>2 DEF Counters
  <2>6. Pending'
    BY <2>1, <2>3 DEF Pending, Prompt
  <2>7. QED
    BY <2>4, <2>5, <2>6 DEF Inv
<1>8. CASE Resume
  <2>1. /\ phase = "loop" /\ ~blocked /\ ~(intr /\ intf) /\ phase' = "exec"
        /\ UNCHANGED <<clk, budget, intf, intr, blocked, halted, shadow, done>>
    BY <1>8 DEF Resume, Interruptible, irqState
  <2>2. TypeOK'
    BY <1>1, <2>1 DEF TypeOK
  <2>3. Counters'
    <3>1. EveryCycleCounted'
      BY <1>2, <2>1 DEF EveryCycleCounted, Cycles
    <3>2. QED
      BY <1>2, <2>1, <3>1 DEF Counters, SliceBound
  <2>4. Pending'
    BY <1>2, <2>1 DEF Pending, Prompt
  <2>5. QED
    BY <2>2, <2>3, <2>4 DEF Inv
<1>9. CASE Fault
  <2>1. /\ phase = "exec" /\ phase' = "exec"
        /\ intf' \in BOOLEAN /\ intr' \in BOOLEAN
        /\ UNCHANGED <<budget, blocked, halted, shadow, done>>
    BY <1>1, <1>9 DEF Fault
  <2>2. /\ done \in Nat /\ budget + 1 - done \in Int
        /\ Live(clk, done, budget + 1 - done)
    BY <2>1, SliceLive
  <2>3. ASSUME NEW c \in Cut
        PROVE  Live(c, done, budget + 1 - done) /\ c.run = 1
    BY <2>2, CutLive
  <2>4. /\ Live(clk', done, budget + 1 - done)
        /\ \/ clk'.run = 1
           \/ clk' = clk /\ intr' = intr /\ (intf' => intf)
    <3>1. CASE clk' = clk /\ UNCHANGED intr /\ intf' \in {FALSE, intf}
      <4>1. intf' = FALSE \/ intf' = intf
        BY <3>1
      <4>2. Live(clk', done, budget + 1 - done)
        BY <2>2, <3>1
      <4>3. QED
        BY <3>1, <4>1, <4>2
    <3>2. CASE clk' \in Cut
      <4>1. PICK c \in Cut : clk' = c
        BY <3>2
      <4>2. Live(c, done, budget + 1 - done) /\ c.run = 1
        BY <2>3
      <4>3. QED
        BY <4>1, <4>2
    <3>3. QED
      BY <1>9, <3>1, <3>2 DEF Fault
  <2>5. TypeOK'
    BY <1>1, <2>1, <2>4 DEF TypeOK, Live
  <2>6. Counters'
    <3>1. EveryCycleCounted'
      BY <2>1, <2>4 DEF EveryCycleCounted, Live, Cycles
    <3>2. SliceBound'
      BY <1>1, <2>1, <2>4 DEF SliceBound, Live, Clock
    <3>3. QED
      BY <3>1, <3>2 DEF Counters
  <2>7. Pending'
    BY <1>2, <2>1, <2>4 DEF Pending, Prompt
  <2>8. QED
    BY <2>5, <2>6, <2>7 DEF Inv
<1>10. QED
  BY <1>3, <1>4, <1>5, <1>6, <1>7, <1>8, <1>9 DEF Top

(* The invariant is inductive. *)
LEMMA NextInv == Inv /\ [Next]_vars => Inv'
<1> SUFFICES ASSUME Inv, [Next]_vars PROVE Inv'
  OBVIOUS
<1>1. CASE Next
  BY <1>1, StepInv, AroundInv DEF Next
<1>2. CASE UNCHANGED vars
  <2>1. UNCHANGED <<phase, clk, budget, intf, intr, blocked, halted, shadow, done>>
    BY <1>2 DEF vars
  <2>2. QED
    BY <2>1 DEF Inv, TypeOK, Counters, Pending, Prompt, EveryCycleCounted,
                SliceBound, Cycles
<1>3. QED
  BY <1>1, <1>2

\* The inductive invariant holds in every behaviour of the loop.
LEMMA SpecInv == Spec => []Inv
  BY InitInv, NextInv, PTL DEF Spec

----------------------------------------------------------------------------

(* Every value keeps its type: the count of cycles is never negative. *)
THEOREM TypeCorrect == Spec => []TypeOK
<1>1. Inv => TypeOK
  BY DEF Inv
<1>2. QED
  BY <1>1, SpecInv, PTL

(* With an interrupt pending and enabled, the instruction in progress is the *)
(* last before cpu_run looks at the line, whatever the budget.               *)
THEOREM PromptHolds == Spec => []Prompt
<1>1. Inv => Prompt
  BY DEF Inv, Pending
<1>2. QED
  BY <1>1, SpecInv, PTL

(* The time devices read is exactly the number of instructions completed. *)
THEOREM CyclesCounted == Spec => []EveryCycleCounted
<1>1. Inv => EveryCycleCounted
  BY DEF Inv, Counters
<1>2. QED
  BY <1>1, SpecInv, PTL

(* No slice is longer than its budget and one instruction. *)
THEOREM SlicesBounded == Spec => []SliceBound
<1>1. Inv => SliceBound
  BY DEF Inv, Counters
<1>2. QED
  BY <1>1, SpecInv, PTL

(* No interrupt is taken in the shadow of STI, MOV SS or POP SS: only        *)
(* TakeInterrupt lowers the line at the top of the loop.                     *)
THEOREM ShadowsHold == Spec => ShadowHolds
<1>1. ASSUME Inv, [Next]_vars, phase = "loop", intr, ~intr'
      PROVE  ~shadow
  <2>1. TakeInterrupt
    BY <1>1 DEF Next, vars, DeviceRaises, EnterRun, Top, StayHalted,
                PassShadow, Resume, irqState, Step, Plain, Access, Lower, Cli,
                Guarded, SetFlags, Hlt, Complete, Fault
  <2>2. QED
    BY <1>1, <2>1 DEF TakeInterrupt, Interruptible, Inv, Pending
<1>2. Inv /\ [Next]_vars => [phase = "loop" /\ intr /\ ~intr' => ~shadow]_vars
  BY <1>1
<1>3. QED
  BY <1>2, SpecInv, PTL DEF Spec, ShadowHolds

----------------------------------------------------------------------------
(* The string instructions.  First the reference: what Elements computes,  *)
(* by induction on the count.                                               *)

\* A non-empty set of natural numbers has a least one.
LEMMA LeastNumber ==
  ASSUME NEW T \in SUBSET Nat, T # {}
  PROVE  \E m \in T : \A n \in T : m <= n
  <1>1. PICK m \in T : \A n \in T : ~ (<<n, m>> \in OpToRel(<, Nat))
      BY WFMin, NatLessThanWellFounded, Zenon
  <1>2. \A n \in T : ~ (n < m)
      BY <1>1, Zenon DEF OpToRel
  <1>3. \A n \in T : n \in Nat
      OBVIOUS
  <1> QED BY <1>2, <1>3

\* There is a function for every count: a least count without one would have
\* a predecessor with one, which can be continued.
LEMMA ElementsExist ==
  ASSUME NEW i, NEW w, NEW n \in Nat
  PROVE  \E f : f = [k \in 0..n |-> IF k = 0 THEN Start(w) ELSE Element(i, f[k - 1])]
  <1> DEFINE Computed(m) ==
               \E f : f = [k \in 0..m |-> IF k = 0 THEN Start(w) ELSE Element(i, f[k - 1])]
             T == {m \in Nat : ~ Computed(m)}
  <1> SUFFICES ASSUME T # {} PROVE FALSE
      OBVIOUS
  <1>1. PICK m \in T : \A j \in T : m <= j
    <2> HIDE DEF Computed
    <2> QED BY LeastNumber
  <1>2. Computed(0)
    <2> DEFINE f == [k \in 0..0 |-> Start(w)]
    <2>1. f = [k \in 0..0 |-> IF k = 0 THEN Start(w) ELSE Element(i, f[k - 1])]
        OBVIOUS
    <2> QED BY <2>1
  <1>3. m \in Nat \ {0}
      BY <1>2
  <1>4. Computed(m - 1)
    <2> HIDE DEF Computed
    <2> QED BY <1>1, <1>3
  <1>5. PICK f : f = [k \in 0..(m - 1) |-> IF k = 0 THEN Start(w) ELSE Element(i, f[k - 1])]
      BY <1>4
  <1>6. Computed(m)
    <2> DEFINE g == [k \in 0..m |-> IF k < m THEN f[k] ELSE Element(i, f[m - 1])]
    <2>1. ASSUME NEW k \in 0..m PROVE g[k] = IF k = 0 THEN Start(w) ELSE Element(i, g[k - 1])
      <3>1. CASE k = 0
          BY <1>3, <3>1, <1>5
      <3>2. CASE k # 0 /\ k < m
        <4>1. f[k] = Element(i, f[k - 1])
            BY <1>3, <3>2, <1>5
        <4>2. g[k] = f[k] /\ g[k - 1] = f[k - 1]
            BY <1>3, <3>2
        <4> QED BY <3>2, <4>1, <4>2
      <3>3. CASE k = m
          BY <1>3, <3>3
      <3> QED BY <1>3, <3>1, <3>2, <3>3
    <2>2. g = [k \in 0..m |-> IF k = 0 THEN Start(w) ELSE Element(i, g[k - 1])]
        BY <2>1
    <2> QED BY <2>2
  <1> QED BY <1>1, <1>6

\* The state after no element, and after one more.
LEMMA ElementsAre ==
  ASSUME NEW i, NEW w
  PROVE  /\ Elements(i, w)[0] = Start(w)
         /\ \A n \in 0..(MaxCount - 1) : Elements(i, w)[n + 1] = Element(i, Elements(i, w)[n])
  <1> DEFINE f == Elements(i, w)
  <1>0. MaxCount \in Nat
      BY Bounds
  <1>1. f = [k \in 0..MaxCount |-> IF k = 0 THEN Start(w) ELSE Element(i, f[k - 1])]
      BY <1>0, ElementsExist DEF Elements
  <1> HIDE DEF f
  <1>2. f[0] = Start(w)
      BY <1>1, <1>0
  <1>3. \A n \in 0..(MaxCount - 1) : f[n + 1] = Element(i, f[n])
      BY <1>1, <1>0
  <1> QED BY <1>2, <1>3 DEF f

----------------------------------------------------------------------------
(* Their invariant.                                                         *)

Here  == After(Moved)
There == Element(form, Here)
Moving == pc \in {"read", "other", "write", "next"}

StringTypes ==
  /\ form \in Forms
  /\ mem = [a \in Addresses |-> mem[a]]
  /\ si \in 0..(Size - 1) /\ di \in 0..(Size - 1)
  /\ cx \in 0..MaxCount /\ was.cx \in 0..MaxCount /\ cx <= was.cx
  /\ left \in Nat /\ half \in Nat /\ lost \in Nat /\ taken \in Nat /\ torn \in BOOLEAN
  /\ pc \in {"entry", "read", "other", "write", "next", "fault", "done", "denied"}

\* An element is begun only when it is to be moved, and takes its course.
Course ==
  /\ Moving => left >= 1 /\ (Repeats => left <= cx)
  /\ pc = "fault" /\ Repeats => cx >= 1
  /\ ~ Repeats => cx = was.cx
  /\ pc = "other" => form.op.to = "flags"
  /\ pc = "write" => form.op.to # "flags" /\ half < form.width

\* The registers are those after the elements moved; a register the element
\* itself goes to is one ahead when it has been moved.
Registers ==
  /\ si = Here.si /\ di = Here.di /\ cx = Here.cx /\ Here.n = Moved
  /\ LET s == IF pc = "next" THEN There ELSE Here
     IN acc = s.acc /\ flags = s.flags /\ sent = s.sent
  /\ form.op.to # "flags" => flags = <<>>
  /\ form.op.to # "di" => /\ mem = Here.mem
                          /\ pc \in {"other", "write", "next"} => buf = Fetched(form, Here)

\* INS reads once for each element, and once more for each fault.
Port == taken = IF form.op # Ins THEN 0
                ELSE Moved + lost + (IF pc \in {"write", "next"} THEN 1 ELSE 0)

\* Neither what is read again nor what the port gives has changed.
Sound == ~ (form.op = Movs /\ torn) /\ ~ (form.op = Ins /\ lost > 0)

\* Memory is that after the elements moved but for the one in hand: of that,
\* what this run has written is in place, and where the element is not the
\* same each time nothing else has been written.
Memory ==
  form.op.to = "di" /\ Sound =>
    /\ pc \in {"write", "next"} => buf = Fetched(form, Here)
    /\ pc = "next" => mem = There.mem
    /\ pc = "done" \/ (pc = "entry" /\ Repeats /\ cx = 0) => mem = Here.mem
    /\ pc # "next" => \A a \in Addresses \ InHand(form, Here) : mem[a] = Here.mem[a]
    /\ pc = "write" => \A a \in di..(di + half - 1) : mem[a] = buf[a - di + 1]
    /\ pc # "next" /\ form.op # Stos =>
         \A a \in Addresses : mem[a] = Here.mem[a] \/ (pc = "write" /\ a \in di..(di + half - 1))

\* No comparison but the last one moved says that the instruction is over.
Ending ==
  /\ pc = "done" /\ Repeats => cx = 0 \/ Decided
  /\ Repeats => \A n \in 1..Moved : n < Moved \/ pc # "done" => ~ Stops(form, After(n))

StringInv == StringTypes /\ Course /\ Registers /\ Port /\ Memory /\ Ending

----------------------------------------------------------------------------
\* The forms an instruction has.
LEMMA FormIs ==
  ASSUME form \in Forms
  PROVE  /\ form.op \in Operations /\ form.rep \in {"none", "z", "nz"}
         /\ form.width \in {1, 2} /\ form.down \in BOOLEAN
         /\ form.op.from \in {"si", "acc", "port"}
         /\ form.op.with \in {"none", "di"} /\ form.op.to \in {"di", "acc", "port", "flags"}
         /\ form.op.with = "di" <=> form.op.to = "flags"
         /\ form.op.to = "di" <=> form.op \in {Movs, Stos, Ins}
         /\ form.op = Ins <=> form.op.from = "port"
         /\ form.op \in {Outs, Lods} <=> form.op.to \in {"acc", "port"}
         /\ form.op.to = "di" /\ form.op.from = "si" => form.op = Movs
         /\ form.op.to = "di" /\ form.op.from = "acc" <=> form.op = Stos
  BY DEF Forms, Operations, Movs, Stos, Scas, Ins, Outs, Cmps, Lods

\* While nothing is moved, the reference stays where it is.
LEMMA Stays ==
  ASSUME form' = form, was' = was, cx' = cx,
         Repeats \/ (pc # "done" /\ pc' # "done")
  PROVE  /\ Moved' = Moved /\ Here' = Here /\ There' = There
         /\ \A n : After(n)' = After(n)
         /\ Repeats' = Repeats
  <1>1. Repeats' = Repeats /\ Moved' = Moved
      BY DEF Repeats, Moved
  <1>2. \A n : After(n)' = After(n)
      BY DEF After
  <1>3. Here' = Here
      BY <1>1 DEF Here, After
  <1> QED BY <1>1, <1>2, <1>3 DEF There

\* The next element takes the reference one further.
LEMMA Advances ==
  ASSUME StringTypes, Course, NextElement
  PROVE  /\ Moved \in 0..(MaxCount - 1) /\ Moved' = Moved + 1
         /\ Here' = There
         /\ \A n : After(n)' = After(n)
         /\ Repeats' = Repeats
  <1>1. /\ form' = form /\ was' = was /\ pc = "next" /\ MaxCount \in Nat \ {0}
        /\ cx \in 0..MaxCount /\ was.cx \in 0..MaxCount /\ cx <= was.cx
        /\ Repeats => cx' = cx - 1 /\ cx >= 1
        /\ ~ Repeats => pc' = "done"
      BY Bounds DEF NextElement, StringTypes, Course, Moving
  <1>2. Repeats' = Repeats
      BY <1>1 DEF Repeats
  <1>3. Moved \in 0..(MaxCount - 1) /\ Moved' = Moved + 1
      BY <1>1, <1>2 DEF Moved
  <1>4. \A n : After(n)' = After(n)
      BY <1>1 DEF After
  <1>5. Here' = After(Moved + 1)
      BY <1>1, <1>3 DEF Here, After
  <1>6. After(Moved + 1) = Element(form, After(Moved))
      BY <1>3, ElementsAre DEF After
  <1> QED BY <1>2, <1>3, <1>4, <1>5, <1>6 DEF Here, There

\* The instruction begins with the reference at its start.
LEMMA StringsBegin == StringInit => StringInv
  <1> SUFFICES ASSUME StringInit PROVE StringInv
      OBVIOUS
  <1>1. /\ form \in Forms /\ mem \in Images /\ pc = "entry" /\ cx \in 0..MaxCount
        /\ flags = <<>> /\ taken = 0 /\ sent = <<>> /\ left = 0 /\ half = 0 /\ lost = 0 /\ torn = FALSE
        /\ was = [mem |-> mem, acc |-> acc, si |-> si, di |-> di, cx |-> cx]
      BY DEF StringInit
  <1>2. Moved = 0
      BY <1>1 DEF Moved
  <1>3. Here = Start(was)
      BY <1>1, <1>2, ElementsAre DEF Here, After
  <1>4. StringTypes
    <2>1. mem = [a \in Addresses |-> mem[a]]
        BY <1>1, ImagesAssumption
    <2>2. was.cx = cx /\ si \in 0..(Size - 1) /\ di \in 0..(Size - 1) /\ cx \in Nat
        BY <1>1, Bounds DEF StringInit
    <2>3. left \in Nat /\ half \in Nat /\ lost \in Nat /\ taken \in Nat /\ torn \in BOOLEAN
        BY <1>1
    <2> QED BY <1>1, <2>1, <2>2, <2>3 DEF StringTypes
  <1>5. Course /\ Port /\ Ending
      BY <1>1, <1>2 DEF Course, Moving, Port, Ending
  <1>6. Registers /\ Memory
      BY <1>1, <1>2, <1>3 DEF Registers, Memory, Start
  <1> QED BY <1>4, <1>5, <1>6 DEF StringInv

\* The function is entered, refused, or left by a fault's handler.
LEMMA EnterKeeps == StringInv /\ (Enter \/ Deny \/ Return) => StringInv'
  <1> SUFFICES ASSUME StringInv, Enter \/ Deny \/ Return PROVE StringInv'
      OBVIOUS
  <1>1. /\ form' = form /\ mem' = mem /\ acc' = acc /\ si' = si /\ di' = di /\ cx' = cx
        /\ flags' = flags /\ taken' = taken /\ sent' = sent /\ was' = was
        /\ buf' = buf /\ half' = half /\ lost' = lost /\ torn' = torn
      BY DEF Enter, Deny, Return, place
  <1>2. /\ pc \in {"entry", "fault"} /\ pc' \in {"read", "denied", "entry", "done"}
        /\ pc' = "done" => Repeats /\ cx = 0
        /\ pc' = "read" => left' \in Nat /\ left' >= 1 /\ (Repeats => left' <= cx)
        /\ left' \in Nat
      BY Bounds DEF Enter, Deny, Return, Smaller, StringInv, StringTypes
  <1>3. /\ Moved' = Moved /\ Here' = Here /\ There' = There /\ Repeats' = Repeats
        /\ \A n : After(n)' = After(n)
      BY <1>1, <1>2, Stays
  <1>4. StringTypes'
      BY <1>1, <1>2 DEF StringInv, StringTypes
  <1>5. Course'
      BY <1>1, <1>2, <1>3 DEF StringInv, Course, Moving
  <1>6. Registers'
      BY <1>1, <1>2, <1>3 DEF StringInv, Registers
  <1>7. Port'
      BY <1>1, <1>2, <1>3 DEF StringInv, Port
  <1>8. Memory'
    <2>1. Sound' = Sound /\ InHand(form, Here)' = InHand(form, Here)
        BY <1>1, <1>3 DEF Sound, InHand
    <2>2. (pc' = "done" \/ (pc' = "entry" /\ Repeats /\ cx = 0)) => pc = "entry" /\ Repeats /\ cx = 0
        BY <1>2, Bounds DEF StringInv, Course, Enter, Deny, Return
    <2> QED BY <1>1, <1>2, <1>3, <2>1, <2>2 DEF StringInv, Memory
  <1>9. Ending'
      BY <1>1, <1>2, <1>3 DEF StringInv, Ending, Decided
  <1> QED BY <1>4, <1>5, <1>6, <1>7, <1>8, <1>9 DEF StringInv

\* The bytes of an element lie in memory.
LEMMA ElementFits ==
  ASSUME StringTypes, NEW a \in 0..(Size - 1), NEW j \in 1..form.width
  PROVE  /\ form.width \in {1, 2} /\ a \in Int /\ j \in Int
         /\ a + j - 1 \in Addresses
  BY Bounds, FormIs DEF StringTypes, Addresses

\* The element that is read is the reference's.
LEMMA ReadKeeps == StringInv /\ Read => StringInv'
  <1> SUFFICES ASSUME StringInv, Read PROVE StringInv'
      OBVIOUS
  <1>1. /\ form' = form /\ mem' = mem /\ acc' = acc /\ si' = si /\ di' = di /\ cx' = cx
        /\ flags' = flags /\ sent' = sent /\ was' = was /\ left' = left
        /\ lost' = lost /\ torn' = torn /\ half' = 0 /\ pc = "read"
        /\ pc' = IF form.op.with = "di" THEN "other" ELSE "write"
        /\ taken' = IF form.op.from = "port" THEN taken + 1 ELSE taken
      BY DEF Read
  <1>2. StringTypes /\ form \in Forms
      BY DEF StringInv, StringTypes
  <1>3. /\ Moved' = Moved /\ Here' = Here /\ There' = There /\ Repeats' = Repeats
        /\ \A n : After(n)' = After(n)
      BY <1>1, Stays
  <1>4. StringTypes'
      BY <1>1, <1>2 DEF StringTypes
  <1>5. Course'
      BY <1>1, <1>2, <1>3, FormIs DEF StringInv, Course, Moving
  <1>6. Port'
    <2>1. Moved \in Int /\ taken \in Nat /\ lost \in Nat
        BY <1>2 DEF StringTypes, Moved
    <2>2. form.op = Ins <=> form.op.from = "port"
        BY <1>2, FormIs
    <2>3. form.op = Ins => pc' = "write"
        BY <1>1, <1>2, <2>2, FormIs
    <2> QED BY <1>1, <1>3, <2>1, <2>2, <2>3 DEF StringInv, Port
  <1>7. (form.op.to # "di" \/ Sound) => buf' = Fetched(form, Here)
    <2>0. /\ si = Here.si /\ acc = Here.acc /\ Here.n = Moved /\ Moved \in Int
          /\ form.op.to # "di" => mem = Here.mem
        BY <1>1, <1>2 DEF StringInv, Registers, StringTypes, Moved
    <2>1. CASE form.op.from = "acc"
        BY <1>1, <2>0, <2>1 DEF Read, Fetched
    <2>2. CASE form.op.from = "port" /\ Sound
      <3>1. taken = Here.n
          BY <1>1, <1>2, <2>0, <2>2, FormIs DEF StringInv, Port, Sound, StringTypes
      <3> QED BY <1>1, <2>2, <3>1 DEF Read, Fetched, PortElement
    <2>3. CASE form.op.from = "si" /\ (form.op.to # "di" \/ Sound)
      <3>1. \A a \in Addresses : mem[a] = Here.mem[a]
        <4>1. CASE form.op.to # "di"
            BY <2>0, <4>1
        <4>2. CASE form.op.to = "di" /\ Sound
          <5>1. form.op = Movs /\ form.op # Stos
              BY <1>2, <2>3, <4>2, FormIs DEF Movs, Stos
          <5> QED BY <1>1, <4>2, <5>1 DEF StringInv, Memory
        <4> QED BY <2>3, <4>1, <4>2
      <3>2. \A j \in 1..form.width : mem[si + j - 1] = Here.mem[si + j - 1]
          BY <1>2, <3>1, ElementFits DEF StringTypes
      <3> QED BY <1>1, <2>0, <2>3, <3>2 DEF Read, Fetched, Bytes, Values
    <2>4. form.op.from = "port" => form.op.to = "di"
        BY <1>2, FormIs
    <2> QED BY <1>2, <2>1, <2>2, <2>3, <2>4, FormIs
  <1>8. Registers'
      BY <1>1, <1>3, <1>7 DEF StringInv, Registers
  <1>9. Memory'
    <2>1. Sound' = Sound /\ InHand(form, Here)' = InHand(form, Here)
        BY <1>1, <1>3 DEF Sound, InHand
    <2>2. di..(di + half' - 1) = {}
        BY <1>1, <1>2 DEF StringTypes
    <2> QED BY <1>1, <1>3, <1>7, <2>1, <2>2 DEF StringInv, Memory
  <1>10. Ending'
      BY <1>1, <1>3 DEF StringInv, Ending, Decided
  <1> QED BY <1>4, <1>5, <1>6, <1>8, <1>9, <1>10 DEF StringInv

\* A fault leaves everything as it is, but for what the histories say.
LEMMA FaultKeeps == StringInv /\ (ReadFault \/ WriteFault) => StringInv'
  <1> SUFFICES ASSUME StringInv, ReadFault \/ WriteFault PROVE StringInv'
      OBVIOUS
  <1>1. /\ form' = form /\ mem' = mem /\ acc' = acc /\ si' = si /\ di' = di /\ cx' = cx
        /\ flags' = flags /\ taken' = taken /\ sent' = sent /\ was' = was
        /\ left' = left /\ buf' = buf /\ half' = half
        /\ pc' = "fault" /\ pc \in {"read", "other", "write"}
        /\ pc = "write" => /\ form.op.to = "di" /\ torn' = (torn \/ half > 0)
                           /\ lost' = IF form.op = Ins THEN lost + 1 ELSE lost
        /\ pc # "write" => torn' = torn /\ lost' = lost
        /\ pc = "read" => form.op.from = "si"
      BY DEF ReadFault, WriteFault, FaultAt, place
  <1>2. StringTypes /\ form \in Forms
      BY DEF StringInv, StringTypes
  <1>3. /\ Moved' = Moved /\ Here' = Here /\ There' = There /\ Repeats' = Repeats
        /\ \A n : After(n)' = After(n)
      BY <1>1, Stays
  <1>4. StringTypes'
    <2>1. torn' \in BOOLEAN
        BY <1>1, <1>2, Zenon DEF StringTypes
    <2>2. lost' \in Nat
        BY <1>1, <1>2 DEF StringTypes
    <2> QED BY <1>1, <1>2, <2>1, <2>2 DEF StringTypes
  <1>5. Course'
      BY <1>1, <1>2, <1>3 DEF StringInv, Course, Moving, StringTypes
  <1>6. Port'
    <2>1. Moved \in Int /\ taken \in Nat /\ lost \in Nat
        BY <1>2 DEF StringTypes, Moved
    <2>2. form.op = Ins => pc = "write"
        BY <1>1, <1>2, FormIs DEF StringInv, Course
    <2> QED BY <1>1, <1>3, <2>1, <2>2 DEF StringInv, Port
  <1>7. Registers'
      BY <1>1, <1>3 DEF StringInv, Registers
  <1>8. Memory'
    <2>1. Sound' => Sound
        BY <1>1, <1>2 DEF Sound, StringTypes
    <2>2. InHand(form, Here)' = InHand(form, Here)
        BY <1>1, <1>3 DEF InHand
    <2>3. form.op.to = "di" /\ Sound' /\ form.op # Stos => \A a \in Addresses : mem[a] = Here.mem[a]
      <3> SUFFICES ASSUME form.op.to = "di", Sound', form.op # Stos, NEW a \in Addresses
                   PROVE  mem[a] = Here.mem[a]
          OBVIOUS
      <3>1. form.op \in {Movs, Ins}
          BY <1>2, FormIs
      <3>2. pc = "write" => di..(di + half - 1) = {}
        <4> SUFFICES ASSUME pc = "write" PROVE di..(di + half - 1) = {}
            OBVIOUS
        <4>1. form.op # Ins
            BY <1>1, <1>2 DEF Sound, StringTypes
        <4>2. half = 0
          <5>1. ~ torn'
              BY <3>1, <4>1, <1>1, Zenon DEF Sound
          <5>2. ~ (half > 0)
              BY <1>1, <5>1, Zenon
          <5> QED BY <1>2, <5>2 DEF StringTypes
        <4> QED BY <1>2, <4>2 DEF StringTypes
      <3> QED BY <1>1, <2>1, <3>2 DEF StringInv, Memory
    <2> QED BY <1>1, <1>3, <2>1, <2>2, <2>3 DEF StringInv, Memory
  <1>9. Ending'
      BY <1>1, <1>3 DEF StringInv, Ending, Decided
  <1> QED BY <1>4, <1>5, <1>6, <1>7, <1>8, <1>9 DEF StringInv

\* The comparison sees the element and the byte or word at di.
LEMMA CompareKeeps == StringInv /\ Compare => StringInv'
  <1> SUFFICES ASSUME StringInv, Compare PROVE StringInv'
      OBVIOUS
  <1>1. /\ form' = form /\ mem' = mem /\ acc' = acc /\ si' = si /\ di' = di /\ cx' = cx
        /\ flags' = <<buf, Bytes(mem, di)>> /\ taken' = taken /\ sent' = sent /\ was' = was
        /\ left' = left /\ buf' = buf /\ half' = half /\ lost' = lost /\ torn' = torn
        /\ pc = "other" /\ pc' = "next"
      BY DEF Compare
  <1>2. StringTypes /\ form \in Forms /\ form.op.to = "flags"
      BY <1>1 DEF StringInv, StringTypes, Course
  <1>3. /\ Moved' = Moved /\ Here' = Here /\ There' = There /\ Repeats' = Repeats
        /\ \A n : After(n)' = After(n)
      BY <1>1, Stays
  <1>4. StringTypes'
      BY <1>1, <1>2 DEF StringTypes
  <1>5. Course'
      BY <1>1, <1>2, <1>3 DEF StringInv, Course, Moving
  <1>6. Registers'
    <2>1. /\ mem = Here.mem /\ di = Here.di /\ buf = Fetched(form, Here)
          /\ acc = Here.acc /\ sent = Here.sent
        BY <1>1, <1>2 DEF StringInv, Registers
    <2>2. /\ There.acc = Here.acc /\ There.sent = Here.sent
          /\ There.flags = <<Fetched(form, Here), Values(form, Here.mem, Here.di)>>
        BY <1>2 DEF There, Element
    <2>3. Bytes(mem, di) = Values(form, Here.mem, Here.di)
        BY <2>1 DEF Bytes, Values
    <2> QED BY <1>1, <1>2, <1>3, <2>1, <2>2, <2>3 DEF StringInv, Registers
  <1>7. Port'
    <2>1. form.op # Ins
        BY <1>2, FormIs
    <2> QED BY <1>1, <1>3, <2>1 DEF StringInv, Port
  <1>8. Memory'
      BY <1>1, <1>2 DEF Memory
  <1>9. Ending'
      BY <1>1, <1>3 DEF StringInv, Ending
  <1> QED BY <1>4, <1>5, <1>6, <1>7, <1>8, <1>9 DEF StringInv

\* What is written is the element, or its next byte.
LEMMA WriteKeeps == StringInv /\ WriteMemory => StringInv'
  <1> SUFFICES ASSUME StringInv, WriteMemory PROVE StringInv'
      OBVIOUS
  <1> DEFINE whole == Cardinality(Spans(di)) = 1
  <1>1. /\ form' = form /\ acc' = acc /\ si' = si /\ di' = di /\ cx' = cx
        /\ flags' = flags /\ taken' = taken /\ sent' = sent /\ was' = was
        /\ left' = left /\ buf' = buf /\ lost' = lost /\ torn' = torn
        /\ pc = "write" /\ form.op.to = "di"
        /\ mem' = [a \in Addresses |->
                     IF a \in di..(di + form.width - 1) /\ (whole \/ a = di + half)
                     THEN buf[a - di + 1] ELSE mem[a]]
        /\ half' = IF whole THEN form.width ELSE half + 1
        /\ pc' = IF half' = form.width THEN "next" ELSE "write"
      BY DEF WriteMemory
  <1> HIDE DEF whole
  <1>2. /\ StringTypes /\ form \in Forms /\ form.width \in {1, 2} /\ di \in Int
        /\ half \in Nat /\ half < form.width
      BY <1>1, FormIs DEF StringInv, StringTypes, Course
  <1>3. /\ Moved' = Moved /\ Here' = Here /\ There' = There /\ Repeats' = Repeats
        /\ \A n : After(n)' = After(n)
      BY <1>1, Stays
  <1>4. StringTypes'
    <2>1. mem' = [a \in Addresses |-> mem'[a]]
        BY <1>1
    <2>2. half' \in Nat
        BY <1>1, <1>2
    <2> QED BY <1>1, <1>2, <2>1, <2>2 DEF StringTypes
  <1>5. Course'
    <2>1. pc' = "write" => half' < form.width
        BY <1>1, <1>2
    <2> QED BY <1>1, <1>2, <1>3, <2>1 DEF StringInv, Course, Moving
  <1>6. Registers'
    <2>1. There.acc = Here.acc /\ There.flags = Here.flags /\ There.sent = Here.sent
        BY <1>1 DEF There, Element
    <2> QED BY <1>1, <1>3, <2>1 DEF StringInv, Registers
  <1>7. Port'
      BY <1>1, <1>3 DEF StringInv, Port
  <1>8. ASSUME Sound
        PROVE  /\ buf = Fetched(form, Here) /\ InHand(form, Here) = di..(di + form.width - 1)
               /\ \A a \in Addresses \ InHand(form, Here) : mem[a] = Here.mem[a]
               /\ \A a \in di..(di + half - 1) : mem[a] = buf[a - di + 1]
               /\ form.op # Stos =>
                    \A a \in Addresses : mem[a] = Here.mem[a] \/ a \in di..(di + half - 1)
      BY <1>1, <1>8 DEF StringInv, Memory, Registers, InHand
  <1>9. Memory'
    <2>1. Sound' = Sound /\ InHand(form, Here)' = InHand(form, Here)
        BY <1>1, <1>3 DEF Sound, InHand
    <2> SUFFICES ASSUME Sound PROVE Memory'
        BY <2>1 DEF Memory
    <2>2. ASSUME NEW a \in Addresses \ InHand(form, Here) PROVE mem'[a] = Here.mem[a]
        BY <1>1, <1>8, <2>2
    <2>3. CASE pc' = "next"
      <3>1. \A a \in Addresses : mem'[a] = IF a \in InHand(form, Here)
                                           THEN buf[a - Here.di + 1] ELSE Here.mem[a]
        <4> SUFFICES ASSUME NEW a \in InHand(form, Here), a \in Addresses
                     PROVE  mem'[a] = buf[a - di + 1]
            BY <2>2 DEF StringInv, Registers
        <4>1. CASE whole
            BY <1>1, <1>8, <4>1
        <4>2. CASE ~ whole
          <5>1. half + 1 = form.width /\ a \in Int
              BY <1>1, <1>2, <1>8, <2>3, <4>2 DEF InHand
          <5>2. CASE a = di + half
              BY <1>1, <1>8, <5>2
          <5>3. CASE a # di + half
            <6>1. a \in di..(di + half - 1)
                BY <1>2, <1>8, <5>1, <5>3
            <6> QED BY <1>1, <1>8, <4>2, <5>3, <6>1
          <5> QED BY <5>2, <5>3
        <4> QED BY <4>1, <4>2
      <3>2. There.mem = [a \in Addresses |-> IF a \in InHand(form, Here)
                                THEN buf[a - Here.di + 1] ELSE Here.mem[a]]
          BY <1>1, <1>8 DEF There, Element
      <3>3. mem' = [a \in Addresses |-> mem'[a]]
          BY <1>1
      <3>4. mem' = There.mem
          BY <3>1, <3>2, <3>3
      <3> QED BY <1>1, <1>3, <1>8, <2>3, <3>4 DEF Memory
    <2>4. CASE pc' = "write"
      <3>1. ~ whole /\ half' = half + 1
          BY <1>1, <1>2, <2>4
      <3>2. \A a \in di..(di + half' - 1) : mem'[a] = buf[a - di + 1]
        <4> SUFFICES ASSUME NEW a \in di..(di + half' - 1) PROVE mem'[a] = buf[a - di + 1]
            OBVIOUS
        <4>1. a \in Addresses /\ a \in di..(di + form.width - 1)
          <5>1. a \in di..(di + form.width - 1) /\ a \in Int
              BY <1>2, <3>1
          <5> QED BY <1>2, <5>1, Bounds DEF StringTypes, Addresses
        <4>2. CASE a = di + half
            BY <1>1, <4>1, <4>2
        <4>3. CASE a # di + half
          <5>1. a \in di..(di + half - 1)
              BY <1>2, <3>1, <4>3
          <5> QED BY <1>1, <1>8, <3>1, <4>1, <4>3, <5>1
        <4> QED BY <4>2, <4>3
      <3>3. form.op # Stos =>
              \A a \in Addresses : mem'[a] = Here.mem[a] \/ a \in di..(di + half' - 1)
        <4> SUFFICES ASSUME form.op # Stos, NEW a \in Addresses
                     PROVE  mem'[a] = Here.mem[a] \/ a \in di..(di + half' - 1)
            OBVIOUS
        <4>1. CASE a = di + half
            BY <1>2, <3>1, <4>1
        <4>2. CASE a # di + half
          <5>1. mem'[a] = mem[a]
              BY <1>1, <3>1, <4>2
          <5>2. a \in di..(di + half - 1) => a \in di..(di + half' - 1)
              BY <1>2, <3>1
          <5> QED BY <1>8, <5>1, <5>2
        <4> QED BY <4>1, <4>2
      <3> QED BY <1>1, <1>3, <1>8, <2>1, <2>2, <2>4, <3>2, <3>3 DEF Memory
    <2> QED BY <1>1, <2>3, <2>4
  <1>10. Ending'
      BY <1>1, <1>3 DEF StringInv, Ending
  <1> QED BY <1>4, <1>5, <1>6, <1>7, <1>9, <1>10 DEF StringInv

\* An element for the accumulator or the port goes there.
LEMMA DeliverKeeps == StringInv /\ Deliver => StringInv'
  <1> SUFFICES ASSUME StringInv, Deliver PROVE StringInv'
      OBVIOUS
  <1>1. /\ form' = form /\ mem' = mem /\ si' = si /\ di' = di /\ cx' = cx
        /\ flags' = flags /\ taken' = taken /\ was' = was
        /\ left' = left /\ buf' = buf /\ half' = half /\ lost' = lost /\ torn' = torn
        /\ pc = "write" /\ pc' = "next" /\ form.op.to # "di"
        /\ acc' = IF form.op.to = "acc" THEN buf ELSE acc
        /\ sent' = IF form.op.to = "port" THEN Append(sent, buf) ELSE sent
      BY DEF Deliver
  <1>2. StringTypes /\ form \in Forms /\ form.op.to # "flags" /\ form.op # Ins
      BY <1>1, FormIs DEF StringInv, StringTypes, Course
  <1>3. /\ Moved' = Moved /\ Here' = Here /\ There' = There /\ Repeats' = Repeats
        /\ \A n : After(n)' = After(n)
      BY <1>1, Stays
  <1>4. StringTypes'
      BY <1>1, <1>2 DEF StringTypes
  <1>5. Course'
      BY <1>1, <1>2, <1>3 DEF StringInv, Course, Moving
  <1>6. Registers'
    <2>1. /\ buf = Fetched(form, Here) /\ acc = Here.acc /\ sent = Here.sent /\ flags = Here.flags
        BY <1>1, <1>2 DEF StringInv, Registers
    <2>2. /\ There.flags = Here.flags
          /\ There.acc = IF form.op.to = "acc" THEN Fetched(form, Here) ELSE Here.acc
          /\ There.sent = IF form.op.to = "port" THEN Append(Here.sent, Fetched(form, Here))
                          ELSE Here.sent
        BY <1>2 DEF There, Element
    <2>3. buf' = Fetched(form, Here) /\ Fetched(form, Here)' = Fetched(form, Here)
        BY <1>1, <1>3, <2>1 DEF Fetched, Values
    <2> QED BY <1>1, <1>3, <2>1, <2>2, <2>3 DEF StringInv, Registers
  <1>7. Port'
      BY <1>1, <1>2 DEF StringInv, Port
  <1>8. Memory'
      BY <1>1, <1>2 DEF Memory
  <1>9. Ending'
      BY <1>1, <1>3 DEF StringInv, Ending
  <1> QED BY <1>4, <1>5, <1>6, <1>7, <1>8, <1>9 DEF StringInv

\* The registers move as the reference's do.
LEMMA NextKeeps == StringInv /\ NextElement => StringInv'
  <1> SUFFICES ASSUME StringInv, NextElement PROVE StringInv'
      OBVIOUS
  <1>1. /\ form' = form /\ mem' = mem /\ acc' = acc /\ flags' = flags /\ taken' = taken
        /\ sent' = sent /\ was' = was /\ buf' = buf /\ half' = half /\ lost' = lost /\ torn' = torn
        /\ pc = "next" /\ left' = left - 1
        /\ si' = (IF Uses("si") THEN (si + Add) % Size ELSE si)
        /\ di' = (IF Uses("di") THEN (di + Add) % Size ELSE di)
        /\ cx' = (IF Repeats THEN cx - 1 ELSE cx)
        /\ pc' = IF Decided \/ ~ Repeats THEN "done"
                 ELSE IF left' > 0 THEN "read" ELSE IF cx' = 0 THEN "done" ELSE "entry"
      BY DEF NextElement
  <1>2. /\ StringTypes /\ Course /\ form \in Forms
        /\ left \in Nat /\ left >= 1 /\ cx \in Nat /\ (Repeats => left <= cx)
      BY <1>1, Bounds DEF StringInv, StringTypes, Course, Moving
  <1>3. /\ Moved \in 0..(MaxCount - 1) /\ Moved' = Moved + 1 /\ Here' = There
        /\ \A n : After(n)' = After(n)
        /\ Repeats' = Repeats
      BY <1>2, Advances
  <1>4. StringTypes'
    <2>1. Size \in Nat \ {0} /\ si \in Int /\ di \in Int /\ Add \in Int
        BY <1>2, Bounds, FormIs DEF StringTypes, Add
    <2>2. si' \in 0..(Size - 1) /\ di' \in 0..(Size - 1)
        BY <1>1, <1>2, <2>1 DEF StringTypes
    <2>3. cx' \in 0..MaxCount /\ cx' <= was.cx /\ left' \in Nat
        BY <1>1, <1>2, Bounds DEF StringTypes
    <2>4. pc' \in {"read", "entry", "done"}
        BY <1>1
    <2> QED BY <1>1, <1>2, <2>2, <2>3, <2>4 DEF StringTypes
  <1>5. Course'
    <2>1. pc' = "read" => left' >= 1 /\ (Repeats => left' <= cx')
        BY <1>1, <1>2
    <2>2. pc' \in {"read", "entry", "done"}
        BY <1>1
    <2> QED BY <1>1, <1>2, <1>3, <2>1, <2>2 DEF Course, Moving
  <1>6. Registers'
    <2>1. si = Here.si /\ di = Here.di /\ cx = Here.cx /\ Here.n = Moved
        BY DEF StringInv, Registers
    <2>2. acc = There.acc /\ flags = There.flags /\ sent = There.sent
        BY <1>1 DEF StringInv, Registers
    <2>3. Uses("si") <=> form.op.from = "si"
        BY <1>2, FormIs DEF Uses
    <2>4. Uses("di") <=> form.op \notin {Outs, Lods}
        BY <1>2, FormIs DEF Uses
    <2>5. si' = There.si
        BY <1>1, <2>1, <2>3 DEF There, Element, Along, Add
    <2>6. di' = There.di
        BY <1>1, <2>1, <2>4 DEF There, Element, Along, Add
    <2>7. cx' = There.cx /\ There.n = Moved + 1
        BY <1>1, <2>1 DEF There, Element, Repeats
    <2>8. form.op.to # "flags" => flags = <<>>
        BY DEF StringInv, Registers
    <2>9. form.op.to # "di" => mem = There.mem
        BY DEF StringInv, Registers, There, Element
    <2>10. pc' \notin {"other", "write", "next"}
        BY <1>1
    <2> QED BY <1>1, <1>3, <2>2, <2>5, <2>6, <2>7, <2>8, <2>9, <2>10 DEF Registers
  <1>7. Port'
    <2>1. pc' \notin {"write", "next"} /\ taken \in Nat /\ lost \in Nat /\ Moved \in Int
        BY <1>1, <1>2, <1>3, Bounds DEF StringTypes
    <2> QED BY <1>1, <1>3, <2>1 DEF StringInv, Port
  <1>8. Memory'
    <2>1. form.op.to = "di" /\ Sound => mem = There.mem
        BY <1>1 DEF StringInv, Memory
    <2>2. Sound' = Sound
        BY <1>1 DEF Sound
    <2>3. pc' \notin {"write", "next"}
        BY <1>1
    <2> QED BY <1>1, <1>3, <2>1, <2>2, <2>3 DEF Memory
  <1>9. Ending'
    <2>1. pc' = "done" /\ Repeats => cx' = 0 \/ Decided'
      <3>1. Decided' = Decided
          BY <1>1 DEF Decided
      <3>2. pc' = "done" /\ Repeats /\ ~ Decided => cx' = 0
          BY <1>1
      <3> QED BY <3>1, <3>2
    <2>2. ASSUME Repeats, NEW n \in 1..(Moved + 1), n < Moved + 1 \/ pc' # "done"
          PROVE  ~ Stops(form, After(n))
      <3>1. CASE n < Moved + 1
        <4>1. n \in 1..Moved
            BY <1>3, <3>1, Bounds
        <4> QED BY <1>1, <2>2, <4>1 DEF StringInv, Ending
      <3>2. CASE n = Moved + 1
        <4>1. pc' # "done"
            BY <2>2, <3>2, <1>3, Bounds
        <4>2. ~ Decided
            BY <1>1, <4>1
        <4>3. After(Moved + 1) = There
            BY <1>3, ElementsAre DEF There, Here, After
        <4>4. flags = There.flags /\ (form.op.to # "flags" => flags = <<>>)
            BY <1>1 DEF StringInv, Registers
        <4>5. form.rep \in {"z", "nz"}
            BY <1>2, <2>2, FormIs DEF Repeats
        <4> QED BY <3>2, <4>2, <4>3, <4>4, <4>5 DEF Stops, Decided
      <3> QED BY <1>3, <2>2, <3>1, <3>2, Bounds
    <2>3. \A n : Stops(form, After(n))' = Stops(form, After(n))
        BY <1>1, <1>3 DEF Stops
    <2>4. Repeats' => \A n \in 1..Moved' : n < Moved' \/ pc' # "done" => ~ Stops(form, After(n))'
        BY <1>3, <2>2, <2>3
    <2> QED BY <1>1, <1>3, <2>1, <2>4 DEF Ending
  <1> QED BY <1>4, <1>5, <1>6, <1>7, <1>8, <1>9 DEF StringInv

\* Every step keeps the invariant.
LEMMA StringsStep == StringInv /\ [StringNext]_stringVars => StringInv'
  <1> SUFFICES ASSUME StringInv, [StringNext]_stringVars PROVE StringInv'
      OBVIOUS
  <1>1. CASE UNCHANGED stringVars
    <2>1. /\ Moved' = Moved /\ Here' = Here /\ There' = There /\ Repeats' = Repeats
          /\ \A n : After(n)' = After(n)
        BY <1>1 DEF stringVars, Moved, Here, There, Repeats, After
    <2>2. StringTypes' /\ Course' /\ Port'
        BY <1>1, <2>1 DEF StringInv, stringVars, StringTypes, Course, Moving, Port
    <2>3. Registers'
        BY <1>1, <2>1 DEF StringInv, stringVars, Registers
    <2>4. Memory'
      <3>1. Sound' = Sound /\ InHand(form, Here)' = InHand(form, Here)
          BY <1>1, <2>1 DEF stringVars, Sound, InHand
      <3> QED BY <1>1, <2>1, <3>1 DEF StringInv, stringVars, Memory
    <2>5. Ending'
        BY <1>1, <2>1 DEF StringInv, stringVars, Ending, Decided
    <2> QED BY <2>2, <2>3, <2>4, <2>5 DEF StringInv
  <1> QED BY <1>1, EnterKeeps, ReadKeeps, FaultKeeps, CompareKeeps, WriteKeeps, DeliverKeeps, NextKeeps
          DEF StringNext

\* In every reachable state, for every memory, count, and order of faults.
LEMMA StringsInvariant == StringSpec => []StringInv
  BY StringsBegin, StringsStep, PTL DEF StringSpec

\* Whenever a page fault is delivered or the slice may end in the middle of a
\* string instruction, its registers, its memory and what it has taken from
\* the port are those after the whole number of elements the count says, but
\* for the two cases the property names: the instruction goes on from there.
THEOREM StringsResume == StringSpec => []Resumes
  <1>1. StringInv => Resumes
    <2> SUFFICES ASSUME StringInv, Visible PROVE RegistersResume /\ MemoryResumes /\ PortResumes
        BY DEF Resumes
    <2>1. pc \notin {"read", "other", "write", "next"}
        BY DEF Visible
    <2>2. RegistersResume
      <3>1. Moved \in 0..MaxCount
          BY Bounds DEF StringInv, StringTypes, Moved
      <3> QED BY <2>1, <3>1 DEF StringInv, Registers, RegistersResume, Agrees, Here
    <2>3. PortResumes
        BY <2>1, Bounds DEF StringInv, Port, PortResumes, StringTypes, Moved
    <2>4. MemoryResumes
      <3>1. CASE form.op.to = "di"
          BY <2>1, <3>1 DEF StringInv, Memory, MemoryResumes, Sound, Here
      <3>2. CASE form.op.to # "di"
          BY <3>2 DEF StringInv, Registers, MemoryResumes, Here
      <3> QED BY <3>1, <3>2
    <2> QED BY <2>2, <2>3, <2>4
  <1> QED BY <1>1, StringsInvariant, PTL

\* A repeated instruction ends when the count is used up or the comparison
\* says so, and no element is moved after a comparison that ended it, however
\* often it was interrupted between the two.
THEOREM StringsEnd == StringSpec => []EndsWhereItShould
  <1>1. StringInv => EndsWhereItShould
    <2> SUFFICES ASSUME StringInv PROVE EndsWhereItShould
        OBVIOUS
    <2>1. Moved \in Int
        BY Bounds DEF StringInv, StringTypes, Moved
    <2> QED BY <2>1 DEF StringInv, Ending, EndsWhereItShould
  <1> QED BY <1>1, StringsInvariant, PTL
=============================================================================
