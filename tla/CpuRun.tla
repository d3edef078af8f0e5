------------------------------- MODULE CpuRun -------------------------------
(***************************************************************************)
(* CPU::cpu_run (src/cpu/cpu.cpp): a slice of at most a given number of    *)
(* instructions, between which the processor looks at its INTR line.  The  *)
(* line is looked at only where cpu_execute returns, so whoever wants it   *)
(* seen (a device that raises it, STI, POPF, HLT) cuts the count of cycles *)
(* to run and puts the rest aside in a refill counter.  The interrupt      *)
(* shadow of STI and MOV SS is made of the same counters.                  *)
(*                                                                         *)
(* Between slices pc_execute lets the devices run.  Which interrupt is     *)
(* delivered is the business of Pic; here the line is raised and lowered   *)
(* at will.                                                                *)
(***************************************************************************)
EXTENDS Integers

CONSTANT Budgets    \* the cycle counts pc_execute gives cpu_run

ASSUME BudgetsOK == Budgets \subseteq Nat \ {0}

VARIABLES
  phase,    \* "out" of cpu_run, at the top of its "loop", in cpu_exec"ute"
  clk,      \* m_cycles_to_run, m_refill_counter, m_cycle_offset, and
            \* m_cycles less its value when the slice began
  budget,   \* cpu_run's argument
  intf,     \* EFLAGS.IF
  intr,     \* m_intr_line_state
  blocked,  \* m_interrupts_blocked
  halted,   \* m_exit_reason is 3, EXIT_STATUS_HLT
  shadow,   \* history: the last instruction completed was STI, MOV SS, POP SS
  done      \* history: instructions completed in this slice

vars == <<phase, clk, budget, intf, intr, blocked, halted, shadow, done>>
irqState == <<intf, intr, blocked, halted>>

Clock == [run : Nat, refill : Int, offset : Int, ran : Int]

TypeOK ==
  /\ phase \in {"out", "loop", "exec"}
  /\ clk \in Clock
  /\ budget \in Nat
  /\ intf \in BOOLEAN /\ intr \in BOOLEAN
  /\ blocked \in BOOLEAN /\ halted \in BOOLEAN /\ shadow \in BOOLEAN
  /\ done \in Nat

----------------------------------------------------------------------------
(* The cycle counters.                                                     *)

\* cpu_get_cycles, counted from the start of the slice.
Cycles(c) == c.ran + c.offset - c.run

\* Cycles so far go to m_cycles; run more follow, and refill after those.
Split(c, run, refill) ==
  [run |-> run, refill |-> refill, offset |-> run, ran |-> Cycles(c)]

\* Mutant: the rest of the slice counts this instruction again.
FastReturnKeepsCycle(c) == Split(c, 1, c.run)

\* cpu_request_fast_return
FastReturn(c) == Split(c, 1, c.run - 1)

\* Mutant: the new count is set without a new offset.
HaltNoOffset(c) == [c EXCEPT !.run = 1, !.refill = 0]

\* op_hlt: the instruction is the last of the slice.
Halt(c) == Split(c, 1, 0)

\* interrupt_guard: return to cpu_run after the instruction that follows.  If
\* this one was the last, the next slice begins with interrupts blocked.
Guard(c) == IF c.run # 1 THEN Split(c, 2, c.run - 2) ELSE Split(c, 1, 0)

----------------------------------------------------------------------------
(* cpu_run.                                                                *)

Init ==
  /\ phase = "out"
  /\ clk = [run |-> 0, refill |-> 0, offset |-> 0, ran |-> 0]
  /\ budget = 0 /\ done = 0
  /\ intf = FALSE /\ intr = FALSE /\ blocked = FALSE /\ halted = FALSE
  /\ shadow = FALSE

\* Between slices a device raises the line, and asks for a return that
\* cpu_run's first assignments forget.
DeviceRaises ==
  /\ phase = "out"
  /\ intr' = TRUE
  /\ clk' = FastReturn(clk)
  /\ UNCHANGED <<phase, budget, intf, blocked, halted, shadow, done>>

EnterRun ==
  /\ phase = "out"
  /\ \E b \in Budgets :
       /\ budget' = b
       /\ clk' = [run |-> b, refill |-> 0, offset |-> b, ran |-> 0]
  /\ done' = 0
  /\ phase' = "loop"
  /\ UNCHANGED <<irqState, shadow>>

\* Mutant: interrupts_blocked is not looked at.
InterruptibleInShadow == intr /\ intf

Interruptible == intr /\ intf /\ ~blocked

\* Mutant: m_exit_reason stays.
TakeInterruptHalted ==
  /\ phase = "loop" /\ Interruptible
  /\ intr' = FALSE /\ intf' = FALSE
  /\ phase' = "exec"
  /\ UNCHANGED <<clk, budget, blocked, halted, shadow, done>>

\* An interrupt gate clears IF, a trap gate does not; a task gate loads EFLAGS
\* with cpu_set_eflags, which asks for a return when IF changes.
TakeInterrupt ==
  /\ phase = "loop" /\ Interruptible
  /\ intr' = FALSE
  /\ halted' = FALSE
  /\ \/ intf' = FALSE /\ clk' \in {clk, FastReturn(clk)}
     \/ UNCHANGED <<intf, clk>>
  /\ phase' = "exec"
  /\ UNCHANGED <<budget, blocked, shadow, done>>

StayHalted ==
  /\ phase = "loop" /\ ~Interruptible /\ halted
  /\ phase' = "out"
  /\ UNCHANGED <<clk, budget, irqState, shadow, done>>

\* The slice begins in a shadow: one instruction, then the whole budget.
PassShadow ==
  /\ phase = "loop" /\ ~Interruptible /\ ~halted /\ blocked
  /\ clk' = Split(clk, 1, budget)
  /\ blocked' = FALSE
  /\ phase' = "exec"
  /\ UNCHANGED <<budget, intf, intr, halted, shadow, done>>

Resume ==
  /\ phase = "loop" /\ ~Interruptible /\ ~halted /\ ~blocked
  /\ phase' = "exec"
  /\ UNCHANGED <<clk, budget, irqState, shadow, done>>

----------------------------------------------------------------------------
(* cpu_execute, one instruction at a time.                                 *)

\* The count goes down; at 0 cpu_execute returns, and cpu_run with it unless a
\* refill is left.
Finish(c) ==
  IF c.run # 1
    THEN phase' = "exec" /\ clk' = [c EXCEPT !.run = @ - 1]
    ELSE /\ phase' = IF c.refill = 0 THEN "out" ELSE "loop"
         /\ clk' = Split([c EXCEPT !.run = 0], c.refill, 0)

Complete(c, guarded) ==
  /\ phase = "exec"
  /\ Finish(c)
  /\ done' = done + 1
  /\ shadow' = guarded
  /\ UNCHANGED budget

\* The clock after one request to return in an instruction, or after several (a
\* string instruction): after the second, one more changes nothing.
Cut == {FastReturn(clk), FastReturn(FastReturn(clk))}

Plain == Complete(clk, FALSE) /\ UNCHANGED irqState

\* An access that makes a device raise the line, or a store to code that has
\* been decoded.
Access ==
  /\ \E c \in Cut : Complete(c, FALSE)
  /\ intr' \in {TRUE, intr}
  /\ UNCHANGED <<intf, blocked, halted>>

\* ICW1 to the master 8259 lowers the line.
Lower ==
  /\ Complete(clk, FALSE)
  /\ intr' = FALSE
  /\ UNCHANGED <<intf, blocked, halted>>

Cli ==
  /\ Complete(clk, FALSE)
  /\ intf' = FALSE
  /\ UNCHANGED <<intr, blocked, halted>>

\* STI; MOV SS, POP SS and an STI that sets VIF instead leave IF alone.
Guarded ==
  /\ Complete(Guard(clk), TRUE)
  /\ blocked' = (clk.run = 1 \/ blocked)
  /\ intf' \in {TRUE, intf}
  /\ UNCHANGED <<intr, halted>>

\* Mutant: a change of IF does not ask for a return.
SetFlagsQuietly ==
  /\ intf' \in BOOLEAN
  /\ Complete(clk, FALSE)
  /\ UNCHANGED <<intr, blocked, halted>>

\* cpu_set_eflags: POPF, IRET, a task switch.
SetFlags ==
  /\ intf' \in BOOLEAN
  /\ Complete(IF intf' # intf THEN FastReturn(clk) ELSE clk, FALSE)
  /\ UNCHANGED <<intr, blocked, halted>>

Hlt ==
  /\ Complete(Halt(clk), FALSE)
  /\ blocked' = FALSE
  /\ halted' = TRUE
  /\ UNCHANGED <<intf, intr>>

\* The instruction raises an exception, perhaps after an access, perhaps with a
\* task gate to its handler: m_cycles_to_run++ undoes the countdown, and the
\* handler's first instruction follows at once.
Fault ==
  /\ phase = "exec"
  /\ \/ clk' = clk /\ UNCHANGED intr /\ intf' \in {FALSE, intf}
     \/ clk' \in Cut /\ intr' \in {TRUE, intr} /\ intf' \in BOOLEAN
  /\ UNCHANGED <<phase, budget, blocked, halted, shadow, done>>

Top == TakeInterrupt \/ StayHalted \/ PassShadow \/ Resume

Step == Plain \/ Access \/ Lower \/ Cli \/ Guarded \/ SetFlags \/ Hlt

Next == DeviceRaises \/ EnterRun \/ Top \/ Step \/ Fault

Spec == Init /\ [][Next]_vars

\* pc_execute calls cpu_run again and again, and cpu_run loops.
FairSpec == Spec /\ WF_vars(EnterRun) /\ WF_vars(Top)

----------------------------------------------------------------------------
(* Properties.                                                             *)

\* While the processor executes with an interrupt pending that it may take,
\* this is the last instruction before it looks: nothing that raises the line
\* or sets IF forgets to cut the slice.
Prompt == phase = "exec" /\ intr /\ intf => clk.run = 1

\* An interrupt is never taken between STI, MOV SS or POP SS and the
\* instruction after it, also when a slice ends between the two.
ShadowHolds == [][phase = "loop" /\ intr /\ ~intr' => ~shadow]_vars

\* The time devices read is the number of instructions completed, however
\* often the slice was cut: no cycle is lost or counted twice.
EveryCycleCounted == Cycles(clk) = done

\* A slice runs its budget and at most the one instruction of a shadow it
\* began in, and the countdown never starts at 0 or below, from where it would
\* take 2^32 instructions to end.
SliceBound ==
  /\ phase # "out" => /\ clk.run >= 1 /\ clk.refill >= 0
                      /\ done + clk.run + clk.refill <= budget + 1
  /\ phase = "out" => done <= budget + 1

\* A halted processor with interrupts enabled resumes once the line is up.
Wakes == (halted /\ intr /\ intf) ~> ~halted
=============================================================================
