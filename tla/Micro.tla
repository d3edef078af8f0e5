------------------------------- MODULE Micro -------------------------------
(* The vocabulary of the instruction handlers of src/src/cpu.  A handler is *)
(* a sequence of steps, in the order of its code, over named places: the    *)
(* registers, the operands the decoder has bound (rm, reg, imm) and the     *)
(* handler's locals.  Values are terms: a place p starts as <<p>>, and      *)
(* <<f, p, q>> is f of what p and q hold, whatever the arithmetic is.  Two  *)
(* places are taken to be different registers, and two addresses to be on   *)
(* different pages.                                                         *)
EXTENDS Naturals, SequencesExt, TLC

\* Locals of a handler: forgotten when it is run again.
Slots  == <<"slot1", "slot2", "slot3", "slot4", "slot5", "slot6", "slot7", "slot8",
            "slot9", "slot10">>
Locals == {"linaddr", "t", "u", "v", "w", "lo", "hi", "frame",
   "desc", "desc2", "target", "stack", "tss", "newesp", "newss", "newflags"}
            \cup {Slots[i] : i \in 1..10}

\* What an expression is worth: the value of a place, or a function of some.
\* Bits that are set twice, and tags worked out twice, are the same.
At(s, p)    == IF p \in DOMAIN s THEN s[p] ELSE <<p>>
Value(e, s) ==
  LET of == [i \in 1..(Len(e) - 1) |-> At(s, e[i + 1])]
  IN IF Len(e) = 1 THEN At(s, e[1])
     ELSE IF e[1] \in {"or", "retagged"} /\ of[1][1] = e[1] /\ Tail(Tail(of[1])) = Tail(of)
          THEN of[1]
     ELSE <<e[1]>> \o of

----------------------------------------------------------------------------
(* Steps.                                                                  *)

\* Several places at once, as a function of places to expressions.
Assign(f) == <<[k |-> "set", to |-> f]>>
Set(p, e) == Assign(p :> e)

\* An exception unless the condition holds: EXCEPTION_...
Check(c) == <<[k |-> "check", c |-> c, on |-> "end"]>>

\* The exception is delivered and the handler returns as if it had done its
\* work, so that ip is moved all the same.
CheckOrPass(c) == <<[k |-> "check", c |-> c, on |-> "pass"]>>

\* A condition the code takes for granted: the emulator itself stops without it.
CheckOrAbort(c) == <<[k |-> "check", c |-> c, on |-> "abort"]>>

If(c, yes, no) == <<[k |-> "if", c |-> c, yes |-> yes, no |-> no]>>

\* Memory accesses.  An operand of more than a byte lies on two pages, which
\* is the worst case; need is the right the translation asks for.  A page
\* fault ends the handler, unless on says it is ignored.
Reading(a, w, p, need, on) ==
  <<[k |-> "read", at |-> a, w |-> w, to |-> p, need |-> need, on |-> on]>>
Read(a, w, p)         == Reading(a, w, p, "ro", "end")
ReadForWrite(a, w, p) == Reading(a, w, p, "rw", "end")

\* A read whose page fault is delivered and passed over.
ReadOrPass(a, w, p) == Reading(a, w, p, "ro", "pass")

\* A read whose page fault, delivered all the same, is taken for an answer.
TryRead(a, w, p, yes, no) ==
  <<[k |-> "try", at |-> a, w |-> w, to |-> p, need |-> "ro", yes |-> yes, no |-> no]>>

Cells(a, w, e, need, on) ==
  [i \in 1..(IF w = 1 THEN 1 ELSE 2) |->
     [k |-> "write", at |-> a, half |-> i, e |-> e, need |-> need, on |-> on]]

\* Mutant: the second half of a misaligned value is written unchecked.
WriteUnchecked(a, w, e) ==
  [i \in 1..(IF w = 1 THEN 1 ELSE 2) |->
     [k |-> "write", at |-> a, half |-> i, e |-> e, need |-> IF i = 1 THEN "rw" ELSE "none",
      on |-> "end"]]

\* Bytes of a misaligned value are written one by one, each with its check.
Write(a, w, e) == Cells(a, w, e, "rw", "end")

\* The result of cpu_access_write is not looked at.
WriteBack(a, w, e) == Cells(a, w, e, "rw", "ignore")

\* A write whose page fault is delivered and passed over.
WriteOrPass(a, w, e) == Cells(a, w, e, "rw", "pass")

\* The page is looked up with the rights of a read.
WriteAsRead(a, w, e) == Cells(a, w, e, "ro", "end")

----------------------------------------------------------------------------
(* The stack.                                                              *)

Top      == <<"top", "esp", "ss">>
Under(w) == IF w = 2 THEN <<"under2", "esp", "ss">> ELSE <<"under4", "esp", "ss">>
Below(w) == IF w = 2 THEN <<"less2", "esp">> ELSE <<"less4", "esp">>
Above(w) == IF w = 2 THEN <<"plus2", "esp">> ELSE <<"plus4", "esp">>

\* Mutant: the stack pointer moves before the memory is written.
PushEarly(w, e) == Set("esp", Below(w)) \o Write(Top, w, e)

\* cpu_push16, cpu_push32
Push(w, e) == Write(Under(w), w, e) \o Set("esp", Below(w))

\* cpu_pop16, cpu_pop32
Pop(w, p) == Read(Top, w, p) \o Set("esp", Above(w))

\* The general registers in the order of their numbers.
General == <<"eax", "ecx", "edx", "ebx", "esp", "ebp", "esi", "edi">>

\* cpu_pusha, cpu_pushad: esp is set when everything has been written.
PushAll(w) ==
  FlattenSeq([i \in 1..8 |-> Write(<<Slots[i], "esp", "ss">>, w, <<General[i]>>)])
  \o Set("esp", <<"below8", "esp">>)

\* cpu_popa, cpu_popad: the registers are set when everything has been read.
PopAll(w) ==
  LET Loaded == [r \in {General[i] : i \in 1..8} |->
                   IF r = "esp" THEN <<"above8", "esp">>
                   ELSE <<Slots[CHOOSE i \in 1..8 : General[i] = r]>>]
  IN FlattenSeq([i \in 1..8 |-> Read(<<Slots[9 - i], "esp", "ss">>, w, Slots[9 - i])])
     \o Assign(Loaded)

\* Several values pushed with esp set by whoever builds the frame, and taken
\* in the same way; the stack is the one of the places esp and ss.
PutFrame(w, esp, ss, es) ==
  FlattenSeq([i \in 1..Len(es) |-> Write(<<Slots[i], esp, ss>>, w, es[i])])
TakeFrame(w, ps) ==
  FlattenSeq([i \in 1..Len(ps) |-> Read(<<Slots[i], "esp", "ss">>, w, ps[i])])

----------------------------------------------------------------------------
(* Ends of a handler.                                                      *)

NextInstruction == Set("ip", <<"after", "ip">>)
Jump(e)         == Set("ip", e)

\* The operand's address is worked out from the registers; every register
\* that may be part of an address is taken to be part of it.
LinAddr == Set("linaddr", <<"linaddr", "reg", "eax", "esp", "ebp", "sreg">>)
Mem     == <<"linaddr">>
\* The memory beyond a first field.
Mem2    == <<"further", "linaddr">>

----------------------------------------------------------------------------
(* Forms the handlers share.                                               *)

\* A result and its flags: cpu_arith, cpu_shift, cpu_inc, xadd ...
Alu(f, p, q) == Assign((p :> <<f, p, q, "flags">>) @@ ("flags" :> <<f, p, q, "flags">>))

\* Read, change and write back one operand in memory, of w bytes.
Modify(w, f, q) ==
  LinAddr \o ReadForWrite(Mem, w, "t") \o Alu(f, "t", q) \o WriteBack(Mem, w, <<"t">>)
  \o NextInstruction

\* An operand in memory into the local t, then the rest.
With(w, rest) == LinAddr \o Read(Mem, w, "t") \o rest \o NextInstruction
Store(w, e)   == LinAddr \o Write(Mem, w, e) \o NextInstruction

\* A result in a register, or in the flags, and on to the next instruction.
Put(p, e) == Set(p, e) \o NextInstruction
=============================================================================
