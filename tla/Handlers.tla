------------------------------ MODULE Handlers ------------------------------
(* The instruction handlers of src/src/cpu/opcodes.cpp that work on the     *)
(* registers and on one operand, as sequences of the steps of Micro.  Each  *)
(* definition is a stretch of the file: a record of its handlers, without   *)
(* the prefix op_.  In the names r is a register, e memory, i an immediate. *)
EXTENDS Segments

t == <<"t">>
InCs(p) == Check(<<"below the limit of cs", p>>)

\* A handler that leaves by cpu_get_trace with ip as it is.
Stay == <<>>

NearJumps ==
  [ud_exception |-> Check(<<"never">>), trace_end |-> Stay, nop |-> NextInstruction,
   jmp_r16 |-> InCs("rm") \o Jump(<<"rm">>), jmp_r32 |-> InCs("rm") \o Jump(<<"rm">>),
   jmp_e16 |-> LinAddr \o Read(Mem, 2, "t") \o Jump(t),
   jmp_e32 |-> LinAddr \o Read(Mem, 4, "t") \o Jump(t)]

\* The return address is pushed, then the jump is made.
CallTo(w, e) == Push(w, <<"after", "ip">>) \o Jump(e)

NearCalls ==
  [call_r16 |-> CallTo(2, <<"rm">>), call_r32 |-> CallTo(4, <<"rm">>),
   call_e16 |-> LinAddr \o Read(Mem, 2, "t") \o CallTo(2, t),
   call_e32 |-> LinAddr \o Read(Mem, 4, "t") \o CallTo(4, t)]

\* A jump relative to the next instruction; in 16 bits it wraps at 64K.
Rel(w) == IF w = 2 THEN <<"wrapped target", "ip", "imm">> ELSE <<"target", "ip", "imm">>

\* Mutant: a loop that ends stays where it is.
LoopStays(w, c) == Set("ecx", <<"less1", "ecx">>) \o If(c, Jump(Rel(w)), Stay)

\* ecx is counted down whether or not the jump is taken.
Loop(w, c) == Set("ecx", <<"less1", "ecx">>) \o If(c, Jump(Rel(w)), NextInstruction)

Loops ==
  [loop_rel16   |-> Loop(2, <<"not zero", "ecx">>),
   loop_rel32   |-> Loop(4, <<"not zero", "ecx">>),
   loopz_rel16  |-> Loop(2, <<"not zero and ZF", "ecx", "flags">>),
   loopz_rel32  |-> Loop(4, <<"not zero and ZF", "ecx", "flags">>),
   loopnz_rel16 |-> Loop(2, <<"not zero and not ZF", "ecx", "flags">>),
   loopnz_rel32 |-> Loop(4, <<"not zero and not ZF", "ecx", "flags">>),
   jecxz_rel16  |-> If(<<"not zero", "ecx">>, NextInstruction, Jump(Rel(2))),
   jecxz_rel32  |-> If(<<"not zero", "ecx">>, NextInstruction, Jump(Rel(4)))]

\* A conditional jump on a condition of module Flags.
Jcc(c) == [w16 |-> If(<<c, "flags">>, Jump(Rel(2)), NextInstruction),
           w32 |-> If(<<c, "flags">>, Jump(Rel(4)), NextInstruction)]

JumpsO  == [jo |-> Jcc("o"), jno |-> Jcc("not o"), jb |-> Jcc("c"), jnb |-> Jcc("not c")]
JumpsZ  == [jz |-> Jcc("z"), jnz |-> Jcc("not z"),
            jbe |-> Jcc("z or c"), jnbe |-> Jcc("not z or c")]
JumpsS  == [js |-> Jcc("s"), jns |-> Jcc("not s"), jp |-> Jcc("p"), jnp |-> Jcc("not p")]
JumpsL  == [jl |-> Jcc("s not o"), jnl |-> Jcc("s is o"),
            jle |-> Jcc("z or s not o"), jnle |-> Jcc("not z and s is o")]

Return(w)      == Pop(w, "t") \o Set("ip", t) \o Set("esp", <<"release", "esp", "imm">>)

Returns ==
  [call_j16 |-> CallTo(2, Rel(2)), call_j32 |-> CallTo(4, Rel(4)),
   ret16 |-> Pop(2, "t") \o Jump(t), ret32 |-> Pop(4, "t") \o Jump(t),
   ret16_iw |-> Return(2), ret32_iw |-> Return(4)]

PushOf(w) ==
  [r |-> Push(w, <<"rm">>) \o NextInstruction, i |-> Push(w, <<"imm">>) \o NextInstruction,
   e |-> With(w, Push(w, t))]

\* The address is worked out with the new esp, the write is made with the
\* old one in case it faults.
PopToMemory(w) ==
  Set("u", <<"esp">>) \o Pop(w, "t") \o LinAddr \o Set("v", <<"esp">>) \o Set("esp", <<"u">>)
  \o Write(Mem, w, t) \o Set("esp", <<"v">>) \o NextInstruction

Pushes16 == PushOf(2)
Pushes32 == PushOf(4)

\* Two bytes are written where four are made room for.
Pops ==
  [r16 |-> Pop(2, "t") \o Put("rm", t), r32 |-> Pop(4, "t") \o Put("rm", t),
   e16 |-> PopToMemory(2), e32 |-> PopToMemory(4),
   push_s16 |-> Push(2, <<"sreg">>) \o NextInstruction,
   push_s32 |-> Write(Under(4), 2, <<"sreg">>) \o Set("esp", Below(4)) \o NextInstruction]

\* interrupt_guard: no interrupt before the next instruction.
Guard(s) == IF s = "ss" THEN Set("shadow", <<"1">>) ELSE <<>>

PopSegment(s, w) ==
  Read(Top, 2, "t") \o LoadSegmentMov(s, "t") \o Set("esp", Above(w)) \o Guard(s)
  \o NextInstruction

StackAll ==
  [pop_s16 |-> PopSegment("sreg", 2), pop_s32 |-> PopSegment("sreg", 4),
   pop_ss16 |-> PopSegment("ss", 2), pop_ss32 |-> PopSegment("ss", 4),
   pusha |-> PushAll(2) \o NextInstruction, pushad |-> PushAll(4) \o NextInstruction,
   popa |-> PopAll(2) \o NextInstruction, popad |-> PopAll(4) \o NextInstruction]

----------------------------------------------------------------------------
(* Arithmetic and logic, at each width.                                    *)

Arith(w) ==
  [r_r |-> Alu("arith", "rm", "reg") \o NextInstruction,
   r_i |-> Alu("arith", "rm", "imm") \o NextInstruction,
   r_e |-> With(w, Alu("arith", "reg", "t")),
   e_r |-> Modify(w, "arith", "reg"), e_i |-> Modify(w, "arith", "imm")]
Arith8  == Arith(1)
Arith16 == Arith(2)
Arith32 == Arith(4)

Shift(w) ==
  [r_cl |-> Alu("shift", "rm", "ecx") \o NextInstruction,
   r_i |-> Alu("shift", "rm", "imm") \o NextInstruction,
   e_cl |-> Modify(w, "shift", "ecx"), e_i |-> Modify(w, "shift", "imm")]
Shift8  == Shift(1)
Shift16 == Shift(2)
Shift32 == Shift(4)

\* CMP and TEST set the flags, which are kept as the last result and operand.
Compare(f, p, q) == Set("flags", <<f, p, q>>)
Comparisons(f, w) ==
  [e_r |-> With(w, Compare(f, "t", "reg")), r_r |-> Compare(f, "rm", "reg") \o NextInstruction,
   r_e |-> With(w, Compare(f, "reg", "t")), r_i |-> Compare(f, "rm", "imm") \o NextInstruction,
   e_i |-> With(w, Compare(f, "t", "imm"))]
Cmp8   == Comparisons("cmp", 1)
Cmp16  == Comparisons("cmp", 2)
Cmp32  == Comparisons("cmp", 4)
Test8  == Comparisons("test", 1)
Test16 == Comparisons("test", 2)
Test32 == Comparisons("test", 4)

\* One operand, changed in place.
Unary(f, w) == [r |-> Alu(f, "rm", "rm") \o NextInstruction, e |-> Modify(w, f, "t")]
EachWidth(f) == [w8 |-> Unary(f, 1), w16 |-> Unary(f, 2), w32 |-> Unary(f, 4)]
Inc == EachWidth("inc")
Dec == EachWidth("dec")
\* NOT alone leaves the flags.
Complement(w) ==
  [r |-> Put("rm", <<"not", "rm">>),
   e |-> LinAddr \o ReadForWrite(Mem, w, "t") \o Set("t", <<"not", "t">>) \o WriteBack(Mem, w, t)
         \o NextInstruction]
Not == [w8 |-> Complement(1), w16 |-> Complement(2), w32 |-> Complement(4)]
Neg == EachWidth("neg")

\* MUL, IMUL, DIV, IDIV on the accumulator; a quotient that does not fit is
\* an exception before anything is set.
MulDivBy(p) ==
  Check(<<"no divide error", "eax", "edx", p>>)
  \o Assign([eax |-> <<"muldiv lo", "eax", "edx", p>>, edx |-> <<"muldiv hi", "eax", "edx", p>>,
             flags |-> <<"muldiv", "eax", "edx", p>>])
MulDiv == [r8 |-> MulDivBy("rm") \o NextInstruction, e8 |-> With(1, MulDivBy("t")),
           r16 |-> MulDivBy("rm") \o NextInstruction, e16 |-> With(2, MulDivBy("t")),
           r32 |-> MulDivBy("rm") \o NextInstruction, e32 |-> With(4, MulDivBy("t"))]

Product(p, q) == Assign([reg |-> <<"imul", p, q>>, flags |-> <<"imul", p, q>>])
ImulBy(w) == [r_r_i |-> Product("rm", "imm") \o NextInstruction,
              r_e_i |-> With(w, Product("t", "imm")),
              r_r |-> Product("reg", "rm") \o NextInstruction,
              r_e |-> With(w, Product("reg", "t"))]
Imul == [w16 |-> ImulBy(2), w32 |-> ImulBy(4)]

\* Double shifts: the bits that come in are those of reg.
Shifted(f, p, q) == Assign((p :> <<f, p, "reg", q>>) @@ ("flags" :> <<f, p, "reg", q, "flags">>))
DoubleBy(f, w, q) ==
  [r |-> Shifted(f, "rm", q) \o NextInstruction,
   e |-> LinAddr \o ReadForWrite(Mem, w, "t") \o Shifted(f, "t", q) \o WriteBack(Mem, w, t)
         \o NextInstruction]
Double(f) == [i16 |-> DoubleBy(f, 2, "imm"), i32 |-> DoubleBy(f, 4, "imm"),
              cl16 |-> DoubleBy(f, 2, "ecx"), cl32 |-> DoubleBy(f, 4, "ecx")]
Shrd == Double("shrd")
Shld == Double("shld")

----------------------------------------------------------------------------
(* Ports.                                                                  *)

\* A port's access is permitted first; what is read or written then is the
\* device's business.
Out(w, p) == IoPermission(w, p) \o Set("port", <<"out", p, "eax">>) \o NextInstruction
In(w, p)  == IoPermission(w, p) \o Put("eax", <<"in", p>>)
Ports(p)  == [outb |-> Out(1, p), outw |-> Out(2, p), outd |-> Out(4, p),
              inb |-> In(1, p), inw |-> In(2, p), ind |-> In(4, p)]
PortsImm == Ports("imm")
PortsDx  == Ports("edx")

----------------------------------------------------------------------------
(* Moves.                                                                  *)

MovesOf(w) ==
  [r_i |-> Put("rm", <<"imm">>), r_e |-> With(w, Set("reg", t)), r_r |-> Put("rm", <<"reg">>),
   e_r |-> Store(w, <<"reg">>), e_i |-> Store(w, <<"imm">>)]
Moves8  == MovesOf(1)
Moves16 == MovesOf(2)
Moves32 == MovesOf(4)

MovesSegment ==
  [s16_r16 |-> LoadSegmentMov("sreg", "rm") \o NextInstruction,
   s16_e16 |-> With(2, LoadSegmentMov("sreg", "t")),
   ss_r16 |-> LoadSegmentMov("ss", "rm") \o Guard("ss") \o NextInstruction,
   ss_e16 |-> With(2, LoadSegmentMov("ss", "t") \o Guard("ss")),
   cs_r16 |-> LoadSegmentMov("cs", "rm") \o NextInstruction,
   e16_s16 |-> Store(2, <<"sreg">>),
   r16_s16 |-> Put("rm", <<"sreg">>), r32_s16 |-> Put("rm", <<"sreg">>)]

\* The accumulator and an absolute address.
Absolute  == <<"at", "imm", "sreg">>
MovesAbsolute ==
  [load32  |-> Read(Absolute, 4, "t") \o Put("eax", t),
   load16  |-> Read(Absolute, 2, "t") \o Put("eax", t),
   load8   |-> Read(Absolute, 1, "t") \o Put("eax", t),
   store32 |-> Write(Absolute, 4, <<"eax">>) \o NextInstruction,
   store16 |-> Write(Absolute, 2, <<"eax">>) \o NextInstruction,
   store8  |-> Write(Absolute, 1, <<"eax">>) \o NextInstruction]

\* The operand of CMOVcc is read whether or not it is moved.
MoveIf(p) == If(<<"cond", "flags", "imm">>, Set("reg", <<p>>), <<>>)
Conditional ==
  [cmov_r16e16 |-> With(2, MoveIf("t")), cmov_r16r16 |-> MoveIf("rm") \o NextInstruction,
   cmov_r32e32 |-> With(4, MoveIf("t")), cmov_r32r32 |-> MoveIf("rm") \o NextInstruction,
   setcc_e8 |-> Store(1, <<"cond", "flags", "imm">>),
   setcc_r8 |-> Put("rm", <<"cond", "flags", "imm">>),
   lea_r16e16 |-> Put("reg", <<"virtaddr", "reg", "eax", "esp", "ebp">>),
   lea_r32e32 |-> Put("reg", <<"virtaddr", "reg", "eax", "esp", "ebp">>)]

\* LDS and its like load the segment register, then read the offset.
LoadFar(s, w) ==
  LinAddr \o Read(Mem2, 2, "t") \o LoadSegmentMov(s, "t") \o Read(Mem, w, "t") \o Put("reg", t)

FarPointers(s) == [w16 |-> LoadFar(s, 2), w32 |-> LoadFar(s, 4)]
Lds == FarPointers("sreg")
Les == FarPointers("sreg")
Lss == FarPointers("ss")
Lfs == FarPointers("sreg")
Lgs == FarPointers("sreg")

Swap == Assign([rm |-> <<"reg">>, reg |-> <<"rm">>]) \o NextInstruction

\* The byte form passes an unshifted tag: a page the table already has for
\* reading is written without a look at its rights.
Xchg ==
  [r8r8 |-> Swap, r16r16 |-> Swap, r32r32 |-> Swap,
   r8e8 |-> LinAddr \o Read(Mem, 1, "t") \o WriteAsRead(Mem, 1, <<"reg">>) \o Put("reg", t),
   r16e16 |-> LinAddr \o ReadForWrite(Mem, 2, "t") \o WriteBack(Mem, 2, <<"reg">>) \o Put("reg", t),
   r32e32 |-> LinAddr \o ReadForWrite(Mem, 4, "t") \o WriteBack(Mem, 4, <<"reg">>) \o Put("reg", t)]

\* The operand is written in both cases, with its own value when it differs.
Exchanged(p) ==
  Set("flags", <<"cmp", "eax", p>>)
  \o If(<<"equal", "eax", p>>, Set(p, <<"reg">>), Set("eax", <<p>>))
CmpxchgOf(w) ==
  [r_r |-> Exchanged("rm") \o NextInstruction,
   e_r |-> LinAddr \o ReadForWrite(Mem, w, "t") \o Exchanged("t") \o WriteBack(Mem, w, t)
           \o NextInstruction]
Cmpxchg == [w8 |-> CmpxchgOf(1), w16 |-> CmpxchgOf(2), w32 |-> CmpxchgOf(4)]

\* Mutant: the halves are compared and exchanged in turn.
Cmpxchg8bHalves ==
  [e32 |-> LinAddr \o ReadForWrite(Mem, 4, "lo")
     \o If(<<"equal", "eax", "lo">>,
           Write(Mem, 4, <<"ebx">>) \o ReadForWrite(Mem2, 4, "hi") \o Write(Mem2, 4, <<"ecx">>)
           \o Set("flags", <<"ZF set", "flags">>),
           Set("flags", <<"ZF clear", "flags">>))
     \o NextInstruction]

\* Both halves are read for writing before either is written.
Cmpxchg8b ==
  [e32 |-> LinAddr \o ReadForWrite(Mem, 4, "lo") \o ReadForWrite(Mem2, 4, "hi")
     \o If(<<"equal", "eax", "edx", "lo", "hi">>,
           Set("flags", <<"ZF set", "flags">>) \o Write(Mem, 4, <<"ebx">>) \o Write(Mem2, 4, <<"ecx">>),
           Assign([flags |-> <<"ZF clear", "flags">>, eax |-> <<"lo">>, edx |-> <<"hi">>]))
     \o NextInstruction]

\* The sum goes to the operand, what it held to the register.
Added(p) == Assign((p :> <<"add", p, "reg">>) @@ ("reg" :> <<p>>) @@ ("flags" :> <<"add", p, "reg">>))
XaddOf(w) ==
  [r_r |-> Added("rm") \o NextInstruction,
   r_e |-> LinAddr \o ReadForWrite(Mem, w, "t") \o Added("t") \o WriteBack(Mem, w, t)
           \o NextInstruction]
Xadd == [w8 |-> XaddOf(1), w16 |-> XaddOf(2), w32 |-> XaddOf(4)]

InBounds(w) == LinAddr \o Read(Mem, w, "lo") \o Read(Mem2, w, "hi")
               \o Check(<<"between", "reg", "lo", "hi">>) \o NextInstruction
Bound == [w16 |-> InBounds(2), w32 |-> InBounds(4)]

----------------------------------------------------------------------------
(* Decimal adjustments, bits, flags.                                       *)

Adjust(f) == Assign([eax |-> <<f, "eax", "flags">>, flags |-> <<f, "eax", "flags">>]) \o NextInstruction
Decimal ==
  [daa |-> Adjust("daa"), das |-> Adjust("das"), aaa |-> Adjust("aaa"), aas |-> Adjust("aas"),
   aam |-> Check(<<"not zero", "imm">>)
           \o Assign([eax |-> <<"aam", "eax", "imm">>, flags |-> <<"aam", "eax", "imm">>])
           \o NextInstruction,
   aad |-> Assign([eax |-> <<"aad", "eax", "imm">>, flags |-> <<"aad", "eax", "imm">>])
           \o NextInstruction]

BitOf(p) == [bt  |-> Set("flags", <<"bt", p, "reg", "imm", "flags">>) \o NextInstruction,
             bts |-> Shifted("bts", p, "imm") \o NextInstruction,
             btc |-> Shifted("btc", p, "imm") \o NextInstruction,
             btr |-> Shifted("btr", p, "imm") \o NextInstruction]
BitsRegister == [w16 |-> BitOf("rm"), w32 |-> BitOf("rm")]

\* The bit number also chooses the word that is read.
BitAddr == LinAddr \o Set("linaddr", <<"word of the bit", "linaddr", "reg", "imm">>)
BitModify(f, w) == BitAddr \o ReadForWrite(Mem, w, "t") \o Shifted(f, "t", "imm")
                   \o WriteBack(Mem, w, t) \o NextInstruction
BitTest(w) == BitAddr \o Read(Mem, w, "t") \o Set("flags", <<"bt", "t", "reg", "imm", "flags">>)
              \o NextInstruction
BitsMemory16 == [bt_e16 |-> BitTest(2), bt_e32 |-> BitTest(4), bts |-> BitModify("bts", 2),
                 btc |-> BitModify("btc", 2), btr |-> BitModify("btr", 2)]
BitsMemory32 == [bts |-> BitModify("bts", 4), btc |-> BitModify("btc", 4),
                 btr |-> BitModify("btr", 4)]

Scan(f, p)  == Assign([reg |-> <<f, p, "reg">>, flags |-> <<f, p>>])
ScanOf(f) == [r16r16 |-> Scan(f, "rm") \o NextInstruction, r16e16 |-> With(2, Scan(f, "t")),
              r32r32 |-> Scan(f, "rm") \o NextInstruction, r32e32 |-> With(4, Scan(f, "t"))]
BitScans == [bsf |-> ScanOf("bsf"), bsr |-> ScanOf("bsr")]

\* CLI and STI by the I/O privilege level, or by the virtual flag.
FlagChange(e) == Put("flags", e)
FlagOps ==
  [cli |-> If(<<"iopl", "cpl", "flags">>, Set("flags", <<"IF clear", "flags">>),
              Check(<<"vme", "cr">>) \o Set("flags", <<"VIF clear", "flags">>)) \o NextInstruction,
   sti |-> If(<<"iopl", "cpl", "flags">>, Set("flags", <<"IF set", "flags">>),
              Check(<<"vme and not VIP", "cr", "flags">>)
              \o Set("flags", <<"VIF set", "flags">>))
           \o Set("shadow", <<"1">>) \o NextInstruction,
   cld |-> FlagChange(<<"DF clear", "flags">>), std |-> FlagChange(<<"DF set", "flags">>),
   cmc |-> FlagChange(<<"CF other", "flags">>), clc |-> FlagChange(<<"CF clear", "flags">>),
   stc |-> FlagChange(<<"CF set", "flags">>)]

Convert ==
  [cbw |-> Put("eax", <<"sign8", "eax">>), cwde |-> Put("eax", <<"sign16", "eax">>),
   cwd |-> Put("edx", <<"sign", "eax">>), cdq |-> Put("edx", <<"sign", "eax">>),
   lahf |-> Put("eax", <<"ah of", "eax", "flags">>),
   sahf |-> Put("flags", <<"flags of ah", "eax", "flags">>)]

\* ENTER, with one frame pointer copied where the nesting level is above one;
\* each push moves esp, and the frame pointer copied is the one ebp points at.
Enter(w) ==
  Push(w, <<"ebp">>) \o Set("frame", <<"esp">>)
  \o If(<<"not zero", "imm">>,
        If(<<"above one", "imm">>, Read(<<"at", "ebp", "ss">>, w, "t") \o Push(w, t), <<>>)
        \o Push(w, <<"frame">>),
        <<>>)
  \o Set("ebp", <<"frame">>) \o Put("esp", <<"less", "esp", "imm">>)
Leave(w) == Read(<<"at", "ebp", "ss">>, w, "t")
            \o Assign([ebp |-> t, esp |-> <<"plus", "ebp">>]) \o NextInstruction
Enters == [w16 |-> Enter(2), w32 |-> Enter(4)]
Leaves == [w16 |-> Leave(2), w32 |-> Leave(4)]

Extend(f) == [r16r8 |-> Put("reg", <<f, "rm">>), r32r8 |-> Put("reg", <<f, "rm">>),
              r32r16 |-> Put("reg", <<f, "rm">>), r16e8 |-> With(1, Set("reg", <<f, "t">>)),
              r32e8 |-> With(1, Set("reg", <<f, "t">>)), r32e16 |-> With(2, Set("reg", <<f, "t">>))]
Movzx == Extend("zero extended")
Movsx == Extend("sign extended")

Translate == Read(<<"at", "ebx", "eax", "sreg">>, 1, "t") \o Put("eax", t)
XlatBswap == [xlat16 |-> Translate, xlat32 |-> Translate,
              bswap_r16 |-> Put("rm", <<"0">>), bswap_r32 |-> Put("rm", <<"bswap", "rm">>)]
=============================================================================
