-------------------------------- MODULE Fpu --------------------------------
(* The FPU instructions of src/src/cpu/fpu.cpp as sequences of the steps of *)
(* Micro.  The status word is kept in parts: fsw (the exception flags), c1, *)
(* cc (C0, C2 and C3), fes (an exception is pending) and ftop; the register *)
(* file is fst, or st1 to st8 where each is loaded for itself.  The local v *)
(* is float_exception_flags, w the result, and "i" the register the opcode  *)
(* names.  partial and clear are m_partial_sw and m_bits_to_clear: what an  *)
(* instruction that stores keeps back until memory has been written.        *)
EXTENDS System

Done == NextInstruction

\* fpu_nm_check and the reset that begin fpu_reg_op and fpu_mem_op.
Begin(rest) == FpuReady \o Set("v", <<"none">>) \o rest

\* fpu_fwait: a pending exception ends the instruction, or is an interrupt of
\* the controllers.
Wait == If(<<"fes">>, If(<<"NE", "cr">>, Check(<<"never">>), Set("irq13", <<"raised">>)), <<>>)

\* The same where the handler returns 0: the exception has been delivered and
\* ip is moved all the same.
WaitOrPass ==
  If(<<"fes">>, If(<<"NE", "cr">>, CheckOrPass(<<"never">>), Set("irq13", <<"raised">>)), <<>>)

\* fpu_update_pointers, fpu_update_pointers2
Pointers       == Set("fptr", <<"here", "ip", "cs">>)
MemoryPointers == Assign([fptr |-> <<"here", "ip", "cs">>, fdata |-> <<"linaddr">>, fseg |-> <<"sreg">>])

----------------------------------------------------------------------------
(* The register stack.                                                     *)

St(i) == <<"st", i, "ftop", "fst">>

\* fpu_set_st, with the value in w.
SetSt(i) == Assign([fst |-> <<"with", i, "ftop", "w", "fst">>,
                    ftag |-> <<"tagged", i, "ftop", "w", "ftag">>])
SetTo(i, e) == Set("w", e) \o SetSt(i)
PushSt      == Set("ftop", <<"down", "ftop">>) \o SetSt("0")
FpuPush(e)   == Set("w", e) \o PushSt
PopSt       == Assign([ftag |-> <<"emptied", "0", "ftop", "ftag">>, ftop |-> <<"up", "ftop">>])

StackFault == Assign([v |-> <<"stack fault">>, c1 |-> <<"1">>])

\* fpu_check_stack_underflow(i, 1)
Underflow(i, yes, no) ==
  If(<<"empty", i, "ftop", "ftag">>, StackFault \o yes, Set("c1", <<"0">>) \o no)

\* Two registers, of which either may be empty.
Both(i, j, rest)    == Underflow(i, <<>>, Underflow(j, <<>>, rest))
Either(i, j, empty) == Underflow(i, empty, Underflow(j, empty, <<>>))

\* fpu_check_stack_underflow(0, 0)
UnderflowKept(rest) ==
  If(<<"empty", "0", "ftop", "ftag">>,
     Assign([v |-> <<"stack fault">>, partial |-> <<"C1">>]), Set("clear", <<"C1">>) \o rest)

\* fpu_check_stack_overflow(-1)
Overflow(yes, no) == If(<<"full", "ftop", "ftag">>, StackFault \o yes, Set("c1", <<"0">>) \o no)

----------------------------------------------------------------------------
(* Exceptions.                                                             *)

\* Bit 7 is set for whatever is not masked; the inexact result alone lets the
\* instruction go on.
Unmasked(raised, clean) ==
  If(<<"unmasked", "v", "fcw">>,
     Set("fes", <<"always">>) \o If(<<"inexact alone", "v", "fcw">>, clean, raised), clean)

\* fpu_check_exceptions
CheckExceptions(raised, clean) ==
  Assign([fsw |-> <<"or", "fsw", "v">>, c1 |-> <<"or", "c1", "v">>]) \o Unmasked(raised, clean)

\* fpu_check_exceptions2(0)
CheckKept(raised, clean) == Set("partial", <<"or", "partial", "v">>) \o Unmasked(raised, clean)

\* fpu_commit_sw
Commit ==
  Assign([fsw |-> <<"or", "fsw", "partial">>, c1 |-> <<"committed", "c1", "clear", "partial">>])
  \o Assign([partial |-> <<"0">>, clear |-> <<"0">>])

\* fpu_check_push: a full stack gets the indefinite value when that is masked.
WithRoom(rest) ==
  Overflow(CheckExceptions(<<>>, <<>>)
           \o If(<<"invalid masked", "fcw">>, FpuPush(<<"indefinite">>), Set("fes", <<"always">>)),
           rest)

\* An operation of softfloat and its flags.
Compute(f, p) == Assign([w |-> <<f, p, "fst", "ftop", "fcw">>,
                         v |-> <<"raised", f, "v", p, "fst", "ftop", "fcw">>])
Unordered == Set("cc", <<"unordered">>)

\* fpu_fcom, then the rest unless an exception is to be taken.
Compared(p, rest) == Compute("relation", p) \o CheckExceptions(<<>>, Set("cc", <<"w">>) \o rest)

----------------------------------------------------------------------------
(* fpu_reg_op, in the order of the code.                                   *)

Trapping(rest) == Begin(Wait \o Pointers \o rest \o Done)
Passing(rest)  == Begin(WaitOrPass \o Pointers \o rest \o Done)

Arithmetic(store) == Trapping(Both("0", "i", Compute("result", "i") \o CheckExceptions(<<>>, store)))
FpuCompare(rest)  == Begin(WaitOrPass \o Either("0", "i", Unordered) \o Pointers
                           \o Compared("i", rest) \o Done)
FpuArith ==
  [d8 |-> Arithmetic(SetSt("0")), dc |-> Arithmetic(SetSt("i")),
   de |-> Arithmetic(SetSt("i") \o PopSt), fcom |-> FpuCompare(<<>>), fcomp |-> FpuCompare(PopSt)]

\* FXCH looks at st(1), whichever register it names.
FpuMoves ==
  [fld  |-> Passing(Underflow("i", <<>>, WithRoom(FpuPush(St("i"))))),
   fxch |-> Passing(Both("0", "1", Set("t", St("0")) \o SetTo("0", St("i")) \o SetTo("i", <<"t">>))),
   fnop |-> Passing(<<>>), sign |-> Passing(Underflow("0", <<>>, SetTo("0", <<"sign", "fst", "ftop">>))),
   ftst |-> Passing(Underflow("0", <<>>, Compared("zero", <<>>))),
   fxam |-> Passing(Assign([cc |-> <<"class", "fst", "ftop", "ftag">>, c1 |-> <<"sign", "fst", "ftop">>])),
   constants |-> Passing(WithRoom(FpuPush(<<"constant">>)))]

\* One result into a register, unless there is an exception to take.
Result(f, store) == Compute(f, "0") \o CheckExceptions(<<>>, store)
Quotient == Assign([cc |-> <<"quotient", "cc", "fst", "ftop">>, c1 |-> <<"quotient", "c1", "fst", "ftop">>])

\* FPTAN sets no flags and pushes nothing; FPREM1 looks at no tags.
FpuFunctions1 ==
  [f2xm1 |-> Passing(Underflow("0", <<>>, Result("f2xm1", SetSt("0")))),
   fyl2x |-> Passing(Both("0", "1", Result("fyl2x", SetSt("1") \o PopSt))),
   fptan |-> Passing(Underflow("0", <<>>,
               If(<<"in range", "fst", "ftop">>, Compute("ftan", "0") \o SetSt("0"), <<>>))),
   fpatan |-> Passing(Both("0", "1", Result("fpatan", PopSt \o SetSt("0")))),
   fxtract |-> Passing(Underflow("0", <<>>, Overflow(<<>>,
                 Set("t", <<"significand", "fst", "ftop">>)
                 \o Result("exponent", SetSt("0") \o FpuPush(<<"t">>))))),
   fprem1 |-> Passing(Result("fprem1", Quotient \o SetSt("0"))),
   fdecstp |-> Passing(Assign([c1 |-> <<"0">>, ftop |-> <<"down", "ftop">>])),
   fincstp |-> Passing(Assign([c1 |-> <<"0">>, ftop |-> <<"up", "ftop">>]))]

InRange(rest) == If(<<"in range", "fst", "ftop">>, rest, Set("cc", <<"C2", "cc">>))
Operand(rest)   == Trapping(Underflow("0", <<>>, rest))
FpuFunctions2 ==
  [fprem |-> Operand(Underflow("1", <<>>, Result("fprem", Quotient \o SetSt("0")))),
   fyl2xp1 |-> Operand(Underflow("1", <<>>, Result("fyl2xp1", PopSt \o SetSt("0")))),
   rounded |-> Operand(Result("sqrt or rint", SetSt("0"))),
   fsincos |-> Operand(Overflow(<<>>,
                 Set("t", <<"cos", "fst", "ftop">>)
                 \o InRange(Result("sin", SetSt("0") \o FpuPush(<<"t">>))))),
   fscale |-> Operand(Both("0", "1", Result("fscale", SetSt("0")))),
   fsin_fcos |-> Operand(InRange(Result("sin or cos", SetSt("0"))))]

\* FCMOV gives up when both registers are empty.
MoveSt  == If(<<"condition", "flags">>, SetTo("0", St("i")), <<>>)
\* FUCOM and FUCOMPP look at the exceptions of the comparison twice.
ComparedTwice(p, rest) == Compared(p, CheckExceptions(<<>>, rest))
Unordered2(i, j, rest) == Trapping(Either(i, j, Unordered) \o ComparedTwice(j, rest))
FpuCompares ==
  [fcmov |-> Trapping(Underflow("0", Underflow("i", <<>>, MoveSt), MoveSt)),
   fucom |-> Unordered2("0", "i", <<>>), fucomp |-> Unordered2("0", "i", PopSt),
   fucompp |-> Unordered2("0", "1", PopSt \o PopSt),
   fcompp |-> Passing(
     LET Empty2 == CheckExceptions(<<>>, Unordered)
     IN Underflow("0", Empty2, Underflow("i", Empty2, Compared("1", PopSt \o PopSt))))]

\* FCOMI and its like: the flags are cleared before the registers are looked at.
FlagsUnordered == Set("flags", <<"unordered", "flags">>)
Comparison(rest) ==
  Set("flags", <<"cleared", "flags">>)
  \o LET Related == Compute("relation", "i")
                    \o CheckExceptions(<<>>, Set("flags", <<"related", "w", "flags">>) \o rest)
     IN Underflow("0", FlagsUnordered, Underflow("i", FlagsUnordered, Related))
StoreSt(rest) ==
  Passing(Underflow("0", If(<<"invalid masked", "fcw">>, PopSt, <<>>), SetTo("i", St("0")) \o rest))
Free(rest) == Passing(Set("ftag", <<"emptied", "i", "ftop", "ftag">>) \o rest)
FpuStores ==
  [fcomi |-> Trapping(Comparison(<<>>)), fcomip |-> Trapping(Comparison(PopSt)),
   fst |-> StoreSt(<<>>), fstp |-> StoreSt(PopSt), ffree |-> Free(<<>>), ffreep |-> Free(PopSt)]

\* fninit
Initial == Assign([fcw |-> <<"0x37F">>, fsw |-> <<"0">>, c1 |-> <<"0">>, cc |-> <<"0">>,
                   fes |-> <<"never">>, ftag |-> <<"all empty">>, ftop |-> <<"0">>, fptr |-> <<"0">>,
                   fdata |-> <<"0">>, fseg |-> <<"0">>])
StatusWord == <<"status word", "fsw", "c1", "cc", "fes", "ftop">>

\* These do not wait.
FpuControl ==
  [fnclex |-> Begin(Assign([fsw |-> <<"0">>, fes |-> <<"never">>]) \o Done),
   fninit |-> Begin(Initial \o Done), feni |-> Begin(Done),
   fnstsw |-> Begin(Set("eax", StatusWord) \o Done), undefined |-> Begin(Check(<<"never">>)),
   fwait |-> FpuReady \o Wait \o Done]

----------------------------------------------------------------------------
(* fpu_mem_op.  A value of more bytes than the widest access is taken as    *)
(* one, on two pages.                                                      *)

FromMemory(rest) == LinAddr \o Begin(Wait \o rest \o Done)

\* An operand is read and made a register's value, which raises flags when it
\* is a real number.
Loaded(w, real) ==
  Read(Mem, w, "t") \o (IF real THEN Set("v", <<"raised", "conversion", "t">>) ELSE <<>>) \o MemoryPointers
MemoryArith(w, real) ==
  FromMemory(Loaded(w, real)
    \o Underflow("0", <<>>, Compute("result", "t") \o CheckExceptions(<<>>, SetSt("0"))))
MemoryFcom(w, real)  == FromMemory(Loaded(w, real) \o Underflow("0", Unordered, Compared("t", <<>>)))
MemoryFcomp(w, real) == FromMemory(Loaded(w, real) \o Underflow("0", Unordered, Compared("t", PopSt)))
MemoryLoad(w, real)  ==
  FromMemory(Loaded(w, real) \o WithRoom(CheckExceptions(<<>>, FpuPush(<<"value", "t">>))))
Operands(F(_, _)) ==
  [int16 |-> F(2, FALSE), int32 |-> F(4, FALSE), real32 |-> F(4, TRUE), real64 |-> F(8, TRUE)]
FpuMemArith == Operands(MemoryArith)
FpuMemFcom  == Operands(MemoryFcom)
FpuMemFcomp == Operands(MemoryFcomp)
FpuMemLoad  == Operands(MemoryLoad)

\* FLD of 80 bits takes a full stack without an exception; FILD of 64 bits
\* sets the pointers before it reads.
FpuLongLoads ==
  [fld80 |-> FromMemory(Read(Mem, 10, "t") \o MemoryPointers \o Overflow(<<>>, FpuPush(<<"t">>))),
   fbld |-> FromMemory(Read(Mem, 10, "t") \o MemoryPointers \o WithRoom(FpuPush(<<"decimal", "t">>))),
   fild64 |-> FromMemory(MemoryPointers \o Read(Mem, 8, "t") \o WithRoom(FpuPush(<<"value", "t">>)))]

\* FST and FISTP of 64 bits: what was raised is committed after the write.
Kept(f, rest) == FromMemory(MemoryPointers \o UnderflowKept(Compute(f, "0") \o rest))
Stored(w, rest) ==
  Kept("rounded", CheckKept(<<>>, Write(Mem, w, <<"w">>) \o Commit \o rest))
FpuMemStore ==
  [fst32 |-> Stored(4, <<>>), fstp32 |-> Stored(4, PopSt), fst64 |-> Stored(8, <<>>),
   fstp64 |-> Stored(8, PopSt), fistp64 |-> Stored(8, PopSt)]

\* FIST and FISTTP look at the exceptions again for the pop, and commit
\* whatever comes of it.
Integer(w, rest) ==
  Kept("integer", CheckKept(<<>>, Write(Mem, w, <<"w">>)) \o CheckKept(<<>>, rest) \o Commit)
FpuMemInteger ==
  [fist16 |-> Integer(2, <<>>), fistp16 |-> Integer(2, PopSt), fist32 |-> Integer(4, <<>>),
   fistp32 |-> Integer(4, PopSt), fisttp64 |-> Integer(8, PopSt)]

\* FSTP of 80 bits keeps nothing back, and FBSTP does not look at the tag.
FpuLongStores ==
  [fstp80 |-> FromMemory(MemoryPointers \o Underflow("0", <<>>, Write(Mem, 10, St("0")) \o PopSt)),
   fbstp |-> FromMemory(MemoryPointers \o Compute("decimal", "0")
     \o CheckExceptions(<<>>,
          FlattenSeq([i \in 1..10 |-> Write(<<Slots[i], "linaddr">>, 1, <<"w">>)]) \o PopSt))]

----------------------------------------------------------------------------
(* The environment and the whole state.                                    *)

Unwaited(rest) == LinAddr \o Begin(rest \o Done)

Numbers     == <<"1", "2", "3", "4", "5", "6", "7", "8">>
Field(i)    == <<"field", Numbers[i], "linaddr">>
Register(i) == <<"register", Numbers[i], "linaddr">>
StPlaces    == <<"st1", "st2", "st3", "st4", "st5", "st6", "st7", "st8">>

\* fstenv: the tags are worked out anew, then written with the rest.
StoreEnvironment(w) ==
  LET Fields == <<<<"fcw">>, StatusWord, <<"ftag">>, <<"ip of", "fptr", "cr">>,
                  <<"cs of", "fptr", "cr">>, <<"data", "fdata", "fseg", "cr">>, <<"segment", "fdata", "fseg", "cr">>>>
  IN Set("ftag", <<"retagged", "ftag", "fst", "ftop">>)
     \o FlattenSeq([i \in 1..7 |-> WriteOrPass(Field(i), w, Fields[i])])

StatusFrom(p) == Assign([fsw |-> <<"flags", p>>, c1 |-> <<"C1", p>>, cc |-> <<"cc", p>>,
                         fes |-> <<"ES", p>>, ftop |-> <<"top", p>>])

\* fldenv: each field is set when it has been read.
LoadEnvironment(w) ==
  ReadOrPass(Field(1), w, "t") \o Set("fcw", <<"t">>)
  \o ReadOrPass(Field(2), 2, "t") \o StatusFrom("t")
  \o ReadOrPass(Field(3), 2, "t") \o Set("ftag", <<"t">>)
  \o ReadOrPass(Field(4), w, "slot1") \o Set("fptr", <<"pointer", "slot1", "fptr">>)
  \o ReadOrPass(Field(5), w, "slot2") \o Set("fptr", <<"pointer", "slot1", "slot2">>)
  \o ReadOrPass(Field(6), w, "t") \o Set("fdata", <<"t">>)
  \o ReadOrPass(Field(7), w, "t")
  \o If(<<"PE", "cr">>, Set("fseg", <<"t">>), Set("fptr", <<"pointer", "slot1", "slot2", "t">>))
  \o Set("fes", <<"unmasked", "fsw", "fcw">>)

\* FLDCW, FNSTCW, FNSTSW, FLDENV, FNSTENV.
Environment ==
  [fldcw |-> Unwaited(Read(Mem, 2, "t") \o Set("fcw", <<"t">>)),
   fnstcw |-> Unwaited(Write(Mem, 2, <<"fcw">>)), fnstsw |-> Unwaited(Write(Mem, 2, StatusWord)),
   fldenv16 |-> Unwaited(LoadEnvironment(2)), fldenv32 |-> Unwaited(LoadEnvironment(4)),
   fnstenv16 |-> Unwaited(StoreEnvironment(2)), fnstenv32 |-> Unwaited(StoreEnvironment(4))]

\* FNSAVE, FRSTOR: the registers follow the environment.
Save(w) == StoreEnvironment(w) \o FlattenSeq([i \in 1..8 |-> Write(Register(i), 10, <<"st", StPlaces[i], "fst">>)])
           \o Initial
Restore(w) == LoadEnvironment(w)
              \o FlattenSeq([i \in 1..8 |-> Read(Register(i), 10, "t") \o Set(StPlaces[i], <<"t">>)])
WholeState == [fnsave16 |-> Unwaited(Save(2)), fnsave32 |-> Unwaited(Save(4)),
               frstor16 |-> Unwaited(Restore(2)), frstor32 |-> Unwaited(Restore(4))]

----------------------------------------------------------------------------
(* FXSAVE and FXRSTOR.                                                     *)

\* cpu_access_verify asks for the two pages of the area, but looks at the bit
\* of another right, so that an access may fault all the same: what passes
\* here says nothing of the fields.
Verified(need) == Reading(Mem, 4, "u", need, "end")
Aligned(rest)  == LinAddr \o Check(<<"aligned", "linaddr">>) \o rest

\* FXSAVE does not look at the outcome of writing a register of the FPU.
Padding(i) == <<"padding", Numbers[i], "linaddr">>
Xmm(i)     == <<"xmm", Numbers[i], "linaddr">>
XmmPlaces  == <<"xmm1", "xmm2", "xmm3", "xmm4", "xmm5", "xmm6", "xmm7", "xmm8">>
FxSave ==
  LET Fields == <<<<"fcw">>, StatusWord, <<"short tags", "ftag">>,
               <<"pointers", "fptr", "fdata", "fseg">>, <<"mxcsr">>>>
  IN Aligned(FpuReady \o Verified("rw")
       \o FlattenSeq([i \in 1..5 |-> Write(Field(i), 1, Fields[i])])
       \o FlattenSeq([i \in 1..8 |-> WriteBack(Register(i), 1, <<"st", StPlaces[i], "fst">>)
                                    \o Write(Padding(i), 1, <<"0">>)])
       \o FlattenSeq([i \in 1..8 |-> Write(Xmm(i), 1, <<XmmPlaces[i]>>)]) \o Done)

\* MXCSR is checked first; everything is set as it is read.
FxRestore ==
  Aligned(FpuReady \o Verified("ro")
    \o Read(Field(5), 1, "t") \o Check(<<"no reserved bits", "t">>) \o Set("mxcsr", <<"t">>)
    \o Read(Field(1), 1, "t") \o Set("fcw", <<"t">>)
    \o Read(Field(2), 1, "t") \o StatusFrom("t")
    \o Read(Field(3), 1, "u") \o Read(Field(4), 1, "t")
    \o Assign([fptr |-> <<"pointer", "t">>, fdata |-> <<"data", "t">>, fseg |-> <<"segment", "t">>])
    \o FlattenSeq([i \in 1..8 |-> Read(Register(i), 1, "t") \o Set(StPlaces[i], <<"t">>)])
    \o FlattenSeq([i \in 1..8 |-> Read(Xmm(i), 1, "t") \o Set(XmmPlaces[i], <<"t">>)])
    \o Set("ftag", <<"tags of", "u", "st1", "st2", "st3", "st4", "st5", "st6", "st7", "st8">>) \o Done)
FxState == [fxsave |-> FxSave, fxrstor |-> FxRestore]
=============================================================================
