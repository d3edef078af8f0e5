-------------------------------- MODULE Simd --------------------------------
(* The MMX and SSE instructions of src/src/cpu/simd.cpp as sequences of the *)
(* steps of Micro.  Instructions of a dispatch function that differ in      *)
(* their arithmetic only are one handler.  xreg and xrm are the XMM         *)
(* registers that the operands name, and mm is one that is an MMX register: *)
(* those are the registers fst of the FPU.  The second operand is in the    *)
(* local t, and u is the flags the arithmetic has raised.                   *)
EXTENDS Fpu

\* cpu_mmx_check: the register stack is reset before the operand is looked at.
MmxReady == FpuReady \o Wait \o Assign([ftop |-> <<"0">>, ftag |-> <<"0">>])

----------------------------------------------------------------------------
(* Operands.                                                               *)

IsRegister == <<"register form">>
IsAligned  == <<"aligned", "linaddr">>

\* get_read_ptr: an aligned operand is looked up once, and one that is not is
\* read in parts or refused.
Fetch(strict) ==
  LinAddr \o (IF strict THEN Check(IsAligned) \o Read(Mem, 1, "t")
              ELSE If(IsAligned, Read(Mem, 1, "t"), Read(Mem, 4, "t")))

\* get_write_ptr, then write_back_handler for what is not aligned.
Deliver(strict, e) ==
  LinAddr \o (IF strict THEN Check(IsAligned) \o Write(Mem, 1, e)
              ELSE If(IsAligned, Write(Mem, 1, e), Write(Mem, 4, e)))

\* get_sse_read_ptr, get_mmx_read_ptr, get_reg_read_ptr.
FromXmm(strict) == If(IsRegister, Set("t", <<"xrm">>), Fetch(strict))
FromMmx         == If(IsRegister, Set("t", <<"mm", "fst">>), Fetch(FALSE))
FromReg         == If(IsRegister, Set("t", <<"rm">>), Fetch(FALSE))

\* Fewer bytes are looked up than are read.
FromXmmBeyond ==
  If(IsRegister, Set("t", <<"xrm">>),
     Fetch(TRUE) \o Reading(Mem2, 1, "w", "none", "end") \o Set("t", <<"joined", "t", "w">>))

\* get_mmx_reg_dest: the exponent is set, also when the register is a source.
Marked       == Set("exponent", <<"0xFFFF">>)
MmxResult(f) == Marked \o Set("fst", <<f, "t", "fst">>)

\* get_sse_write_ptr, get_mmx_write_ptr, get_reg_write_ptr.
ToXmm(strict, e) == If(IsRegister, Set("xrm", e), Deliver(strict, e))
ToMmx(e)         == If(IsRegister, Marked \o Set("fst", <<"with mm", "fst">>), Deliver(FALSE, e))
ToReg(e)         == If(IsRegister, Set("rm", e), Deliver(FALSE, e))


----------------------------------------------------------------------------
(* Handlers.                                                               *)

\* op_sse_10_17 and its like.
Sse(rest) == SseReady \o rest \o NextInstruction
Mmx(rest) == MmxReady \o rest \o NextInstruction

SseOp(f, strict)   == Sse(FromXmm(strict) \o Set("xreg", <<f, "xreg", "t">>))
MmxOp(f)           == Mmx(FromMmx \o MmxResult(f))
SseStore(f, strict) == Sse(ToXmm(strict, <<f, "xreg">>))
MmxStore           == Mmx(ToMmx(<<"mm", "fst">>))

\* cpu_sse_handle_exceptions, after the result has been stored.
HandleExceptions ==
  Set("mxcsr", <<"or", "mxcsr", "u">>) \o Check(<<"all masked", "u", "mxcsr">>)
Float(operand, f, p) ==
  Sse(operand \o Assign([u |-> <<"raised", f, p, "t", "mxcsr">>] @@ (p :> <<f, p, "t", "mxcsr">>))
      \o HandleExceptions)

\* A function whose instructions come in two forms.
Packed(f, strict) == [mmx |-> MmxOp(f), sse |-> SseOp(f, strict)]

\* execute_0F10_17: UNPCKHPS and UNPCKHPD look up half of what they read.
Simd10 ==
  [load |-> SseOp("load", FALSE), merge |-> SseOp("merge", TRUE),
   beyond |-> Sse(FromXmmBeyond \o Set("xreg", <<"unpacked", "xreg", "t">>)),
   between |-> Sse(Set("xreg", <<"halves", "xreg", "xrm">>)),
   store |-> SseStore("low", FALSE), store_high |-> SseStore("high", TRUE)]

\* execute_0F28_2F: MMX registers are read, and written, without the check of
\* the FPU.
Simd28 ==
  [load |-> SseOp("load", TRUE), store |-> SseStore("whole", TRUE),
   from_mmx |-> Float(FromMmx, "real", "xreg"), from_reg |-> Float(FromReg, "real", "xreg"),
   to_mmx |-> Float(FromXmm(TRUE), "integers", "fst"), to_reg |-> Float(FromXmm(TRUE), "integer", "reg"),
   to_reg_beyond |-> Float(FromXmmBeyond, "integer", "reg"),
   ucomiss |-> Float(FromXmm(TRUE) \o Set("t", <<"and", "xreg", "t">>), "relation", "flags"),
   ucomisd |-> Float(FromXmm(FALSE) \o Set("t", <<"and", "xreg", "t">>), "relation", "flags")]

\* execute_0F50_57
Simd50 ==
  [mask |-> Sse(FromXmm(TRUE) \o Set("reg", <<"signs", "t">>)), logic |-> SseOp("logic", TRUE),
   roots |-> Float(FromXmm(TRUE), "root", "xreg"), sqrtsd |-> Float(FromXmm(FALSE), "root", "xreg")]

\* execute_0F58_5F: the additions and multiplications take any address, of
\* the others only those of one double do.
Simd58 ==
  [add_mul |-> Float(FromXmm(FALSE), "sum or product", "xreg"),
   convert |-> Float(FromXmm(TRUE), "converted", "xreg"),
   cvtss2sd |-> Float(FromXmm(FALSE), "converted", "xreg")]
Simd5C ==
  [sub_div |-> Float(FromXmm(TRUE), "difference or quotient", "xreg"),
   min_max |-> Float(FromXmm(TRUE), "lesser or greater", "xreg"),
   double |-> Float(FromXmm(FALSE), "of doubles", "xreg")]

\* execute_0F60_67, execute_0FE8_EF, execute_0FD8_DF, execute_0FF8_FE
Simd60 == Packed("unpacked or packed", TRUE)
SimdE8 == Packed("saturated", TRUE)
SimdD8 == Packed("unsigned", TRUE)
SimdF8 == Packed("sum or difference", TRUE)

\* execute_0F68_6F
Simd68 ==
  Packed("unpacked", TRUE)
  @@ [movd_mmx |-> Mmx(FromReg \o MmxResult("low")), movd_sse |-> Sse(FromReg \o Set("xreg", <<"low", "t">>)),
      movdqu |-> SseOp("load", FALSE), undefined |-> Check(<<"never">>)]

\* execute_0F70_76
Simd70 ==
  Packed("shuffled", TRUE)
  @@ [shift_mmx |-> Mmx(Marked \o Set("fst", <<"shifted", "imm", "fst">>)),
      shift_sse |-> Sse(Set("xrm", <<"shifted", "imm", "xrm">>))]

\* execute_0F7E_7F: MOVD marks the register it stores.
Simd7E ==
  [movd_mmx |-> Mmx(If(IsRegister, Set("rm", <<"mm", "fst">>) \o Marked,
                       LinAddr \o If(IsAligned, Write(Mem, 1, <<"mm", "fst">>) \o Marked,
                                     Marked \o Write(Mem, 4, <<"mm", "fst">>)))),
   movd_sse |-> Sse(ToReg(<<"low", "xreg">>)), movq_load |-> SseOp("load", FALSE),
   movq_mmx |-> MmxStore, movdqa |-> SseStore("whole", TRUE), movdqu |-> SseStore("whole", FALSE)]

\* execute_0FC2_C6: PINSRW checks for SSE whatever it writes to, and MOVNTI
\* for nothing.
Insert16 == If(IsRegister, Set("t", <<"rm">>), LinAddr \o Read(Mem, 2, "t"))
SimdC2 ==
  [cmp |-> Float(FromXmm(TRUE), "compared", "xreg"), cmpsd |-> Float(FromXmm(FALSE), "compared", "xreg"),
   movnti |-> ToReg(<<"reg">>) \o NextInstruction,
   pinsrw_mmx |-> Sse(Insert16 \o MmxResult("inserted")),
   pinsrw_sse |-> Sse(Insert16 \o Set("xreg", <<"inserted", "xreg", "t">>)),
   pextrw_mmx |-> Mmx(Marked \o Set("reg", <<"word of mm", "fst">>)),
   pextrw_sse |-> Sse(Set("reg", <<"word", "xrm">>)), shuf |-> SseOp("shuffled", TRUE)]

\* execute_0FD0_D7: MOVQ2DQ and MOVDQ2Q pass two checks.
SimdD0 ==
  Packed("shifted, added or multiplied", TRUE)
  @@ [movq |-> SseStore("low", FALSE), mask_mmx |-> Mmx(FromMmx \o Set("reg", <<"signs", "t">>)),
      mask_sse |-> Sse(FromXmm(TRUE) \o Set("reg", <<"signs", "t">>)),
      movq2dq |-> MmxReady \o Sse(Set("xreg", <<"mm", "fst">>) \o Marked),
      movdq2q |-> MmxReady \o Sse(Marked \o Set("fst", <<"with low", "xreg", "fst">>))]

\* execute_0FE0_E7
SimdE0 ==
  Packed("average, shift or product", TRUE)
  @@ [convert |-> Float(FromXmm(TRUE), "converted", "xreg"),
      movntq |-> MmxStore, movntdq |-> SseStore("whole", TRUE)]

\* execute_0FF1_F7: the bytes the mask chooses are written one by one.
MaskedStore(e, mask) ==
  If(<<"some", mask>>, Write(<<"masked", "edi", "sreg", mask>>, 4, e), <<>>)
SimdF1 ==
  Packed("shift or product", TRUE)
  @@ [maskmovq |-> Mmx(MaskedStore(<<"mm", "fst">>, "fst")),
      maskmovdq |-> Sse(MaskedStore(<<"xreg">>, "xrm"))]

\* execute_0F7C_7D, cpu_emms, execute_0F38 and execute_660F38
Simd7C == [horizontal |-> Float(FromXmm(TRUE), "horizontal", "xreg"),
           emms |-> Mmx(Set("ftag", <<"0xFFFF">>))]
Simd38 == Packed("shuffled or absolute", FALSE)
=============================================================================
