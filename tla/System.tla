------------------------------- MODULE System -------------------------------
(* The system instructions of src/src/cpu/opcodes.cpp, with the parts of    *)
(* misc.cpp and prot.cpp they call, as sequences of the steps of Micro.     *)
EXTENDS Segments

Privileged == Check(<<"level 0", "cpl">>)
Protected  == Check(<<"protected mode", "cr", "flags">>)

----------------------------------------------------------------------------
(* misc.cpp and prot.cpp.                                                  *)

\* pushf, pushfd: in virtual mode by the I/O privilege level.
PushFlags(w) ==
  If(<<"virtual mode without iopl", "flags">>,
     IF w = 2 THEN Check(<<"vme", "cr">>) \o Push(2, <<"flags with VIF", "flags">>)
     ELSE Check(<<"never">>),
     Push(w, <<"flags">>))

\* popf: with the virtual interrupt flag the exception comes after the pop.
PopFlags16 ==
  If(<<"virtual mode without iopl", "flags">>,
     Check(<<"vme", "cr">>) \o Pop(2, "t") \o Check(<<"no VIP, no TF", "flags", "t">>)
     \o Set("flags", <<"with VIF", "flags", "t">>),
     Pop(2, "t") \o Set("flags", <<"popped", "flags", "t", "cpl", "cr">>))

\* popfd
PopFlags32 ==
  If(<<"virtual mode without iopl", "flags">>, Check(<<"never">>),
     Pop(4, "t") \o Set("flags", <<"popped", "flags", "t", "cpl", "cr">>))

\* rdmsr and wrmsr look neither at the privilege level nor at most indexes.
ReadMsr  == Check(<<"msr readable", "ecx">>)
            \o Assign([eax |-> <<"msr lo", "ecx", "msr">>, edx |-> <<"msr hi", "ecx", "msr">>])
WriteMsr == Set("msr", <<"msr set", "ecx", "eax", "edx", "msr">>)

\* ltr: the descriptor is marked busy in memory before the register is set.
LoadTask(p) ==
  Check(<<"not null", p>>) \o Check(<<"global", p>>) \o Descriptor(p, "desc")
  \o Check(<<"present", "desc">>) \o Write(<<"busy", p, "gdt">>, 2, <<"busy", "desc">>)
  \o Set("tr", <<"segment", p, "desc">>)

\* lldt
LoadLocal(p) ==
  If(<<"not null", p>>,
     Check(<<"global", p>>) \o Descriptor(p, "desc") \o Check(<<"present", "desc">>)
     \o Set("ldt", <<"segment", p, "desc">>),
     Set("ldt", <<"null segment", p>>))

\* lar, lsl: reg is loaded and ZF set, or ZF is cleared.
NoUse == Set("flags", <<"ZF clear", "flags">>)
Inspect(f, p) ==
  If(<<"not null", p>>,
     TryDescriptor(p, "desc",
       If(<<f, p, "desc", "cpl">>,
          Assign([reg |-> <<f, "desc">>, flags |-> <<"ZF set", "flags">>]), NoUse),
       NoUse),
     NoUse)

\* verify_segment_access
Verify(f, p) ==
  If(<<"not null", p>>,
     TryDescriptor(p, "desc", Set("flags", <<f, p, "desc", "cpl", "flags">>), NoUse), NoUse)

\* cpu_prot_set_cr: translations are forgotten when the bits that make them
\* change; nothing is refused.
SetControl(v) == Assign([cr |-> v, tlb |-> <<"flushed", "cr", "tlb">>])

\* cpu_prot_set_dr
SetDebug(p) == Assign([dr |-> <<"debug", p, "dr">>, tlb |-> <<"flushed", "dr", "tlb">>])

\* cpuid
Identify == Assign([r \in {"eax", "ebx", "ecx", "edx"} |-> <<"cpuid", "eax", "ecx">>])

----------------------------------------------------------------------------
(* opcodes.cpp.                                                            *)

TimeStamp == Assign([eax |-> <<"tsc lo", "clock">>, edx |-> <<"tsc hi", "clock">>])

System1 ==
  [hlt    |-> Privileged \o Set("halt", <<"1">>) \o Set("shadow", <<"0">>) \o NextInstruction,
   cpuid  |-> Identify \o NextInstruction,
   rdmsr  |-> ReadMsr \o NextInstruction, wrmsr |-> WriteMsr \o NextInstruction,
   rdtsc  |-> Check(<<"tsc allowed", "cr", "cpl">>) \o TimeStamp \o NextInstruction,
   pushf  |-> PushFlags(2) \o NextInstruction, pushfd |-> PushFlags(4) \o NextInstruction,
   popf   |-> PopFlags16 \o NextInstruction, popfd |-> PopFlags32 \o NextInstruction]

StoreTables ==
  [sgdt_e32 |-> LinAddr \o Write(Mem, 2, <<"limit", "gdt">>) \o Write(Mem2, 4, <<"gdt">>)
                \o NextInstruction,
   sidt_e32 |-> LinAddr \o Write(Mem, 2, <<"limit", "idt">>) \o Write(Mem2, 4, <<"idt">>)
                \o NextInstruction,
   str_sldt_e16 |-> Check(<<"no umip", "cr", "cpl">>) \o Store(2, <<"tr or ldt", "tr", "ldt">>),
   str_sldt_r16 |-> Check(<<"no umip", "cr", "cpl">>) \o Put("rm", <<"tr or ldt", "tr", "ldt">>)]

\* LGDT, LIDT: limit and base are set when both have been read.
LoadTable(r) == Privileged \o LinAddr \o Read(Mem, 2, "t") \o Read(Mem2, 4, "u")
                \o Put(r, <<"table", "t", "u">>)
LoadGdt == [e16 |-> LoadTable("gdt"), e32 |-> LoadTable("gdt")]
LoadIdt == [e16 |-> LoadTable("idt"), e32 |-> LoadTable("idt")]

\* LMSW from memory reads with the rights of a write.
MachineWord ==
  [smsw_r16 |-> Put("rm", <<"cr">>), smsw_r32 |-> Put("rm", <<"cr">>),
   smsw_e16 |-> Store(2, <<"cr">>),
   lmsw_r16 |-> Privileged \o SetControl(<<"lmsw", "cr", "rm">>) \o NextInstruction,
   lmsw_e16 |-> Privileged \o LinAddr \o ReadForWrite(Mem, 2, "t")
                \o SetControl(<<"lmsw", "cr", "t">>) \o NextInstruction,
   invlpg_e8 |-> Privileged \o LinAddr \o Put("tlb", <<"without", "tlb", "linaddr">>)]

\* No check of the privilege level.
ControlRegs ==
  [r32cr |-> Put("rm", <<"cr">>), crr32 |-> NextInstruction \o SetControl(<<"rm">>),
   r32dr |-> Put("rm", <<"dr">>), drr32 |-> SetDebug("rm") \o NextInstruction]

TaskAndLocal ==
  [ltr_e16  |-> Protected \o Privileged \o With(2, LoadTask("t")),
   ltr_r16  |-> Protected \o Privileged \o LoadTask("rm") \o NextInstruction,
   lldt_e16 |-> Protected \o Privileged \o With(2, LoadLocal("t")),
   lldt_r16 |-> Protected \o Privileged \o LoadLocal("rm") \o NextInstruction]

Inspected(f) ==
  [r16e16 |-> Protected \o With(2, Inspect(f, "t")),
   r32e32 |-> Protected \o With(4, Inspect(f, "t")),
   r16r16 |-> Protected \o Inspect(f, "rm") \o NextInstruction,
   r32r32 |-> Protected \o Inspect(f, "rm") \o NextInstruction]
Lar == Inspected("lar")
Lsl == Inspected("lsl")

ArplVerr ==
  [arpl_e16 |-> Protected \o Modify(2, "arpl", "reg"),
   arpl_r16 |-> Protected \o Alu("arpl", "rm", "reg") \o NextInstruction,
   verr_e16 |-> Protected \o With(2, Verify("verr", "t")),
   verr_r16 |-> Protected \o Verify("verr", "rm") \o NextInstruction,
   verw_e16 |-> Protected \o With(2, Verify("verw", "t")),
   verw_r16 |-> Protected \o Verify("verw", "rm") \o NextInstruction]

CacheControl ==
  [clts |-> Privileged \o Put("cr", <<"TS clear", "cr">>), wbinvd |-> Privileged \o NextInstruction,
   prefetchh |-> NextInstruction]

\* MXCSR is stored with the rights of a read.
FpuReady == Check(<<"no EM, no TS", "cr">>)
SseReady == Check(<<"sse allowed", "cr">>)
MediaState ==
  [ldmxcsr  |-> SseReady \o LinAddr \o Read(Mem, 4, "t") \o Check(<<"no reserved bits", "t">>)
                \o Put("mxcsr", <<"t">>),
   stmxcsr  |-> SseReady \o LinAddr \o WriteAsRead(Mem, 4, <<"mxcsr">>) \o NextInstruction,
   mfence   |-> NextInstruction]
=============================================================================
