----------------------------- MODULE Transfers -----------------------------
(* Far jumps, calls and returns, interrupts and task switches:              *)
(* src/src/cpu/ctrlflow.cpp and the handlers that call it, as sequences of  *)
(* the steps of Micro.  cs:ip is changed as a whole by LoadCsIp; sreg is    *)
(* any of DS, ES, FS and GS.                                                *)
EXTENDS Segments

RealMode  == <<"real mode", "cr">>
V86       == <<"virtual mode", "flags">>
RealOrV86 == <<"real or virtual mode", "cr", "flags">>

\* cpu_load_csip_real, cpu_load_csip_virtual
LoadCsIpReal(v, e) == Set("ip", e) \o LoadReal("cs", v)

\* cpu_load_csip_protected: ip is set before the segment has been loaded.
LoadCsIp(v, d, e) == Set("ip", e) \o LoadProtected("cs", v, d)

\* A target code segment: conforming ones of a level that is not inner, the
\* others of exactly the current level.
CodeSegment(v, d) == Check(<<"code of this level", v, d, "cpl">>)
Present(d)        == Check(<<"present", d>>)
GateUsable(v, d)  == Check(<<"gate of this level", v, d, "cpl">>)
Is(k, d)          == <<k, d>>

----------------------------------------------------------------------------
(* Task switches.                                                          *)

\* load_tss_from_task_gate
TaskOfGate(d) ==
  Set("v", <<"target segment", d>>) \o Check(<<"global", "v">>) \o Descriptor("v", "desc")
  \o Check(<<"available task", "desc">>) \o Present("desc")

\* The busy bit of a task's descriptor is set or cleared, the other bits of its
\* byte stay: done twice it is as done once.
Busy(v, mark) ==
  Read(<<"kind of task", v, "gdt">>, 1, "u") \o Write(<<"kind of task", v, "gdt">>, 1, <<mark, v>>)

\* One of the segments of the new task, checked and loaded.
TaskSegment(s, kind) ==
  Set("v", <<s>>) \o Descriptor("v", "desc2") \o Check(<<"present", "desc2">>)
  \o Check(<<kind, "v", "desc2", "cpl">>) \o LoadProtected(s, "v", "desc2")

\* do_task_switch, in parts.  A task state is read and written as two halves,
\* for the two pages it may lie on.  The old one is looked up for reading; the
\* second look, for writing, only asks whether its pages have been looked up at
\* all, as they now have, so that the save can fault half way, when the busy
\* bit has been cleared.
Saved(kind) == IF kind = "iret" THEN "saved with NT clear" ELSE "saved"
SaveTask(kind, e) ==
  Read(<<"task state", "tr">>, 2, "w")
  \o (IF kind \in {"jmp", "iret"} THEN Busy("tr", "not busy") ELSE <<>>)
  \o Write(<<"task state", "tr">>, 2, <<Saved(kind)>> \o General \o <<e, "flags", "cs", "ss", "sreg">>)

\* The link to the old task is written to the old task's own state.
LinkTask(kind) ==
  IF kind \in {"int", "call"} THEN Write(<<"link", "tr">>, 2, <<"tr">>) ELSE <<>>

\* What fails after the new registers have been set fails in the new task.
EnterTask(v, d, kind) ==
  (IF kind \in {"jmp", "iret"} THEN Busy(v, "busy") ELSE <<>>)
  \o Set("tr", <<"segment", v, d>>)
  \o Assign([r \in {General[i] : i \in 1..8}
                    \cup {"ip", "flags", "cr", "cs", "ss", "sreg", "cpl"} |-> <<r, "tss">>])

TaskLocal ==
  Check(<<"ldt global", "tss">>)
  \o If(<<"ldt not null", "tss">>,
        Descriptor("tss", "desc2") \o Check(<<"present ldt", "desc2">>)
        \o Set("ldt", <<"segment", "tss", "desc2">>), <<>>)

TaskSwitch(v, d, kind, e) ==
  Check(<<"global", v>>) \o Check(<<"limit of a task state", d>>)
  \o SaveTask(kind, e) \o LinkTask(kind) \o Read(<<"task state", v>>, 2, "tss")
  \o EnterTask(v, d, kind) \o TaskLocal
  \o If(<<"null", "sreg">>, <<>>, TaskSegment("sreg", "data of this level"))
  \o TaskSegment("cs", "code of its level") \o TaskSegment("ss", "stack of this level")

----------------------------------------------------------------------------
(* Far jumps.                                                              *)

\* jmpf: a selector of no use for a jump is passed over without a word.
FarJump(eip, cs) ==
  If(RealOrV86, LoadCsIpReal(cs, <<eip>>),
     Check(<<"not null", cs>>) \o Descriptor(cs, "desc") \o Present("desc")
     \o If(Is("code", "desc"), CodeSegment(cs, "desc") \o LoadCsIp(cs, "desc", <<eip>>),
        If(Is("call gate", "desc"),
           GateUsable(cs, "desc") \o Set("v", <<"target segment", "desc">>)
           \o Descriptor("v", "target") \o CodeSegment("v", "target") \o Present("target")
           \o LoadCsIp("v", "target", <<"target offset", "desc">>),
        If(Is("available task", "desc"),
           GateUsable(cs, "desc") \o TaskSwitch(cs, "desc", "jmp", "ip"),
        If(Is("task gate", "desc"),
           GateUsable(cs, "desc") \o TaskOfGate("desc") \o TaskSwitch("v", "desc", "jmp", "ip"),
           <<>>)))))

----------------------------------------------------------------------------
(* Far calls.                                                              *)

\* get_tss_esp, get_tss_ss: the stack of an inner level.
InnerStack ==
  Check(<<"room for the stack", "tr">>) \o Read(<<"stack pointer of", "tr">>, 1, "newesp")
  \o Read(<<"stack segment of", "tr">>, 1, "newss")
  \o Check(<<"not null", "newss">>) \o Descriptor("newss", "stack")
  \o Check(<<"stack of the level", "newss", "stack">>) \o Present("stack")

\* call_gate_read_param16, call_gate_read_param32
Parameter(w) == Check(<<"below the limit of ss", "esp", "ss">>)
                \o Read(<<"parameter", "esp", "ss">>, w, "t")

\* A call gate to an inner level, with one parameter or none: the frame is
\* built on the new stack, then the stack and then cs:ip are loaded.
GateInward(w) ==
  InnerStack
  \o If(<<"a parameter", "desc">>,
        Parameter(w)
        \o PutFrame(w, "newesp", "newss", <<<<"ss">>, <<"esp">>, <<"t">>, <<"cs">>, <<"after", "ip">>>>),
        PutFrame(w, "newesp", "newss", <<<<"ss">>, <<"esp">>, <<"cs">>, <<"after", "ip">>>>))
  \o LoadProtected("ss", "newss", "stack") \o Set("esp", <<"below", "newesp", "desc">>)
  \o LoadCsIp("v", "target", <<"target offset", "desc">>)

\* The return address on the current stack; esp moves when cs:ip has been set.
Returnable(w) == PutFrame(w, "esp", "ss", <<<<"cs">>, <<"after", "ip">>>>)
CallGate(cs, w) ==
  GateUsable(cs, "desc") \o Set("v", <<"target segment", "desc">>) \o Check(<<"not null", "v">>)
  \o Descriptor("v", "target")
  \o If(<<"inner code", "target", "cpl">>, GateInward(w),
        CodeSegment("v", "target") \o Returnable(w)
        \o LoadCsIp("v", "target", <<"target offset", "desc">>) \o Set("esp", <<"below2", "esp">>))

\* callf, in parts.
CallReal(eip, cs, w) ==
  Returnable(w) \o Set("esp", <<"below2", "esp">>) \o LoadCsIpReal(cs, <<eip>>)
CallDirect(eip, cs, w) ==
  CodeSegment(cs, "desc") \o Returnable(w) \o LoadCsIp(cs, "desc", <<eip>>)
  \o Set("esp", <<"below2", "esp">>)

\* The outcome of a task switch through a task state is not looked at, and
\* what is saved as its return address is the call's operand.
CallTask(eip, cs) ==
  If(Is("available task", "desc"),
     GateUsable(cs, "desc") \o TaskSwitch(cs, "desc", "call", eip),
     Check(Is("task gate", "desc")) \o GateUsable(cs, "desc") \o TaskOfGate("desc")
     \o TaskSwitch("v", "desc", "jmp", eip))

FarCall(eip, cs, w) ==
  If(RealOrV86, CallReal(eip, cs, w),
     Check(<<"not null", cs>>) \o Descriptor(cs, "desc") \o Present("desc")
     \o If(Is("code", "desc"), CallDirect(eip, cs, w),
           If(Is("call gate", "desc"), CallGate(cs, w), CallTask(eip, cs))))

----------------------------------------------------------------------------
(* Far returns.                                                            *)

\* The segment a return goes to, of a level that is not inner.
ReturnSegment ==
  Check(<<"not null", "hi">>) \o Descriptor("hi", "desc")
  \o Check(<<"code of an outer level", "hi", "desc", "cpl">>) \o Present("desc")

\* The stack of the level returned to.
OuterStack(w) ==
  Read(<<"further", "esp", "ss">>, w, "newesp") \o Read(<<"beyond", "esp", "ss">>, w, "newss")
  \o Check(<<"not null", "newss">>) \o Descriptor("newss", "stack")
  \o Check(<<"stack of the level", "newss", "stack", "hi">>) \o Present("stack")
  \o LoadProtected("ss", "newss", "stack")

\* retf, in parts.
ReturnReal ==
  Check(<<"below the limit of cs", "ip">>) \o Set("esp", <<"release2", "esp", "imm">>)
  \o LoadCsIpReal("hi", <<"lo">>)
ReturnOuter(w) ==
  OuterStack(w) \o LoadCsIp("hi", "desc", <<"lo">>) \o Set("esp", <<"release", "newesp", "imm">>)
ReturnSame == LoadCsIp("hi", "desc", <<"lo">>) \o Set("esp", <<"release2", "esp", "imm">>)

FarReturn(w) ==
  TakeFrame(w, <<"lo", "hi">>)
  \o If(RealOrV86, ReturnReal,
        ReturnSegment \o If(<<"outer", "hi", "cpl">>, ReturnOuter(w), ReturnSame))

\* iret_handle_seg: a data segment of an inner level is emptied.
DropInner == Set("sreg", <<"kept or null", "sreg", "cpl">>)

\* Back to virtual mode, from level 0: everything is read before anything is
\* loaded.
ToV86 ==
  FlattenSeq([i \in 1..6 |-> Read(<<Slots[i + 3], "esp", "ss">>, 4, Slots[i + 3])])
  \o Assign([sreg |-> <<"real segments", "slot6", "slot7", "slot8", "slot9">>,
             ss |-> <<"real segment", "slot5">>, cs |-> <<"real segment", "hi">>,
             ip |-> <<"lo">>, esp |-> <<"slot4">>, flags |-> <<"newflags", "flags">>,
             cpl |-> <<"3">>])

\* iret, in parts.  Which of the flags are taken is settled by the level
\* before.
IretFrame(w)   == TakeFrame(w, <<"lo", "hi", "newflags">>)
IretDirect     == Set("esp", <<"release3", "esp">>) \o LoadCsIpReal("hi", <<"lo">>)
                  \o Set("flags", <<"returned", "newflags", "flags">>)
IretVirtual(w) ==
  If(<<"iopl 3", "flags">>, IretFrame(w) \o IretDirect,
     Check(<<"vme", "cr">>) \o IretFrame(w) \o Check(<<"no VIP, no TF", "newflags", "flags">>)
     \o IretDirect)
IretLinked ==
  Read(<<"link", "tr">>, 2, "v") \o Check(<<"global", "v">>)
  \o Descriptor("v", "desc") \o Check(<<"not busy", "desc">>)
  \o TaskSwitch("v", "desc", "iret", "ip")
IretOuter(w) ==
  OuterStack(w) \o LoadCsIp("hi", "desc", <<"lo">>) \o Set("esp", <<"newesp">>) \o DropInner
IretProtected(w) ==
  Set("v", <<"cpl">>) \o ReturnSegment
  \o If(<<"outer", "hi", "cpl">>, IretOuter(w),
        LoadCsIp("hi", "desc", <<"lo">>) \o Set("esp", <<"release3", "esp">>))
  \o Set("flags", <<"returned", "newflags", "flags", "v">>)

Iret(w) ==
  If(RealMode, IretFrame(w) \o IretDirect,
  If(V86, IretVirtual(w),
  If(<<"nested task", "flags">>, IretLinked,
     IretFrame(w)
     \o IF w = 4 THEN If(<<"to virtual mode", "newflags", "cpl">>, ToV86, IretProtected(w))
        ELSE IretProtected(w))))

----------------------------------------------------------------------------
(* Interrupts.                                                             *)

\* In real mode, and in virtual mode through the redirection map.
RealInterrupt ==
  PutFrame(2, "esp", "ss", <<<<"flags">>, <<"cs">>, <<"after", "ip">>>>)
  \o Set("esp", <<"below3", "esp">>) \o LoadCsIpReal("vector", <<"offset of", "vector">>)
  \o Set("flags", <<"IF and TF clear", "flags">>)
Redirected(rest) ==
  If(<<"vme", "cr">>,
     Check(<<"room for the map's base", "tr">>) \o Read(<<"map base", "tr">>, 2, "u")
     \o Read(<<"redirection", "tr", "u">>, 1, "v")
     \o If(<<"redirected", "v">>,
           Read(<<"vector 0", "imm">>, 2, "t")
           \o PutFrame(2, "esp", "ss", <<<<"flags">>, <<"cs">>, <<"after", "ip">>>>)
           \o Set("flags", <<"IF or VIF clear", "flags">>) \o LoadCsIpReal("t", <<"t">>)
           \o Set("esp", <<"below3", "esp">>), rest),
     Check(<<"iopl 3", "flags">>) \o rest)

\* In virtual mode the data segments are pushed too and then emptied.
VirtualSegments(w) ==
  If(V86, PutFrame(w, "newesp", "newss", <<<<"sreg">>>>) \o Set("sreg", <<"0">>), <<>>)

\* The old stack, and what every gate pushes.
OldStack  == <<<<"ss">>, <<"esp">>>>
GateFrame == <<<<"flags">>, <<"cs">>, <<"after", "ip">>>>

InwardGate(w) ==
  InnerStack \o VirtualSegments(w)
  \o FlattenSeq([i \in 1..5 |->
       Write(<<Slots[i + 1], "newesp", "newss">>, w, (OldStack \o GateFrame)[i])])
  \o Set("esp", <<"below5", "newesp">>) \o LoadProtected("ss", "newss", "stack")
  \o LoadCsIp("v", "target", <<"target offset", "desc">>)

SameGate(w) ==
  PutFrame(w, "esp", "ss", GateFrame) \o Set("esp", <<"below3", "esp">>)
  \o LoadCsIp("v", "target", <<"target offset", "desc">>)

\* A gate's own present bit is looked at twice, the target segment's never.
GateTarget ==
  Check(<<"interrupt gate", "desc">>) \o Check(<<"gate of this level", "desc", "cpl">>)
  \o Present("desc") \o Set("v", <<"target segment", "desc">>)
  \o Check(<<"not null", "v">>) \o Descriptor("v", "target")
  \o Check(<<"code of this or an inner level", "target", "cpl">>)
InterruptTask ==
  Present("desc") \o Set("v", <<"target segment", "desc">>) \o Check(<<"global", "v">>)
  \o Descriptor("v", "tss") \o Check(<<"a task", "tss">>) \o Present("tss")
  \o TaskSwitch("v", "tss", "int", "ip")

\* cpu_interrupt, for a software interrupt; what is pushed is after ip.
Interrupt(w) ==
  LET Gate == Descriptor("vector", "desc")
              \o If(Is("task gate", "desc"), InterruptTask,
                    GateTarget
                    \o If(<<"inner code", "target", "cpl">>, InwardGate(w), SameGate(w))
                    \o Set("flags", <<"IF clear", "flags">>))
  IN If(RealMode, RealInterrupt, If(V86, Redirected(Gate), Gate))

----------------------------------------------------------------------------
(* Fast system calls.                                                      *)

\* f_sysenter, sysexit
SysEnter ==
  Check(<<"protected and set up", "cr", "msr">>)
  \o Assign([flags |-> <<"IF clear", "flags">>, ip |-> <<"msr eip", "msr">>,
             esp |-> <<"msr esp", "msr">>, cs |-> <<"msr cs", "msr">>, ss |-> <<"msr ss", "msr">>,
             cpl |-> <<"0">>])
SysExit ==
  Check(<<"protected and set up", "cr", "msr", "cpl">>)
  \o Assign([ip |-> <<"edx">>, esp |-> <<"ecx">>, cs |-> <<"msr cs 3", "msr">>,
             ss |-> <<"msr ss 3", "msr">>, cpl |-> <<"3">>])

----------------------------------------------------------------------------
(* The handlers of opcodes.cpp.                                            *)

FarOperand(w, rest) == LinAddr \o Read(Mem, w, "lo") \o Read(Mem2, 2, "hi") \o rest

\* Relative jumps are made without a look at the limit of cs.
FarJumps ==
  [rel16 |-> Set("ip", <<"wrapped target", "ip", "imm">>),
   rel32 |-> Set("ip", <<"target", "ip", "imm">>), ap |-> FarJump("imm", "sel"),
   e16 |-> FarOperand(2, FarJump("lo", "hi")), e32 |-> FarOperand(4, FarJump("lo", "hi"))]
FarCalls ==
  [ap16 |-> FarCall("imm", "sel", 2), ap32 |-> FarCall("imm", "sel", 4),
   e16 |-> FarOperand(2, FarCall("lo", "hi", 2)), e32 |-> FarOperand(4, FarCall("lo", "hi", 4)),
   retf16 |-> FarReturn(2), retf32 |-> FarReturn(4), iret16 |-> Iret(2), iret32 |-> Iret(4)]

\* INTO begins with a breakpoint of the host: the rest of op_into is not reached.
Interrupts == [int16 |-> Interrupt(2), int32 |-> Interrupt(4), into |-> CheckOrAbort(<<"never">>)]
FastCalls  == [sysenter |-> SysEnter, sysexit |-> SysExit]
=============================================================================
