------------------------------ MODULE Segments ------------------------------
(* Descriptors, segment registers and the permission to use a port:         *)
(* src/src/cpu/seg.cpp and cpu_io_check_access of src/src/cpu/io.cpp.       *)
EXTENDS Micro

\* cpu_seg_load_descriptor2: the two words of the descriptor of selector v,
\* into d.
Descriptor(v, d) ==
  Check(<<"within the table", v, "gdt">>) \o Read(<<"descriptor", v, "gdt">>, 2, d)

\* The same for an instruction that reports what it finds in ZF: a selector
\* outside the table, and a page fault, count as a selector of no use.
TryDescriptor(v, d, yes, no) ==
  If(<<"within the table", v, "gdt">>,
     TryRead(<<"descriptor", v, "gdt">>, 2, d, yes, no), no)

\* cpu_seg_load_real, cpu_seg_load_virtual
LoadReal(s, v) == Set(s, <<"real segment", v>>)

\* cpu_seg_load_protected: the segment register, then the descriptor's
\* accessed bit in memory, then for CS the privilege level.  A selector outside
\* the table, which only MOV to CS gets this far with, stops the emulator.
LoadProtected(s, v, d) ==
  Set(s, <<"segment", v, d>>) \o CheckOrAbort(<<"within the table", v, "gdt">>)
  \o Write(<<"accessed", v, "gdt">>, 1, <<"accessed", d>>)
  \o IF s = "cs" THEN Set("cpl", <<"rpl", v>>) ELSE <<>>

\* MOV to SS: a present, writable data segment of the current privilege.
LoadStackSegment(s, v) ==
  Check(<<"not null", v>>) \o Descriptor(v, "desc")
  \o Check(<<"of level cpl", v, "desc", "cpl">>) \o Check(<<"writable data", "desc">>)
  \o Check(<<"present", "desc">>) \o LoadProtected(s, v, "desc")

\* Mutant: the selector is kept before its descriptor has been looked at.
LoadDataEarly(s, v) ==
  Set(s, <<"null segment", v>>)
  \o If(<<"not null", v>>,
        Descriptor(v, "desc") \o Check(<<"readable", "desc">>)
        \o Check(<<"conforming or privileged", v, "desc", "cpl">>)
        \o Check(<<"present", "desc">>) \o LoadProtected(s, v, "desc"), <<>>)

\* MOV to DS, ES, FS, GS: null, or a present segment that may be read; one
\* that is not conforming code asks for privilege.
LoadDataSegment(s, v) ==
  If(<<"not null", v>>,
     Descriptor(v, "desc") \o Check(<<"readable", "desc">>)
     \o Check(<<"conforming or privileged", v, "desc", "cpl">>)
     \o Check(<<"present", "desc">>) \o LoadProtected(s, v, "desc"),
     Set(s, <<"null segment", v>>))

\* cpu_load_seg_value_mov: CS is loaded with a descriptor of zeros.
LoadSegmentMov(s, v) ==
  If(<<"real or virtual mode", "cr", "flags">>, LoadReal(s, v),
     CASE s = "cs" -> LoadProtected(s, v, "0")
       [] s = "ss" -> LoadStackSegment(s, v)
       [] OTHER    -> LoadDataSegment(s, v))

\* cpu_io_check_access: without the privilege the permission map of the task
\* state decides.
IoPermission(w, p) ==
  If(<<"io privilege", "cr", "cpl", "flags">>, <<>>,
     Descriptor("tr", "desc") \o Check(<<"a 386 task state", "desc">>)
     \o Check(<<"room for the map's base", "tr">>) \o Read(<<"map base", "tr">>, 2, "t")
     \o Check(<<"room for the port's bits", "tr", "t", p>>)
     \o Read(<<"map", "tr", "t", p>>, 2, "u") \o Check(<<"bits clear", "u", p>>))
=============================================================================
