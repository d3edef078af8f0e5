---------------------------- MODULE Instruction ----------------------------
(* One instruction, run step by step while pages are missing.  A page fault *)
(* is delivered to the guest, whose handler makes the page accessible and   *)
(* returns to the instruction, which is then run from its start; registers  *)
(* and memory are as the handler left them.                                 *)
EXTENDS Handlers, Transfers, Simd

CONSTANTS Groups,      \* names of the groups of handlers that are run
          MaxFaults    \* bound on the page faults of one instruction

\* Groups whose members are handlers, and groups with a record per width.
Plain(g) ==
  CASE g = "near_jumps" -> NearJumps [] g = "near_calls" -> NearCalls
    [] g = "loops" -> Loops [] g = "returns" -> Returns
    [] g = "push16" -> Pushes16 [] g = "push32" -> Pushes32
    [] g = "pop" -> Pops [] g = "stack" -> StackAll [] g = "arith8" -> Arith8
    [] g = "arith16" -> Arith16 [] g = "arith32" -> Arith32
    [] g = "shift8" -> Shift8 [] g = "shift16" -> Shift16
    [] g = "shift32" -> Shift32 [] g = "cmp8" -> Cmp8 [] g = "cmp16" -> Cmp16
    [] g = "cmp32" -> Cmp32 [] g = "test8" -> Test8 [] g = "test16" -> Test16
    [] g = "test32" -> Test32 [] g = "muldiv" -> MulDiv
    [] g = "ports_imm" -> PortsImm [] g = "ports_dx" -> PortsDx
    [] g = "mov8" -> Moves8 [] g = "mov16" -> Moves16
    [] g = "mov32" -> Moves32 [] g = "mov_segment" -> MovesSegment
    [] g = "mov_absolute" -> MovesAbsolute
    [] g = "conditional" -> Conditional [] g = "lds" -> Lds
    [] g = "les" -> Les [] g = "lss" -> Lss [] g = "lfs" -> Lfs
    [] g = "lgs" -> Lgs [] g = "xchg" -> Xchg [] g = "cmpxchg8b" -> Cmpxchg8b
    [] g = "bound" -> Bound [] g = "decimal" -> Decimal
    [] g = "bits16" -> BitsMemory16 [] g = "bits32" -> BitsMemory32
    [] g = "flags" -> FlagOps [] g = "convert" -> Convert
    [] g = "enter" -> Enters [] g = "leave" -> Leaves [] g = "movzx" -> Movzx
    [] g = "movsx" -> Movsx [] g = "xlat" -> XlatBswap
    [] g = "system" -> System1 [] g = "store_tables" -> StoreTables
    [] g = "lgdt" -> LoadGdt [] g = "lidt" -> LoadIdt
    [] g = "msw" -> MachineWord [] g = "control" -> ControlRegs
    [] g = "task" -> TaskAndLocal [] g = "lar" -> Lar [] g = "lsl" -> Lsl
    [] g = "arpl" -> ArplVerr [] g = "cache" -> CacheControl
    [] g = "media" -> MediaState [] g = "jmpf" -> FarJumps
    [] g = "callf" -> FarCalls [] g = "interrupt" -> Interrupts
    [] g = "fast_call" -> FastCalls
    [] g = "fpu_arith" -> FpuArith [] g = "fpu_moves" -> FpuMoves
    [] g = "fpu_functions1" -> FpuFunctions1 [] g = "fpu_functions2" -> FpuFunctions2
    [] g = "fpu_compares" -> FpuCompares [] g = "fpu_stores" -> FpuStores
    [] g = "fpu_control" -> FpuControl [] g = "fpu_mem_arith" -> FpuMemArith
    [] g = "fpu_mem_fcom" -> FpuMemFcom [] g = "fpu_mem_fcomp" -> FpuMemFcomp
    [] g = "fpu_mem_load" -> FpuMemLoad [] g = "fpu_long_loads" -> FpuLongLoads
    [] g = "fpu_mem_store" -> FpuMemStore [] g = "fpu_mem_integer" -> FpuMemInteger
    [] g = "fpu_long_stores" -> FpuLongStores [] g = "fpu_environment" -> Environment
    [] g = "fpu_state" -> WholeState [] g = "fx_state" -> FxState
    [] g = "simd_10_17" -> Simd10 [] g = "simd_28_2F" -> Simd28
    [] g = "simd_50_57" -> Simd50 [] g = "simd_58_5B" -> Simd58
    [] g = "simd_5C_5F" -> Simd5C [] g = "simd_60_67" -> Simd60
    [] g = "simd_68_6F" -> Simd68 [] g = "simd_70_76" -> Simd70
    [] g = "simd_7C_7D" -> Simd7C [] g = "simd_7E_7F" -> Simd7E
    [] g = "simd_C2_C6" -> SimdC2 [] g = "simd_D0_D7" -> SimdD0
    [] g = "simd_D8_DF" -> SimdD8 [] g = "simd_E0_E7" -> SimdE0
    [] g = "simd_E8_EF" -> SimdE8 [] g = "simd_F1_F7" -> SimdF1
    [] g = "simd_F8_FE" -> SimdF8 [] g = "simd_38" -> Simd38
Wide(g) ==
  CASE g = "jump_o" -> JumpsO [] g = "jump_z" -> JumpsZ
    [] g = "jump_s" -> JumpsS [] g = "jump_l" -> JumpsL [] g = "inc" -> Inc
    [] g = "dec" -> Dec [] g = "not" -> Not [] g = "neg" -> Neg
    [] g = "imul" -> Imul [] g = "shrd" -> Shrd [] g = "shld" -> Shld
    [] g = "cmpxchg" -> Cmpxchg [] g = "xadd" -> Xadd
    [] g = "bits" -> BitsRegister [] g = "bit_scan" -> BitScans

SimdGroups ==
  {"simd_10_17", "simd_28_2F", "simd_50_57", "simd_58_5B", "simd_5C_5F", "simd_60_67",
   "simd_68_6F", "simd_70_76", "simd_7C_7D", "simd_7E_7F", "simd_C2_C6", "simd_D0_D7",
   "simd_D8_DF", "simd_E0_E7", "simd_E8_EF", "simd_F1_F7", "simd_F8_FE", "simd_38"}
PlainGroups ==
  {"near_jumps", "near_calls", "loops", "returns", "push16", "push32",
   "pop", "stack", "arith8", "arith16", "arith32", "shift8", "shift16",
   "shift32", "cmp8", "cmp16", "cmp32", "test8", "test16", "test32",
   "muldiv", "ports_imm", "ports_dx", "mov8", "mov16", "mov32",
   "mov_segment", "mov_absolute", "conditional", "lds", "les", "lss", "lfs",
   "lgs", "xchg", "cmpxchg8b", "bound", "decimal", "bits16", "bits32",
   "flags", "convert", "enter", "leave", "movzx", "movsx", "xlat", "system",
   "store_tables", "lgdt", "lidt", "msw", "control", "task", "lar", "lsl",
   "arpl", "cache", "media", "jmpf", "callf", "interrupt", "fast_call",
   "fpu_arith", "fpu_moves", "fpu_functions1", "fpu_functions2", "fpu_compares",
   "fpu_stores", "fpu_control", "fpu_mem_arith", "fpu_mem_fcom",
   "fpu_mem_fcomp", "fpu_mem_load", "fpu_long_loads", "fpu_mem_store",
   "fpu_mem_integer", "fpu_long_stores", "fpu_environment", "fpu_state",
   "fx_state"} \cup SimdGroups
WideGroups ==
  {"jump_o", "jump_z", "jump_s", "jump_l", "inc", "dec", "not", "neg",
   "imul", "shrd", "shld", "cmpxchg", "xadd", "bits", "bit_scan"}

Selected ==
  UNION {{<<g, n>> : n \in DOMAIN Plain(g)} : g \in Groups \cap PlainGroups}
  \cup UNION {UNION {{<<g, n, w>> : w \in DOMAIN Wide(g)[n]} : n \in DOMAIN Wide(g)} :
                g \in Groups \cap WideGroups}
Program(i) == IF Len(i) = 2 THEN Plain(i[1])[i[2]] ELSE Wide(i[1])[i[2]][i[3]]

----------------------------------------------------------------------------
VARIABLES h,          \* the handler
          rest,       \* the steps it has left
          reg,        \* registers it has set, and what to
          tmp,        \* its locals
          mem,        \* cells it has written, and what with
          rights,     \* cells whose page may be read, "ro", or written, "rw"
          known,      \* conditions that have been looked at, and how they came out
          status,     \* run, fault, trap (another exception), lost or aborted
          delivered,  \* a page fault was delivered and the handler went on
          loaded,     \* a page fault came when a segment had been loaded
          faults      \* page faults so far
vars == <<h, rest, reg, tmp, mem, rights, known, status, delivered, loaded, faults>>

Empty == [x \in {} |-> x]
Init == /\ h \in Selected /\ rest = Program(h)
        /\ reg = Empty /\ tmp = Empty /\ mem = Empty /\ rights = Empty /\ known = Empty
        /\ status = "run" /\ delivered = FALSE /\ loaded = FALSE /\ faults = 0

Running == status = "run" /\ rest # <<>>
Ended   == (status = "run" /\ rest = <<>>) \/ status \in {"trap", "lost", "aborted"}
step    == rest[1]
Worth(e) == Value(e, tmp @@ reg)

----------------------------------------------------------------------------
(* Steps on the registers.                                                 *)

Updated(s, to, old) == [p \in DOMAIN to |-> Value(to[p], old)] @@ s
Among(f, S)         == [p \in DOMAIN f \cap S |-> f[p]]
Except(f, S)        == [p \in DOMAIN f \ S |-> f[p]]

Move == /\ Running /\ step.k = "set"
        /\ LET to == step.to IN
           /\ tmp' = Updated(tmp, Among(to, Locals), tmp @@ reg)
           /\ reg' = Updated(reg, Except(to, Locals), tmp @@ reg)
        /\ rest' = Tail(rest)
        /\ UNCHANGED <<h, mem, rights, known, status, delivered, loaded, faults>>

\* A condition comes out as it did before on the same values.
Outcomes(c) == LET v == Worth(c)
               IN IF v = <<"never">> THEN {FALSE} ELSE IF v = <<"always">> THEN {TRUE}
                  ELSE IF v \in DOMAIN known THEN {known[v]} ELSE BOOLEAN

Require == /\ Running /\ step.k = "check"
           /\ \E b \in Outcomes(step.c) :
                LET passed == ~ b /\ step.on = "pass"
                IN /\ known' = (Worth(step.c) :> b) @@ known
                   /\ rest' = IF b THEN Tail(rest) ELSE IF passed THEN NextInstruction ELSE rest
                   /\ status' = IF b \/ passed THEN "run"
                              ELSE IF step.on = "abort" THEN "aborted" ELSE "trap"
                   /\ delivered' = (delivered \/ passed)
           /\ UNCHANGED <<h, reg, tmp, mem, rights, loaded, faults>>

Branch == /\ Running /\ step.k = "if"
          /\ \E b \in Outcomes(step.c) :
               /\ known' = (Worth(step.c) :> b) @@ known
               /\ rest' = (IF b THEN step.yes ELSE step.no) \o Tail(rest)
          /\ UNCHANGED <<h, reg, tmp, mem, rights, status, delivered, loaded, faults>>

----------------------------------------------------------------------------
(* Steps on memory.                                                        *)

\* The cells of an access: the parts of the operand, each on its own page.
CellsOf(s, old) ==
  LET a == Value(s.at, old) IN
  IF s.k = "write" THEN {<<a, s.half>>} ELSE {<<a, i>> : i \in 1..(IF s.w = 1 THEN 1 ELSE 2)}
Touched == CellsOf(step, tmp @@ reg)
Right(c) == IF c \in DOMAIN rights THEN rights[c] ELSE "none"
Enough(c) == \/ step.need = "none" \/ Right(c) = "rw" \/ Right(c) = step.need
Lacking  == {c \in Touched : ~ Enough(c)}
Granted(S) == IF step.need = "none" THEN rights ELSE [c \in S |-> step.need] @@ rights

\* What memory holds at an address: what was there, or what was written.
Content(m, a, w) ==
  LET Here(i) == <<a, i>> \in DOMAIN m
  IN IF (\A i \in 1..2 : Here(i)) /\ m[<<a, 1>>] = m[<<a, 2>>] THEN m[<<a, 1>>]
     ELSE IF w = 1 /\ Here(1) THEN m[<<a, 1>>]
     ELSE IF ~ Here(1) /\ ~ Here(2) THEN <<"memory", a>>
     ELSE <<"mixed", a>>

Load == /\ Running /\ step.k \in {"read", "try"}
        /\ tmp' = (step.to :> Content(mem, Worth(step.at), step.w)) @@ tmp
        /\ rest' = (IF step.k = "try" THEN step.yes ELSE <<>>) \o Tail(rest)
        /\ rights' = Granted(Lacking)
        /\ UNCHANGED <<h, reg, mem, known, status, delivered, loaded, faults>>

Keep == /\ Running /\ step.k = "write"
        /\ mem' = [c \in Touched |-> Worth(step.e)] @@ mem
        /\ rest' = Tail(rest)
        /\ rights' = Granted(Lacking)
        /\ UNCHANGED <<h, reg, tmp, known, status, delivered, loaded, faults>>

SegmentLoaded == \E s \in {"sreg", "ss", "cs"} \cap DOMAIN reg : reg[s] # <<s>>

\* The outcome of the access is no reason to run the instruction again.
Unseen == step.k = "try" \/ (step.k \in {"read", "write"} /\ step.on \in {"ignore", "pass"})

\* A page fault, delivered by cpu_exception.
Fault == /\ Running /\ step.k \in {"read", "write"} /\ ~ Unseen
         /\ Lacking # {} /\ faults < MaxFaults
         /\ status' = "fault" /\ faults' = faults + 1
         /\ loaded' = (loaded \/ SegmentLoaded)
         /\ UNCHANGED <<h, rest, reg, tmp, mem, rights, known, delivered>>

\* The same where the outcome is not looked at, or taken for an answer.
FaultIgnored ==
  /\ Running /\ Unseen /\ Lacking # {} /\ faults < MaxFaults
  /\ delivered' = TRUE /\ faults' = faults + 1
  /\ rest' = IF step.k = "try" THEN step.no \o Tail(rest)
             ELSE IF step.on = "pass" THEN NextInstruction ELSE Tail(rest)
  /\ UNCHANGED <<h, reg, tmp, mem, rights, known, status, loaded>>

----------------------------------------------------------------------------
(* After a fault.                                                          *)

IpMoved == At(reg, "ip") # <<"ip">>

\* The guest brings one page in and returns to where ip was at the fault.
Restart == /\ status = "fault" /\ ~ IpMoved
           /\ \E c \in Lacking : rights' = Granted({c})
           /\ rest' = Program(h) /\ tmp' = Empty /\ status' = "run"
           /\ UNCHANGED <<h, reg, mem, known, delivered, loaded, faults>>

\* When ip has been moved already the rest of the handler is never run.
Abandon == /\ status = "fault" /\ IpMoved
           /\ status' = "lost"
           /\ UNCHANGED <<h, rest, reg, tmp, mem, rights, known, delivered, loaded, faults>>

\* The same instruction, with other registers and other pages.
Another == /\ Ended /\ h' = h
           /\ rest' = Program(h) /\ status' = "run" /\ delivered' = FALSE
           /\ loaded' = FALSE /\ faults' = 0
           /\ reg' = Empty /\ tmp' = Empty /\ mem' = Empty /\ rights' = Empty /\ known' = Empty

Next == \/ Move \/ Require \/ Branch \/ Load \/ Keep \/ Fault \/ FaultIgnored
        \/ Restart \/ Abandon \/ Another
Spec == Init /\ [][Next]_vars

----------------------------------------------------------------------------
(* Properties.  Each names the handlers it does not hold of.               *)

FarPointer == {"lds", "les", "lss", "lfs", "lgs"}
FarGroups  == {"jmpf", "callf", "interrupt"}

\* A task switch fails in the new task once TR has been set.
InNewTask == "tr" \in DOMAIN reg

\* The accessed bit of a segment's descriptor is written when the segment
\* has been loaded; for CS that is after ip has been set.
AtAccessedBit == h[1] \in FarGroups /\ step.k = "write" /\ step.at[1] = "accessed"

Control == {"eax", "ecx", "edx", "ebx", "esp", "ebp", "esi", "edi", "rm", "reg", "ip", "flags",
            "cr", "dr", "msr", "gdt", "idt", "ldt", "halt", "port", "shadow", "mxcsr",
            "fcw", "fsw", "c1", "cc", "fes", "ftop", "ftag", "fst", "exponent", "xreg", "xrm"}

\* Stores that raise an exception of their own before memory is written: the
\* instruction that is run again finds it pending.
FpuStoring   == {"fpu_mem_store", "fpu_mem_integer", "fpu_long_stores"}
OwnException == h[1] \in FpuStoring /\ At(reg, "fes") = <<"always">>

\* What is set before the last access to memory all the same: the exception
\* flags of FSTP of 80 bits and FBSTP, the tags that FNSAVE works out anew,
\* whatever FRSTOR and FXRSTOR have read, and the register stack as MMX
\* instructions reset it.
Early(i) ==
  IF i[1] \in FpuStoring THEN {"fes"} \cup (IF i[1] = "fpu_long_stores" THEN {"fsw", "c1"} ELSE {})
  ELSE IF i[1] \in {"fpu_state", "fx_state"}
       THEN {"fcw", "fsw", "c1", "cc", "fes", "ftop", "ftag", "mxcsr"}
  ELSE IF i[1] \in SimdGroups THEN {"ftop", "ftag", "exponent"} ELSE {}

\* An exception of SSE arithmetic is raised when its result has been stored.
AfterResult == h[1] \in SimdGroups /\ status = "trap" /\ "mxcsr" \in DOMAIN reg

\* An exception is clean.  When it is delivered the guest sees the registers
\* the instruction began with: nothing has been counted down, popped, added or
\* stepped over.  And one that is no page fault is raised before memory is
\* written, unless a segment had been loaded before a fault.  Not so in ENTER,
\* in POPF's own check of the virtual interrupt flag, in the accessed bit of a
\* far transfer, in a task switch, after the result of SSE arithmetic, and in
\* what Early names.
FaultIsClean ==
  /\ status \in {"fault", "trap"} /\ ~ InNewTask /\ ~ AtAccessedBit
       /\ h[1] # "enter" /\ h # <<"system", "popf">> /\ ~ AfterResult
     => \A p \in (DOMAIN reg \cap Control) \ Early(h) : reg[p] = <<p>>
  /\ status = "trap" /\ ~ InNewTask /\ ~ loaded /\ ~ OwnException => mem = Empty

\* Handlers that return as if nothing had happened when an exception has been
\* delivered: those that take a page fault for a segment of no use, the FPU
\* instructions that do so with a pending exception, the ones that load or
\* store the environment with a page fault, and FXSAVE at a register.
PassOver == {"lar", "lsl", "arpl", "fpu_arith", "fpu_moves", "fpu_functions1", "fpu_compares",
             "fpu_stores", "fpu_environment", "fpu_state", "fx_state"}

\* The outcome of every access counts.  A write never goes to a page that was
\* not looked up for writing, also the second half of a misaligned one; not so
\* in XCHG of a byte, and STMXCSR.  And when an exception has been delivered
\* the handler does nothing more; not so in those that pass it over.
AccessesCount ==
  /\ h \notin {<<"xchg", "r8e8">>, <<"media", "stmxcsr">>}
     => \A c \in DOMAIN mem : Right(c) = "rw"
  /\ h[1] \notin PassOver => ~ delivered

\* A handler that ends has moved on, and only as far as it may.  The same
\* instruction is not run again for ever: trace_end is no instruction; a far
\* jump to a selector of no use is passed over and does stay.  And the
\* machine's own registers, the tables, the task and local descriptors and
\* HLT, are set at level 0 only.
EndsWell ==
  /\ Ended /\ status = "run" /\ h # <<"near_jumps", "trace_end">>
       /\ ~ (h[1] = "jmpf" /\ \E c \in DOMAIN known : c[1] = "task gate" /\ ~ known[c])
     => IpMoved
  /\ status = "run" /\ DOMAIN reg \cap {"gdt", "idt", "ldt", "tr", "halt"} # {}
       /\ h[1] \notin FarGroups
     => <<"level 0", <<"cpl">>>> \in DOMAIN known /\ known[<<"level 0", <<"cpl">>>>]

\* What the program would do with no page missing and the same answers.
RECURSIVE Undisturbed(_, _)
Undisturbed(todo, s) ==
  IF todo = <<>> THEN s
  ELSE LET d   == todo[1]
           old == s.tmp @@ s.reg
           Holds(c) == LET v == Value(c, old) IN v = <<"always">> \/ (v \in DOMAIN known /\ known[v])
       IN CASE d.k = "set" ->
                 Undisturbed(Tail(todo),
                   [s EXCEPT !.tmp = Updated(@, Among(d.to, Locals), old),
                             !.reg = Updated(@, Except(d.to, Locals), old)])
            [] d.k = "check" -> IF Holds(d.c) THEN Undisturbed(Tail(todo), s)
                                ELSE [s EXCEPT !.ended = IF d.on = "abort" THEN "aborted" ELSE "trap"]
            [] d.k = "if" -> Undisturbed((IF Holds(d.c) THEN d.yes ELSE d.no) \o Tail(todo), s)
            [] d.k \in {"read", "try"} ->
                 Undisturbed((IF d.k = "try" THEN d.yes ELSE <<>>) \o Tail(todo),
                   [s EXCEPT !.tmp = (d.to :> Content(s.mem, Value(d.at, old), d.w)) @@ @])
            [] d.k = "write" ->
                 Undisturbed(Tail(todo),
                   [s EXCEPT !.mem = [c \in CellsOf(d, old) |-> Value(d.e, old)] @@ @])
Ideal == Undisturbed(Program(h), [reg |-> Empty, tmp |-> Empty, mem |-> Empty, ended |-> "run"])

Was(c) == Value(c, Empty) \in DOMAIN known /\ known[Value(c, Empty)]

\* When a segment register has been loaded nothing can fail any more but the
\* write of its accessed bit.  Not so in LDS and its like, which read the
\* offset after it, nor in an interrupt of virtual mode, which empties the
\* data segments before the rest of its frame has been written.
SegmentsLast ==
  [][status = "run" /\ status' = "fault" /\ SegmentLoaded /\ ~ loaded /\ ~ InNewTask
       /\ h[1] \notin FarPointer /\ ~ (h[1] = "interrupt" /\ Was(V86))
     => step.k = "write" /\ step.at[1] = "accessed"]_vars

\* An instruction that was interrupted by page faults and run again ends as
\* one that met none: a store of the FPU keeps its exception flags back until
\* memory has been written.  Not so in ENTER, when a segment register had been
\* loaded, as what is found through it is another thing the second time, and
\* when an FPU store has raised an exception.
RestartIsExact ==
  Ended /\ status # "lost" /\ ~ delivered /\ ~ loaded /\ h[1] # "enter" /\ ~ OwnException
  => LET ideal == Ideal
     IN /\ ideal.ended = status /\ ideal.mem = mem
        /\ \A p \in DOMAIN reg \cup DOMAIN ideal.reg : At(reg, p) = At(ideal.reg, p)
=============================================================================
