# CPU-IA32-cpp in TLA+

CPU-IA32-cpp is a PC emulator in C++: an IA-32 processor that executes decoded
instruction traces, and the devices of a PC around it. It is one thread. What
looks concurrent in it is cooperative: `pc_execute` asks the devices for their
next event, lets the processor run that many cycles, and answers the disk request
that is outstanding; instructions call into devices, devices raise lines and cut
the processor's slice. And what looks atomic to the guest, an instruction, is a
handler of many steps that a page fault may end at any of them. The repository has
no tests and next to no comments, so the specifications are read off the code alone.

    tlc -config instr.cfg MCInstruction    model-check a run
    tlapm PicProofs.tla                    check the proofs of a module

All paths below are relative to `src/`, the directory of the program's sources
inside the repository's `src`.

## Inventory

| component | state | operations | what makes it correct | status |
|---|---|---|---|---|
| 8259A controllers (`pic.cpp`) | IRR, ISR, IMR, pins, priority base, command words, the request signalled | raise, lower, acknowledge, ICW and OCW writes | no request lost, the best one accepted, service nests, each edge delivered once | modelled |
| I/O APIC (`ioapic.cpp`) | redirection entries, requests, pins | raise, lower, register writes, remote EOI | level lines never go deaf, edges survive the mask | modelled |
| local APIC (`apic.cpp`) | IRR, ISR, TMR, priority, own view of INTR, timer | bus messages, EOI, acknowledge, timer | INTR up while a request is eligible; shares the wire with the 8259s | partly |
| processor loop (`cpu/cpu.cpp`, `cpu/eflags.cpp`) | cycle counters, INTR, IF, shadow, halted | `cpu_run`, `cpu_execute`, fast return, `interrupt_guard`, HLT | interrupts seen at the next boundary, never in a shadow; time exact; HLT ends | partly |
| timers and the machine's clock (`pit.cpp`, `cmos.cpp`, `acpi.cpp`, `apic.cpp`, `pc.cpp`) | counters, latches, register C, `tick_base` | `*_next`, port accesses, `pc_execute` | whole words; no timer fast; late only by what is accounted for | partly |
| ATA channels (`ide.cpp`) | task file, status, command, bus-master bits, buffer | register writes and reads, data transfers, bus-master start | sectors in order, all of them, signalled; no channel busy for good | partly |
| disk drivers (`drive.cpp`) | blocks in memory, one completion slot | read, write, prefetch, `drive_check_complete`, cancel | a deferred request is answered once, with what was asked | partly |
| integer instructions (`cpu/opcodes.cpp`, `stack`, `access`, `string`) | registers, memory, the permission of each page | one handler each | a fault shows the registers the instruction began with; run again it ends as if nothing had happened | partly |
| segments, gates, stack (`cpu/seg.cpp`, `cpu/prot.cpp`, `cpu/ctrlflow.cpp`) | segment registers, CPL, TSS | loads, calls, returns, interrupts, task switch | nothing can fail once segments and `cs:ip` change | partly |
| x87, MMX, SSE (`cpu/fpu.cpp`, `cpu/simd.cpp`) | register stack, tags, status and control words, XMM | one handler each | a store keeps its flags back until memory has been written | partly |
| translation (`cpu/mmu.cpp`, `cpu/prot.cpp`) | the table of translations and the list that empties it | look-up, flushes, INVLPG, control registers | what is used agrees with the guest's tables | partly |
| code cache (`cpu/smc.cpp`, `cpu/trace.cpp`, `cpu/decoder.cpp`) | traces, chunk bitmap, pages written with care | decode, look-up, invalidate | what executes is what memory holds | partly |
| port and memory dispatch (`io.cpp`, `cpu/io.cpp`) | tables filled at start-up | dispatch, permission check | the check precedes the access | partly |
| keyboard controller (`kbd.cpp`) | two 256-byte queues, output buffer, command byte | port accesses, key and mouse events | bytes in order, one interrupt per byte | not modelled |
| DMA and floppy (`dma.cpp`, `fdc.cpp`) | 8 channels; command FIFO, result, IRQ 6 | port accesses, transfers | whole transfers; the slot shared with the disks | not modelled |
| PCI (`pci.cpp`) | configuration spaces | configuration cycles | the mapping of the ROM area | not modelled |
| display (`vga.cpp`, `display.cpp`) | VGA registers, planes | port and memory accesses | write modes | not modelled |
| network (`ne2000.cpp`, `net.cpp`), state saving (`state.cpp`) | | never called | | not modelled |
| start-up (`main.cpp`, `ini.cpp`, `util.cpp`) | | runs once | | not modelled |

How they interact:

- **Lines.** A device calls `pic_raise_irq`/`pic_lower_irq`. The controller calls
  `cpu_raise_intr_line` and `cpu_request_fast_return` in the same call, from inside
  the instruction that touched the device or from between two slices. With an APIC the
  same wire has two drivers.
- **Acknowledge.** `cpu_run` calls `pic_get_interrupt` at the top of its loop when
  INTR is up, IF is set and interrupts are not blocked; `cpu_interrupt` then pushes a
  frame, which is a transfer like any other and may fault.
- **Time.** `pc_execute` takes the least of the devices' next events as the slice.
  Devices read the clock in the middle of a slice, but are looked at only between two.
- **Disk.** A channel calls `drive_read`, `drive_write` or `drive_prefetch` with a
  callback. The answer comes at once, or through the one slot, at the next
  `pc_execute`. The two channels and the floppy share the slot.
- **Memory.** A handler reaches memory through the table of translations; a write to a
  page with decoded code goes through `cpu_smc_invalidate`, which may end the slice.

The behaviours that are hard here are therefore state read before a callback and
used after it, two clients of one slot, a request withdrawn between signal and
acknowledge, a slice that is cut twice, anything that must happen at some point
although nobody waits for it, a handler that stops half-way, and what is kept of
memory while memory changes. `PROJECT.json` lists them line by line under "hazards",
those no property covers included.

## Modules

| module | what it is |
|---|---|
| `Pic` | both 8259As, the cascade, INTR, the guest's command words and the acknowledge |
| `IrqContract`, `PicRefinement` | what interrupt controllers promise, and the mapping under which `Pic` implements it |
| `Apic` | I/O APIC, local APIC and the line they share with the 8259s |
| `CpuRun` | `cpu_run`: slices, cycle counters, IF, shadow, HLT, faults |
| `PitChannel`, `Pit` | one channel of the 8254 as functions; channel 0 with its guest |
| `Clock` | `pc_execute` with four timers, one of them a `PitChannel` |
| `Ide` | two ATA channels, the disk drivers, the completion slot, and a guest driver |
| `DiskContract`, `IdeRefinement` | disks that answer at once, and the mapping under which `Ide` implements them |
| `Micro` | the vocabulary of handlers: checks, reads, writes, assignments, branches |
| `Segments`, `Handlers`, `System`, `Transfers`, `Fpu`, `Simd` | the handlers, as programs of that vocabulary |
| `Instruction` | one handler run step by step under page faults; the properties of all |
| `Strings` | the repeated string instructions, element by element |
| `Tlb` | page tables, translations, and everything that forgets them |
| `CodeCache` | decoded traces against writes by the processor and by devices |
| `PicProofs`, `ApicProofs`, `ProcessorProofs` (of `CpuRun` and `Strings`), `PitProofs`, `ClockProofs`, `IdeProofs`, `TlbProofs`, `CodeCacheProofs` | theorems |
| `MC...` | instances for TLC |

`Segments` extends `Micro`; `Handlers`, `Transfers` and `System` extend `Segments`, `Fpu`
extends `System`, `Simd` extends `Fpu`; `Instruction` collects them. Definitions
under a comment "Mutant" are plausible errors in the code they stand beside. They are
used only to check that a property would notice them.

### Pic

A byte register is the set of its 1 bits. `ctrl[c]` is `pic.ctrl[c]` with the
field names of the source; `highest` is `highest_priority_irq_to_send`, `base`
`priority_base`, `icw` the initialization word expected next. `Update` is
`pic_internal_update`: it computes the request to signal and raises INTR, or, on
the slave, pulses the master's line 2, which updates the master in turn. Every
action is one call from outside with all it causes: `Raise`, `Lower`,
`Acknowledge`, and the guest's command words. `Masks`, `OCW2`, `OCW3`, `ICW1`,
`ICW2`, `ICW4` are the bytes the guest may write. `Pic` is a machine configured with `apic = 0`;
`Apic` is one with `apic = 1`, as in `exe/default.conf`.

The code does not evaluate the priorities after everything that changes them:
set-priority, an OCW3 that changes the special mask, an acknowledge that finds its
request withdrawn or that leaves nothing in service (automatic EOI, special mask),
and ICW1 of the other controller, which takes INTR down. `stale` records for which
controllers that has happened since their last `pic_internal_update`. It is a
history variable, and it is where the properties stop: `NoLostInterrupt` and
`SignalsTheBest` say that outside these cases the code loses and misorders nothing,
and that the next evaluation repairs them. On the real part an acknowledge looks at
the inputs again, so these are the places where the program differs from an 8259A.

### Apic

`redir` is the low half of each redirection entry, `ioapic` has `irr` and `pin_state`,
`apic` the local APIC's three 256-bit registers as sets, its priority class and
`intr_line_state`. A bus message, `ioapic_update`, an end of interrupt with its remote
part, self interrupts and the acknowledge are one action each. The 8259s are one bit
here, `pic`: they have signalled a request nobody took. `lost` is a history of the four
ways the code loses track, and the properties name them: an end of interrupt does not
look at a pin that is still up (`eoi`), a level pin lowered before its masked request was
sent keeps remote IRR (`orphan`), ICW1 of an 8259 takes down a line the local APIC has
raised (`icw1`), and an acknowledge taken by the local APIC takes down the 8259s'
request (`ack`).

### CpuRun

The variable `clk` holds `m_cycles_to_run`, `m_refill_counter`, `m_cycle_offset` and
the part of `m_cycles` that belongs to the slice. `Split` is the four assignments that
recur in the source, with the new count and the new refill. `phase` says whether the
program is outside `cpu_run`, at the top of its loop or in `cpu_execute`.
Instructions are classed by what they do to this state: `Plain`, `Access` (one
request to return, or several), `Lower`, `Cli`, `Guarded` (STI, MOV SS, POP SS),
`SetFlags` (everything through `cpu_set_eflags`), `Hlt`, and `Fault` for an
instruction that raises an exception, which `m_cycles_to_run++` takes out of the
count. A trace's end does the same and is a stutter here. Interrupt gates, trap
gates and task gates differ in what they leave of IF and the count. Repeated
string instructions count once, as in the code.

`Budgets` excludes 0 and negative counts; that slices have at least one cycle, and
the one case where they do not, is `Clock`'s `NoEmptySlice`.

### PitChannel, Pit and Clock

`PitChannel` has a channel's registers as a record and one function for each port access
and for the look `pit_next` takes. A count is two bytes, and what is left of it a
`uint32_t`: `Width` is that type's range, and the jump the counter makes when the
difference goes below zero is in `GetCount`. `TicksFollowTime` counts these jumps
after the first (`Overflows`), each of which adds or hides one interrupt, so that it speaks
of every time. A latched count assigns `whats_latched` as a whole, so `Latch` drops a status
that was latched before and not read. `line` is the pin of IRQ 0: a control word of mode 2
raises it (`pit.cpp:218`), and only a tick lowers it, to raise it again. `Pit` drives channel 0
and keeps histories: the word latched, the word written, interrupts of ticks (`irqs`) and of
control words (`early`), and wraps.

`Clock` is `pc_execute`. `BeginSlice` asks every timer for its next event, which is also
when timers fire; an instruction spends a cycle and may program a timer; `Halt` and
`StayHalted` move the clock forward. What is surprising in the code is in the model: after
HLT the rest of the slice and the time to the next event are both added; a periodic local
APIC timer that fires asks for no slice; the real-time clock accounts for one period
however many have passed. `LateByHaltOnly` says what that costs at most, on the first
interrupt after a load. A guest that halts with interrupts disabled (`deaf`) leaves the clock
where it is (`StandStill`) for ever.

The real-time clock interrupts for a period, an alarm or a second (`RtcLook`). The time of day
is not kept, so when the alarm is enabled a second may ring or not (`rings`): the code
compares hour, minute and second with the register the guest selected last, not with the
alarm's (`cmos.cpp:88`), and which one that is no property here depends on.

### Ide

`chan[c]` is an `ide_controller`; a position is a sector number, so the CHS and LBA
register layouts are left out; the multiple count in effect is 1. `pending` and
`slot` are `transfer_in_progress` and `global_cb` with what its callback is given;
`loaded` is which 256K blocks have data. `Defer` is a driver call that has to wait:
it fills the slot, whoever had it. `CheckComplete` is `drive_check_complete`, where
the callback takes the sector from the slot but everything else from the channel's
registers of that moment. The guest follows the ATA protocol: no command under BSY
or DRQ except one that the code ignores, data only under DRQ, addresses on the disk.
It may reset a channel at any time. `guest` is chosen at the start: the requests it
makes, whether its driver uses both channels at once (`overlaps`), and whether its DMA
leaves a block (`spans`). `job` and `asked` are histories for the properties. A disk image
that cannot be read, and block sizes other than the driver's, are left out. `halted` is
one of the program's own aborts. With overlapping channels the slot is overwritten and
the first channel stays busy until it is reset: `SlotHasOwner`, `WritesAsAsked`,
`ReadyIsSignalled` and `Answered` speak of channels used in turn where they say so.

`DiskContract` is what a guest may rely on: what it hands over is on the disk at that
moment, a sector it is shown is what the disk holds, a command's sectors are moved in
order and all of them before the next command, and only a reset takes something back, no
more than what the command handed over last. There is no slot in it, no block, no BSY and
no callback. `IdeRefinement` maps `asked` to its disks; a sector or a DMA command handed
over while its block is awaited counts as moved already (the history `given` of a job),
one that is read does not. `ImplementsDisks` is stated for every guest. One that uses both
channels at once may lose a write with an overwritten slot, but cannot see it: only its own
channel reaches that disk, that channel is busy until it is reset, and a reset takes the
write back.

### Micro, Segments, Handlers, System, Transfers, Fpu, Simd, Instruction

A handler is a sequence of steps over named places: the registers, the operands the
decoder has bound (`rm`, `reg`, `imm`) and the handler's locals. `Set` assigns, `Check`
raises an exception when a condition fails, `If` branches, `Read` and `Write` access
memory under the permission of its page, and `NextInstruction` moves `ip`. Values are
terms: `<<"add", "eax", "t">>` is the sum of what the two hold. So arithmetic is no part
of the model and nothing is lost for the properties, which ask whether a register or a
cell holds the same value as in another execution. A condition is a term too, and comes
out either way, the same way for the same values. Where the emulator would stop,
`CheckOrAbort` does: a segment loaded from a selector outside the table, which only MOV to CS
gets as far as, and INTO, which begins with a breakpoint of the host. The program's macros are
operators (`Push`, `Pop`, `ReadOr`, `Modify`), and handlers that differ in arithmetic or width
only are one record written once.

`Instruction` runs one handler of the selected groups. `rights` is which cells' pages may
be read or written. An access that lacks its right may fault (`Fault`), at most
`MaxFaults` times; the guest then brings in one of the pages it lacked and runs the
instruction from its start, with registers and memory as the handler left them
(`Restart`). Accesses whose outcome the code does not look at deliver the exception and
go on (`FaultIgnored`, `delivered`). `Another` begins again. `Undisturbed` computes what
the program does with no page missing and the same answers; it is the reference of
`RestartIsExact`.

Each property lists the handlers it does not hold of; they are the program's
deviations, and the list is part of what the run shows (see *Where properties stop*).

Two operands are taken to be different registers and two addresses to lie on different
pages; one data segment register stands for four; bits of descriptors and selectors are
conditions. In `Fpu` the status word is kept in parts; `partial` and `clear` are
`m_partial_sw` and `m_bits_to_clear`, what a store keeps back until memory has been
written. In `Simd` the lanes of packed values are left out.

### Strings

One function of `string.cpp` for every operation, prefix, width and direction, on a few
bytes of memory that wrap. The function runs at most `Cap` elements (65536 in the code)
and returns so that the slice can end; a page fault leaves it in the middle of an
element, between two bytes of it if it crosses a page. The reference is a recursive
function: `Elements(i, w)[n]` is the state after `n` elements of instruction `i` that began
with `w`, each of them one `Element`; `After(n)` is that of the instruction in progress.

### Tlb

`tlb[l]` is the tag, frame and attribute of a linear page, `listed` is
`m_tlb_entry_indexes`, through which flushes find what to empty. The guest edits its
tables at will, and is held to say so with INVLPG or a load of CR3 (`owed`) before what it
changed counts against the program. Ways of paging are `"off"`, `"two"` levels, `"pse"`
and `"three"`.

### CodeCache

Memory is not kept. A trace knows who changed its bytes since it was decoded (`stale`:
a linear page, `"device"`, `"missed"`), and the properties say which of these may be found
in a cached trace (`NothingStale`) or in the one that runs (`RunsFresh`). `marked` is
`m_smc_has_code` in chunks, `tlb` says whether a linear page is written with care;
`Write` is a store with `cpu_smc_invalidate` before it, `WideStore` an aligned store from
an MMX or SSE register, which asks only whether it may write; `DiskTransfer` and
`ChannelTransfer` are `ide_read_dma_handler` and `dma_run_transfers` with the pages they
announce. A trace is looked up with the machine's state hash besides (`cpu/trace.cpp:38`), which
is left out: with another hash it is not found, and decoded again in its slot.

## Runs

| run | instance | shows |
|---|---|---|
| `pic_modes` | one device line on each controller and the cascade; every command word, withdrawals | `NoLostInterrupt`, `SignalsTheBest` |
| `pic_service` | two lines on each initialized controller, one withdrawn at will; a guest that runs its handlers | `EveryInterruptIsReal`, `NestingOrder`, `Served` under fairness, and that `Pic` implements `IrqContract` |
| `apic` | an edge and a level pin of one class, an interprocessor vector above, the 8259s on the line | `SignalledInOrder`, `SharedLineHeard`, `LevelPinsHeard`, `EdgeRemembered`, `TopServed` |
| `cpu_run` | slices of 1 to 5 | `Prompt`, `EveryCycleCounted`, `SliceBound`, `ShadowHolds`, `Wakes` |
| `pit` | every access mode under three counting modes, words of two bytes of two values | `WordsAreWhole`, `TicksFollowTime` |
| `clock` | three guests: the real-time clock with its alarm, the local APIC timer, the 8254 (one-shot and rate generator) with the ACPI timer | `NoEmptySlice`, `NeverFast`, `FlagsAreSignalled`, `LateByHaltOnly` |
| `ide` | three disks of three sectors, both drivers, five guests | `SlotHasOwner`, `WritesAsAsked`, `ReadyIsSignalled`, `NeverAborts`, `SectorsInOrder`, `Answered`, and that `Ide` implements `DiskContract` |
| `ide_dma_spans` | DMA over two blocks | `NeverAborts` is violated, see *Finding* |
| `instr` | every handler, up to two page faults each | `FaultIsClean`, `AccessesCount`, `EndsWell`, `RestartIsExact`, `SegmentsLast` |
| `strings` | every string instruction on five bytes over three pages | `Resumes`, `EndsWhereItShould` |
| `tlb` | two pages, one of them global, four ways of paging | `EveryEntryListed`, `RightsFollowTables` |
| `cache` | two pages of code through two linear pages, processor and devices writing | `NothingStale`, `RunsFresh` |

**Bounds.** Every bound is a constant of the cfg or named in the module.

- *Pic:* priorities compare lines pairwise, so two lines on a controller (a device's and
  the cascade, or two devices') reach every order of two requests and one in service;
  `OneMode` keeps the special mask and rotation on automatic EOI of the two controllers
  from being in use together. The proofs cover all eight lines and every mode.
- *Apic:* two pins of one class compete below a third vector; vectors and trigger modes
  are programmed once.
- *CpuRun:* the counters are cut by at most two, so a budget of 5 has a first cycle, a
  last, a last but one and some between; the proofs cover every budget.
- *Pit, Clock:* bytes of two values make counts up to 4; the `uint32_t` difference of 16
  values goes below zero once the count has run out, well before `Horizon`, and 3 does not
  divide 16, so the counter jumps as it does with 2^32; in `clock` slices of at most 2, a second
  of 8 and counts below and above a slice. `ReadUntil` stops reads of the ports early
  because they change nothing that time changes. `Modes` has a one-shot mode, the rate
  generator, whose control word raises the line, and the square wave, which is periodic without
  that; the code treats the other three as the one-shot.
  `pit` ends before the difference has run through its type once more, so `Overflows` is 0
  there; the later times, and every width, are the proof's.
- *Ide:* two blocks give a transfer inside a block, across blocks, and to the end of the
  disk; a count register that wraps at 3 instead of 256 reaches 0, which stands for the
  full count. Disks hold whether each sector has the guest's data, enough to tell a stale
  sector from a fresh one. The proofs cover every size of disk, block and count register.
- *Instruction:* two faults reach a second fault after each first; a misaligned operand
  has two halves on two pages.
- *Strings:* a cap of 2 and counts up to 3 make an instruction take two runs; memory
  wraps and elements cross pages.
- *Tlb:* a list of two places fills; one page changes and one stays global.
- *CodeCache:* a page has two chunks, a first and a last; two starts share a slot; room for
  two traces runs out; transfers of 5 bytes cover two pages. The two linear pages are
  symmetric: no property or action names one.

`CHECK_DEADLOCK FALSE` is given where the model really may stop: the guest of
a `pic_` or `apic` run may have no byte left to write, the `pit` and `clock` runs end at
their horizon, a string instruction ends. In every other run deadlock is checked.

**Fairness.** `HandlerFairness` (`pic_service`): `cpu_run` looks at INTR at the top of
every loop, and the guest's handlers end in an EOI; nothing is assumed of devices, and
`Served` speaks of a line whose superiors stop at some point, because a busy higher
line may starve it on the real part too. `Apic!FairSpec`: the processor acknowledges and
the handlers end, as above. `CpuRun!FairSpec`: `pc_execute` calls
`cpu_run` for ever and `cpu_run` does not stop at the top of its loop; nothing is
assumed of instructions. `DriverFairness` (`ide`): `pc_execute` calls
`drive_check_complete` every time round; a guest that has begun a command or a reset
goes on with it, with strong fairness because the other channel's turn may interrupt
its own.

**Finding.** `ide_write_prdt` gives `drive_prefetch` a sector count where it expects
bytes (`ide.cpp:1656`). Only the first sector's block is loaded, and a DMA command that
goes on into a block that is not in memory makes `drive_read` return 0 and the handler
abort the program at `ide.cpp:1292`. In `ide_dma_spans` TLC reaches this with one
command; every other guest keeps DMA inside a block.

## Where properties stop

No statement in the repository contradicts the following, so they are no findings; each
is an exception named in a property, or a deviation from the processor's manual that the
model has.

*Instructions.*
- LDS and its like load the segment before the offset is read; ENTER moves ESP push by
  push; POPF under virtual-mode extensions pops before its own check; XCHG of a byte
  register and STMXCSR write through a page looked up for something else; LAR, LSL,
  VERR, VERW take a page fault for a segment of no use and go on.
- A segment is set before the accessed bit of its descriptor is written; an interrupt out
  of virtual mode empties the data segments before the rest of its frame is written; a far
  jump to a selector of no use is passed over; `ltr` marks the descriptor before it sets
  the register.
- Task switches: the old task state is looked up for reading only, as the second look, for
  writing, tests nothing more (`cpu/ctrlflow.cpp:137`, `cpu/access.cpp:148`), so that the save
  may fault half way, when the old task's busy bit is clear already; run again it saves the
  same; the back link is written to the old task's state, IRET refuses a busy
  back-linked task, a call through a task gate jumps, and a failure comes in the new task.
- MOV to CS loads a descriptor of zeros, or aborts; INTO traps into the host's debugger.
- MOV to and from control and debug registers, RDMSR and WRMSR look at no privilege level.
- x87: with a pending exception register operations deliver it and still move `ip`; so do
  FNSTENV, FNSAVE and FLDENV at a page fault; FST raises ES before the write; FXSAVE ignores the
  outcome of storing registers.
- SSE arithmetic raises its exception when the result has been stored; MMX instructions
  reset the stack before their operand is looked up; MOVQ2DQ and MOVDQ2Q take both
  operands from one field (`cpu/simd.cpp:2291`).
- MOVS of a word that faults between two bytes reads again what it has overwritten; INS
  loses what it had read from the port when its write faults.

*Translation.* Large pages of two-level paging get no check of rights; the right to execute
is never refused; INVLPG leaves the attribute.

*Code cache.* Invalidation of a page skips its last chunk; a linear page filled for writing
before the trace was decoded through another writes unseen; aligned stores from MMX and
SSE registers never ask; an unaligned disk transfer misses its last page and the 8237
announces every page but its first; a write that begins before the running trace, or after
a first write has dropped it, does not end the slice.

*Devices.* With both channels in use the completion slot is overwritten; the interrupt of a
written sector comes before the sector is on the disk; a one-shot 8254 interrupts at the
first look after its load (`pit.cpp:317`); a control word of mode 2 interrupts by itself
(`pit.cpp:218`); a count latch drops a status latch (`pit.cpp:171`); modes 6 and 7, which
the part takes for 2 and 3, are one-shot, and a status read-back under them aborts the
program (`pit.cpp:146`): the guests of `Pit` and `Clock` do not use them; with rate 0 the
real-time clock goes on with its last period (`cmos.cpp:126`), which `NeverFast` excepts;
the alarm is compared with the register selected last (`cmos.cpp:88`); the end of a level
interrupt does not look at the pin again.

## Proofs

TLAPS proves every safety invariant, action property and refinement that the runs check, but
those of `Instruction`, for every value of the constants that satisfies the
assumptions below. Each proof module states its inductive invariant as `Inv`, or as named
parts beside it, and has one lemma per action and, under it, one step per conjunct the
action can disturb.

**Assumptions.** On constants, named in the module that declares them:

| module | assumption | what it says, and why |
|---|---|---|
| `Pic` | `ConstantsOK` | lines are 0 to 15 without the cascade, command words are words |
| `Apic` | `ConstantsOK` | no two pins share a vector, nor a pin one with an interprocessor interrupt: an assumption on the guest, because one bit of the local APIC cannot tell two pins apart |
| `CpuRun` | `BudgetsOK` | slices have a cycle, as `SafetyNoEmptySlice` shows but for the one case it names |
| `PitChannel`, `Pit`, `Clock` | `ByteOK`, `PitConstants`, `ClockConstants` | a byte has two values or more, rates and periods are positive, the guest writes bytes |
| `Ide` | `ConstantsOK` | requests name disks that exist and sectors on them |
| `Tlb` | `CapacityAssumption`, `NobodyAssumption`, `EntriesAssumption` | the list has room for one, its empty place is no page, table entries have their fields |
| `Strings` | `Bounds`, `ImagesAssumption` | sizes, the cap and the largest count are positive, memory is a function on the addresses |
| `CodeCache` | `InputAssumption`, `GeometryAssumption`, `AlignmentAssumption` | chunks follow each other as bytes do and lie in one page; an aligned write lies in one chunk |

Hypotheses of single theorems, each with the instances of some run among its cases:

- `FixedPriorities` (`Nesting`): the guest never rotates priorities nor sets the special
  mask. Both are there to let a lower line nest.
- `ICW1 = {}` (`CascadeIsFlat`, `NoSpurious`): the guest does not initialize the controllers
  again. An ICW1 forgets requests, which a contract about requests cannot promise.
- `0 \notin Rates` (`SafetyNeverFast`): the guest does not stop the real-time clock, which in
  the code leaves the period as it was and not a rate to measure it by.
- `VerifyFirst`, `WithinBlocks` (all of `IdeProofs`): VERIFY is given on the first channel only,
  because on the second it clears BSY and DRQ of the first (`ide.cpp:1485`); and DMA stays
  inside a block, because otherwise the program stops (see *Finding*).

**PicProofs.** `TypeCorrect`, `RequestsBacked` (`RequestsHavePins`), `NoLost`
(`NoLostInterrupt`), `BestSignalled` (`SignalsTheBest`) and `Nesting` (`NestingOrder`). The
inductive invariant is `TypeOK /\ NoLostInterrupt /\ SignalsTheBest`. `NoLostInterrupt` is
not inductive alone: that accepting a request leaves nothing else eligible, so that INTR may
go down, needs the accepted one to outrank all others, which is `SignalsTheBest`.
`Nesting` needs more: that the request signalled outranks what is in service, or is gone,
from the update that chose it to the acknowledge (`NestInv`). The lemmas go from ranks (a
set of lines has a top) through `Refresh` (one update establishes both properties of one
controller) and the cascade (a slave's update settles both) to one step per action.

`CascadeIsFlat` is the refinement: the initial states of `ReadySpec` map to initial states
of `IrqContract` under the mapping of `PicRefinement`, and every step maps to a step of a
flat controller of fifteen lines, or to a stutter. The invariant is `ReadyInv`: the controllers
stay initialized, the master's request on the cascade stands for one of the slave's, and
what is signalled can be accepted unless its device is one that withdraws. The step that
carries it is the acknowledge, where one call here accepts in two controllers and there
once. `NoSpurious` (`EveryInterruptIsReal`) is a part of that invariant.

**ApicProofs.** `SafetySignalledInOrder`, `SafetySharedLineHeard`, `SafetyLevelPinsHeard`, and
for the step property `StepEdgeRemembered`. The registers are sets of vectors, so the first
lemmas are about `Highest`: adding a bit, taking the highest away. The invariant has three
parts that need each other. `Ordered`: the local line is up only when the highest request is
above the highest in service, and is up whenever one can be delivered. `SharedLineHeard`
itself. `LevelInv`: a level pin with remote IRR has its vector on the way or in service with
the trigger bit set, or waits in the I/O APIC. The trigger bit is what ties an end of
interrupt to its pin, and it is right because no two pins share a vector.

**ProcessorProofs.** Of `CpuRun`: `TypeCorrect`, `PromptHolds`, `ShadowsHold`, `CyclesCounted`,
`SlicesBounded`. `SplitKeepsTime` is the heart: dividing the cycles to run in any way
does not change the time. A clock with cycles left stays one under a fast return, a
guard and HLT, and `FinishLive` says that completing an instruction counts exactly
once. `Pending` adds where a shadow can be: at the top of the loop only with interrupts
blocked, in execution only in the last cycle; and that a slice about to pass a shadow
has done nothing yet, which bounds it by its budget and one.

Of `Strings`: `StringsResume` (`Resumes`) and `StringsEnd` (`EndsWhereItShould`), for every
size of memory and page, cap, count, contents and order of faults. The reference is
recursive, and the library's induction rules cannot be instantiated here, so the induction
over the count is by a least counterexample (`LeastNumber`, from the well-foundedness of
the natural numbers): `ElementsExist` builds the function that `Elements` names, and
`ElementsAre` gives its two equations, the only facts about it that are used. The rest is
an ordinary invariant, `StringInv`, which holds the program against the reference also in
the middle of an element. `Course`: an element is begun only when one is left, and the
phases follow each other. `Registers`: they are the reference's after the elements moved,
and a register the element itself goes to is one ahead once it has been moved. `Port`:
INS has read one element more for each fault. `Memory`: it is the reference's outside the
element in hand, whose bytes written so far are in place, so that an element run again
writes what it wrote. `Ending`: no comparison before the last says that the instruction
is over. `Memory` is why the property has its exceptions: MOVS that is torn between two
bytes may read what it has written.

**PitProofs.** `SafetyWordsAreWhole` follows from what the flip-flops say about the histories:
what is left of the latch and what was read of it make the word (`Held`), and the byte that
waits is the first of the word being written (`Given`). `SafetyTicksFollowTime` needs the
`uint32_t` counter in a form that sums up: the difference of `pit_get_count` is
`Width * turn + count * lap + value`, and turn and lap only go down. A look that finds a
larger value has seen one of them change, so the interrupts of ticks are at most `Most`; a look that
comes soon enough after the last sees no two changes at once, and misses one only where a
turn ends inside a lap, so they are at least `Fewest`. `Timed` is that pair of bounds, and
`CountIs` and the lemmas on quotients carry it from look to look. `Once` is the bound on what control words add: the line they have
raised stays up until a tick (`OnceStays`).

**ClockProofs.** `SafetyNoEmptySlice`, `SafetyFlagsAreSignalled`, `SafetyLateByHaltOnly`,
`SafetyNeverFast`. Each timer has a lemma for its look and for the wait it asks for. The
invariant says what has been counted has had its time (`ApicPace`, `AcpiPace`, and `RtcPace`
for the last theorem), and `InTime`: a slice ends with the first count of the local APIC
timer at the latest, and only what HLT left of a slice takes the clock past it. `InTime` is
the strengthening `LateByHaltOnly` needs; `NoEmptySlice` needs that no timer but that one
asks for a wait of nothing, which for the 8254 is that a running count is not 0. For the
real-time clock a look may ring or not, and the lemmas hold for both (`Whys`, `Rated`,
`RtcWaits`); `StandStillKeeps` is the halt that leaves the clock alone.

**IdeProofs.** `SafetySlotHasOwner`, `SafetyWritesAsAsked`, `SafetyReadyIsSignalled`,
`SafetyNeverAborts`, `SafetySectorsInOrder`. They hold together or not at all. What a callback
does is right because the registers it reads again are those of the request; they are because
the channel was busy all the time; and it was because the request in the slot is its own. So
the invariant says how the registers of a channel stand to its command (`Agree`: how many
sectors they are past what is done, which sector the buffer has and in which state), how the
slot stands to its channel (`SlotAgrees`), what is between the sectors handed over and those
stored (`WritesAgree`: what the job of its own channel waits to store, `Gives`, whether or
not the slot still has the request), and that a guest which takes turns has one channel at
most that waits (`Turns`). For guests that use both channels at once only `Turns` says
nothing: an overwritten slot loses a request and corrupts none.

`RefinesDisks` (`ImplementsDisks`) is the refinement of `DiskContract`, from the same
invariant. `ShowsIt` says that in every state what a channel shows is what the contract's
disk holds; it needs `WritesAgree`, because a read shows what is stored and the contract
speaks of what was handed over, and the two differ only on the disk of a channel that
waits, which shows nothing then. There is one lemma for each step of the contract (`Begins`,
`Takes`, `Puts`, `TakesAll`, `PutsAll`, `StaysPut`) and one for each action that finds its
step: a command begins one because the last is over; a write whose block has to be loaded
is a `Put` now and its callback no step at all; a DMA read that waits is no step now and a
`TakeAll` in the callback. `Resets` needs what `AwaitedIsLatest` gives: what has been
handed over and not stored is no more than the last sector, or the one DMA command.

**TlbProofs.** `ListedAlways`: a page reachable without a walk is on the list
(`EveryEntryListed`), for every table and capacity. The invariant adds the list's shape.
The step that matters is the partial flush, which keeps the places of what it keeps.
`RightsAlways` (`RightsFollowTables`) rests on it: a flush empties what the list names, so
what survives a load of CR3 or a change of paging is what may. A walk grants what
the tables allow for the access it was made for, and the pairs of bits it sets ask for no
more (`GrantedIsPermitted`).

**CodeCacheProofs.** `MarkedAlways`: a cached trace lies in marked chunks (`CodeIsMarked`, which
no run checks: without it `NothingStale` would not hold).
It is inductive once a trace is known to lie in one page (`Kept`). `BelowKeeps` is the
argument that marks up to a chunk may be cleared: a trace that covers one of them begins at
or before it in the same page, so it has been dropped. `NeverStale` (`NothingStale`) adds
what a write leaves behind: a trace that covers a written byte begins in a chunk that the
write drops, or the writer is one that bypasses the check. `AlwaysFresh` (`RunsFresh`) adds
that while a trace runs, its slot holds the same trace or none (`RunKnown`), so what
happens to the slot happens to it.

The type invariants and `RequestsHavePins` are proved and need no run.

**Only model-checked.** Liveness (`Served`, `TopServed`, `Wakes`, `Answered`), which the
provers do not reach. `Instruction`: `FaultIsClean`, `AccessesCount`, `EndsWell`,
`RestartIsExact` and `SegmentsLast` are about the handlers as they are written, each a
list of steps; there is no argument that would hold for every program of that vocabulary,
so a proof would be the run's own enumeration of handlers, answers and faults. The
reference of `RestartIsExact`, `Undisturbed`, is a RECURSIVE operator besides.

## Plan

Done: the interrupt controllers, the loop, the disks, the APICs, the
timers with the clock, every instruction handler under page faults, string instructions,
translation, and the code cache; the contracts of the interrupt controllers and of the
disks; and the proofs of all safety properties and of both refinements outside
`Instruction`. Left, most useful first:

1. The floppy controller as third client of the slot, and the keyboard's queues against a
   FIFO of bytes.
2. Packet commands, the descriptor table and the register layouts of `Ide`.
3. Lazy flags and the adders of `arith.cpp` as functions against their definitions.

## Not modelled

- Keyboard controller: host input is the only thing that races there. Reading it showed
  that a queue that fills wraps to empty (`kbd.cpp:82`), and that the interrupt of a refill
  is chosen by the queue that waits.
- Floppy and 8237: contention for the slot is in `Ide` with two clients, what DMA does to
  decoded code in `CodeCache`. The floppy controller raises IRQ 6 and does not lower it
  (`fdc.cpp:165`).
- PCI: configuration registers without any effect but the memory map of the BIOS and the
  IDE base addresses; interrupts are not routed through it.
- Display: rendering. Image files, compression, configuration and start-up: input and
  output, sequential.
- Network card and state saving: never called by the running program.
- `softfloat.cpp` is a port of a library; the results of arithmetic, the lazy flags and the
  lanes of packed values are terms in the model. Decoder tables are data: which handler an
  opcode selects is not checked, what the handler does is.
- ATAPI packets, CHS and 48-bit layouts, calendar arithmetic and the time of day, with it when
  an alarm rings, the speaker port, the state hash a trace is looked up with, page fault
  codes and the A20 mask: data no property here depends on.
