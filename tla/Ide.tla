-------------------------------- MODULE Ide --------------------------------
(***************************************************************************)
(* The two ATA channels of src/ide.cpp and the disk drivers of             *)
(* src/drive.cpp below them.  Both channels share one completion slot      *)
(* (global_cb, transfer_in_progress): a request whose 256K block is not in *)
(* memory yet is answered by drive_check_complete, at the next pc_execute. *)
(*                                                                         *)
(* The guest follows the ATA protocol: it writes a task file and a command *)
(* while its channel is neither BSY nor DRQ, moves data only under DRQ and *)
(* keeps its addresses inside the disk.  A position is a sector number;    *)
(* the CHS and LBA layouts of the registers are left out.  The effective   *)
(* multiple_sectors_count is 1, so every PIO block is one sector.          *)
(***************************************************************************)
EXTENDS Integers, FiniteSets

CONSTANTS
  Disks,         \* the <<channel, drive>> pairs with a hard disk
  Chunked,       \* those on the "normal" driver; the others never wait
  NSectors,      \* sectors of a disk
  BlockSectors,  \* sectors of a block
  CountMod,      \* 256: the sector count register wraps, 0 means CountMod
  Guests         \* the guest's habits: the requests it makes on each channel,
                 \* whether it starts on one channel while the other waits
                 \* (overlaps) and whether it asks for DMA across blocks (spans)

VARIABLES
  guest,         \* which of Guests this is
  chan,          \* ide[0] and ide[1]
  pending,       \* transfer_in_progress
  slot,          \* global_cb, its argument and the argument's fields
  loaded,        \* per disk, the blocks with data # NULL
  written,       \* per disk, the sectors the guest's data has reached
  halted,        \* has an assertion stopped the program?
  job,           \* history: the data command in progress on each channel
  asked          \* history: the sectors the guest has handed data over for

vars == <<guest, chan, pending, slot, loaded, written, halted, job, asked>>

Chans == {0, 1}
Sectors == 0..NSectors - 1
BlockOf(s) == s \div BlockSectors

PioReads == {"read", "readMultiple"}
PioWrites == {"write", "writeMultiple"}
Dmas == {"readDma", "writeDma"}
Other == {"none", "identify", "recalibrate", "verify", "parameters", "flush",
          "powerMode", "setMultiple", "nativeMax", "unsupported"}
AllCommands == PioReads \cup PioWrites \cup Dmas \cup Other

\* What goes into the task file and the command register.
Request ==
  [op : AllCommands \ {"none"}, drive : {0, 1}, at : Sectors, count : 0..CountMod - 1]

ASSUME ConstantsOK ==
  /\ Disks \subseteq Chans \X {0, 1}
  /\ \A c \in Chans : <<c, 0>> \in Disks
  /\ Chunked \subseteq Disks
  /\ NSectors \in Nat /\ NSectors > 1
  /\ BlockSectors \in Nat \ {0}
  /\ CountMod \in Nat \ {0}
  /\ Guests \subseteq [requests : [Chans -> SUBSET Request], overlaps : BOOLEAN, spans : BOOLEAN]
  /\ \A g \in Guests : \A c \in Chans : \A q \in g.requests[c] :
       /\ <<c, q.drive>> \in Disks
       /\ q.at + (IF q.count = 0 THEN CountMod ELSE q.count) <= NSectors
       /\ ~(q.op = "verify" /\ q.count = 0)

Empty == [disk |-> <<0, 0>>, at |-> 0]

----------------------------------------------------------------------------
(* The disk drivers.                                                       *)

Disk(c, r) == <<c, r.selected>>

InMemory(d, s) == d \in Chunked => BlockOf(s) \in loaded[d]

\* Mutant: the first block of the disk is loaded, whichever is asked for.
DeferWrongBlock(kind, c, d, s) ==
  /\ pending' = TRUE
  /\ slot' = [kind |-> kind, chan |-> c, disk |-> d, at |-> s]
  /\ loaded' = [loaded EXCEPT ![d] = @ \cup {0}]

\* drive_internal_read, _write and _prefetch when the block is not there: they
\* load it, and leave the transfer itself to drive_check_complete.  Whatever
\* request the slot held is overwritten.
Defer(kind, c, d, s) ==
  /\ pending' = TRUE
  /\ slot' = [kind |-> kind, chan |-> c, disk |-> d, at |-> s]
  /\ loaded' = [loaded EXCEPT ![d] = @ \cup {BlockOf(s)}]

NoRequest == UNCHANGED <<pending, slot, loaded>>

\* Mutant: the callback only loads the block.
StoredNever(q) == written

\* drive_internal_write_cb writes the sector that drive_internal_write could not.
Stored(q) == IF q.kind = "write" THEN [written EXCEPT ![q.disk] = @ \cup {q.at}] ELSE written

\* Mutant: a reset leaves the request in the slot.
CancelNothing == UNCHANGED pending

\* drive_cancel_transfers, whoever's transfer it is.
Cancel == pending' = FALSE

----------------------------------------------------------------------------
(* Sector transfers of a channel, as functions of its record.              *)

SectorCount(r) == IF r.count = 0 THEN CountMod ELSE r.count

Advance(r) == [r EXCEPT !.lba = @ + 1, !.count = (@ - 1) % CountMod]

\* Mutant: no interrupt when a sector has arrived.
SectorReadSilently(r, d, s) ==
  [Advance(r) EXCEPT !.busy = FALSE, !.drq = TRUE, !.err = FALSE,
                     !.buffer = [disk |-> d, at |-> s], !.new = s \in written[d]]

\* ide_read_sectors_callback: sector s of disk d is in the buffer.
SectorRead(r, d, s) ==
  [Advance(r) EXCEPT !.busy = FALSE, !.drq = TRUE, !.err = FALSE, !.irq = TRUE,
                     !.buffer = [disk |-> d, at |-> s], !.new = s \in written[d]]

\* Mutants: BSY stays after a write; the last sector is never asked for.
SectorWrittenBusy(r) ==
  [Advance(r) EXCEPT !.drq = Advance(r).count # 0, !.err = FALSE]
SectorWrittenShort(r) ==
  [Advance(r) EXCEPT !.busy = FALSE, !.drq = Advance(r).count \notin {0, 1}, !.err = FALSE]

\* drive_write_callback: a sector is on the disk, the next one is asked for.
SectorWritten(r) ==
  [Advance(r) EXCEPT !.busy = FALSE, !.drq = Advance(r).count # 0, !.err = FALSE]

Wait(r) == [r EXCEPT !.busy = TRUE, !.drq = FALSE, !.err = FALSE]

\* ide_read_sectors.
ReadSectors(c, r) ==
  LET d == Disk(c, r)
  IN \/ /\ InMemory(d, r.lba)
        /\ chan' = [chan EXCEPT ![c] = SectorRead(r, d, r.lba)]
        /\ NoRequest
     \/ /\ ~InMemory(d, r.lba)
        /\ chan' = [chan EXCEPT ![c] = Wait(r)]
        /\ Defer("read", c, d, r.lba)

\* ide_abort_command.
Abort(r) == [r EXCEPT !.busy = FALSE, !.drq = FALSE, !.err = TRUE, !.irq = TRUE]

Done(r) == [r EXCEPT !.busy = FALSE, !.drq = FALSE, !.err = FALSE]

Interrupt(r) == [r EXCEPT !.irq = TRUE]

\* The channel after a DMA command: ide_set_sector_offset puts the position
\* behind the last sector.
Moved(r) == [Interrupt(Done(r)) EXCEPT !.lba = @ + SectorCount(r)]

\* The sectors that a DMA command covers.
Extent(r) == r.lba..r.lba + SectorCount(r) - 1

\* History: n sectors of the job are done, and the guest has not seen it yet;
\* n of them have been handed over, but their block is awaited.
Counted(j, n) == [j EXCEPT !.done = n, !.given = n, !.seen = FALSE]
Given(j, n) == [j EXCEPT !.given = n]

\* ide_read_dma_handler and ide_write_dma_handler move the sectors one by one
\* and abort the program when one is not in memory.
DmaTransfer(c, r) ==
  LET d == Disk(c, r)
  IN \/ /\ \A s \in Extent(r) : InMemory(d, s)
        /\ chan' = [chan EXCEPT ![c] = Moved(r)]
        /\ written' = IF r.command = "writeDma"
                      THEN [written EXCEPT ![d] = @ \cup Extent(r)] ELSE written
        /\ job' = [job EXCEPT ![c] = Counted(@, SectorCount(r))]
        /\ UNCHANGED halted
     \/ /\ \E s \in Extent(r) : ~InMemory(d, s)
        /\ halted' = TRUE
        /\ UNCHANGED <<chan, written, job>>

----------------------------------------------------------------------------
(* The guest gives a command: it loads 1F2-1F6 and writes 1F7.             *)

NoJob == [op |-> "none", disk |-> <<0, 0>>, start |-> 0, count |-> 0, done |-> 0,
          given |-> 0, seen |-> FALSE]

NewJob(c, r) ==
  [op |-> r.command, disk |-> Disk(c, r), start |-> r.lba, count |-> SectorCount(r),
   done |-> 0, given |-> 0, seen |-> FALSE]

\* Unless it overlaps, the guest's driver leaves a channel alone while the
\* other waits for the disk or is being reset.
MayUse(c) ==
  guest.overlaps \/ \A b \in Chans \ {c} : ~(pending /\ slot.chan = b) /\ ~chan[b].srst

Idle(r) == ~r.busy /\ ~r.drq /\ ~r.srst

\* The channel once the task file is loaded and the early part of the
\* command write (ide_lower_irq, the error bit) is over.
TaskFile(c, q) ==
  [chan[c] EXCEPT !.selected = q.drive, !.lba = q.at, !.count = q.count,
                  !.irq = FALSE, !.err = FALSE, !.command = q.op]

Quiet == UNCHANGED <<written, halted, asked>>

ReadPio(c, r) ==
  /\ r.command \in PioReads
  /\ r.command = "readMultiple" => r.multiple
  /\ ReadSectors(c, r)
  /\ job' = [job EXCEPT ![c] = NewJob(c, r)]
  /\ Quiet

\* ide_write_sectors: nothing moves until the guest has written a sector.
WritePio(c, r) ==
  /\ r.command \in PioWrites
  /\ r.command = "writeMultiple" => r.multiple
  /\ chan' = [chan EXCEPT ![c] = [r EXCEPT !.drq = TRUE]]
  /\ job' = [job EXCEPT ![c] = NewJob(c, r)]
  /\ NoRequest /\ Quiet

\* ide_read_dma and ide_write_dma: nothing moves until the bus master starts.
Dma(c, r) ==
  /\ r.command \in Dmas
  /\ guest.spans \/ \A s \in Extent(r) : BlockOf(s) = BlockOf(r.lba)
  /\ chan' = [chan EXCEPT ![c] = [r EXCEPT !.drq = TRUE]]
  /\ job' = [job EXCEPT ![c] = NewJob(c, r)]
  /\ NoRequest /\ Quiet

\* The commands that finish at once, by what they leave in the channel.  The
\* new geometry of "parameters" is left out, not that it selects the slave.
Outcome(r, n) ==
  CASE r.command = "identify"    -> [Interrupt(r) EXCEPT !.drq = TRUE, !.buffer = Empty, !.new = FALSE]
    [] r.command = "recalibrate" -> [Interrupt(r) EXCEPT !.lba = 0]
    [] r.command = "verify"      -> [Interrupt(r) EXCEPT !.lba = @ + n - 1]
    [] r.command = "parameters"  -> [Interrupt(r) EXCEPT !.selected = 1]
    [] r.command = "flush"       -> Interrupt(r)
    [] r.command = "powerMode"   -> [Interrupt(r) EXCEPT !.count = CountMod - 1]
    [] r.command = "setMultiple" -> IF n > 1 THEN Abort(r)
                                    ELSE [Interrupt(r) EXCEPT !.multiple = n = 1]
    [] r.command = "nativeMax"   -> [r EXCEPT !.lba = NSectors - 1]
    [] OTHER                     -> Abort(r)

NoMultiple(r) == r.command \in {"readMultiple", "writeMultiple"} /\ ~r.multiple

\* VERIFY writes ide->status, the first channel's, whichever it is given on.
Immediate(c, r) ==
  /\ r.command \in Other \/ NoMultiple(r)
  /\ chan' = [b \in Chans |->
                IF b = c THEN Outcome(r, r.count)
                ELSE IF b = 0 /\ r.command = "verify" THEN Done(chan[b]) ELSE chan[b]]
  /\ job' = [job EXCEPT ![c] = NoJob]
  /\ NoRequest /\ Quiet

Command(c, q) ==
  LET r == TaskFile(c, q)
  IN /\ Idle(chan[c]) /\ MayUse(c)
     /\ ReadPio(c, r) \/ WritePio(c, r) \/ Dma(c, r) \/ Immediate(c, r)

\* A command for a slave that is not there, or written under BSY, is not looked at.
SelectAbsent(c) ==
  /\ Idle(chan[c])
  /\ <<c, 1>> \notin Disks
  /\ chan' = [chan EXCEPT ![c].selected = 1]
  /\ NoRequest /\ Quiet /\ UNCHANGED job

CommandUnderBusy(c) ==
  /\ chan[c].busy
  /\ Disk(c, chan[c]) \in Disks
  /\ chan' = [chan EXCEPT ![c].irq = FALSE]
  /\ NoRequest /\ Quiet /\ UNCHANGED job

----------------------------------------------------------------------------
(* The guest moves data and reads status.                                  *)

\* The last byte of a sector is read: ide_pio_read_callback.
ReadData(c) ==
  LET r == [chan[c] EXCEPT !.drq = FALSE]
  IN /\ chan[c].drq /\ ~chan[c].srst
     /\ MayUse(c)
     /\ \/ /\ r.command \in PioReads /\ r.count # 0
           /\ ReadSectors(c, Interrupt(r))
        \/ /\ r.command \in PioReads /\ r.count = 0
           /\ chan' = [chan EXCEPT ![c] = Interrupt(r)]
           /\ NoRequest
        \/ /\ r.command = "identify"
           /\ chan' = [chan EXCEPT ![c] = r]
           /\ NoRequest
     /\ job' = [job EXCEPT ![c] =
                  IF r.command \in PioReads THEN Counted(@, @.done + 1) ELSE @]
     /\ Quiet

\* The last byte of a sector is written: ide_pio_write_callback.
WriteData(c) ==
  LET r == Interrupt(chan[c])
      d == Disk(c, r)
  IN /\ r.drq /\ ~r.srst /\ r.command \in PioWrites
     /\ MayUse(c)
     /\ asked' = [asked EXCEPT ![d] = @ \cup {r.lba}]
     /\ \/ /\ InMemory(d, r.lba)
           /\ written' = [written EXCEPT ![d] = @ \cup {r.lba}]
           /\ chan' = [chan EXCEPT ![c] = SectorWritten(r)]
           /\ job' = [job EXCEPT ![c] = Counted(@, @.done + 1)]
           /\ NoRequest
        \/ /\ ~InMemory(d, r.lba)
           /\ chan' = [chan EXCEPT ![c] = Wait(r)]
           /\ Defer("write", c, d, r.lba)
           /\ job' = [job EXCEPT ![c] = Given(@, @.done + 1)]
           /\ UNCHANGED written
     /\ UNCHANGED halted

\* ide_write_prdt, bit 0 set: the blocks are fetched, then all sectors moved.
\* drive_prefetch is given a number of sectors where it takes bytes, so only
\* the first sector's block is fetched.  The descriptor table in guest memory
\* describes as many bytes as the command.
StartDma(c) ==
  LET r == [chan[c] EXCEPT !.dma = TRUE]
      d == Disk(c, r)
  IN /\ r.drq /\ ~r.busy /\ ~r.srst /\ r.command \in Dmas
     /\ ~chan[c].dma
     /\ MayUse(c)
     /\ asked' = IF r.command = "writeDma" THEN [asked EXCEPT ![d] = @ \cup Extent(r)] ELSE asked
     /\ \/ InMemory(d, r.lba) /\ DmaTransfer(c, r) /\ NoRequest
        \/ /\ ~InMemory(d, r.lba)
           /\ chan' = [chan EXCEPT ![c] = [r EXCEPT !.busy = TRUE]]
           /\ Defer("prefetch", c, d, r.lba)
           /\ job' = [job EXCEPT ![c] =
                        IF r.command = "writeDma" THEN Given(@, SectorCount(r)) ELSE @]
           /\ UNCHANGED <<written, halted>>

StopDma(c) ==
  /\ chan[c].dma /\ ~chan[c].busy
  /\ chan' = [chan EXCEPT ![c].dma = FALSE]
  /\ NoRequest /\ Quiet /\ UNCHANGED job

\* Port 1F7 is read.
ReadStatus(c) ==
  /\ Disk(c, chan[c]) \in Disks \/ chan[c].srst
  /\ chan' = [chan EXCEPT ![c].irq = FALSE]
  /\ job' = [job EXCEPT ![c].seen = ~chan[c].busy]
  /\ NoRequest /\ Quiet

\* Port 3F6: software reset is set, then cleared.  Clearing it cancels the
\* transfer in progress, the other channel's included.
SetReset(c) ==
  /\ ~chan[c].srst /\ MayUse(c)
  /\ chan' = [chan EXCEPT ![c] = [@ EXCEPT !.srst = TRUE, !.busy = TRUE]]
  /\ NoRequest /\ Quiet /\ UNCHANGED job

ClearReset(c) ==
  /\ chan[c].srst
  /\ chan' = [chan EXCEPT ![c] =
       [@ EXCEPT !.srst = FALSE, !.busy = FALSE, !.drq = FALSE, !.err = FALSE,
                 !.selected = 0, !.lba = 1, !.count = 1 % CountMod]]
  /\ Cancel
  /\ job' = [job EXCEPT ![c] = NoJob]
  /\ asked' = [d \in Disks |-> IF d[1] = c THEN written[d] ELSE asked[d]]
  /\ UNCHANGED <<slot, loaded, written, halted>>

----------------------------------------------------------------------------
(* drive_check_complete.  The callback takes the sector from the request   *)
(* and everything else from the channel's registers of that moment.        *)

CheckComplete ==
  LET c == slot.chan
      r == chan[c]
  IN /\ pending
     /\ pending' = FALSE
     /\ \/ /\ slot.kind # "prefetch"
           /\ InMemory(slot.disk, slot.at)
           /\ chan' = [chan EXCEPT ![c] = IF slot.kind = "read"
                                          THEN SectorRead(r, slot.disk, slot.at)
                                          ELSE SectorWritten(r)]
           /\ written' = Stored(slot)
           /\ job' = [job EXCEPT ![c] =
                        Counted(@, IF slot.kind = "read" THEN @.done ELSE @.done + 1)]
           /\ UNCHANGED halted
        \/ /\ slot.kind # "prefetch"
           /\ ~InMemory(slot.disk, slot.at)      \* "We haven't loaded everything..?"
           /\ halted' = TRUE
           /\ UNCHANGED <<chan, written, job>>
        \/ /\ slot.kind = "prefetch"
           /\ DmaTransfer(c, r)
     /\ UNCHANGED <<slot, loaded, asked>>

----------------------------------------------------------------------------

\* lba and count are the task file; dma is bit 0 of dma_command; buffer is
\* what pio_buffer holds: a sector, and whether with the guest's data in it.
InitChannel ==
  [busy |-> FALSE, drq |-> FALSE, err |-> FALSE, srst |-> FALSE, irq |-> FALSE,
   command |-> "none", selected |-> 0, lba |-> 0, count |-> 0, multiple |-> FALSE,
   dma |-> FALSE, buffer |-> Empty, new |-> FALSE]

Init ==
  /\ guest \in Guests
  /\ chan = [c \in Chans |-> InitChannel]
  /\ pending = FALSE
  /\ slot = [kind |-> "read", chan |-> 0, disk |-> <<0, 0>>, at |-> 0]
  /\ loaded = [d \in Disks |-> {}]
  /\ written = [d \in Disks |-> {}]
  /\ halted = FALSE
  /\ job = [c \in Chans |-> NoJob]
  /\ asked = [d \in Disks |-> {}]

Guest(c) ==
  \/ \E q \in guest.requests[c] : Command(c, q)
  \/ SelectAbsent(c)
  \/ CommandUnderBusy(c)
  \/ ReadData(c)
  \/ WriteData(c)
  \/ StartDma(c)
  \/ StopDma(c)
  \/ ReadStatus(c)
  \/ SetReset(c)
  \/ ClearReset(c)

Next ==
  /\ ~halted
  /\ CheckComplete \/ \E c \in Chans : Guest(c)
  /\ UNCHANGED guest

Spec == Init /\ [][Next]_vars

\* pc_execute calls drive_check_complete every time round; a driver that has
\* begun a command or a reset goes on with it, and gets its turn.
GoOn(c) == ReadData(c) \/ WriteData(c) \/ StartDma(c) \/ StopDma(c) \/ ClearReset(c)
DriverFairness ==
  /\ WF_vars(~halted /\ CheckComplete /\ UNCHANGED guest)
  /\ \A c \in Chans : SF_vars(~halted /\ GoOn(c) /\ UNCHANGED guest)

FairSpec == Spec /\ DriverFairness

----------------------------------------------------------------------------
(* Properties *)

\* Every block a transfer needs is in memory when the transfer is made: the
\* program does not stop at "We haven't loaded everything..?", nor at the
\* check, in both DMA handlers, that drive_read and drive_write return 1.
NeverAborts == ~halted

\* The slot and the channel that waits belong together.  A request in the slot
\* keeps its channel busy, so the registers that the callback reads again are
\* those of the request; and, while the channels are used in turn, a busy
\* channel has a request in the slot, or it would be busy for good: no other
\* channel's request or reset takes the slot from it.
SlotHasOwner ==
  /\ pending => chan[slot.chan].busy
  /\ ~guest.overlaps =>
       \A c \in Chans : chan[c].busy /\ ~chan[c].srst => pending /\ slot.chan = c

\* Sectors come in order and with their present content: under DRQ the buffer
\* holds the sector after those already read, through waits, other commands
\* and the other channel's traffic; and a command that ends without an error
\* has moved all its sectors, for a count register of 0 too.
SectorsInOrder ==
  \A c \in Chans : LET r == chan[c] j == job[c] IN
    /\ j.op \in PioReads /\ r.drq /\ ~r.srst =>
         /\ r.buffer = [disk |-> j.disk, at |-> j.start + j.done]
         /\ r.new = (j.start + j.done \in written[j.disk])
    /\ j.op \in PioReads \cup PioWrites \cup Dmas /\ ~r.busy /\ ~r.drq /\ ~r.err =>
         j.done = j.count

\* No lost and no stray write.  The disk changes only where the guest has
\* handed data over; and, while the channels are used in turn, what it has
\* handed over is on the disk, or its write is in the slot.  (A reset of the
\* channel itself takes it back.)
WritesAsAsked ==
  \A d \in Disks :
    /\ written[d] \subseteq asked[d]
    /\ ~guest.overlaps /\ asked[d] \ written[d] # {} =>
         pending /\ slot.disk = d /\ slot.kind # "read"

\* While the channels are used in turn, a sector to read, or a finished DMA, is
\* signalled until the guest has read a status that shows it, even if a status
\* read came while it was awaited.
ReadyIsSignalled ==
  ~guest.overlaps => \A c \in Chans : LET r == chan[c] j == job[c] IN
    /\ ~r.busy /\ ~r.err /\ ~j.seen
    /\ (j.op \in PioReads /\ r.drq) \/ (j.op \in Dmas /\ ~r.drq)
    => r.irq

\* Every command and every reset of a guest that uses the channels in turn is
\* over at some point.
Answered ==
  \A c \in Chans : ~guest.overlaps /\ (chan[c].busy \/ chan[c].drq) ~>
                      ~(chan[c].busy \/ chan[c].drq)

=============================================================================
