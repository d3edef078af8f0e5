----------------------------- MODULE IdeProofs -----------------------------
(***************************************************************************)
(* Theorems about module Ide, for every set of disks, size of disk, block  *)
(* and count register, and for all guests that keep DMA inside a block and *)
(* give VERIFY on the first channel only: the one crossing a block stops   *)
(* the program (see ide_dma_spans.cfg), the other, on the second channel,  *)
(* takes BSY and DRQ from the first.                                       *)
(*                                                                         *)
(* The properties hold together or not at all.  What a callback does is    *)
(* right because the registers it reads again are those of the request,    *)
(* they are because the channel was busy all the time, and it was because  *)
(* the request in the slot is its own: so the invariant says how the       *)
(* registers of a channel stand to its command (Agree), how the slot       *)
(* stands to its channel (SlotAgrees), what is between the sectors handed  *)
(* over and those stored (WritesAgree: what the job of their channel waits *)
(* to store, Gives), and that a guest which takes turns has one channel at *)
(* most that waits (Turns).  The same invariant carries the refinement of  *)
(* DiskContract.                                                           *)
(***************************************************************************)
EXTENDS IdeRefinement, TLAPS

\* The guests the theorems are about.
WithinBlocks == \A g \in Guests : ~g.spans
VerifyFirst == \A g \in Guests : \A q \in g.requests[1] : q.op # "verify"

----------------------------------------------------------------------------
(* The invariant.                                                          *)

Moves == PioReads \cup PioWrites \cup Dmas
Numbers == 0 .. CountMod - 1

Channels ==
  [busy : BOOLEAN, drq : BOOLEAN, err : BOOLEAN, srst : BOOLEAN, irq : BOOLEAN,
   command : AllCommands, selected : {0, 1}, lba : Nat, count : Numbers,
   multiple : BOOLEAN, dma : BOOLEAN, buffer : [disk : Chans \X {0, 1}, at : Nat], new : BOOLEAN]
Jobs ==
  [op : AllCommands, disk : Chans \X {0, 1}, start : Nat, count : Nat, done : Nat,
   given : Nat, seen : BOOLEAN]

TypeOK ==
  /\ guest \in Guests /\ pending \in BOOLEAN
  /\ chan \in [Chans -> Channels] /\ job \in [Chans -> Jobs]
  /\ slot \in [kind : {"read", "write", "prefetch"}, chan : Chans, disk : Chans \X {0, 1}, at : Nat]
  /\ loaded \in [Disks -> SUBSET Nat]
  /\ written \in [Disks -> SUBSET Nat] /\ asked \in [Disks -> SUBSET Nat]

\* The registers of a channel stand k sectors after those its job has done.
At(c, r, j, k) ==
  /\ j.disk = <<c, r.selected>> /\ j.disk \in Disks
  /\ j.done < j.count /\ j.count <= CountMod
  /\ r.lba = j.start + j.done + k
  /\ r.count = (j.count - j.done - k) % CountMod

OneBlock(r) == \A s \in Extent(r) : BlockOf(s) = BlockOf(r.lba)

\* The sectors of job j that have been handed over and not stored.
Awaited(j) == j.start + j.done .. j.start + j.given - 1

\* Only a write that waits has been given more than it has done: a sector, or
\* all of them.
Gives(c, r, j) ==
  j.given # j.done =>
    /\ At(c, r, j, 0) /\ r.busy
    /\ \/ j.op \in PioWrites /\ j.given = j.done + 1 /\ ~r.drq
       \/ j.op = "writeDma" /\ j.given = j.count /\ j.done = 0

\* A channel's registers r and its job j, while the channel waits or not (w).
Agree(c, r, j, w, stored) ==
  /\ j.op # "none" => j.op \in Moves /\ r.command = j.op
  /\ r.drq => j.op # "none" \/ r.command = "identify"
  /\ r.busy /\ ~r.srst => j.op # "none" /\ (r.drq => j.op \in Dmas)
  /\ j.op \in PioReads /\ r.drq =>
       /\ At(c, r, j, 1)
       /\ r.buffer = [disk |-> j.disk, at |-> j.start + j.done]
       /\ r.new = (j.start + j.done \in stored[j.disk])
  /\ j.op \in PioWrites /\ r.drq => At(c, r, j, 0)
  /\ j.op \in Dmas /\ r.drq => At(c, r, j, 0) /\ j.done = 0 /\ OneBlock(r)
  /\ w => At(c, r, j, 0)
  /\ Gives(c, r, j)
  /\ j.op = "none" \/ (~r.busy /\ ~r.drq) => j.done = j.count
  /\ ~r.busy /\ ~j.seen /\ ((j.op \in PioReads /\ r.drq) \/ (j.op \in Dmas /\ ~r.drq)) => r.irq

Waits(c) ==
  \/ chan[c].busy /\ ~chan[c].drq /\ ~chan[c].srst
  \/ pending /\ slot.chan = c

ChannelsAgree == \A c \in Chans : Agree(c, chan[c], job[c], Waits(c), written)

\* The request in the slot is its channel's.
SlotAgrees ==
  pending => LET r == chan[slot.chan] j == job[slot.chan] IN
    /\ r.busy /\ slot.disk = <<slot.chan, r.selected>> /\ slot.at = r.lba
    /\ slot.disk \in Disks /\ InMemory(slot.disk, slot.at)
    /\ \/ slot.kind = "read" /\ j.op \in PioReads /\ ~r.drq
       \/ slot.kind = "write" /\ j.op \in PioWrites /\ ~r.drq /\ j.given = j.done + 1
       \/ /\ slot.kind = "prefetch" /\ j.op \in Dmas /\ r.drq
          /\ j.op = "writeDma" => j.given = j.count

\* What is handed over and not stored is what a job waits to store.
WritesAgree ==
  /\ \A d \in Disks :
       /\ written[d] \subseteq asked[d]
       /\ asked[d] # written[d] =>
            job[d[1]].disk = d /\ asked[d] \subseteq written[d] \cup Awaited(job[d[1]])
  /\ \A c \in Chans : job[c].given # job[c].done => Awaited(job[c]) \subseteq asked[job[c].disk]

\* A guest that does not overlap has one channel at most that waits or is
\* being reset.
Turns ==
  ~guest.overlaps => \A c \in Chans :
    /\ chan[c].busy /\ ~chan[c].srst => pending /\ slot.chan = c
    /\ job[c].given # job[c].done => pending /\ slot.chan = c
    /\ chan[c].srst => /\ pending => slot.chan = c
                       /\ \A b \in Chans \ {c} : ~chan[b].srst

Inv == TypeOK /\ ~halted /\ ChannelsAgree /\ SlotAgrees /\ WritesAgree /\ Turns

----------------------------------------------------------------------------
(* The count register.                                                     *)

\* A number below the modulus is itself, the modulus is nothing, and one less
\* than nothing is the largest.
LEMMA Wraps ==
  /\ CountMod \in Nat \ {0}
  /\ \A x \in 0 .. CountMod - 1 : x % CountMod = x
  /\ CountMod % CountMod = 0
  /\ (-1) % CountMod = CountMod - 1
  /\ \A x \in Int : x % CountMod \in Numbers
  <1>1. PICK m \in Nat \ {0} : m = CountMod
      BY ConstantsOK
  <1>2. ASSUME NEW x \in Int
        PROVE  /\ x \div m \in Int /\ x % m \in 0 .. m - 1
               /\ x = m * (x \div m) + (x % m)
      BY SMT
  <1>3. ASSUME NEW q \in Int
        PROVE  /\ q >= 1 => m * q >= m
               /\ q <= -1 => m * q <= -m
               /\ q >= 2 => m * q >= m + m
               /\ q <= -2 => m * q <= -m - m
      BY SMT
  <1>4. \A x \in 0 .. m - 1 : x % m = x
    <2> TAKE x \in 0 .. m - 1
    <2>1. PICK q \in Int, r \in 0 .. m - 1 : q = x \div m /\ r = x % m /\ x = m * q + r
        BY <1>2
    <2>2. m * q \in Int
        OBVIOUS
    <2>3. q = 0
        BY <1>3, <2>1, <2>2
    <2> QED BY <2>1, <2>3
  <1>5. m % m = 0
    <2>1. PICK q \in Int, r \in 0 .. m - 1 : q = m \div m /\ r = m % m /\ m = m * q + r
        BY <1>2
    <2>2. m * q \in Int
        OBVIOUS
    <2>3. q = 1
        BY <1>3, <2>1, <2>2
    <2> QED BY <2>1, <2>3
  <1>6. (-1) % m = m - 1
    <2>0. PICK x \in Int : x = -1
        OBVIOUS
    <2>1. PICK q \in Int, r \in 0 .. m - 1 : q = x \div m /\ r = x % m /\ x = m * q + r
        BY <1>2
    <2>2. m * q \in Int
        OBVIOUS
    <2>3. q = -1
        BY <1>3, <2>0, <2>1, <2>2
    <2>4. (-1) % m = r
        BY <2>0, <2>1
    <2>5. m * (-1) = -m
        OBVIOUS
    <2>6. r = m - 1
        BY <2>0, <2>1, <2>3, <2>5
    <2> QED BY <2>4, <2>6
  <1> QED BY <1>1, <1>2, <1>4, <1>5, <1>6 DEF Numbers

\* What the register shows of a number of sectors left, and after one more.
LEMMA Counts ==
  ASSUME NEW x \in 1 .. CountMod
  PROVE  /\ x % CountMod \in Numbers /\ (x - 1) % CountMod = x - 1
         /\ ((x % CountMod) - 1) % CountMod = x - 1
         /\ (IF x % CountMod = 0 THEN CountMod ELSE x % CountMod) = x
  <1>1. CASE x = CountMod
      BY <1>1, Wraps DEF Numbers
  <1>2. CASE x # CountMod
    <2>1. x \in 0 .. CountMod - 1 /\ x - 1 \in 0 .. CountMod - 1 /\ x # 0
        BY <1>2, Wraps
    <2> QED BY <2>1, Wraps DEF Numbers
  <1> QED BY <1>1, <1>2

----------------------------------------------------------------------------
(* What becomes of a channel.                                              *)

\* A job that has done one sector more.
OneMore(j) == Counted(j, j.done + 1)

\* A channel whose sector has been read.
Taken(r) == [r EXCEPT !.drq = FALSE]

\* A step of the registers and count of a channel as they stand.
LEMMA Advances ==
  ASSUME NEW c \in Chans, NEW r \in Channels, NEW j \in Jobs, At(c, r, j, 0)
  PROVE  /\ r.lba + 1 = j.start + j.done + 1 /\ r.lba + 1 \in Nat
         /\ (r.count - 1) % CountMod = (j.count - j.done - 1) % CountMod
         /\ (r.count - 1) % CountMod = j.count - j.done - 1
         /\ (r.count - 1) % CountMod \in Numbers
         /\ j.count - j.done \in 1 .. CountMod
  <1>1. /\ j.done \in Nat /\ j.count \in Nat /\ j.start \in Nat /\ CountMod \in Nat \ {0}
        /\ j.done < j.count /\ j.count <= CountMod /\ r.lba = j.start + j.done + 0
        /\ r.count = (j.count - j.done - 0) % CountMod
      BY Wraps DEF Jobs, At
  <1>2. PICK x \in 1 .. CountMod : x = j.count - j.done
      BY <1>1
  <1>3. r.count = x % CountMod
      BY <1>1, <1>2
  <1>4. x - 1 \in Numbers
      BY <1>1, <1>2 DEF Numbers
  <1>5. ((x % CountMod) - 1) % CountMod = x - 1 /\ (x - 1) % CountMod = x - 1
      BY Counts
  <1>6. x - 1 = j.count - j.done - 1
      BY <1>1, <1>2
  <1>7. (r.count - 1) % CountMod = x - 1
      BY <1>3, <1>5
  <1>8. r.lba + 1 = j.start + j.done + 1 /\ r.lba + 1 \in Nat
      BY <1>1
  <1> QED BY <1>2, <1>4, <1>5, <1>6, <1>7, <1>8

\* A sector arrives.
LEMMA Arrives ==
  ASSUME NEW c \in Chans, NEW r \in Channels, NEW j \in Jobs, j.op \in PioReads,
         r.command = j.op, At(c, r, j, 0), j.given = j.done, NEW q, q = SectorRead(r, j.disk, r.lba)
  PROVE  /\ q \in Channels /\ ~q.busy /\ q.srst = r.srst
         /\ Agree(c, q, j, FALSE, written)
  <1>1. PICK n \in Nat, m \in Numbers :
          /\ n = r.lba + 1 /\ m = (r.count - 1) % CountMod
          /\ n = j.start + j.done + 1 /\ m = (j.count - j.done - 1) % CountMod
    <2>1. /\ r.lba + 1 \in Nat /\ r.lba + 1 = j.start + j.done + 1
          /\ (r.count - 1) % CountMod = (j.count - j.done - 1) % CountMod
          /\ (r.count - 1) % CountMod \in Numbers
        BY Advances
    <2> QED BY <2>1
  <1>2. PICK b \in [disk : Chans \X {0, 1}, at : Nat] : b = [disk |-> j.disk, at |-> r.lba]
      BY DEF Channels, Jobs
  <1>3. PICK w \in BOOLEAN : w = (r.lba \in written[j.disk])
    <2>1. (r.lba \in written[j.disk]) \in BOOLEAN
        BY SMT
    <2> QED BY <2>1, Zenon
  <1>4. PICK f \in BOOLEAN, t \in BOOLEAN : ~f /\ t /\ f = FALSE /\ t = TRUE
      OBVIOUS
  <1>5. q = [r EXCEPT !.lba = n, !.count = m, !.busy = f, !.drq = t, !.err = f, !.irq = t,
                      !.buffer = b, !.new = w]
      BY <1>1, <1>2, <1>3, <1>4 DEF SectorRead, Advance
  <1>6. q \in Channels
      BY <1>5 DEF Channels
  <1>7. /\ q.lba = n /\ q.count = m /\ q.busy = f /\ q.drq = t /\ q.irq = t /\ q.buffer = b
        /\ q.new = w /\ q.srst = r.srst /\ q.selected = r.selected /\ q.command = r.command
      BY <1>5 DEF Channels
  <1>8. r.lba = j.start + j.done
      BY DEF At, Jobs, Channels
  <1>9. At(c, q, j, 1)
      BY <1>1, <1>7 DEF At
  <1>10. q.buffer = [disk |-> j.disk, at |-> j.start + j.done]
      BY <1>2, <1>7, <1>8
  <1>11. q.new = (j.start + j.done \in written[j.disk])
      BY <1>3, <1>7, <1>8
  <1>12. j.op # "none" /\ j.op \in Moves /\ j.op \notin PioWrites /\ j.op \notin Dmas
      BY DEF PioReads, PioWrites, Dmas, Moves
  <1> QED BY <1>4, <1>6, <1>7, <1>9, <1>10, <1>11, <1>12 DEF Agree, Gives

\* A channel begins to wait for a sector.
LEMMA BeginsToWait ==
  ASSUME NEW c \in Chans, NEW r \in Channels, NEW j \in Jobs, j.op \in PioReads \cup PioWrites,
         r.command = j.op, At(c, r, j, 0),
         j.given # j.done => j.op \in PioWrites /\ j.given = j.done + 1, NEW stored, NEW q, q = Wait(r)
  PROVE  /\ q \in Channels /\ q.busy /\ ~q.drq /\ q.srst = r.srst
         /\ q.lba = r.lba /\ q.selected = r.selected
         /\ Agree(c, q, j, TRUE, stored)
  <1>1. PICK f \in BOOLEAN, t \in BOOLEAN : ~f /\ t /\ f = FALSE /\ t = TRUE
      OBVIOUS
  <1>2. q = [r EXCEPT !.busy = t, !.drq = f, !.err = f]
      BY <1>1 DEF Wait
  <1>3. q \in Channels
      BY <1>2 DEF Channels
  <1>4. /\ q.lba = r.lba /\ q.count = r.count /\ q.busy = t /\ q.drq = f
        /\ q.srst = r.srst /\ q.selected = r.selected /\ q.command = r.command
      BY <1>2 DEF Channels
  <1>5. At(c, q, j, 0)
      BY <1>4 DEF At
  <1>6. j.op # "none" /\ j.op \in Moves /\ j.op \notin Dmas
      BY DEF PioReads, PioWrites, Dmas, Moves
  <1> QED BY <1>1, <1>3, <1>4, <1>5, <1>6 DEF Agree, Gives

\* A sector has been written, and the job has done one more.
LEMMA IsWritten ==
  ASSUME NEW c \in Chans, NEW r \in Channels, NEW j \in Jobs, j.op \in PioWrites,
         r.command = j.op, At(c, r, j, 0), NEW q, q = SectorWritten(r), NEW stored,
         NEW k, k = OneMore(j)
  PROVE  /\ q \in Channels /\ ~q.busy /\ q.srst = r.srst /\ k \in Jobs
         /\ Agree(c, q, k, FALSE, stored)
  <1>1. PICK n \in Nat, m \in Numbers :
          /\ n = r.lba + 1 /\ m = (r.count - 1) % CountMod
          /\ n = j.start + j.done + 1 /\ m = (j.count - j.done - 1) % CountMod
          /\ m = j.count - j.done - 1
      BY Advances
  <1>2. PICK f \in BOOLEAN : ~f /\ f = FALSE
      OBVIOUS
  <1>3. PICK w \in BOOLEAN : w = (m # 0)
      BY Zenon
  <1>4. q = [r EXCEPT !.lba = n, !.count = m, !.busy = f, !.drq = w, !.err = f]
    <2>1. Advance(r) = [r EXCEPT !.lba = n, !.count = m]
        BY <1>1 DEF Advance
    <2>2. Advance(r).count = m
        BY <2>1 DEF Channels
    <2> QED BY <1>2, <1>3, <2>1, <2>2 DEF SectorWritten
  <1>5. q \in Channels
      BY <1>4 DEF Channels
  <1>6. /\ q.lba = n /\ q.count = m /\ q.busy = f /\ q.drq = w
        /\ q.srst = r.srst /\ q.selected = r.selected /\ q.command = r.command
      BY <1>4 DEF Channels
  <1>7. /\ k \in Jobs /\ k.op = j.op /\ k.disk = j.disk /\ k.start = j.start /\ k.count = j.count
        /\ k.done = j.done + 1 /\ k.given = k.done
    <2>1. PICK e \in Nat : e = j.done + 1
        BY DEF Jobs
    <2>2. k = [j EXCEPT !.done = e, !.given = e, !.seen = f]
        BY <1>2, <2>1 DEF OneMore, Counted
    <2> QED BY <2>1, <2>2 DEF Jobs
  <1>8. j.op # "none" /\ j.op \in Moves /\ j.op \notin Dmas /\ j.op \notin PioReads
      BY DEF PioReads, PioWrites, Dmas, Moves
  <1>9. /\ j.done \in Nat /\ j.count \in Nat /\ j.start \in Nat /\ j.done < j.count
        /\ j.count <= CountMod /\ j.disk = <<c, r.selected>> /\ j.disk \in Disks
      BY DEF Jobs, At
  <1>10. CASE m # 0
    <2>1. j.done + 1 < j.count
        BY <1>1, <1>9, <1>10
    <2>2. n = j.start + (j.done + 1) + 0
        BY <1>1, <1>9
    <2>3. m = (j.count - (j.done + 1) - 0) % CountMod
      <3>1. j.count - (j.done + 1) - 0 = j.count - j.done - 1
          BY <1>9
      <3> QED BY <1>1, <3>1
    <2>4. At(c, q, k, 0)
        BY <1>6, <1>7, <1>9, <2>1, <2>2, <2>3 DEF At
    <2> QED BY <1>2, <1>3, <1>5, <1>6, <1>7, <1>8, <1>10, <2>4 DEF Agree, Gives
  <1>11. CASE m = 0
    <2>1. k.done = k.count
        BY <1>1, <1>7, <1>9, <1>11
    <2>2. ~w
        BY <1>3, <1>11
    <2> QED BY <1>2, <1>5, <1>6, <1>7, <1>8, <2>1, <2>2 DEF Agree, Gives
  <1> QED BY <1>10, <1>11

\* Registers that show the same position.
LEMMA SamePlace ==
  ASSUME NEW c, NEW r, NEW q, NEW j,
         q.lba = r.lba /\ q.count = r.count /\ q.selected = r.selected
  PROVE  /\ \A x \in {0, 1} : At(c, r, j, x) => At(c, q, j, x)
         /\ Extent(q) = Extent(r)
         /\ OneBlock(r) => OneBlock(q)
  <1>1. \A x \in {0, 1} : At(c, r, j, x) => At(c, q, j, x)
      BY Zenon DEF At
  <1>2. Extent(q) = Extent(r) /\ (OneBlock(r) => OneBlock(q))
      BY Zenon DEF Extent, SectorCount, OneBlock
  <1> QED BY <1>1, <1>2

\* What a channel asks for first: data to write, or the bus master.
LEMMA IsAsked ==
  ASSUME NEW c \in Chans, NEW q \in Channels, NEW j \in Jobs, j.op \in PioWrites \cup Dmas,
         q.command = j.op, At(c, q, j, 0), j.op \in Dmas => j.done = 0 /\ OneBlock(q),
         q.drq, q.busy => j.op \in Dmas,
         j.given # j.done => q.busy /\ j.op = "writeDma" /\ j.given = j.count, NEW w \in BOOLEAN, NEW stored
  PROVE  Agree(c, q, j, w, stored)
  <1>1. j.op # "none" /\ j.op \in Moves /\ j.op \notin PioReads
      BY DEF PioReads, PioWrites, Dmas, Moves
  <1>2. ~(j.op \in PioWrites /\ j.op \in Dmas)
      BY DEF PioWrites, Dmas
  <1> QED BY <1>1, <1>2 DEF Agree, Gives

\* The bus master has moved all the sectors.
LEMMA IsMoved ==
  ASSUME NEW c \in Chans, NEW r \in Channels, NEW j \in Jobs, j.op \in Dmas,
         r.command = j.op, At(c, r, j, 0), j.done = 0,
         NEW q, q = Moved(r), NEW k, k = Counted(j, SectorCount(r)), NEW stored
  PROVE  /\ q \in Channels /\ ~q.busy /\ q.srst = r.srst /\ k \in Jobs
         /\ Agree(c, q, k, FALSE, stored)
  <1>1. /\ j.count \in Nat /\ j.start \in Nat /\ r.lba \in Nat /\ CountMod \in Nat \ {0}
        /\ 0 < j.count /\ j.count <= CountMod /\ r.count = (j.count - 0 - 0) % CountMod
      BY Wraps DEF Jobs, At, Channels
  <1>2. PICK n \in 1 .. CountMod : n = j.count
      BY <1>1
  <1>3. SectorCount(r) = n
    <2>1. r.count = n % CountMod
        BY <1>1, <1>2
    <2> QED BY <2>1, Counts DEF SectorCount
  <1>4. PICK f \in BOOLEAN, t \in BOOLEAN : ~f /\ t /\ f = FALSE /\ t = TRUE
      OBVIOUS
  <1>5. PICK m \in Nat : m = r.lba + n
      BY <1>1
  <1>6. q = [r EXCEPT !.busy = f, !.drq = f, !.err = f, !.irq = t, !.lba = m]
      BY <1>3, <1>4, <1>5 DEF Moved, Done, Interrupt, Channels
  <1>7. q \in Channels
      BY <1>6 DEF Channels
  <1>8. /\ q.busy = f /\ q.drq = f /\ q.irq = t /\ q.srst = r.srst /\ q.command = r.command
      BY <1>6 DEF Channels
  <1>9. PICK i \in Nat : i = n
      BY <1>1
  <1>10. k = [j EXCEPT !.done = i, !.given = i, !.seen = f]
      BY <1>3, <1>4, <1>9 DEF Counted
  <1>11. k \in Jobs /\ k.op = j.op /\ k.count = j.count /\ k.done = i /\ k.given = i
      BY <1>10 DEF Jobs
  <1>12. j.op # "none" /\ j.op \in Moves /\ j.op \notin PioReads /\ j.op \notin PioWrites
      BY DEF PioReads, PioWrites, Dmas, Moves
  <1> QED BY <1>2, <1>4, <1>7, <1>8, <1>9, <1>11, <1>12 DEF Agree, Gives

\* A sector has been read from the buffer: the last one, or there are more.
LEMMA IsRead ==
  ASSUME NEW c \in Chans, NEW r \in Channels, NEW j \in Jobs, j.op \in PioReads,
         r.command = j.op, At(c, r, j, 1), ~r.busy,
         NEW q, q = Interrupt(Taken(r)),
         NEW k, k = OneMore(j), NEW stored
  PROVE  /\ q \in Channels /\ ~q.busy /\ q.srst = r.srst /\ k \in Jobs
         /\ q.selected = r.selected /\ q.command = k.op /\ k.op = j.op /\ k.disk = j.disk
         /\ q.lba = r.lba /\ k.given = k.done
         /\ r.count # 0 => At(c, q, k, 0)
         /\ r.count = 0 => Agree(c, q, k, FALSE, stored)
  <1>1. PICK f \in BOOLEAN, t \in BOOLEAN : ~f /\ t /\ f = FALSE /\ t = TRUE
      OBVIOUS
  <1>2. q = [r EXCEPT !.drq = f, !.irq = t]
      BY <1>1 DEF Interrupt, Taken
  <1>3. q \in Channels
      BY <1>2 DEF Channels
  <1>4. /\ q.lba = r.lba /\ q.count = r.count /\ q.busy = r.busy /\ q.drq = f /\ q.irq = t
        /\ q.srst = r.srst /\ q.selected = r.selected /\ q.command = r.command
      BY <1>2 DEF Channels
  <1>5. /\ k \in Jobs /\ k.op = j.op /\ k.disk = j.disk /\ k.start = j.start /\ k.count = j.count
        /\ k.done = j.done + 1 /\ k.given = k.done
    <2>1. PICK e \in Nat : e = j.done + 1
        BY DEF Jobs
    <2>2. k = [j EXCEPT !.done = e, !.given = e, !.seen = f]
        BY <1>1, <2>1 DEF OneMore, Counted
    <2> QED BY <2>1, <2>2 DEF Jobs
  <1>6. /\ j.done \in Nat /\ j.count \in Nat /\ j.start \in Nat /\ j.done < j.count
        /\ j.count <= CountMod /\ j.disk = <<c, r.selected>> /\ j.disk \in Disks
        /\ r.lba = j.start + j.done + 1 /\ CountMod \in Nat
      BY Wraps DEF Jobs, At
  <1>7. r.count = j.count - j.done - 1
    <2>1. PICK x \in 1 .. CountMod : x = j.count - j.done
        BY <1>6
    <2>2. r.count = (x - 1) % CountMod
        BY <2>1 DEF At
    <2> QED BY <2>1, <2>2, Counts
  <1>8. ASSUME r.count # 0
        PROVE  At(c, q, k, 0)
    <2>1. k.done < k.count
        BY <1>5, <1>6, <1>7, <1>8
    <2>2. q.lba = k.start + k.done + 0
        BY <1>4, <1>5, <1>6
    <2>3. q.count = (k.count - k.done - 0) % CountMod
      <3>1. PICK x \in 0 .. CountMod - 1 : x = k.count - k.done - 0
          BY <1>5, <1>6, <2>1
      <3>2. x = q.count
          BY <1>4, <1>5, <1>6, <1>7, <3>1
      <3> QED BY <3>1, <3>2, Wraps
    <2> QED BY <1>4, <1>5, <1>6, <2>1, <2>2, <2>3 DEF At
  <1>9. ASSUME r.count = 0
        PROVE  Agree(c, q, k, FALSE, stored)
    <2>1. k.done = k.count
        BY <1>5, <1>6, <1>7, <1>9
    <2>2. j.op # "none" /\ j.op \in Moves /\ j.op \notin Dmas /\ j.op \notin PioWrites
        BY DEF PioReads, PioWrites, Dmas, Moves
    <2> QED BY <1>1, <1>4, <1>5, <2>1, <2>2 DEF Agree, Gives
  <1> QED BY <1>3, <1>4, <1>5, <1>8, <1>9

\* The other channels: their disks stay as they are.
LEMMA FrameAgrees ==
  ASSUME NEW b, NEW r, NEW j, NEW w \in BOOLEAN, NEW stored, Agree(b, r, j, w, stored),
         NEW v \in BOOLEAN, v => w, NEW after,
         \A d \in Disks : d[1] = b => after[d] = stored[d]
  PROVE  Agree(b, r, j, v, after)
  <1>1. ASSUME At(b, r, j, 1)
        PROVE  after[j.disk] = stored[j.disk]
    <2>1. j.disk \in Disks /\ j.disk[1] = b
        BY <1>1 DEF At
    <2> QED BY <2>1
  <1> QED BY <1>1, Zenon DEF Agree

----------------------------------------------------------------------------
(* What becomes of the invariant when a channel has become another.  The   *)
(* same data X is handed over and stored, by the channel c that uses d.    *)

Becomes(c, q, k) ==
  /\ q \in Channels /\ k \in Jobs
  /\ chan' = [chan EXCEPT ![c] = q] /\ job' = [job EXCEPT ![c] = k]
  /\ guest' = guest /\ ~halted'

Grow(after, before, d, X) ==
  /\ after \in [Disks -> SUBSET Nat]
  /\ \A e \in Disks : after[e] = IF e = d THEN before[e] \cup X ELSE before[e]

LEMMA Untouched ==
  ASSUME TypeOK, NEW c \in Chans, NEW q, NEW k, Becomes(c, q, k)
  PROVE  /\ chan' \in [Chans -> Channels] /\ job' \in [Chans -> Jobs] /\ guest' \in Guests
         /\ chan'[c] = q /\ job'[c] = k
         /\ \A b \in Chans \ {c} : chan'[b] = chan[b] /\ job'[b] = job[b]
  BY DEF TypeOK, Becomes

LEMMA Unchanged ==
  ASSUME NEW d \in Disks, NEW f \in [Disks -> SUBSET Nat]
  PROVE  Grow(f, f, d, {})
  <1>1. \A e \in Disks : f[e] \cup {} = f[e]
      OBVIOUS
  <1> QED BY <1>1 DEF Grow

LEMMA Grown ==
  ASSUME NEW d \in Disks, NEW X \in SUBSET Nat, NEW f \in [Disks -> SUBSET Nat]
  PROVE  Grow([f EXCEPT ![d] = @ \cup X], f, d, X)
  <1>1. f[d] \cup X \in SUBSET Nat
      OBVIOUS
  <1>2. [f EXCEPT ![d] = @ \cup X] \in [Disks -> SUBSET Nat]
      BY <1>1
  <1> QED BY <1>2 DEF Grow

\* A job awaits sectors, or none.
LEMMA AwaitedIsNat ==
  ASSUME NEW j \in Jobs
  PROVE  Awaited(j) \in SUBSET Nat /\ (j.given = j.done => Awaited(j) = {})
  <1>1. PICK a \in Nat, n \in Nat, m \in Nat : a = j.start /\ n = j.done /\ m = j.given
      BY DEF Jobs
  <1>2. Awaited(j) = a + n .. a + m - 1
      BY <1>1 DEF Awaited
  <1> QED BY <1>1, <1>2

\* A channel that is not busy has stored all that was handed over to it.
LEMMA AllStored ==
  ASSUME Inv, NEW c \in Chans, ~chan[c].busy
  PROVE  /\ job[c].given = job[c].done
         /\ \A e \in Disks : e[1] = c => asked[e] = written[e]
  <1>1. job[c].given = job[c].done /\ job[c] \in Jobs
      BY DEF Inv, TypeOK, ChannelsAgree, Agree, Gives
  <1>2. Awaited(job[c]) = {}
      BY <1>1, AwaitedIsNat
  <1>3. ASSUME NEW e \in Disks, e[1] = c
        PROVE  asked[e] = written[e]
      BY <1>2, <1>3 DEF Inv, WritesAgree
  <1> QED BY <1>1, <1>3

\* What a job waits to store is on a disk of its channel.
LEMMA AwaitedOnDisk ==
  ASSUME Inv, NEW b \in Chans, job[b].given # job[b].done
  PROVE  /\ job[b].disk \in Disks /\ job[b].disk[1] = b
         /\ Awaited(job[b]) \subseteq asked[job[b].disk]
  <1>1. job[b].disk = <<b, chan[b].selected>> /\ job[b].disk \in Disks
      BY DEF Inv, ChannelsAgree, Agree, Gives, At
  <1> QED BY <1>1 DEF Inv, WritesAgree

\* Sectors are handed over that cannot be stored yet.
LEMMA HandsOver ==
  ASSUME NEW j \in Jobs, NEW n \in Nat, NEW k, k = Given(j, n)
  PROVE  /\ k \in Jobs /\ k.op = j.op /\ k.disk = j.disk /\ k.start = j.start
         /\ k.count = j.count /\ k.done = j.done /\ k.given = n
         /\ \A c, r : At(c, r, j, 0) => At(c, r, k, 0)
  <1>1. /\ k \in Jobs /\ k.op = j.op /\ k.disk = j.disk /\ k.start = j.start
        /\ k.count = j.count /\ k.done = j.done /\ k.given = n
      BY DEF Given, Jobs
  <1>2. \A c, r : At(c, r, j, 0) => At(c, r, k, 0)
      BY <1>1, Zenon DEF At
  <1> QED BY <1>1, <1>2

\* A command that has moved nothing covers all its sectors.
LEMMA CoversAll ==
  ASSUME NEW c \in Chans, NEW r \in Channels, NEW j \in Jobs, At(c, r, j, 0), j.done = 0
  PROVE  SectorCount(r) = j.count /\ Extent(r) = j.start .. j.start + j.count - 1
  <1>1. /\ j.count \in Nat /\ j.start \in Nat /\ r.lba \in Nat /\ CountMod \in Nat \ {0}
        /\ 0 < j.count /\ j.count <= CountMod /\ r.count = (j.count - 0 - 0) % CountMod
        /\ r.lba = j.start + 0 + 0
      BY Wraps DEF Jobs, At, Channels
  <1>2. PICK n \in 1 .. CountMod : n = j.count
      BY <1>1
  <1>3. SectorCount(r) = n
    <2>1. r.count = n % CountMod
        BY <1>1, <1>2
    <2> QED BY <2>1, Counts DEF SectorCount
  <1> QED BY <1>1, <1>2, <1>3 DEF Extent

\* A channel that does not wait acts, and has not to wait.
LEMMA ActKeeps ==
  ASSUME Inv, NEW c \in Chans, NEW q, NEW k, Becomes(c, q, k),
         NEW d \in Disks, d[1] = c, NEW X \in SUBSET Nat,
         ~chan[c].busy, ~q.busy, q.srst = chan[c].srst, Agree(c, q, k, FALSE, written'),
         Grow(written', written, d, X), Grow(asked', asked, d, X), NoRequest
  PROVE  Inv'
  <1>1. /\ TypeOK /\ ChannelsAgree /\ SlotAgrees /\ WritesAgree /\ Turns
        /\ pending' = pending /\ slot' = slot /\ loaded' = loaded /\ guest' = guest
        /\ chan'[c] = q /\ job'[c] = k
        /\ \A b \in Chans \ {c} : chan'[b] = chan[b] /\ job'[b] = job[b]
      BY Untouched DEF Inv, NoRequest, Becomes
  <1>2. TypeOK' /\ ~halted'
      BY <1>1, Untouched DEF TypeOK, Grow, Becomes
  <1>3. pending => slot.chan # c /\ slot.chan \in Chans \ {c} /\ slot.disk # d /\ slot.disk \in Disks
      BY <1>1 DEF SlotAgrees, TypeOK
  <1>4. ChannelsAgree'
    <2> SUFFICES ASSUME NEW b \in Chans
                 PROVE  Agree(b, chan'[b], job'[b], Waits(b)', written')
        BY DEF ChannelsAgree
    <2>1. CASE b = c
      <3>1. Waits(c)' = FALSE
          BY <1>1, <1>3, Zenon DEF Waits
      <3> QED BY <1>1, <2>1, <3>1, Zenon
    <2>2. CASE b # c
      <3>1. Waits(b)' = Waits(b) /\ Waits(b) \in BOOLEAN
          BY <1>1, <2>2, Zenon DEF Waits
      <3>2. \A e \in Disks : e[1] = b => written'[e] = written[e]
          BY <2>2 DEF Grow
      <3>3. Agree(b, chan[b], job[b], Waits(b), written)
          BY <1>1 DEF ChannelsAgree
      <3>4. Agree(b, chan[b], job[b], Waits(b), written')
          BY <3>1, <3>2, <3>3, FrameAgrees
      <3> QED BY <1>1, <2>2, <3>1, <3>4, Zenon
    <2> QED BY <2>1, <2>2
  <1>5. \A e \in Disks : asked[e] \subseteq asked'[e]
      BY DEF Grow
  <1>6. SlotAgrees'
    <2> SUFFICES ASSUME pending
                 PROVE  SlotAgrees'
        BY <1>1 DEF SlotAgrees
    <2>1. chan'[slot.chan] = chan[slot.chan] /\ job'[slot.chan] = job[slot.chan]
        BY <1>1, <1>3
    <2>2. asked[slot.disk] \subseteq asked'[slot.disk]
        BY <1>3, <1>5
    <2>3. InMemory(slot.disk, slot.at)' = InMemory(slot.disk, slot.at)
        BY <1>1, Zenon DEF InMemory
    <2>4. Extent(chan[slot.chan])' = Extent(chan[slot.chan])
        BY <1>1, <2>1, Zenon DEF Extent, SectorCount
    <2> QED BY <1>1, <2>1, <2>2, <2>3, <2>4 DEF SlotAgrees
  <1>7. k.given = k.done
      BY DEF Agree, Gives
  <1>8. WritesAgree'
    <2>1. ASSUME NEW e \in Disks
          PROVE  /\ written'[e] \subseteq asked'[e]
                 /\ asked'[e] # written'[e] =>
                      /\ job'[e[1]].disk = e
                      /\ asked'[e] \subseteq written'[e] \cup Awaited(job'[e[1]])
      <3>1. /\ written'[e] = IF e = d THEN written[e] \cup X ELSE written[e]
            /\ asked'[e] = IF e = d THEN asked[e] \cup X ELSE asked[e]
          BY DEF Grow
      <3>2. CASE e[1] = c
          BY <3>1, <3>2, AllStored
      <3>3. CASE e[1] # c
        <4>1. e[1] \in Chans \ {c} /\ e # d
            BY <3>3, ConstantsOK
        <4>2. job'[e[1]] = job[e[1]]
            BY <1>1, <4>1
        <4> QED BY <1>1, <3>1, <4>1, <4>2 DEF WritesAgree
      <3> QED BY <3>2, <3>3
    <2>2. ASSUME NEW b \in Chans, job'[b].given # job'[b].done
          PROVE  Awaited(job'[b]) \subseteq asked'[job'[b].disk]
      <3>1. b \in Chans \ {c} /\ job'[b] = job[b]
          BY <1>1, <1>7, <2>2
      <3>2. job[b].disk \in Disks /\ Awaited(job[b]) \subseteq asked[job[b].disk]
          BY <2>2, <3>1, AwaitedOnDisk
      <3> QED BY <1>5, <3>1, <3>2
    <2> QED BY <2>1, <2>2 DEF WritesAgree
  <1>9. Turns'
      BY <1>1, <1>7 DEF Turns
  <1> QED BY <1>2, <1>4, <1>6, <1>8, <1>9 DEF Inv

\* A channel that does not wait begins to, its request in the slot.
LEMMA DeferKeeps ==
  ASSUME Inv, NEW c \in Chans, NEW q, NEW k, Becomes(c, q, k),
         NEW d \in Disks, d = <<c, q.selected>>, NEW s \in Nat, s = q.lba, NEW X \in SUBSET Nat,
         NEW kind \in {"read", "write", "prefetch"}, Defer(kind, c, d, s),
         ~chan[c].busy, MayUse(c), q.busy, ~q.srst, Agree(c, q, k, TRUE, written),
         Grow(asked', asked, d, X), written' = written,
         X = Awaited(k),
         \/ kind = "read" /\ k.op \in PioReads /\ ~q.drq
         \/ kind = "write" /\ k.op \in PioWrites /\ ~q.drq /\ k.given = k.done + 1
         \/ /\ kind = "prefetch" /\ k.op \in Dmas /\ q.drq
            /\ k.op = "writeDma" => k.given = k.count
  PROVE  Inv'
  <1>1. /\ TypeOK /\ ChannelsAgree /\ SlotAgrees /\ WritesAgree /\ Turns
        /\ pending' = TRUE /\ slot' = [kind |-> kind, chan |-> c, disk |-> d, at |-> s]
        /\ loaded' = [loaded EXCEPT ![d] = @ \cup {BlockOf(s)}] /\ guest' = guest
        /\ chan'[c] = q /\ job'[c] = k
        /\ \A b \in Chans \ {c} : chan'[b] = chan[b] /\ job'[b] = job[b]
      BY Untouched DEF Inv, Defer, Becomes
  <1>2. slot'.kind = kind /\ slot'.chan = c /\ slot'.disk = d /\ slot'.at = s
      BY <1>1
  <1>3. ~guest.overlaps => ~pending /\ \A b \in Chans \ {c} : ~chan[b].srst
      BY <1>1 DEF MayUse, SlotAgrees, TypeOK
  <1>4. TypeOK' /\ ~halted'
    <2>1. loaded' \in [Disks -> SUBSET Nat]
      <3>1. BlockOf(s) \in Nat
          BY ConstantsOK DEF BlockOf
      <3>2. loaded[d] \cup {BlockOf(s)} \in SUBSET Nat
          BY <1>1, <3>1 DEF TypeOK
      <3> QED BY <1>1, <3>2 DEF TypeOK
    <2>2. d \in Chans \X {0, 1}
        BY ConstantsOK
    <2>3. slot' \in [kind : {"read", "write", "prefetch"}, chan : Chans,
                     disk : Chans \X {0, 1}, at : Nat]
        BY <1>1, <2>2
    <2> QED BY <1>1, <2>1, <2>3, Untouched DEF TypeOK, Grow, Becomes
  <1>5. ChannelsAgree'
    <2> SUFFICES ASSUME NEW b \in Chans
                 PROVE  Agree(b, chan'[b], job'[b], Waits(b)', written')
        BY DEF ChannelsAgree
    <2>1. CASE b = c
      <3>1. Waits(c)' = TRUE
          BY <1>1, <1>2, Zenon DEF Waits
      <3> QED BY <1>1, <2>1, <3>1, Zenon
    <2>2. CASE b # c
      <3>1. Waits(b) \in BOOLEAN /\ Waits(b)' \in BOOLEAN
          BY DEF Waits
      <3>2. Waits(b)' => Waits(b)
          BY <1>1, <1>2, <2>2, Zenon DEF Waits
      <3>3. Agree(b, chan[b], job[b], Waits(b), written)
          BY <1>1 DEF ChannelsAgree
      <3>4. Agree(b, chan[b], job[b], Waits(b)', written)
        <4>1. PICK v \in BOOLEAN, w \in BOOLEAN : v = Waits(b)' /\ w = Waits(b)
            BY <3>1
        <4> HIDE DEF Waits
        <4>2. Agree(b, chan[b], job[b], w, written) /\ (v => w)
            BY <3>2, <3>3, <4>1
        <4>3. Agree(b, chan[b], job[b], v, written)
            BY <4>2, FrameAgrees
        <4> QED BY <4>1, <4>3
      <3> QED BY <1>1, <2>2, <3>4, Zenon
    <2> QED BY <2>1, <2>2
  <1>6. \A e \in Disks : asked'[e] = IF e = d THEN asked[e] \cup X ELSE asked[e]
      BY DEF Grow
  <1>7. SlotAgrees'
    <2>1. InMemory(slot.disk, slot.at)'
      <3>1. BlockOf(s) \in loaded'[d]
          BY <1>1 DEF TypeOK
      <3> QED BY <1>2, <3>1, Zenon DEF InMemory, BlockOf
    <2> QED BY <1>1, <1>2, <2>1 DEF SlotAgrees
  <1>8. k.disk = d
      BY DEF Agree, At
  <1>9. WritesAgree'
    <2>1. ASSUME NEW e \in Disks
          PROVE  /\ written[e] \subseteq asked'[e]
                 /\ asked'[e] # written[e] =>
                      /\ job'[e[1]].disk = e
                      /\ asked'[e] \subseteq written[e] \cup Awaited(job'[e[1]])
      <3>1. CASE e[1] = c
        <4>1. asked[e] = written[e] /\ job'[e[1]] = k
            BY <1>1, <3>1, AllStored
        <4> QED BY <1>6, <1>8, <4>1
      <3>2. CASE e[1] # c
        <4>1. e[1] \in Chans \ {c} /\ e # d
            BY <3>2, ConstantsOK
        <4>2. job'[e[1]] = job[e[1]]
            BY <1>1, <4>1
        <4> QED BY <1>1, <1>6, <4>1, <4>2 DEF WritesAgree
      <3> QED BY <3>1, <3>2
    <2>2. ASSUME NEW b \in Chans, job'[b].given # job'[b].done
          PROVE  Awaited(job'[b]) \subseteq asked'[job'[b].disk]
      <3>1. CASE b = c
          BY <1>1, <1>6, <1>8, <3>1
      <3>2. CASE b # c
        <4>1. job'[b] = job[b]
            BY <1>1, <3>2
        <4>2. job[b].disk \in Disks /\ Awaited(job[b]) \subseteq asked[job[b].disk]
            BY <2>2, <4>1, AwaitedOnDisk
        <4> QED BY <1>6, <4>1, <4>2
      <3> QED BY <3>1, <3>2
    <2> QED BY <2>1, <2>2 DEF WritesAgree
  <1>10. Turns'
      BY <1>1, <1>2, <1>3 DEF Turns
  <1> QED BY <1>4, <1>5, <1>7, <1>9, <1>10 DEF Inv

\* A channel whose interrupt is taken back, by a read of the status which
\* shows the guest what there is, or while it is busy.
LEMMA TouchKeeps ==
  ASSUME Inv, NEW c \in Chans, NEW q, NEW k, Becomes(c, q, k),
         q = [chan[c] EXCEPT !.irq = FALSE],
         NEW n \in BOOLEAN, k = [job[c] EXCEPT !.seen = n], chan[c].busy \/ n,
         NoRequest, Quiet
  PROVE  Inv'
  <1>1. /\ TypeOK /\ ChannelsAgree /\ SlotAgrees /\ WritesAgree /\ Turns
        /\ pending' = pending /\ slot' = slot /\ loaded' = loaded /\ guest' = guest
        /\ written' = written /\ asked' = asked /\ chan'[c] = q /\ job'[c] = k
        /\ \A b \in Chans \ {c} : chan'[b] = chan[b] /\ job'[b] = job[b]
      BY Untouched DEF Inv, NoRequest, Quiet, Becomes
  <1>2. /\ q.busy = chan[c].busy /\ q.drq = chan[c].drq /\ q.srst = chan[c].srst
        /\ q.command = chan[c].command /\ q.selected = chan[c].selected /\ q.lba = chan[c].lba
        /\ q.count = chan[c].count /\ q.buffer = chan[c].buffer /\ q.new = chan[c].new
        /\ k.op = job[c].op /\ k.disk = job[c].disk /\ k.start = job[c].start
        /\ k.count = job[c].count /\ k.done = job[c].done
        /\ k.given = job[c].given /\ k.seen = n
      BY <1>1 DEF TypeOK, Channels, Jobs
  <1>3. TypeOK' /\ ~halted'
      BY <1>1, Untouched DEF TypeOK, Becomes
  <1>4. ChannelsAgree'
    <2> SUFFICES ASSUME NEW b \in Chans
                 PROVE  Agree(b, chan'[b], job'[b], Waits(b)', written')
        BY DEF ChannelsAgree
    <2>1. Waits(b)' = Waits(b)
        BY <1>1, <1>2, Zenon DEF Waits
    <2>2. Agree(b, chan[b], job[b], Waits(b), written)
        BY <1>1 DEF ChannelsAgree
    <2>3. CASE b = c
      <3>1. \A x \in {0, 1} : At(c, chan[c], job[c], x) => At(c, q, k, x)
          BY <1>2, Zenon DEF At
      <3>2. OneBlock(chan[c]) => OneBlock(q)
          BY <1>2, Zenon DEF OneBlock, Extent, SectorCount
      <3>3. Agree(c, q, k, Waits(c), written)
          BY <1>2, <2>2, <2>3, <3>1, <3>2 DEF Agree, Gives
      <3> QED BY <1>1, <2>1, <2>3, <3>3, Zenon
    <2>4. CASE b # c
        BY <1>1, <2>1, <2>2, <2>4, Zenon
    <2> QED BY <2>3, <2>4
  <1>5. \A b \in Chans :
          /\ chan'[b].busy = chan[b].busy /\ chan'[b].drq = chan[b].drq
          /\ chan'[b].srst = chan[b].srst /\ chan'[b].selected = chan[b].selected
          /\ chan'[b].lba = chan[b].lba /\ job'[b].op = job[b].op
    <2> TAKE b \in Chans
    <2>1. CASE b = c
        BY <1>1, <1>2, <2>1, Zenon
    <2>2. CASE b # c
        BY <1>1, <2>2, Zenon
    <2> QED BY <2>1, <2>2, Zenon
  <1>6. \A b \in Chans :
          /\ job'[b].disk = job[b].disk /\ Awaited(job'[b]) = Awaited(job[b])
          /\ job'[b].given = job[b].given /\ job'[b].done = job[b].done
          /\ job'[b].count = job[b].count
    <2>1. Awaited(k) = Awaited(job[c])
        BY <1>2, Zenon DEF Awaited
    <2> TAKE b \in Chans
    <2>2. CASE b = c
        BY <1>1, <1>2, <2>1, <2>2, Zenon
    <2>3. CASE b # c
        BY <1>1, <2>3, Zenon
    <2> QED BY <2>2, <2>3, Zenon
  <1>7. SlotAgrees'
    <2>1. InMemory(slot.disk, slot.at)' = InMemory(slot.disk, slot.at)
        BY <1>1, Zenon DEF InMemory
    <2> SUFFICES ASSUME pending
                 PROVE  SlotAgrees'
        BY <1>1 DEF SlotAgrees
    <2>2. PICK b \in Chans : b = slot.chan
        BY <1>1 DEF TypeOK
    <2> QED BY <1>1, <1>5, <1>6, <2>1, <2>2 DEF SlotAgrees
  <1>8. WritesAgree'
    <2>1. \A d \in Disks : d[1] \in Chans
        BY ConstantsOK
    <2> QED BY <1>1, <1>6, <2>1 DEF WritesAgree
  <1>9. Turns'
      BY <1>1, <1>5, <1>6 DEF Turns
  <1> QED BY <1>3, <1>4, <1>7, <1>8, <1>9 DEF Inv

\* A channel is reset: it is busy until the reset is over.
LEMMA SetResetKeeps ==
  ASSUME Inv, NEW c \in Chans, SetReset(c), ~halted', guest' = guest
  PROVE  Inv'
  <1>1. PICK t \in BOOLEAN : t /\ t = TRUE
      OBVIOUS
  <1>2. PICK q : q = [chan[c] EXCEPT !.srst = t, !.busy = t]
      OBVIOUS
  <1>3. /\ chan' = [chan EXCEPT ![c] = q] /\ job' = [job EXCEPT ![c] = job[c]]
        /\ q \in Channels /\ MayUse(c)
        /\ q.busy = t /\ q.srst = t /\ q.drq = chan[c].drq
        /\ q.command = chan[c].command /\ q.selected = chan[c].selected /\ q.lba = chan[c].lba
        /\ q.count = chan[c].count /\ q.buffer = chan[c].buffer /\ q.new = chan[c].new
    <2>1. chan[c] \in Channels /\ job \in [Chans -> Jobs] /\ job' = job
        BY DEF Inv, TypeOK, SetReset
    <2>2. q \in Channels
        BY <1>2, <2>1 DEF Channels
    <2> QED BY <1>1, <1>2, <2>1, <2>2 DEF Channels, SetReset
  <1>4. /\ TypeOK /\ ChannelsAgree /\ SlotAgrees /\ WritesAgree /\ Turns
        /\ pending' = pending /\ slot' = slot /\ loaded' = loaded
        /\ written' = written /\ asked' = asked /\ chan'[c] = q /\ job' = job
        /\ \A b \in Chans \ {c} : chan'[b] = chan[b]
      BY <1>3 DEF Inv, SetReset, NoRequest, Quiet, TypeOK
  <1>5. TypeOK' /\ ~halted'
      BY <1>3, <1>4 DEF TypeOK
  <1>6. ChannelsAgree'
    <2> SUFFICES ASSUME NEW b \in Chans
                 PROVE  Agree(b, chan'[b], job'[b], Waits(b)', written')
        BY DEF ChannelsAgree
    <2>2. Agree(b, chan[b], job[b], Waits(b), written)
        BY <1>4 DEF ChannelsAgree
    <2>3. CASE b = c
      <3>1. \A x \in {0, 1} : At(c, chan[c], job[c], x) => At(c, q, job[c], x)
          BY <1>3, Zenon DEF At
      <3>2. OneBlock(chan[c]) => OneBlock(q)
          BY <1>3, Zenon DEF OneBlock, Extent, SectorCount
      <3>3. Waits(c)' => Waits(c)
          BY <1>1, <1>3, <1>4, Zenon DEF Waits
      <3>4. Agree(c, q, job[c], Waits(c)', written)
          BY <1>1, <1>3, <2>2, <2>3, <3>1, <3>2, <3>3 DEF Agree, Gives
      <3> QED BY <1>4, <2>3, <3>4, Zenon
    <2>4. CASE b # c
      <3>1. Waits(b)' = Waits(b)
          BY <1>4, <2>4, Zenon DEF Waits
      <3> QED BY <1>4, <2>2, <2>4, <3>1, Zenon
    <2> QED BY <2>3, <2>4
  <1>7. \A b \in Chans :
          /\ chan[b].busy => chan'[b].busy
          /\ chan'[b].drq = chan[b].drq /\ chan'[b].selected = chan[b].selected
          /\ chan'[b].lba = chan[b].lba
    <2> TAKE b \in Chans
    <2>2. CASE b = c
        BY <1>1, <1>3, <1>4, <2>2, Zenon
    <2>3. CASE b # c
        BY <1>4, <2>3, Zenon
    <2> QED BY <2>2, <2>3, Zenon
  <1>8. slot.chan \in Chans
      BY <1>4 DEF TypeOK
  <1>9. SlotAgrees'
    <2>1. InMemory(slot.disk, slot.at)' = InMemory(slot.disk, slot.at)
        BY <1>4, Zenon DEF InMemory
    <2>2. PICK b \in Chans : b = slot.chan
        BY <1>8
    <2> QED BY <1>4, <1>7, <2>1, <2>2 DEF SlotAgrees
  <1>10. WritesAgree'
      BY <1>4 DEF WritesAgree
  <1>11. Turns'
    <2> SUFFICES ASSUME ~guest.overlaps, NEW b \in Chans
                 PROVE  /\ (chan'[b].busy /\ ~chan'[b].srst) => (pending /\ slot.chan = b)
                        /\ job[b].given # job[b].done => (pending /\ slot.chan = b)
                        /\ chan'[b].srst => /\ pending => slot.chan = b
                                            /\ \A e \in Chans \ {b} : ~chan'[e].srst
        BY <1>4 DEF Turns
    <2>1. \A e \in Chans \ {c} : ~(pending /\ slot.chan = e) /\ ~chan[e].srst
        BY <1>3 DEF MayUse
    <2>2. CASE b = c
      <3>1. pending => slot.chan = c
          BY <1>8, <2>1
      <3>2. \A e \in Chans \ {c} : ~chan'[e].srst
          BY <1>4, <2>1
      <3> QED BY <1>1, <1>3, <1>4, <2>2, <3>1, <3>2 DEF Turns
    <2>3. CASE b # c
        BY <1>4, <2>1, <2>3 DEF Turns
    <2> QED BY <2>2, <2>3
  <1> QED BY <1>5, <1>6, <1>9, <1>10, <1>11 DEF Inv

\* The reset is over: nobody's transfer is in progress.
LEMMA ClearResetKeeps ==
  ASSUME Inv, NEW c \in Chans, ClearReset(c), ~halted', guest' = guest
  PROVE  Inv'
  <1>1. PICK f \in BOOLEAN, z \in {0, 1}, n \in Nat, m \in Numbers :
          ~f /\ f = FALSE /\ z = 0 /\ n = 1 /\ m = 1 % CountMod
    <2>1. 1 % CountMod \in Numbers
        BY Wraps
    <2> QED BY <2>1
  <1>2. PICK q : q = [chan[c] EXCEPT !.srst = f, !.busy = f, !.drq = f, !.err = f,
                                     !.selected = z, !.lba = n, !.count = m]
      OBVIOUS
  <1>3. chan' = [chan EXCEPT ![c] = q]
      BY <1>1, <1>2, Zenon DEF ClearReset
  <1>4. /\ TypeOK /\ ChannelsAgree /\ SlotAgrees /\ WritesAgree /\ Turns
        /\ ~pending' /\ slot' = slot /\ loaded' = loaded /\ written' = written /\ chan[c].srst
        /\ pending' \in BOOLEAN
      BY DEF Inv, ClearReset, Cancel
  <1>5. q \in Channels /\ ~q.busy /\ ~q.drq /\ ~q.srst
    <2>1. chan[c] \in Channels
        BY <1>4 DEF TypeOK
    <2> QED BY <1>1, <1>2, <2>1 DEF Channels
  <1>6. /\ chan'[c] = q /\ job'[c] = NoJob /\ NoJob \in Jobs /\ job' \in [Chans -> Jobs]
        /\ chan' \in [Chans -> Channels]
        /\ \A b \in Chans \ {c} : chan'[b] = chan[b] /\ job'[b] = job[b]
    <2>1. NoJob \in Jobs
        BY DEF NoJob, Jobs, AllCommands, Other, Chans
    <2>2. job' = [job EXCEPT ![c] = NoJob]
        BY DEF ClearReset
    <2> HIDE DEF NoJob
    <2> QED BY <1>3, <1>4, <1>5, <2>1, <2>2 DEF TypeOK
  <1>7. \A d \in Disks : asked'[d] = IF d[1] = c THEN written[d] ELSE asked[d]
      BY DEF ClearReset
  <1>8. TypeOK' /\ ~halted'
    <2>1. asked' \in [Disks -> SUBSET Nat]
        BY <1>4 DEF TypeOK, ClearReset
    <2> QED BY <1>4, <1>6, <2>1 DEF TypeOK
  <1>9. ChannelsAgree'
    <2> SUFFICES ASSUME NEW b \in Chans
                 PROVE  Agree(b, chan'[b], job'[b], Waits(b)', written')
        BY DEF ChannelsAgree
    <2>1. CASE b = c
      <3>1. Waits(c)' = FALSE
          BY <1>4, <1>5, <1>6, Zenon DEF Waits
      <3>2. /\ NoJob.op = "none" /\ NoJob.given = NoJob.done /\ NoJob.done = NoJob.count
            /\ "none" \notin PioReads \cup PioWrites \cup Dmas
          BY DEF NoJob, PioReads, PioWrites, Dmas
      <3>3. Agree(c, q, NoJob, FALSE, written)
          BY <1>5, <3>2 DEF Agree, Gives
      <3> QED BY <1>4, <1>6, <2>1, <3>1, <3>3, Zenon
    <2>2. CASE b # c
      <3>1. Waits(b) \in BOOLEAN /\ Waits(b)' \in BOOLEAN
          BY DEF Waits
      <3>2. Waits(b)' => Waits(b)
          BY <1>4, <1>6, <2>2, Zenon DEF Waits
      <3>3. Agree(b, chan[b], job[b], Waits(b), written)
          BY <1>4 DEF ChannelsAgree
      <3>4. PICK v \in BOOLEAN, w \in BOOLEAN : v = Waits(b)' /\ w = Waits(b)
          BY <3>1
      <3> HIDE DEF Waits
      <3>5. Agree(b, chan[b], job[b], v, written)
        <4>1. Agree(b, chan[b], job[b], w, written) /\ (v => w)
            BY <3>2, <3>3, <3>4
        <4> QED BY <4>1, FrameAgrees
      <3> QED BY <1>4, <1>6, <2>2, <3>4, <3>5, Zenon
    <2> QED BY <2>1, <2>2
  <1>10. SlotAgrees'
      BY <1>4 DEF SlotAgrees
  <1>11. (~guest.overlaps /\ pending) => slot.chan = c /\ slot.disk[1] = c
      BY <1>4 DEF Turns, SlotAgrees, TypeOK
  <1>12. NoJob.given = NoJob.done
      BY DEF NoJob
  <1>13. WritesAgree'
    <2>1. ASSUME NEW d \in Disks
          PROVE  /\ written[d] \subseteq asked'[d]
                 /\ asked'[d] # written[d] =>
                      /\ job'[d[1]].disk = d
                      /\ asked'[d] \subseteq written[d] \cup Awaited(job'[d[1]])
      <3>1. CASE d[1] = c
          BY <1>7, <3>1
      <3>2. CASE d[1] # c
        <4>1. d[1] \in Chans \ {c}
            BY <3>2, ConstantsOK
        <4>2. job'[d[1]] = job[d[1]] /\ asked'[d] = asked[d]
            BY <1>6, <1>7, <3>2, <4>1
        <4> QED BY <1>4, <4>2 DEF WritesAgree
      <3> QED BY <3>1, <3>2
    <2>2. ASSUME NEW b \in Chans, job'[b].given # job'[b].done
          PROVE  Awaited(job'[b]) \subseteq asked'[job'[b].disk]
      <3>1. b # c /\ job'[b] = job[b]
          BY <1>6, <1>12, <2>2
      <3>2. /\ job[b].disk \in Disks /\ job[b].disk[1] = b
            /\ Awaited(job[b]) \subseteq asked[job[b].disk]
          BY <2>2, <3>1, AwaitedOnDisk
      <3> QED BY <1>7, <3>1, <3>2
    <2> QED BY <1>4, <2>1, <2>2 DEF WritesAgree
  <1>14. Turns'
      BY <1>4, <1>5, <1>6, <1>11, <1>12 DEF Turns
  <1> QED BY <1>8, <1>9, <1>10, <1>13, <1>14 DEF Inv

\* The request in the slot is answered.
LEMMA FinishKeeps ==
  ASSUME Inv, NEW c \in Chans, c = slot.chan, NEW q, NEW k, Becomes(c, q, k),
         pending, ~pending', pending' \in BOOLEAN, slot' = slot, loaded' = loaded, asked' = asked,
         ~q.busy, q.srst = chan[c].srst, Agree(c, q, k, FALSE, written'),
         Grow(written', written, slot.disk, Awaited(job[c]))
  PROVE  Inv'
  <1>1. /\ TypeOK /\ ChannelsAgree /\ SlotAgrees /\ WritesAgree /\ Turns /\ guest' = guest
        /\ chan'[c] = q /\ job'[c] = k
        /\ \A b \in Chans \ {c} : chan'[b] = chan[b] /\ job'[b] = job[b]
      BY Untouched DEF Inv, Becomes
  <1>2. TypeOK' /\ ~halted'
      BY <1>1, Untouched DEF TypeOK, Becomes, Grow
  <1>3. slot.disk \in Disks /\ slot.disk[1] = c /\ slot.disk = job[c].disk
    <2>1. Agree(c, chan[c], job[c], Waits(c), written) /\ Waits(c)
        BY <1>1 DEF ChannelsAgree, Waits
    <2>2. job[c].disk = <<c, chan[c].selected>>
        BY <2>1 DEF Agree, At
    <2> QED BY <1>1, <2>2 DEF SlotAgrees
  <1>4. ChannelsAgree'
    <2> SUFFICES ASSUME NEW b \in Chans
                 PROVE  Agree(b, chan'[b], job'[b], Waits(b)', written')
        BY DEF ChannelsAgree
    <2>1. CASE b = c
      <3>1. Waits(c)' = FALSE
          BY <1>1, Zenon DEF Waits
      <3> QED BY <1>1, <2>1, <3>1, Zenon
    <2>2. CASE b # c
      <3>1. Waits(b) \in BOOLEAN /\ Waits(b)' = Waits(b)
          BY <1>1, <2>2, Zenon DEF Waits
      <3>2. \A e \in Disks : e[1] = b => written'[e] = written[e]
          BY <1>3, <2>2 DEF Grow
      <3>3. Agree(b, chan[b], job[b], Waits(b), written)
          BY <1>1 DEF ChannelsAgree
      <3>4. Agree(b, chan[b], job[b], Waits(b), written')
          BY <3>1, <3>2, <3>3, FrameAgrees
      <3> QED BY <1>1, <2>2, <3>1, <3>4, Zenon
    <2> QED BY <2>1, <2>2
  <1>5. SlotAgrees'
      BY DEF SlotAgrees
  <1>6. k.given = k.done
      BY DEF Agree, Gives
  <1>7. Awaited(job[c]) \subseteq asked[slot.disk]
    <2>1. job[c] \in Jobs
        BY <1>1 DEF TypeOK
    <2> QED BY <1>1, <1>3, <2>1, AwaitedIsNat DEF WritesAgree
  <1>8. WritesAgree'
    <2>1. ASSUME NEW e \in Disks
          PROVE  /\ written'[e] \subseteq asked[e]
                 /\ asked[e] # written'[e] =>
                      /\ job'[e[1]].disk = e
                      /\ asked[e] \subseteq written'[e] \cup Awaited(job'[e[1]])
      <3>1. written'[e] = IF e = slot.disk THEN written[e] \cup Awaited(job[c]) ELSE written[e]
          BY DEF Grow
      <3>2. CASE e[1] = c
        <4>1. /\ written[e] \subseteq asked[e]
              /\ asked[e] # written[e] =>
                   job[c].disk = e /\ asked[e] \subseteq written[e] \cup Awaited(job[c])
            BY <1>1, <3>2 DEF WritesAgree
        <4>2. asked[e] = written'[e]
            BY <1>3, <1>7, <3>1, <4>1
        <4> QED BY <4>2
      <3>3. CASE e[1] # c
        <4>1. e[1] \in Chans \ {c} /\ e # slot.disk
            BY <1>3, <3>3, ConstantsOK
        <4>2. job'[e[1]] = job[e[1]]
            BY <1>1, <4>1
        <4> QED BY <1>1, <3>1, <4>1, <4>2 DEF WritesAgree
      <3> QED BY <3>2, <3>3
    <2>2. ASSUME NEW b \in Chans, job'[b].given # job'[b].done
          PROVE  Awaited(job'[b]) \subseteq asked[job'[b].disk]
      <3>1. b # c /\ job'[b] = job[b]
          BY <1>1, <1>6, <2>2
      <3> QED BY <2>2, <3>1, AwaitedOnDisk
    <2> QED BY <2>1, <2>2 DEF WritesAgree
  <1>9. Turns'
      BY <1>1, <1>6 DEF Turns
  <1> QED BY <1>2, <1>4, <1>5, <1>8, <1>9 DEF Inv

----------------------------------------------------------------------------
(* The actions.                                                            *)

\* A sector is read at once or awaited, for a job that has that one to read.
LEMMA ReadSectorsKeeps ==
  ASSUME Inv, NEW c \in Chans, NEW r \in Channels, NEW k \in Jobs, ReadSectors(c, r),
         k.op \in PioReads, r.command = k.op, At(c, r, k, 0), k.given = k.done,
         ~chan[c].busy, ~chan[c].srst, ~r.srst, MayUse(c),
         job' = [job EXCEPT ![c] = k], Quiet, guest' = guest
  PROVE  Inv'
  <1> DEFINE d == Disk(c, r)
  <1>1. /\ d = <<c, r.selected>> /\ k.disk = d /\ d \in Disks /\ d[1] = c /\ r.lba \in Nat
        /\ TypeOK /\ written' = written /\ asked' = asked /\ ~halted'
      BY DEF Disk, At, Channels, Inv, Quiet
  <1>2. Grow(written', written, d, {}) /\ Grow(asked', asked, d, {}) /\ {} \in SUBSET Nat
    <2>1. Grow(written, written, d, {}) /\ Grow(asked, asked, d, {})
        BY <1>1, Unchanged DEF TypeOK
    <2> QED BY <1>1, <2>1
  <1>3. CASE InMemory(d, r.lba)
    <2>1. PICK q : q = SectorRead(r, d, r.lba)
        OBVIOUS
    <2>2. /\ q \in Channels /\ ~q.busy /\ q.srst = r.srst
          /\ Agree(c, q, k, FALSE, written)
        BY <1>1, <2>1, Arrives
    <2>3. chan' = [chan EXCEPT ![c] = q] /\ NoRequest
        BY <1>3, <2>1 DEF ReadSectors
    <2>4. Becomes(c, q, k)
        BY <1>1, <2>2, <2>3 DEF Becomes
    <2>5. q.srst = chan[c].srst
      <3>1. chan[c].srst \in BOOLEAN /\ r.srst \in BOOLEAN
          BY <1>1 DEF TypeOK, Channels
      <3> QED BY <2>2, <3>1
    <2>6. Agree(c, q, k, FALSE, written')
        BY <1>1, <2>2
    <2> HIDE DEF d
    <2> QED BY <1>1, <1>2, <2>2, <2>3, <2>4, <2>5, <2>6, ActKeeps
  <1>4. CASE ~InMemory(d, r.lba)
    <2>1. PICK q : q = Wait(r)
        OBVIOUS
    <2>2. /\ q \in Channels /\ q.busy /\ ~q.drq /\ q.srst = r.srst
          /\ q.lba = r.lba /\ q.selected = r.selected
          /\ Agree(c, q, k, TRUE, written)
      <3>1. k.op \in PioReads \cup PioWrites
          OBVIOUS
      <3>2. q \in Channels /\ q.busy /\ ~q.drq /\ Agree(c, q, k, TRUE, written)
          BY <2>1, <3>1, BeginsToWait
      <3>3. q.srst = r.srst /\ q.lba = r.lba /\ q.selected = r.selected
          BY <2>1 DEF Wait, Channels
      <3> QED BY <3>2, <3>3
    <2>3. chan' = [chan EXCEPT ![c] = q] /\ Defer("read", c, d, r.lba)
        BY <1>4, <2>1 DEF ReadSectors
    <2>4. Becomes(c, q, k)
        BY <1>1, <2>2, <2>3 DEF Becomes
    <2>5. Grow(asked', asked, d, Awaited(k)) /\ Awaited(k) \in SUBSET Nat
        BY <1>2, AwaitedIsNat
    <2> HIDE DEF d
    <2> QED BY <1>1, <2>2, <2>3, <2>4, <2>5, DeferKeeps
  <1> QED BY <1>3, <1>4

\* What a command finds.
Fresh(c, r) ==
  /\ r \in Channels /\ ~r.busy /\ ~r.drq /\ ~r.srst
  /\ NewJob(c, r) \in Jobs /\ NewJob(c, r).op = r.command /\ NewJob(c, r).done = 0
  /\ NewJob(c, r).given = 0
  /\ At(c, r, NewJob(c, r), 0)
  /\ (r.command = "verify" => r.count # 0) /\ r.command # "none"

LEMMA TaskFileIsFresh ==
  ASSUME TypeOK, NEW c \in Chans, NEW q \in guest.requests[c], Idle(chan[c])
  PROVE  Fresh(c, TaskFile(c, q))
  <1>1. /\ q \in Request /\ <<c, q.drive>> \in Disks /\ (q.op = "verify" => q.count # 0)
        /\ CountMod \in Nat \ {0}
    <2>1. guest \in Guests /\ guest.requests \in [Chans -> SUBSET Request]
        BY ConstantsOK DEF TypeOK
    <2> QED BY <2>1, ConstantsOK
  <1>2. PICK f \in BOOLEAN, z \in {0, 1}, n \in Nat, m \in Numbers, o \in AllCommands \ {"none"} :
          ~f /\ f = FALSE /\ z = q.drive /\ n = q.at /\ m = q.count /\ o = q.op
    <2>1. q.drive \in {0, 1} /\ q.at \in Nat /\ q.count \in Numbers /\ q.op \in AllCommands \ {"none"}
        BY <1>1, ConstantsOK DEF Request, Sectors, Numbers
    <2> QED BY <2>1
  <1>3. PICK r : r = TaskFile(c, q)
      OBVIOUS
  <1>4. r = [chan[c] EXCEPT !.selected = z, !.lba = n, !.count = m, !.irq = f, !.err = f,
                            !.command = o]
      BY <1>2, <1>3 DEF TaskFile
  <1>5. /\ r \in Channels /\ ~r.busy /\ ~r.drq /\ ~r.srst /\ r.selected = z /\ r.lba = n
        /\ r.count = m /\ r.command = o
    <2>1. chan[c] \in Channels /\ ~chan[c].busy /\ ~chan[c].drq /\ ~chan[c].srst
        BY DEF TypeOK, Idle
    <2> QED BY <1>2, <1>4, <2>1 DEF Channels
  <1>6. PICK k : k = NewJob(c, r)
      OBVIOUS
  <1>7. PICK e \in 1 .. CountMod : e = SectorCount(r) /\ e % CountMod = m
    <2>1. CASE m = 0
      <3>1. SectorCount(r) = CountMod /\ CountMod % CountMod = m
          BY <1>5, <2>1, Wraps DEF SectorCount
      <3> QED BY <1>1, <3>1
    <2>2. CASE m # 0
      <3>1. SectorCount(r) = m /\ m % CountMod = m /\ m \in 1 .. CountMod
          BY <1>1, <1>5, <2>2, Wraps DEF SectorCount, Numbers
      <3> QED BY <3>1
    <2> QED BY <2>1, <2>2
  <1>8. /\ k.op = o /\ k.disk = <<c, z>> /\ k.start = n /\ k.count = e /\ k.done = 0
        /\ k.given = 0 /\ k \in Jobs
    <2>1. k = [op |-> o, disk |-> <<c, z>>, start |-> n, count |-> e, done |-> 0,
              given |-> 0, seen |-> FALSE]
        BY <1>5, <1>6, <1>7 DEF NewJob, Disk
    <2>2. e \in Nat /\ 0 \in Nat
        BY <1>1, <1>7
    <2> QED BY <2>1, <2>2 DEF Jobs
  <1>9. At(c, r, k, 0)
    <2>1. <<c, z>> \in Disks /\ 0 < e /\ e <= CountMod
        BY <1>1, <1>2, <1>7
    <2>2. n = n + 0 + 0 /\ e - 0 - 0 = e
        BY <1>1
    <2> QED BY <1>5, <1>7, <1>8, <2>1, <2>2, Zenon DEF At
  <1>10. (r.command = "verify" => r.count # 0) /\ r.command # "none"
      BY <1>1, <1>2, <1>5
  <1> QED BY <1>3, <1>5, <1>6, <1>8, <1>9, <1>10 DEF Fresh

\* What a command that finishes at once leaves.
LEMMA OutcomeIsIdle ==
  ASSUME NEW c \in Chans, NEW r, Fresh(c, r), NEW q, q = Outcome(r, r.count)
  PROVE  q \in Channels /\ ~q.busy /\ ~q.srst /\ (q.drq => q.command = "identify")
  <1>1. r \in Channels /\ ~r.busy /\ ~r.drq /\ ~r.srst /\ (r.command = "verify" => r.count # 0)
      BY DEF Fresh
  <1>2. PICK f \in BOOLEAN, t \in BOOLEAN, z \in Nat, o \in {0, 1} :
          ~f /\ t /\ f = FALSE /\ t = TRUE /\ z = 0 /\ o = 1
      OBVIOUS
  <1>3. /\ CountMod \in Nat \ {0} /\ CountMod - 1 \in Numbers /\ NSectors - 1 \in Nat
      BY ConstantsOK DEF Numbers
  <1>4. PICK i : i = Interrupt(r)
      OBVIOUS
  <1>5. /\ i \in Channels /\ ~i.busy /\ ~i.drq /\ ~i.srst /\ i.command = r.command /\ i.lba = r.lba
    <2>1. i = [r EXCEPT !.irq = t]
        BY <1>2, <1>4 DEF Interrupt
    <2> QED BY <1>1, <2>1 DEF Channels
  <1>6. CASE r.command = "identify"
    <2>1. PICK b \in [disk : Chans \X {0, 1}, at : Nat] : b = Empty
        BY DEF Empty, Chans
    <2>2. q = [i EXCEPT !.drq = t, !.buffer = b, !.new = f]
        BY <1>2, <1>4, <1>6, <2>1 DEF Outcome
    <2>3. q \in Channels
        BY <1>5, <2>2 DEF Channels
    <2>4. q.busy = i.busy /\ q.srst = i.srst /\ q.command = i.command
        BY <1>5, <2>2 DEF Channels
    <2> QED BY <1>5, <1>6, <2>3, <2>4
  <1>7. CASE r.command = "recalibrate"
    <2>1. q = [i EXCEPT !.lba = z]
        BY <1>2, <1>4, <1>7 DEF Outcome
    <2> QED BY <1>5, <2>1 DEF Channels
  <1>8. CASE r.command = "verify"
    <2>1. PICK n \in Nat : n = r.lba + r.count - 1
        BY <1>1, <1>3, <1>8 DEF Channels, Numbers
    <2>2. q = [i EXCEPT !.lba = n]
        BY <1>4, <1>5, <1>8, <2>1 DEF Outcome
    <2> QED BY <1>5, <2>2 DEF Channels
  <1>9. CASE r.command = "parameters"
    <2>1. q = [i EXCEPT !.selected = o]
        BY <1>2, <1>4, <1>9 DEF Outcome
    <2> QED BY <1>5, <2>1 DEF Channels
  <1>10. CASE r.command = "flush"
      BY <1>4, <1>5, <1>10 DEF Outcome
  <1>11. CASE r.command = "powerMode"
    <2>1. PICK m \in Numbers : m = CountMod - 1
        BY <1>3
    <2>2. q = [i EXCEPT !.count = m]
        BY <1>4, <1>11, <2>1 DEF Outcome
    <2> QED BY <1>5, <2>2 DEF Channels
  <1>12. ASSUME q = Abort(r)
         PROVE  q \in Channels /\ ~q.busy /\ ~q.srst /\ ~q.drq
    <2>1. q = [r EXCEPT !.busy = f, !.drq = f, !.err = t, !.irq = t]
        BY <1>2, <1>12 DEF Abort
    <2> QED BY <1>1, <1>2, <2>1 DEF Channels
  <1>13. CASE r.command = "setMultiple"
    <2>1. CASE r.count > 1
        BY <1>12, <1>13, <2>1 DEF Outcome
    <2>2. CASE ~(r.count > 1)
      <3>1. PICK w \in BOOLEAN : w = (r.count = 1)
          BY Zenon
      <3>2. q = [i EXCEPT !.multiple = w]
          BY <1>4, <1>13, <2>2, <3>1 DEF Outcome
      <3> QED BY <1>5, <3>2 DEF Channels
    <2> QED BY <2>1, <2>2
  <1>14. CASE r.command = "nativeMax"
    <2>1. PICK n \in Nat : n = NSectors - 1
        BY <1>3
    <2>2. q = [r EXCEPT !.lba = n]
        BY <1>14, <2>1 DEF Outcome
    <2> QED BY <1>1, <2>2 DEF Channels
  <1>15. CASE r.command \notin {"identify", "recalibrate", "verify", "parameters", "flush",
                                "powerMode", "setMultiple", "nativeMax"}
    <2>1. q = Abort(r)
        BY <1>15 DEF Outcome
    <2> QED BY <1>12, <2>1
  <1> QED BY <1>6, <1>7, <1>8, <1>9, <1>10, <1>11, <1>13, <1>14, <1>15

\* A channel without a job is as it should be.
LEMMA IdleAgrees ==
  ASSUME NEW c, NEW q, ~q.busy, q.drq => q.command = "identify", NEW stored
  PROVE  Agree(c, q, NoJob, FALSE, stored)
  <1>1. /\ NoJob.op = "none" /\ NoJob.given = NoJob.done /\ NoJob.done = NoJob.count
        /\ "none" \notin PioReads \cup PioWrites \cup Dmas
      BY DEF NoJob, PioReads, PioWrites, Dmas
  <1> QED BY <1>1 DEF Agree, Gives

\* A channel acts and no data moves.
LEMMA StepKeeps ==
  ASSUME Inv, NEW c \in Chans, NEW q, NEW k, Becomes(c, q, k),
         ~chan[c].busy, ~q.busy, q.srst = chan[c].srst, Agree(c, q, k, FALSE, written),
         Quiet, NoRequest
  PROVE  Inv'
  <1>1. PICK d \in Disks : d = <<c, 0>> /\ d[1] = c
      BY ConstantsOK
  <1>2. TypeOK /\ written' = written /\ asked' = asked /\ Agree(c, q, k, FALSE, written')
      BY DEF Inv, Quiet
  <1>3. Grow(written, written, d, {}) /\ Grow(asked, asked, d, {})
      BY <1>2, Unchanged DEF TypeOK
  <1>4. Grow(written', written, d, {}) /\ Grow(asked', asked, d, {}) /\ {} \in SUBSET Nat
      BY <1>2, <1>3
  <1> QED BY <1>1, <1>2, <1>4, ActKeeps

LEMMA CommandKeeps ==
  ASSUME VerifyFirst, WithinBlocks, Inv, NEW c \in Chans, NEW q \in guest.requests[c],
         Command(c, q), guest' = guest
  PROVE  Inv'
  <1>1. /\ TypeOK /\ ~halted /\ Idle(chan[c]) /\ MayUse(c) /\ ~guest.spans /\ guest \in Guests
        /\ ~chan[c].busy /\ ~chan[c].srst
      BY DEF Inv, TypeOK, Command, WithinBlocks, Idle
  <1>2. PICK r : r = TaskFile(c, q)
      OBVIOUS
  <1>3. PICK k : k = NewJob(c, r)
      OBVIOUS
  <1>4. /\ r \in Channels /\ ~r.busy /\ ~r.drq /\ ~r.srst /\ k \in Jobs
        /\ k.op = r.command /\ k.done = 0 /\ k.given = k.done /\ At(c, r, k, 0) /\ Fresh(c, r)
      BY <1>1, <1>2, <1>3, TaskFileIsFresh DEF Fresh
  <1>5. ReadPio(c, r) \/ WritePio(c, r) \/ Dma(c, r) \/ Immediate(c, r)
      BY <1>2 DEF Command
  <1>6. r.srst = chan[c].srst
      BY <1>1, <1>4 DEF TypeOK, Channels
  <1>7. CASE ReadPio(c, r)
    <2>1. /\ ReadSectors(c, r) /\ k.op \in PioReads /\ Quiet /\ job' = [job EXCEPT ![c] = k]
        BY <1>3, <1>4, <1>7 DEF ReadPio
    <2> QED BY <1>1, <1>4, <2>1, ReadSectorsKeeps
  <1>8. CASE WritePio(c, r) \/ Dma(c, r)
    <2>1. /\ k.op \in PioWrites \cup Dmas /\ (k.op \in Dmas => OneBlock(r))
          /\ chan' = [chan EXCEPT ![c] = [r EXCEPT !.drq = TRUE]]
          /\ job' = [job EXCEPT ![c] = k] /\ NoRequest /\ Quiet
      <3>1. PioWrites \cap Dmas = {}
          BY DEF PioWrites, Dmas
      <3> QED BY <1>1, <1>3, <1>4, <1>8, <3>1 DEF WritePio, Dma, OneBlock
    <2>2. PICK t \in BOOLEAN : t /\ t = TRUE
        OBVIOUS
    <2>3. PICK u : u = [r EXCEPT !.drq = t]
        OBVIOUS
    <2>4. u \in Channels
        BY <1>4, <2>3 DEF Channels
    <2>5. /\ u.busy = r.busy /\ u.drq = t /\ u.command = r.command /\ u.srst = r.srst
          /\ u.lba = r.lba /\ u.count = r.count /\ u.selected = r.selected
        BY <1>4, <2>3 DEF Channels
    <2>6. Agree(c, u, k, FALSE, written)
      <3>1. At(c, u, k, 0) /\ (k.op \in Dmas => k.done = 0 /\ OneBlock(u))
          BY <1>4, <2>1, <2>5, SamePlace
      <3>2. ~u.busy /\ u.drq /\ u.command = k.op
          BY <1>4, <2>2, <2>5
      <3> QED BY <1>4, <2>1, <2>4, <3>1, <3>2, IsAsked
    <2>7. Becomes(c, u, k)
        BY <1>1, <1>4, <2>1, <2>2, <2>3, <2>4 DEF Becomes, Quiet
    <2> QED BY <1>1, <1>4, <1>6, <2>1, <2>5, <2>6, <2>7, StepKeeps
  <1>9. CASE Immediate(c, r)
    <2>1. PICK u : u = Outcome(r, r.count)
        OBVIOUS
    <2>2. u \in Channels /\ ~u.busy /\ ~u.srst /\ (u.drq => u.command = "identify")
        BY <1>4, <2>1, OutcomeIsIdle
    <2>3. c = 1 => r.command # "verify"
      <3>1. c = 1 => q.op # "verify"
          BY <1>1 DEF VerifyFirst
      <3>2. chan[c] \in Channels
          BY <1>1 DEF TypeOK
      <3>3. r.command = q.op
          BY <1>2, <3>2 DEF TaskFile, Channels
      <3> QED BY <3>1, <3>3
    <2>4. chan' = [chan EXCEPT ![c] = u]
      <3>1. chan \in [Chans -> Channels]
          BY <1>1 DEF TypeOK
      <3>2. chan' = [b \in Chans |-> IF b = c THEN u
                       ELSE IF b = 0 /\ r.command = "verify" THEN Done(chan[b]) ELSE chan[b]]
          BY <1>9, <2>1 DEF Immediate
      <3>3. ASSUME NEW b \in Chans, b # c
            PROVE  ~(b = 0 /\ r.command = "verify")
          BY <2>3, <3>3 DEF Chans
      <3>4. chan' = [b \in Chans |-> IF b = c THEN u ELSE chan[b]]
          BY <3>2, <3>3
      <3> QED BY <3>1, <3>4
    <2>5. /\ job' = [job EXCEPT ![c] = NoJob] /\ NoRequest /\ Quiet
        BY <1>9 DEF Immediate
    <2>6. NoJob \in Jobs
        BY DEF NoJob, Jobs, AllCommands, Other, Chans
    <2>7. Becomes(c, u, NoJob)
        BY <1>1, <2>2, <2>4, <2>5, <2>6 DEF Becomes, Quiet
    <2>8. Agree(c, u, NoJob, FALSE, written)
        BY <2>2, IdleAgrees
    <2>9. u.srst = chan[c].srst
        BY <1>1, <2>2 DEF TypeOK, Channels
    <2> QED BY <1>1, <2>2, <2>5, <2>7, <2>8, <2>9, StepKeeps
  <1> QED BY <1>5, <1>7, <1>8, <1>9

\* A channel that does not wait changes in nothing that matters.
LEMMA RestKeeps ==
  ASSUME Inv, NEW c \in Chans, ~chan[c].busy, NEW q \in Channels,
         q.busy = chan[c].busy, q.drq = chan[c].drq, q.srst = chan[c].srst, q.irq = chan[c].irq,
         q.command = chan[c].command, q.buffer = chan[c].buffer, q.new = chan[c].new,
         chan[c].drq => /\ q.lba = chan[c].lba /\ q.count = chan[c].count
                        /\ q.selected = chan[c].selected,
         chan' = [chan EXCEPT ![c] = q], job' = job, Quiet, NoRequest, guest' = guest
  PROVE  Inv'
  <1>1. PICK k \in Jobs : k = job[c]
      BY DEF Inv, TypeOK
  <1>2. /\ TypeOK /\ ~halted' /\ job' = [job EXCEPT ![c] = k]
        /\ Agree(c, chan[c], k, Waits(c), written)
      BY <1>1 DEF Inv, TypeOK, Quiet, ChannelsAgree
  <1>3. Becomes(c, q, k)
      BY <1>2 DEF Becomes
  <1>4. Agree(c, q, k, FALSE, written)
    <2>1. chan[c].drq => /\ \A x \in {0, 1} : At(c, chan[c], k, x) => At(c, q, k, x)
                         /\ OneBlock(chan[c]) => OneBlock(q)
        BY SamePlace
    <2> QED BY <1>2, <2>1 DEF Agree, Gives
  <1> QED BY <1>3, <1>4, StepKeeps

LEMMA SelectAbsentKeeps ==
  ASSUME Inv, NEW c \in Chans, SelectAbsent(c), guest' = guest
  PROVE  Inv'
  <1>1. PICK z \in {0, 1} : z = 1
      OBVIOUS
  <1>2. PICK q : q = [chan[c] EXCEPT !.selected = z]
      OBVIOUS
  <1>3. /\ chan[c] \in Channels /\ ~chan[c].busy /\ ~chan[c].drq
        /\ chan' = [chan EXCEPT ![c] = q] /\ job' = job /\ Quiet /\ NoRequest
      BY <1>1, <1>2 DEF Inv, TypeOK, SelectAbsent, Idle
  <1>4. /\ q \in Channels
        /\ q.busy = chan[c].busy /\ q.drq = chan[c].drq /\ q.srst = chan[c].srst
        /\ q.irq = chan[c].irq /\ q.command = chan[c].command /\ q.buffer = chan[c].buffer
        /\ q.new = chan[c].new
      BY <1>2, <1>3 DEF Channels
  <1> QED BY <1>3, <1>4, RestKeeps

LEMMA StopDmaKeeps ==
  ASSUME Inv, NEW c \in Chans, StopDma(c), guest' = guest
  PROVE  Inv'
  <1>1. PICK f \in BOOLEAN : f = FALSE
      OBVIOUS
  <1>2. PICK q : q = [chan[c] EXCEPT !.dma = f]
      OBVIOUS
  <1>3. /\ chan[c] \in Channels /\ ~chan[c].busy
        /\ chan' = [chan EXCEPT ![c] = q] /\ job' = job /\ Quiet /\ NoRequest
      BY <1>1, <1>2 DEF Inv, TypeOK, StopDma
  <1>4. /\ q \in Channels
        /\ q.busy = chan[c].busy /\ q.drq = chan[c].drq /\ q.srst = chan[c].srst
        /\ q.irq = chan[c].irq /\ q.command = chan[c].command /\ q.buffer = chan[c].buffer
        /\ q.new = chan[c].new /\ q.lba = chan[c].lba /\ q.count = chan[c].count
        /\ q.selected = chan[c].selected
      BY <1>2, <1>3 DEF Channels
  <1> QED BY <1>3, <1>4, RestKeeps

\* The two actions that take an interrupt back.
LEMMA StatusKeeps ==
  ASSUME Inv, NEW c \in Chans, ReadStatus(c) \/ CommandUnderBusy(c), guest' = guest
  PROVE  Inv'
  <1>1. /\ TypeOK /\ ~halted' /\ NoRequest /\ Quiet
        /\ chan' = [chan EXCEPT ![c] = [chan[c] EXCEPT !.irq = FALSE]]
      BY DEF Inv, ReadStatus, CommandUnderBusy, Quiet
  <1>2. PICK f \in BOOLEAN : f = FALSE
      OBVIOUS
  <1>3. PICK q : q = [chan[c] EXCEPT !.irq = FALSE]
      OBVIOUS
  <1>4. q \in Channels /\ chan' = [chan EXCEPT ![c] = q]
    <2>1. q = [chan[c] EXCEPT !.irq = f] /\ chan[c] \in Channels
        BY <1>1, <1>2, <1>3 DEF TypeOK
    <2> QED BY <1>1, <1>3, <2>1 DEF Channels
  <1>5. PICK n \in BOOLEAN : /\ chan[c].busy \/ n
                             /\ job' = [job EXCEPT ![c] = [job[c] EXCEPT !.seen = n]]
    <2>1. job[c] \in Jobs /\ chan[c] \in Channels /\ job \in [Chans -> Jobs]
        BY <1>1 DEF TypeOK
    <2>2. CASE ReadStatus(c)
      <3>1. PICK n \in BOOLEAN : n = ~chan[c].busy
          BY Zenon
      <3>2. chan[c].busy \/ n
          BY <3>1
      <3>3. job' = [job EXCEPT ![c] = [job[c] EXCEPT !.seen = n]]
          BY <2>2, <3>1 DEF ReadStatus
      <3> QED BY <3>2, <3>3
    <2>3. CASE CommandUnderBusy(c)
      <3>1. PICK n \in BOOLEAN : n = job[c].seen
          BY <2>1 DEF Jobs
      <3>2. [job[c] EXCEPT !.seen = n] = job[c]
          BY <2>1, <3>1 DEF Jobs
      <3>3. job' = [job EXCEPT ![c] = [job[c] EXCEPT !.seen = n]]
          BY <2>1, <2>3, <3>2 DEF CommandUnderBusy
      <3>4. chan[c].busy
          BY <2>3 DEF CommandUnderBusy
      <3> QED BY <3>3, <3>4
    <2> QED BY <2>2, <2>3
  <1>6. PICK k : k = [job[c] EXCEPT !.seen = n]
      OBVIOUS
  <1>7. k \in Jobs
    <2>1. job[c] \in Jobs
        BY <1>1 DEF TypeOK
    <2> QED BY <1>6, <2>1 DEF Jobs
  <1>8. Becomes(c, q, k)
      BY <1>1, <1>4, <1>5, <1>6, <1>7 DEF Becomes
  <1> QED BY <1>1, <1>3, <1>5, <1>6, <1>8, TouchKeeps

LEMMA ReadDataKeeps ==
  ASSUME Inv, NEW c \in Chans, ReadData(c), guest' = guest
  PROVE  Inv'
  <1>1. PICK r : r = chan[c]
      OBVIOUS
  <1>2. PICK j \in Jobs : j = job[c]
      BY DEF Inv, TypeOK
  <1>3. PICK f \in BOOLEAN : ~f /\ f = FALSE
      OBVIOUS
  <1>4. PICK u : u = Taken(r)
      OBVIOUS
  <1>5. /\ TypeOK /\ ~halted' /\ r \in Channels /\ r.drq /\ ~r.srst /\ MayUse(c) /\ Quiet
        /\ Agree(c, r, j, Waits(c), written)
      BY <1>1, <1>2 DEF Inv, TypeOK, ChannelsAgree, ReadData, Quiet
  <1>6. /\ u \in Channels /\ ~u.drq /\ u.command = r.command /\ u.count = r.count
        /\ u.busy = r.busy /\ u.srst = r.srst
    <2>1. u = [r EXCEPT !.drq = f]
        BY <1>3, <1>4 DEF Taken
    <2> QED BY <1>3, <1>5, <2>1 DEF Channels
  <1>7. PICK q : q = Interrupt(u)
      OBVIOUS
  <1>8. CASE r.command \in PioReads
    <2>1. /\ j.op \in PioReads /\ r.command = j.op /\ At(c, r, j, 1) /\ ~r.busy
      <3>1. r.command # "identify" /\ r.command \notin Dmas
          BY <1>8 DEF PioReads, Dmas
      <3> QED BY <1>5, <1>8, <3>1 DEF Agree
    <2>2. PICK k : k = OneMore(j)
        OBVIOUS
    <2>3. q = Interrupt(Taken(r))
        BY <1>4, <1>7
    <2>4. /\ q \in Channels /\ ~q.busy /\ k \in Jobs
          /\ r.count # 0 => At(c, q, k, 0)
          /\ r.count = 0 => Agree(c, q, k, FALSE, written)
        BY <1>5, <2>1, <2>2, <2>3, IsRead
    <2>5. /\ q.srst = r.srst /\ ~q.srst /\ q.command = k.op /\ k.op = j.op
          /\ k.given = k.done
      <3>1. PICK t \in BOOLEAN : t = TRUE
          OBVIOUS
      <3>2. q = [u EXCEPT !.irq = t]
          BY <1>7, <3>1 DEF Interrupt
      <3>3. q.srst = u.srst /\ q.command = u.command
          BY <1>6, <3>2 DEF Channels
      <3>4. k.op = j.op /\ k.given = k.done
          BY <2>2 DEF OneMore, Counted, Jobs
      <3> QED BY <1>5, <1>6, <2>1, <3>3, <3>4
    <2>6. job' = [job EXCEPT ![c] = k]
      <3>1. u = [chan[c] EXCEPT !.drq = FALSE] /\ u.command \in PioReads
          BY <1>1, <1>4, <1>6, <1>8, Zenon DEF Taken
      <3> QED BY <1>2, <2>2, <3>1 DEF OneMore, ReadData
    <2>7. CASE u.count # 0
      <3>1. ReadSectors(c, q)
        <4>1. u.command # "identify"
            BY <1>6, <1>8 DEF PioReads
        <4> QED BY <1>1, <1>4, <1>6, <1>7, <2>7, <4>1 DEF ReadData, Taken
      <3>2. ~chan[c].busy /\ ~chan[c].srst
          BY <1>1, <1>5, <2>1
      <3>3. At(c, q, k, 0) /\ k.op \in PioReads
          BY <1>6, <2>1, <2>4, <2>5, <2>7
      <3> QED BY <1>5, <2>4, <2>5, <2>6, <3>1, <3>2, <3>3, ReadSectorsKeeps
    <2>8. CASE u.count = 0
      <3>1. chan' = [chan EXCEPT ![c] = q] /\ NoRequest
        <4>1. u.command # "identify"
            BY <1>6, <1>8 DEF PioReads
        <4> QED BY <1>1, <1>4, <1>6, <1>7, <2>8, <4>1 DEF ReadData, Taken
      <3>2. Becomes(c, q, k)
          BY <1>5, <2>4, <2>6, <3>1 DEF Becomes, Quiet
      <3>3. Agree(c, q, k, FALSE, written)
          BY <1>6, <2>4, <2>8
      <3>4. ~chan[c].busy /\ q.srst = chan[c].srst
          BY <1>1, <2>1, <2>5
      <3> QED BY <1>5, <2>4, <3>1, <3>2, <3>3, <3>4, StepKeeps
    <2> QED BY <2>7, <2>8
  <1>9. CASE r.command \notin PioReads
    <2>1. /\ r.command = "identify" /\ chan' = [chan EXCEPT ![c] = u] /\ NoRequest
          /\ job' = [job EXCEPT ![c] = j]
        BY <1>1, <1>2, <1>4, <1>6, <1>9 DEF ReadData, Taken
    <2>2. j.op = "none" /\ ~r.busy
      <3>1. "identify" \notin Moves
          BY DEF Moves, PioReads, PioWrites, Dmas
      <3> QED BY <1>5, <2>1, <3>1 DEF Agree
    <2>3. Agree(c, u, j, FALSE, written)
      <3>1. "none" \notin PioReads \cup PioWrites \cup Dmas
          BY DEF PioReads, PioWrites, Dmas
      <3> QED BY <1>5, <1>6, <2>2, <3>1 DEF Agree, Gives
    <2>4. Becomes(c, u, j)
        BY <1>5, <1>6, <2>1 DEF Becomes, Quiet
    <2>5. ~chan[c].busy /\ ~u.busy /\ u.srst = chan[c].srst
        BY <1>1, <1>6, <2>2
    <2> QED BY <1>5, <2>1, <2>3, <2>4, <2>5, StepKeeps
  <1> QED BY <1>8, <1>9

LEMMA WriteDataKeeps ==
  ASSUME Inv, NEW c \in Chans, WriteData(c), guest' = guest
  PROVE  Inv'
  <1>1. PICK r : r = chan[c]
      OBVIOUS
  <1>2. PICK j \in Jobs : j = job[c]
      BY DEF Inv, TypeOK
  <1>3. PICK t \in BOOLEAN : t /\ t = TRUE
      OBVIOUS
  <1>4. PICK u : u = Interrupt(r)
      OBVIOUS
  <1>5. /\ TypeOK /\ ~halted' /\ r \in Channels /\ MayUse(c) /\ Agree(c, r, j, Waits(c), written)
      BY <1>1, <1>2 DEF Inv, TypeOK, ChannelsAgree, WriteData
  <1>6. /\ u \in Channels /\ u.drq = r.drq /\ u.command = r.command /\ u.count = r.count
        /\ u.busy = r.busy /\ u.srst = r.srst /\ u.lba = r.lba /\ u.selected = r.selected
    <2>1. u = [r EXCEPT !.irq = t]
        BY <1>3, <1>4 DEF Interrupt
    <2> QED BY <1>5, <2>1 DEF Channels
  <1>7. PICK d : d = Disk(c, u)
      OBVIOUS
  <1>8. /\ r.drq /\ ~r.srst /\ r.command \in PioWrites
        /\ asked' = [asked EXCEPT ![d] = @ \cup {u.lba}]
        /\ \/ /\ InMemory(d, u.lba)
              /\ written' = [written EXCEPT ![d] = @ \cup {u.lba}]
              /\ chan' = [chan EXCEPT ![c] = SectorWritten(u)]
              /\ job' = [job EXCEPT ![c] = Counted(@, @.done + 1)]
              /\ NoRequest
           \/ /\ ~InMemory(d, u.lba)
              /\ chan' = [chan EXCEPT ![c] = Wait(u)]
              /\ Defer("write", c, d, u.lba)
              /\ job' = [job EXCEPT ![c] = Given(@, @.done + 1)]
              /\ written' = written
      BY <1>1, <1>4, <1>6, <1>7 DEF WriteData
  <1>9. /\ j.op \in PioWrites /\ r.command = j.op /\ At(c, r, j, 0) /\ ~r.busy
    <2>1. r.command # "identify" /\ r.command \notin Dmas
        BY <1>8 DEF PioWrites, Dmas
    <2> QED BY <1>5, <1>8, <2>1 DEF Agree
  <1>10. /\ At(c, u, j, 0) /\ u.command = j.op /\ d = <<c, u.selected>> /\ d \in Disks /\ d[1] = c
         /\ u.lba \in Nat /\ {u.lba} \in SUBSET Nat
    <2>1. At(c, u, j, 0)
        BY <1>6, <1>9, SamePlace
    <2> QED BY <1>6, <1>7, <1>9, <2>1 DEF At, Disk, Channels
  <1>11. Grow(asked', asked, d, {u.lba})
      BY <1>5, <1>8, <1>10, Grown DEF TypeOK
  <1>12. ~chan[c].busy /\ ~chan[c].srst
      BY <1>1, <1>8, <1>9
  <1>13. CASE InMemory(d, u.lba)
    <2>1. PICK q : q = SectorWritten(u)
        OBVIOUS
    <2>2. PICK k : k = OneMore(j)
        OBVIOUS
    <2>3. ASSUME NEW stored
          PROVE  q \in Channels /\ ~q.busy /\ k \in Jobs /\ Agree(c, q, k, FALSE, stored)
        BY <1>6, <1>9, <1>10, <2>1, <2>2, IsWritten
    <2>4. q.srst = u.srst
        BY <1>6, <1>9, <1>10, <2>1, <2>2, IsWritten
    <2>5. Grow(written', written, d, {u.lba})
        BY <1>5, <1>8, <1>10, <1>13, Grown DEF TypeOK
    <2>6. /\ chan' = [chan EXCEPT ![c] = q] /\ NoRequest
          /\ job' = [job EXCEPT ![c] = k]
        BY <1>2, <1>8, <1>13, <2>1, <2>2 DEF OneMore
    <2>7. Becomes(c, q, k)
        BY <1>5, <2>3, <2>6 DEF Becomes
    <2>8. Agree(c, q, k, FALSE, written') /\ q.srst = chan[c].srst /\ ~q.busy
        BY <1>1, <1>6, <2>3, <2>4
    <2> QED BY <1>10, <1>11, <1>12, <2>5, <2>6, <2>7, <2>8, ActKeeps
  <1>14. CASE ~InMemory(d, u.lba)
    <2>1. PICK q : q = Wait(u)
        OBVIOUS
    <2>2. PICK n \in Nat : n = j.done + 1
        BY DEF Jobs
    <2>3. PICK k : k = Given(j, n)
        OBVIOUS
    <2>4. /\ k \in Jobs /\ k.op = j.op /\ k.disk = j.disk /\ k.start = j.start
          /\ k.count = j.count /\ k.done = j.done /\ k.given = k.done + 1 /\ At(c, u, k, 0)
        BY <1>10, <2>2, <2>3, HandsOver
    <2>5. Awaited(k) = {u.lba}
      <3>1. /\ u.lba = k.start + k.done /\ k.start \in Nat /\ k.done \in Nat
          BY <2>4 DEF At, Jobs
      <3>2. Awaited(k) = k.start + k.done .. k.start + (k.done + 1) - 1
          BY <2>4 DEF Awaited
      <3> QED BY <3>1, <3>2
    <2>6. q \in Channels /\ q.busy /\ ~q.drq /\ Agree(c, q, k, TRUE, written)
      <3>1. k.op \in PioReads \cup PioWrites /\ k.op \in PioWrites /\ u.command = k.op
          BY <1>9, <1>10, <2>4
      <3> QED BY <1>6, <2>1, <2>4, <3>1, BeginsToWait
    <2>7. q.srst = u.srst /\ q.lba = u.lba /\ q.selected = u.selected
        BY <1>6, <2>1 DEF Wait, Channels
    <2>8. /\ chan' = [chan EXCEPT ![c] = q] /\ Defer("write", c, d, u.lba)
          /\ written' = written /\ job' = [job EXCEPT ![c] = k]
        BY <1>2, <1>8, <1>14, <2>1, <2>2, <2>3
    <2>9. Becomes(c, q, k)
        BY <1>5, <2>4, <2>6, <2>8 DEF Becomes
    <2>10. ~q.srst /\ d = <<c, q.selected>> /\ u.lba = q.lba /\ k.op \in PioWrites
        BY <1>6, <1>8, <1>9, <1>10, <2>4, <2>7
    <2>11. Grow(asked', asked, d, Awaited(k)) /\ Awaited(k) \in SUBSET Nat
        BY <1>10, <1>11, <2>5
    <2> QED BY <1>5, <1>10, <1>12, <2>4, <2>6, <2>8, <2>9, <2>10, <2>11, DeferKeeps
  <1> QED BY <1>13, <1>14

\* A DMA command inside one block is carried out: no sector is missing.
LEMMA DmaMoves ==
  ASSUME NEW c \in Chans, NEW r \in Channels, OneBlock(r), InMemory(Disk(c, r), r.lba),
         DmaTransfer(c, r)
  PROVE  /\ chan' = [chan EXCEPT ![c] = Moved(r)]
         /\ written' = IF r.command = "writeDma"
                       THEN [written EXCEPT ![Disk(c, r)] = @ \cup Extent(r)] ELSE written
         /\ job' = [job EXCEPT ![c] = Counted(@, SectorCount(r))]
         /\ halted' = halted
  <1>1. \A s \in Extent(r) : InMemory(Disk(c, r), s)
      BY Zenon DEF OneBlock, InMemory
  <1> QED BY <1>1, Zenon DEF DmaTransfer

\* The sectors a DMA command covers are numbers.
LEMMA ExtentIsNat ==
  ASSUME NEW r \in Channels
  PROVE  Extent(r) \in SUBSET Nat
  <1>1. r.lba \in Nat /\ r.count \in Nat /\ CountMod \in Nat
      BY Wraps DEF Channels, Numbers
  <1>2. PICK n \in Nat : n = SectorCount(r)
      BY <1>1 DEF SectorCount
  <1>3. Extent(r) = r.lba .. r.lba + n - 1
      BY <1>2 DEF Extent
  <1> QED BY <1>1, <1>3

LEMMA StartDmaKeeps ==
  ASSUME Inv, NEW c \in Chans, StartDma(c), guest' = guest
  PROVE  Inv'
  <1>1. PICK j \in Jobs : j = job[c]
      BY DEF Inv, TypeOK
  <1>2. PICK t \in BOOLEAN : t /\ t = TRUE
      OBVIOUS
  <1>3. PICK r : r = [chan[c] EXCEPT !.dma = TRUE]
      OBVIOUS
  <1>4. PICK d : d = Disk(c, r)
      OBVIOUS
  <1>5. /\ TypeOK /\ ~halted /\ chan[c] \in Channels
        /\ Agree(c, chan[c], j, Waits(c), written)
      BY <1>1 DEF Inv, TypeOK, ChannelsAgree
  <1>6. /\ r \in Channels /\ r.drq = chan[c].drq /\ r.command = chan[c].command
        /\ r.count = chan[c].count /\ r.busy = chan[c].busy /\ r.srst = chan[c].srst
        /\ r.lba = chan[c].lba /\ r.selected = chan[c].selected
    <2>1. r = [chan[c] EXCEPT !.dma = t]
        BY <1>2, <1>3
    <2> QED BY <1>5, <2>1 DEF Channels
  <1>7. /\ r.drq /\ ~r.busy /\ ~r.srst /\ r.command \in Dmas /\ MayUse(c)
        /\ asked' = IF r.command = "writeDma" THEN [asked EXCEPT ![d] = @ \cup Extent(r)] ELSE asked
        /\ \/ InMemory(d, r.lba) /\ DmaTransfer(c, r) /\ NoRequest
           \/ /\ ~InMemory(d, r.lba)
              /\ chan' = [chan EXCEPT ![c] = [r EXCEPT !.busy = TRUE]]
              /\ Defer("prefetch", c, d, r.lba)
              /\ job' = [job EXCEPT ![c] =
                           IF r.command = "writeDma" THEN Given(@, SectorCount(r)) ELSE @]
              /\ UNCHANGED <<written, halted>>
      BY <1>3, <1>4, Zenon DEF StartDma
  <1>8. /\ j.op \in Dmas /\ r.command = j.op /\ j.done = 0
        /\ At(c, chan[c], j, 0) /\ OneBlock(chan[c])
    <2>1. r.command # "identify"
        BY <1>7 DEF Dmas
    <2> QED BY <1>5, <1>6, <1>7, <2>1 DEF Agree
  <1>9. At(c, r, j, 0) /\ OneBlock(r)
      BY <1>6, <1>8, SamePlace
  <1>10. /\ d = <<c, r.selected>> /\ d \in Disks /\ d[1] = c /\ r.lba \in Nat
         /\ ~chan[c].busy /\ ~chan[c].srst
      BY <1>4, <1>6, <1>7, <1>9 DEF At, Disk, Channels
  <1>11. PICK X \in SUBSET Nat : X = IF j.op = "writeDma" THEN Extent(r) ELSE {}
      BY <1>6, ExtentIsNat
  <1>12. ASSUME NEW f \in [Disks -> SUBSET Nat], NEW g,
                g = IF r.command = "writeDma" THEN [f EXCEPT ![d] = @ \cup Extent(r)] ELSE f
         PROVE  Grow(g, f, d, X)
    <2>1. CASE r.command = "writeDma"
      <3>1. g = [f EXCEPT ![d] = @ \cup X]
          BY <1>8, <1>11, <1>12, <2>1
      <3> QED BY <1>10, <3>1, Grown
    <2>2. CASE r.command # "writeDma"
      <3>1. g = f /\ X = {}
          BY <1>8, <1>11, <1>12, <2>2
      <3> QED BY <1>10, <3>1, Unchanged
    <2> QED BY <2>1, <2>2
  <1>13. Grow(asked', asked, d, X)
      BY <1>5, <1>7, <1>12 DEF TypeOK
  <1>14. CASE InMemory(d, r.lba)
    <2>1. PICK q : q = Moved(r)
        OBVIOUS
    <2>2. PICK k : k = Counted(j, SectorCount(r))
        OBVIOUS
    <2>3. DmaTransfer(c, r) /\ NoRequest
        BY <1>7, <1>14
    <2>4. /\ chan' = [chan EXCEPT ![c] = q] /\ job' = [job EXCEPT ![c] = k] /\ ~halted'
          /\ written' = IF r.command = "writeDma"
                        THEN [written EXCEPT ![d] = @ \cup Extent(r)] ELSE written
        BY <1>1, <1>4, <1>5, <1>6, <1>9, <1>14, <2>1, <2>2, <2>3, DmaMoves
    <2>5. Grow(written', written, d, X)
        BY <1>5, <1>12, <2>4 DEF TypeOK
    <2>6. ASSUME NEW stored
          PROVE  q \in Channels /\ ~q.busy /\ k \in Jobs /\ Agree(c, q, k, FALSE, stored)
        BY <1>6, <1>8, <1>9, <2>1, <2>2, IsMoved
    <2>7. q.srst = r.srst
        BY <1>6, <1>8, <1>9, <2>1, <2>2, IsMoved
    <2>8. /\ q.srst = chan[c].srst /\ ~q.busy /\ Agree(c, q, k, FALSE, written')
          /\ q \in Channels /\ k \in Jobs
        BY <1>6, <2>6, <2>7
    <2>9. Becomes(c, q, k)
        BY <2>4, <2>8 DEF Becomes
    <2> QED BY <1>10, <1>13, <2>3, <2>5, <2>8, <2>9, ActKeeps
  <1>15. CASE ~InMemory(d, r.lba)
    <2>1. PICK q : q = [r EXCEPT !.busy = TRUE]
        OBVIOUS
    <2>2. /\ q \in Channels /\ q.drq = r.drq /\ q.command = r.command
          /\ q.count = r.count /\ q.busy /\ q.srst = r.srst
          /\ q.lba = r.lba /\ q.selected = r.selected
      <3>1. q = [r EXCEPT !.busy = t]
          BY <1>2, <2>1
      <3> QED BY <1>2, <1>6, <3>1 DEF Channels
    <2>3. PICK k : k = IF r.command = "writeDma" THEN Given(j, SectorCount(r)) ELSE j
        OBVIOUS
    <2>4. /\ chan' = [chan EXCEPT ![c] = q] /\ Defer("prefetch", c, d, r.lba)
          /\ written' = written /\ job' = [job EXCEPT ![c] = k] /\ ~halted'
        BY <1>1, <1>5, <1>7, <1>15, <2>1, <2>3
    <2>5. At(c, q, j, 0) /\ OneBlock(q) /\ Extent(q) = Extent(r)
        BY <1>9, <2>2, SamePlace
    <2>6. SectorCount(r) = j.count /\ Extent(r) = j.start .. j.start + j.count - 1
        BY <1>6, <1>8, <1>9, CoversAll
    <2>7. /\ k \in Jobs /\ k.op = j.op /\ k.done = 0 /\ At(c, q, k, 0) /\ X = Awaited(k)
          /\ k.given # k.done => k.op = "writeDma"
          /\ k.op = "writeDma" => k.given = k.count
      <3>1. CASE j.op = "writeDma"
        <4>1. k = Given(j, j.count) /\ j.count \in Nat
            BY <1>8, <2>3, <2>6, <3>1 DEF Jobs
        <4>2. /\ k \in Jobs /\ k.op = j.op /\ k.start = j.start /\ k.count = j.count
              /\ k.done = j.done /\ k.given = j.count /\ At(c, q, k, 0)
            BY <2>5, <4>1, HandsOver
        <4>3. Awaited(k) = Extent(r)
          <5>1. j.start + 0 = j.start
              BY DEF Jobs
          <5> QED BY <1>8, <2>6, <4>2, <5>1 DEF Awaited
        <4> QED BY <1>8, <1>11, <3>1, <4>2, <4>3
      <3>2. CASE j.op # "writeDma"
        <4>1. k = j /\ j.given = j.done
            BY <1>1, <1>8, <1>10, <2>3, <3>2, AllStored
        <4>2. Awaited(k) = {}
            BY <4>1, AwaitedIsNat
        <4> QED BY <1>8, <1>11, <2>5, <3>2, <4>1, <4>2
      <3> QED BY <3>1, <3>2
    <2>8. Agree(c, q, k, TRUE, written)
      <3>1. q.command = k.op /\ q.drq /\ k.op \in PioWrites \cup Dmas /\ k.op \in Dmas
          BY <1>7, <1>8, <2>2, <2>7
      <3> QED BY <2>2, <2>5, <2>7, <3>1, IsAsked
    <2>9. Becomes(c, q, k)
        BY <2>2, <2>4, <2>7 DEF Becomes
    <2>10. /\ ~q.srst /\ q.drq /\ d = <<c, q.selected>> /\ r.lba = q.lba /\ k.op \in Dmas
        BY <1>7, <1>8, <1>10, <2>2, <2>7
    <2> QED BY <1>7, <1>10, <1>13, <2>2, <2>4, <2>7, <2>8, <2>9, <2>10, DeferKeeps
  <1> QED BY <1>14, <1>15

LEMMA CheckCompleteKeeps ==
  ASSUME Inv, CheckComplete, guest' = guest
  PROVE  Inv'
  <1>1. PICK c \in Chans : c = slot.chan
      BY DEF Inv, TypeOK
  <1>2. PICK r : r = chan[c]
      OBVIOUS
  <1>3. PICK j \in Jobs : j = job[c]
      BY DEF Inv, TypeOK
  <1>4. PICK d : d = slot.disk
      OBVIOUS
  <1>5. /\ TypeOK /\ ~halted /\ r \in Channels /\ pending /\ ~pending' /\ pending' \in BOOLEAN
        /\ slot' = slot /\ loaded' = loaded /\ asked' = asked
        /\ Agree(c, r, j, Waits(c), written) /\ Waits(c) /\ SlotAgrees
      BY <1>1, <1>2, <1>3 DEF Inv, TypeOK, ChannelsAgree, CheckComplete, Waits
  <1>6. At(c, r, j, 0)
      BY <1>5 DEF Agree
  <1>7. /\ d = <<c, r.selected>> /\ d = j.disk /\ d \in Disks /\ slot.at = r.lba /\ r.busy
        /\ InMemory(d, r.lba) /\ r.lba \in Nat
        /\ \/ slot.kind = "read" /\ j.op \in PioReads /\ ~r.drq
           \/ slot.kind = "write" /\ j.op \in PioWrites /\ ~r.drq /\ j.given = j.done + 1
           \/ /\ slot.kind = "prefetch" /\ j.op \in Dmas /\ r.drq
              /\ j.op = "writeDma" => j.given = j.count
      BY <1>1, <1>2, <1>3, <1>4, <1>5, <1>6 DEF SlotAgrees, At, Channels
  <1>8. r.command = j.op
    <2>1. j.op # "none"
        BY <1>7 DEF PioReads, PioWrites, Dmas
    <2> QED BY <1>5, <2>1 DEF Agree
  <1>9. \/ /\ slot.kind # "prefetch"
           /\ chan' = [chan EXCEPT ![c] = IF slot.kind = "read" THEN SectorRead(r, d, r.lba)
                                                                ELSE SectorWritten(r)]
           /\ written' = Stored(slot)
           /\ job' = [job EXCEPT ![c] =
                        Counted(@, IF slot.kind = "read" THEN @.done ELSE @.done + 1)]
           /\ UNCHANGED halted
        \/ slot.kind = "prefetch" /\ DmaTransfer(c, r)
      BY <1>1, <1>2, <1>4, <1>7, Zenon DEF CheckComplete
  <1>10. \A f \in [Disks -> SUBSET Nat] : Grow(f, f, d, {})
      BY <1>7, Unchanged
  <1>11. ASSUME NEW q, NEW k, Becomes(c, q, k), ~q.busy, q.srst = r.srst,
                Agree(c, q, k, FALSE, written'), Grow(written', written, d, Awaited(j))
         PROVE  Inv'
      BY <1>1, <1>2, <1>3, <1>4, <1>5, <1>11, FinishKeeps
  <1>12. CASE slot.kind = "read"
    <2>1. PICK q : q = SectorRead(r, d, r.lba)
        OBVIOUS
    <2>2. PICK k : k = Counted(j, j.done)
        OBVIOUS
    <2>3. /\ chan' = [chan EXCEPT ![c] = q] /\ job' = [job EXCEPT ![c] = k] /\ ~halted'
          /\ written' = written /\ j.op \in PioReads
        BY <1>3, <1>5, <1>7, <1>9, <1>12, <2>1, <2>2 DEF Stored
    <2>4. /\ k \in Jobs /\ k.op = j.op /\ k.disk = j.disk /\ At(c, r, k, 0) /\ k.given = k.done
      <3>1. PICK f \in BOOLEAN : f = FALSE
          OBVIOUS
      <3>2. PICK e \in Nat : e = j.done
          BY DEF Jobs
      <3>3. k = [j EXCEPT !.done = e, !.given = e, !.seen = f]
          BY <2>2, <3>1, <3>2 DEF Counted
      <3>4. /\ k \in Jobs /\ k.op = j.op /\ k.disk = j.disk /\ k.start = j.start
            /\ k.count = j.count /\ k.done = j.done /\ k.given = j.done
          BY <3>2, <3>3 DEF Jobs
      <3>5. At(c, r, k, 0)
          BY <1>6, <3>4, Zenon DEF At
      <3> QED BY <3>4, <3>5
    <2>5. /\ q \in Channels /\ ~q.busy /\ Agree(c, q, k, FALSE, written)
      <3>1. q = SectorRead(r, k.disk, r.lba) /\ r.command = k.op /\ k.op \in PioReads
          BY <1>7, <1>8, <2>1, <2>3, <2>4
      <3> QED BY <1>5, <2>4, <3>1, Arrives
    <2>6. q.srst = r.srst
      <3>1. q = SectorRead(r, k.disk, r.lba) /\ r.command = k.op /\ k.op \in PioReads
          BY <1>7, <1>8, <2>1, <2>3, <2>4
      <3> QED BY <1>5, <2>4, <3>1, Arrives
    <2>7. Becomes(c, q, k)
        BY <2>3, <2>4, <2>5 DEF Becomes
    <2>8. Grow(written', written, d, Awaited(j))
      <3>1. Awaited(j) = {}
        <4>1. j.op \notin PioWrites /\ j.op # "writeDma"
            BY <2>3 DEF PioReads, PioWrites
        <4>2. j.given = j.done
            BY <1>5, <4>1 DEF Agree, Gives
        <4> QED BY <4>2, AwaitedIsNat
      <3> QED BY <1>5, <1>10, <2>3, <3>1 DEF TypeOK
    <2>9. Agree(c, q, k, FALSE, written')
        BY <2>3, <2>5
    <2> QED BY <1>11, <2>5, <2>6, <2>7, <2>8, <2>9
  <1>13. CASE slot.kind = "write"
    <2>1. PICK q : q = SectorWritten(r)
        OBVIOUS
    <2>2. PICK k : k = OneMore(j)
        OBVIOUS
    <2>3. /\ chan' = [chan EXCEPT ![c] = q] /\ job' = [job EXCEPT ![c] = k] /\ ~halted'
          /\ written' = [written EXCEPT ![d] = @ \cup {r.lba}] /\ j.op \in PioWrites
        BY <1>3, <1>4, <1>5, <1>7, <1>9, <1>13, <2>1, <2>2 DEF Stored, OneMore
    <2>4. ASSUME NEW stored
          PROVE  q \in Channels /\ ~q.busy /\ k \in Jobs /\ Agree(c, q, k, FALSE, stored)
        BY <1>5, <1>6, <1>8, <2>1, <2>2, <2>3, IsWritten
    <2>5. q.srst = r.srst
        BY <1>5, <1>6, <1>8, <2>1, <2>2, <2>3, IsWritten
    <2>6. Becomes(c, q, k)
        BY <2>3, <2>4 DEF Becomes
    <2>7. Grow(written', written, d, Awaited(j))
      <3>1. /\ r.lba = j.start + j.done /\ j.start \in Nat /\ j.done \in Nat
            /\ j.given = j.done + 1
          BY <1>6, <1>7, <1>13 DEF At, Jobs
      <3>2. Awaited(j) = {r.lba} /\ {r.lba} \in SUBSET Nat
          BY <3>1 DEF Awaited
      <3> QED BY <1>5, <1>7, <2>3, <3>2, Grown DEF TypeOK
    <2>8. ~q.busy /\ Agree(c, q, k, FALSE, written')
        BY <2>4
    <2> QED BY <1>11, <2>5, <2>6, <2>7, <2>8
  <1>14. CASE slot.kind = "prefetch"
    <2>1. PICK q : q = Moved(r)
        OBVIOUS
    <2>2. PICK k : k = Counted(j, SectorCount(r))
        OBVIOUS
    <2>3. j.op \in Dmas /\ r.drq /\ DmaTransfer(c, r) /\ Disk(c, r) = d
        BY <1>7, <1>9, <1>14 DEF Disk
    <2>4. j.done = 0 /\ OneBlock(r)
        BY <1>5, <2>3 DEF Agree
    <2>5. /\ chan' = [chan EXCEPT ![c] = q] /\ job' = [job EXCEPT ![c] = k] /\ ~halted'
          /\ written' = IF r.command = "writeDma"
                        THEN [written EXCEPT ![d] = @ \cup Extent(r)] ELSE written
        BY <1>3, <1>5, <1>7, <2>1, <2>2, <2>3, <2>4, DmaMoves
    <2>6. ASSUME NEW stored
          PROVE  q \in Channels /\ ~q.busy /\ k \in Jobs /\ Agree(c, q, k, FALSE, stored)
        BY <1>5, <1>6, <1>8, <2>1, <2>2, <2>3, <2>4, IsMoved
    <2>7. q.srst = r.srst
        BY <1>5, <1>6, <1>8, <2>1, <2>2, <2>3, <2>4, IsMoved
    <2>8. Becomes(c, q, k)
        BY <2>5, <2>6 DEF Becomes
    <2>9. Grow(written', written, d, Awaited(j))
      <3>1. PICK X \in SUBSET Nat : X = Extent(r)
          BY <1>5, ExtentIsNat
      <3>2. Awaited(j) = IF r.command = "writeDma" THEN X ELSE {}
        <4>1. CASE j.op = "writeDma"
          <5>1. j.given = j.count /\ j.start + 0 = j.start
              BY <1>7, <2>3, <4>1 DEF PioReads, PioWrites, Jobs
          <5>2. Extent(r) = j.start .. j.start + j.count - 1
              BY <1>5, <1>6, <2>4, CoversAll
          <5> QED BY <1>8, <2>4, <3>1, <4>1, <5>1, <5>2 DEF Awaited
        <4>2. CASE j.op # "writeDma"
          <5>1. j.op \notin PioWrites
              BY <2>3 DEF Dmas, PioWrites
          <5>2. j.given = j.done
              BY <1>5, <4>2, <5>1 DEF Agree, Gives
          <5> QED BY <1>8, <4>2, <5>2, AwaitedIsNat
        <4> QED BY <4>1, <4>2
      <3>3. CASE r.command = "writeDma"
        <4>1. written' = [written EXCEPT ![d] = @ \cup X] /\ Awaited(j) = X
            BY <2>5, <3>1, <3>2, <3>3
        <4> QED BY <1>5, <1>7, <4>1, Grown DEF TypeOK
      <3>4. CASE r.command # "writeDma"
        <4>1. written' = written /\ Awaited(j) = {}
            BY <2>5, <3>2, <3>4
        <4> QED BY <1>5, <1>10, <4>1 DEF TypeOK
      <3> QED BY <3>3, <3>4
    <2>10. ~q.busy /\ Agree(c, q, k, FALSE, written')
        BY <2>6
    <2> QED BY <1>11, <2>7, <2>8, <2>9, <2>10
  <1> QED BY <1>7, <1>12, <1>13, <1>14

----------------------------------------------------------------------------
(* The theorems.                                                           *)

LEMMA Starts ==
  ASSUME Init
  PROVE  Inv
  <1>1. InitChannel \in Channels /\ NoJob \in Jobs
    <2>1. Empty \in [disk : Chans \X {0, 1}, at : Nat] /\ 0 \in Numbers
        BY Wraps DEF Empty, Chans, Numbers
    <2>2. "none" \in AllCommands
        BY DEF AllCommands, Other
    <2>3. InitChannel \in Channels
        BY <2>1, <2>2 DEF InitChannel, Channels
    <2>4. NoJob \in Jobs
        BY <2>2 DEF NoJob, Jobs, Chans
    <2> QED BY <2>3, <2>4
  <1>2. /\ ~InitChannel.busy /\ ~InitChannel.drq /\ ~InitChannel.srst
      BY DEF InitChannel
  <1>3. /\ \A c \in Chans : chan[c] = InitChannel /\ job[c] = NoJob
        /\ chan \in [Chans -> Channels] /\ job \in [Chans -> Jobs] /\ ~pending
      BY <1>1 DEF Init
  <1>4. TypeOK /\ ~halted
    <2>1. slot \in [kind : {"read", "write", "prefetch"}, chan : Chans, disk : Chans \X {0, 1}, at : Nat]
        BY DEF Init, Chans
    <2> QED BY <1>3, <2>1 DEF Init, TypeOK
  <1>5. ChannelsAgree
    <2> SUFFICES ASSUME NEW c \in Chans
                 PROVE  Agree(c, chan[c], job[c], Waits(c), written)
        BY DEF ChannelsAgree
    <2>1. Waits(c) = FALSE
        BY <1>2, <1>3, Zenon DEF Waits
    <2>2. Agree(c, InitChannel, NoJob, FALSE, written)
        BY <1>2, IdleAgrees
    <2> QED BY <1>3, <2>1, <2>2, Zenon
  <1>6. SlotAgrees /\ Turns
      BY <1>2, <1>3 DEF SlotAgrees, Turns, NoJob
  <1>7. WritesAgree
      BY <1>3 DEF Init, WritesAgree, NoJob
  <1> QED BY <1>4, <1>5, <1>6, <1>7 DEF Inv

LEMMA Steps ==
  ASSUME VerifyFirst, WithinBlocks, Inv, [Next]_vars
  PROVE  Inv'
  <1>1. CASE CheckComplete /\ guest' = guest
      BY <1>1, CheckCompleteKeeps
  <1>2. ASSUME NEW c \in Chans, Guest(c), guest' = guest
        PROVE  Inv'
    <2>1. ASSUME NEW q \in guest.requests[c], Command(c, q)
          PROVE  Inv'
        BY <1>2, <2>1, CommandKeeps
    <2>2. CASE SelectAbsent(c)
        BY <1>2, <2>2, SelectAbsentKeeps
    <2>3. CASE ReadStatus(c) \/ CommandUnderBusy(c)
        BY <1>2, <2>3, StatusKeeps
    <2>4. CASE ReadData(c)
        BY <1>2, <2>4, ReadDataKeeps
    <2>5. CASE WriteData(c)
        BY <1>2, <2>5, WriteDataKeeps
    <2>6. CASE StartDma(c)
        BY <1>2, <2>6, StartDmaKeeps
    <2>7. CASE StopDma(c)
        BY <1>2, <2>7, StopDmaKeeps
    <2>8. CASE SetReset(c)
      <3>1. ~halted'
          BY <2>8 DEF Inv, SetReset, Quiet
      <3> QED BY <1>2, <2>8, <3>1, SetResetKeeps
    <2>9. CASE ClearReset(c)
      <3>1. ~halted'
          BY <2>9 DEF Inv, ClearReset
      <3> QED BY <1>2, <2>9, <3>1, ClearResetKeeps
    <2> QED BY <1>2, <2>1, <2>2, <2>3, <2>4, <2>5, <2>6, <2>7, <2>8, <2>9 DEF Guest
  <1>3. CASE UNCHANGED vars
      BY <1>3 DEF vars, Inv, TypeOK, ChannelsAgree, Waits, Agree, At, OneBlock, SlotAgrees,
                  InMemory, Gives, WritesAgree, Awaited, Turns
  <1> QED BY <1>1, <1>2, <1>3 DEF Next

\* What every state of these guests satisfies.
LEMMA Invariant ==
  ASSUME VerifyFirst, WithinBlocks
  PROVE  Spec => []Inv
  <1>1. Init => Inv
      BY Starts
  <1>2. Inv /\ [Next]_vars => Inv'
      BY Steps
  <1> QED BY <1>1, <1>2, PTL DEF Spec

\* What the invariant says of the channels, the slot and the disks.
LEMMA Implied ==
  ASSUME Inv
  PROVE  SlotHasOwner /\ WritesAsAsked /\ ReadyIsSignalled /\ SectorsInOrder
  <1>1. SlotHasOwner
      BY DEF Inv, SlotAgrees, Turns, SlotHasOwner
  <1>2. WritesAsAsked
    <2> SUFFICES ASSUME NEW d \in Disks
                 PROVE  /\ written[d] \subseteq asked[d]
                        /\ (~guest.overlaps /\ asked[d] \ written[d] # {}) =>
                             pending /\ slot.disk = d /\ slot.kind # "read"
        BY DEF WritesAsAsked
    <2>1. written[d] \subseteq asked[d]
        BY DEF Inv, WritesAgree
    <2>2. ASSUME ~guest.overlaps, asked[d] # written[d]
          PROVE  pending /\ slot.disk = d /\ slot.kind # "read"
      <3>1. PICK c \in Chans : c = d[1]
          BY ConstantsOK
      <3>2. job[c] \in Jobs /\ job[c].disk = d /\ job[c].given # job[c].done
        <4>1. /\ job[c].disk = d /\ asked[d] \subseteq written[d] \cup Awaited(job[c])
              /\ job[c] \in Jobs
            BY <2>2, <3>1 DEF Inv, TypeOK, WritesAgree
        <4> QED BY <2>1, <2>2, <4>1, AwaitedIsNat
      <3>3. pending /\ slot.chan = c
          BY <2>2, <3>2 DEF Inv, Turns
      <3>4. slot.disk = job[c].disk /\ (job[c].op \in PioWrites \/ job[c].op = "writeDma")
          BY <3>2, <3>3 DEF Inv, ChannelsAgree, Agree, Gives, At, SlotAgrees
      <3>5. job[c].op \notin PioReads
          BY <3>4 DEF PioReads, PioWrites
      <3> QED BY <3>2, <3>3, <3>4, <3>5 DEF Inv, SlotAgrees
    <2> QED BY <2>1, <2>2
  <1>3. ReadyIsSignalled
      BY DEF Inv, ChannelsAgree, Agree, ReadyIsSignalled
  <1>4. SectorsInOrder
    <2> SUFFICES ASSUME NEW c \in Chans, NEW r, r = chan[c], NEW j, j = job[c]
                 PROVE  /\ (j.op \in PioReads /\ r.drq /\ ~r.srst) =>
                             /\ r.buffer = [disk |-> j.disk, at |-> j.start + j.done]
                             /\ r.new = (j.start + j.done \in written[j.disk])
                        /\ (j.op \in Moves /\ ~r.busy /\ ~r.drq /\ ~r.err) => j.done = j.count
        BY DEF SectorsInOrder, Moves
    <2>1. Agree(c, r, j, Waits(c), written)
        BY DEF Inv, ChannelsAgree
    <2>2. "none" \notin Moves
        BY DEF Moves, PioReads, PioWrites, Dmas
    <2> QED BY <2>1, <2>2 DEF Agree
  <1> QED BY <1>1, <1>2, <1>3, <1>4

\* The slot and the channel that waits belong together: drive_check_complete
\* calls back with the registers of the request.
THEOREM SafetySlotHasOwner ==
  ASSUME VerifyFirst, WithinBlocks
  PROVE  Spec => []SlotHasOwner
  <1>1. Inv => SlotHasOwner
      BY Implied
  <1> QED BY <1>1, Invariant, PTL

\* No lost and no stray write, for every disk and every set of requests.
THEOREM SafetyWritesAsAsked ==
  ASSUME VerifyFirst, WithinBlocks
  PROVE  Spec => []WritesAsAsked
  <1>1. Inv => WritesAsAsked
      BY Implied
  <1> QED BY <1>1, Invariant, PTL

\* A sector to read, and a finished DMA, is signalled until it is looked at.
THEOREM SafetyReadyIsSignalled ==
  ASSUME VerifyFirst, WithinBlocks
  PROVE  Spec => []ReadyIsSignalled
  <1>1. Inv => ReadyIsSignalled
      BY Implied
  <1> QED BY <1>1, Invariant, PTL

\* A DMA command inside a block, and every PIO command, finds its sectors in
\* memory: no assertion of the drivers stops the program.
THEOREM SafetyNeverAborts ==
  ASSUME VerifyFirst, WithinBlocks
  PROVE  Spec => []NeverAborts
  <1>1. Inv => NeverAborts
      BY DEF Inv, NeverAborts
  <1> QED BY <1>1, Invariant, PTL

\* Sectors come in order with their present content, and a command that ends
\* without an error has moved them all, for a count register of 0 too.
THEOREM SafetySectorsInOrder ==
  ASSUME VerifyFirst, WithinBlocks
  PROVE  Spec => []SectorsInOrder
  <1>1. Inv => SectorsInOrder
      BY Implied
  <1> QED BY <1>1, Invariant, PTL

----------------------------------------------------------------------------
(* The contract.  A step, seen through Standing and Showing of             *)
(* IdeRefinement, is one of DiskContract or none.  There is a lemma for    *)
(* each step of the contract (Begins, Takes, Puts, ...), and one for each  *)
(* action that says which of them it is.                                   *)

Simulates == [Contract!Next]_(Contract!vars)

\* The other channels stand still.
Others(c) == \A b \in Chans \ {c} : Standing(b)' = Standing(b) /\ Showing(b)' = Showing(b)

\* Only c stands at another command, or shows another sector.
LEMMA Framed ==
  ASSUME NEW c \in Chans, Others(c)
  PROVE  /\ [b \in Chans |-> Standing(b)]' = [[b \in Chans |-> Standing(b)] EXCEPT ![c] = Standing(c)']
         /\ [b \in Chans |-> Showing(b)]' = [[b \in Chans |-> Showing(b)] EXCEPT ![c] = Showing(c)']
  BY DEF Others

LEMMA OthersStand ==
  ASSUME NEW c \in Chans, \A b \in Chans \ {c} : chan'[b] = chan[b] /\ job'[b] = job[b]
  PROVE  Others(c)
  <1> SUFFICES ASSUME NEW b \in Chans \ {c}
               PROVE  Standing(b)' = Standing(b) /\ Showing(b)' = Showing(b)
      BY DEF Others
  <1>1. chan'[b] = chan[b] /\ job'[b] = job[b]
      OBVIOUS
  <1>2. Standing(b)' = Standing(b)
      BY <1>1, Zenon DEF Standing
  <1>3. Showing(b)' = Showing(b)
      BY <1>1, Zenon DEF Showing
  <1> QED BY <1>2, <1>3

\* The command of job j with n sectors moved.
As(j, n) == [op |-> j.op, disk |-> j.disk, start |-> j.start, count |-> j.count, done |-> n]

LEMMA StandsAs ==
  ASSUME NEW c \in Chans
  PROVE  Standing(c) = As(job[c], job[c].given)
  BY DEF Standing, As

LEMMA StandsAsNext ==
  ASSUME NEW c \in Chans, NEW k, k = job'[c]
  PROVE  Standing(c)' = As(k, k.given)
  BY DEF Standing, As

ShowsTruly == \A c \in Chans : Showing(c) \in Contract!Showable(Standing(c))

\* What a channel shows is what the disk of its command holds.
LEMMA ShowsIt ==
  Inv => ShowsTruly
  <1> SUFFICES ASSUME Inv, NEW c \in Chans
               PROVE  Showing(c) \in Contract!Showable(Standing(c))
      BY DEF ShowsTruly
  <1> DEFINE r == chan[c]
             j == job[c]
  <1>1. CASE ~ (j.op \in PioReads /\ r.drq /\ ~r.srst)
      BY <1>1, Zenon DEF Showing, Contract!Showable, Contract!Nothing
  <1>2. CASE j.op \in PioReads /\ r.drq /\ ~r.srst
    <2>1. Agree(c, r, j, Waits(c), written) /\ TypeOK /\ WritesAgree
        BY DEF Inv, ChannelsAgree
    <2>2. /\ At(c, r, j, 1) /\ r.buffer = [disk |-> j.disk, at |-> j.start + j.done]
          /\ r.new = (j.start + j.done \in written[j.disk])
        BY <1>2, <2>1 DEF Agree
    <2>3. j.given = j.done
      <3>1. j.op # "writeDma" /\ j.op \notin PioWrites
          BY <1>2 DEF PioReads, PioWrites
      <3> QED BY <2>1, <3>1 DEF Agree, Gives
    <2>4. j.disk \in Disks /\ j.disk[1] = c /\ j.done < j.count
        BY <2>2 DEF At
    <2>5. asked[j.disk] = written[j.disk]
      <3>1. Awaited(j) = {}
          BY <2>1, <2>3, AwaitedIsNat DEF TypeOK
      <3> QED BY <2>1, <2>4, <3>1 DEF WritesAgree
    <2>6. Standing(c) = As(j, j.done)
        BY <2>3, StandsAs
    <2>7. Showing(c) = [there |-> TRUE, disk |-> j.disk, at |-> j.start + j.done,
                        new |-> (j.start + j.done \in asked[j.disk])]
        BY <1>2, <2>2, <2>5 DEF Showing
    <2>8. /\ As(j, j.done).op = j.op /\ As(j, j.done).disk = j.disk
          /\ As(j, j.done).start = j.start /\ As(j, j.done).count = j.count
          /\ As(j, j.done).done = j.done
        BY DEF As
    <2>9. Contract!Sector(As(j, j.done)) = Showing(c)
        BY <2>7, <2>8, Zenon DEF Contract!Sector
    <2> QED BY <1>2, <2>4, <2>6, <2>8, <2>9 DEF Contract!Showable
  <1> QED BY <1>1, <1>2

LEMMA ShowsItNext == Inv' => ShowsTruly'
  BY ShowsIt, PTL

\* What two states have in common.
Between == Inv /\ Inv' /\ ShowsTruly /\ ShowsTruly'

LEMMA BetweenIs == Inv /\ Inv' => Between
  BY ShowsIt, ShowsItNext DEF Between

\* The channel stands where it stood: whatever becomes of the sector it
\* shows, that is a step.
LEMMA StaysPut ==
  ASSUME Between, NEW c \in Chans, Others(c), asked' = asked, Standing(c)' = Standing(c)
  PROVE  Simulates
  <1> DEFINE commands == [b \in Chans |-> Standing(b)]
             sights == [b \in Chans |-> Showing(b)]
  <1>1. /\ commands' = [commands EXCEPT ![c] = Standing(c)']
        /\ sights' = [sights EXCEPT ![c] = Showing(c)']
      BY Framed
  <1>2. commands[c] = Standing(c) /\ sights[c] = Showing(c)
      OBVIOUS
  <1>3. commands' = commands
      BY <1>1
  <1>4. /\ Showing(c) \in Contract!Showable(Standing(c))
        /\ Showing(c)' \in Contract!Showable(Standing(c))
    <2>1. (Showing(c) \in Contract!Showable(Standing(c)))'
        BY DEF Between, ShowsTruly
    <2> QED BY <2>1 DEF Between, ShowsTruly, Contract!Showable, Contract!Sector
  <1>5. CASE Showing(c)' = Contract!Nothing
    <2>1. Contract!Hide(c)
        BY <1>1, <1>3, <1>5 DEF Contract!Hide
    <2> QED BY <2>1 DEF Simulates, Contract!Next
  <1>6. CASE Showing(c)' # Contract!Nothing /\ Showing(c) = Contract!Nothing
    <2>1. Contract!Show(c)
        BY <1>1, <1>2, <1>3, <1>4, <1>6 DEF Contract!Show, Contract!Stands
    <2> QED BY <2>1 DEF Simulates, Contract!Next
  <1>7. CASE Showing(c)' # Contract!Nothing /\ Showing(c) # Contract!Nothing
    <2>1. Showing(c)' = Showing(c)
        BY <1>4, <1>7 DEF Contract!Showable
    <2>2. sights' = sights
        BY <1>1, <2>1
    <2> QED BY <1>3, <2>2 DEF Simulates, Contract!vars
  <1> QED BY <1>5, <1>6, <1>7

\* The channel comes to another command, or to another sector of it.
LEMMA StandsAt ==
  ASSUME Between, NEW c \in Chans, Others(c), asked' = asked, NEW k, k = Standing(c)'
  PROVE  Contract!Stands(c, k)
  <1>1. Showing(c)' \in Contract!Showable(k)
    <2>1. (Showing(c) \in Contract!Showable(Standing(c)))'
        BY DEF Between, ShowsTruly
    <2> QED BY <2>1 DEF Contract!Showable, Contract!Sector
  <1> QED BY <1>1, Framed DEF Contract!Stands

LEMMA Begins ==
  ASSUME Between, NEW c \in Chans, Others(c), asked' = asked,
         Standing(c).done = Standing(c).count,
         NEW k \in Contract!Commands(c), k = Standing(c)'
  PROVE  Simulates
  <1>1. Contract!Begin(c)
      BY StandsAt DEF Contract!Begin
  <1> QED BY <1>1 DEF Simulates, Contract!Next

LEMMA Takes ==
  ASSUME Between, NEW c \in Chans, Others(c), asked' = asked,
         Showing(c) # Contract!Nothing,
         NEW k, k = Standing(c)', k = [Standing(c) EXCEPT !.done = @ + 1]
  PROVE  Simulates
  <1>1. Contract!Take(c)
      BY StandsAt DEF Contract!Take
  <1> QED BY <1>1 DEF Simulates, Contract!Next

\* A command that is no PIO read shows nothing.
LEMMA ShowsNothing ==
  ASSUME NEW c \in Chans, Others(c), (Standing(c).op)' = Standing(c).op,
         Standing(c).op \notin PioReads
  PROVE  [b \in Chans |-> Showing(b)]' = [b \in Chans |-> Showing(b)]
  <1>1. job[c].op \notin PioReads /\ job'[c].op \notin PioReads
      BY DEF Standing
  <1>2. Showing(c)' = Showing(c)
      BY <1>1, Zenon DEF Showing
  <1> QED BY <1>2 DEF Others

LEMMA Puts ==
  ASSUME NEW c \in Chans, Others(c), NEW j, j = Standing(c),
         j.op \in PioWrites, j.done < j.count,
         asked' = [asked EXCEPT ![j.disk] = @ \cup {j.start + j.done}],
         Standing(c)' = [j EXCEPT !.done = @ + 1], (Standing(c).op)' = j.op
  PROVE  Simulates
  <1>1. j.op \notin PioReads
      BY DEF PioReads, PioWrites
  <1>2. Contract!Put(c)
      BY <1>1, Framed, ShowsNothing DEF Contract!Put
  <1> QED BY <1>2 DEF Simulates, Contract!Next

LEMMA TakesAll ==
  ASSUME NEW c \in Chans, Others(c), NEW j, j = Standing(c),
         j.op = "readDma", j.done = 0, asked' = asked,
         Standing(c)' = [j EXCEPT !.done = j.count], (Standing(c).op)' = j.op
  PROVE  Simulates
  <1>1. j.op \notin PioReads
      BY DEF PioReads
  <1>2. Contract!TakeAll(c)
      BY <1>1, Framed, ShowsNothing DEF Contract!TakeAll
  <1> QED BY <1>2 DEF Simulates, Contract!Next

LEMMA PutsAll ==
  ASSUME NEW c \in Chans, Others(c), NEW j, j = Standing(c),
         j.op = "writeDma", j.done = 0,
         asked' = [asked EXCEPT ![j.disk] = @ \cup (j.start .. (j.start + j.count - 1))],
         Standing(c)' = [j EXCEPT !.done = j.count], (Standing(c).op)' = j.op
  PROVE  Simulates
  <1>1. j.op \notin PioReads
      BY DEF PioReads
  <1>2. Contract!PutAll(c)
      BY <1>1, Framed, ShowsNothing DEF Contract!PutAll, Contract!Extent
  <1> QED BY <1>2 DEF Simulates, Contract!Next

\* What is handed over and not stored is the last that the command handed over.
LEMMA AwaitedIsLatest ==
  ASSUME Inv, NEW c \in Chans, NEW d \in Disks, d[1] = c, asked[d] # written[d]
  PROVE  Standing(c).disk = d /\ asked[d] \ written[d] \subseteq Contract!Latest(Standing(c))
  <1>1. PICK j \in Jobs : j = job[c]
      BY DEF Inv, TypeOK
  <1>2. j.disk = d /\ asked[d] \subseteq written[d] \cup Awaited(j) /\ written[d] \subseteq asked[d]
      BY <1>1 DEF Inv, WritesAgree
  <1>3. j.given # j.done
      BY <1>2, AwaitedIsNat
  <1>4. /\ j.start \in Nat /\ j.done \in Nat /\ j.count \in Nat /\ j.done < j.count
        /\ \/ j.op \in PioWrites /\ j.given = j.done + 1
           \/ j.op = "writeDma" /\ j.given = j.count /\ j.done = 0
    <2>1. Gives(c, chan[c], j)
        BY <1>1 DEF Inv, ChannelsAgree, Agree
    <2> QED BY <1>3, <2>1 DEF Gives, At, Jobs
  <1>5. Standing(c) = As(j, j.given)
      BY <1>1, StandsAs
  <1>6. PICK a : a = As(j, j.given)
      OBVIOUS
  <1>7. /\ a.op = j.op /\ a.disk = j.disk /\ a.start = j.start /\ a.count = j.count
        /\ a.done = j.given
      BY <1>6 DEF As
  <1>8. Awaited(j) \subseteq Contract!Latest(a)
    <2>1. CASE j.op \in PioWrites
      <3>1. j.given = j.done + 1
          BY <1>4, <2>1 DEF PioWrites
      <3>2. Awaited(j) = {j.start + j.given - 1} /\ j.given # 0
          BY <1>4, <3>1 DEF Awaited
      <3> QED BY <1>7, <2>1, <3>2 DEF Contract!Latest
    <2>2. CASE j.op = "writeDma"
      <3>1. j.op \notin PioWrites
          BY <2>2 DEF PioWrites
      <3>2. j.given = j.count /\ j.start + j.done = j.start /\ j.given # 0
          BY <1>4, <3>1
      <3>3. Awaited(j) = j.start .. (j.start + j.count - 1)
          BY <3>2 DEF Awaited
      <3> QED BY <1>7, <2>2, <3>1, <3>2, <3>3 DEF Contract!Latest, Contract!Extent
    <2> QED BY <1>4, <2>1, <2>2
  <1> QED BY <1>2, <1>5, <1>6, <1>7, <1>8

LEMMA Resets ==
  ASSUME Between, NEW c \in Chans, ClearReset(c)
  PROVE  Simulates
  <1> DEFINE j == Standing(c)
  <1>1. Inv
      BY DEF Between
  <1>2. /\ job' = [job EXCEPT ![c] = NoJob]
        /\ asked' = [d \in Disks |-> IF d[1] = c THEN written[d] ELSE asked[d]]
        /\ \A b \in Chans \ {c} : chan'[b] = chan[b]
      BY <1>1 DEF ClearReset, Cancel, Inv, TypeOK
  <1>3. job'[c] = NoJob /\ \A b \in Chans \ {c} : job'[b] = job[b]
      BY <1>1, <1>2 DEF Inv, TypeOK
  <1>4. Others(c)
      BY <1>2, <1>3, OthersStand
  <1>5. Standing(c)' = Contract!None /\ Showing(c)' = Contract!Nothing
    <2>1. Standing(c)' = Contract!None
      <3>1. Standing(c)' = As(NoJob, NoJob.given)
          BY <1>3, StandsAsNext
      <3> QED BY <3>1 DEF As, NoJob, Contract!None
    <2>2. (job[c].op)' = "none"
        BY <1>3 DEF NoJob
    <2>3. Showing(c)' = Contract!Nothing
        BY <2>2, Zenon DEF Showing, PioReads, Contract!Nothing
    <2> QED BY <2>1, <2>3
  <1>6. \E lost \in SUBSET Contract!Latest(j) :
          asked' = [d \in Disks |-> IF d = j.disk THEN asked[d] \ lost ELSE asked[d]]
    <2>1. \A d \in Disks : written[d] \subseteq asked[d]
        BY <1>1 DEF Inv, WritesAgree
    <2>2. CASE \E d \in Disks : d[1] = c /\ asked[d] # written[d]
      <3>1. PICK d \in Disks : d[1] = c /\ asked[d] # written[d]
          BY <2>2
      <3>2. j.disk = d /\ asked[d] \ written[d] \subseteq Contract!Latest(j)
          BY <1>1, <3>1, AwaitedIsLatest
      <3>3. \A e \in Disks \ {d} : e[1] = c => asked[e] = written[e]
        <4> SUFFICES ASSUME NEW e \in Disks, e[1] = c, asked[e] # written[e]
                     PROVE  e = d
            OBVIOUS
        <4> QED BY <1>1, <3>2, AwaitedIsLatest
      <3>4. PICK lost : lost = asked[d] \ written[d]
          OBVIOUS
      <3>5. asked[d] \ lost = written[d]
          BY <2>1, <3>4
      <3>6. asked' = [e \in Disks |-> IF e = j.disk THEN asked[e] \ lost ELSE asked[e]]
          BY <1>2, <3>1, <3>2, <3>3, <3>5
      <3> QED BY <3>2, <3>4, <3>6
    <2>3. CASE ~ \E d \in Disks : d[1] = c /\ asked[d] # written[d]
      <3>1. asked' = [d \in Disks |-> IF d = j.disk THEN asked[d] \ {} ELSE asked[d]]
          BY <1>2, <2>3
      <3> QED BY <3>1
    <2> QED BY <2>2, <2>3
  <1>7. Contract!Reset(c)
    <2>1. /\ [b \in Chans |-> Standing(b)]' =
               [[b \in Chans |-> Standing(b)] EXCEPT ![c] = Contract!None]
          /\ [b \in Chans |-> Showing(b)]' =
               [[b \in Chans |-> Showing(b)] EXCEPT ![c] = Contract!Nothing]
        BY <1>4, <1>5, Framed
    <2>2. PICK lost \in SUBSET Contract!Latest(j) :
            asked' = [d \in Disks |-> IF d = j.disk THEN asked[d] \ lost ELSE asked[d]]
        BY <1>6
    <2>3. [b \in Chans |-> Standing(b)][c] = j
        OBVIOUS
    <2>4. lost \in SUBSET Contract!Latest([b \in Chans |-> Standing(b)][c])
        BY <2>3
    <2>5. asked' = [d \in Disks |-> IF d = [b \in Chans |-> Standing(b)][c].disk
                                     THEN asked[d] \ lost ELSE asked[d]]
        BY <2>2, <2>3
    <2> QED BY <2>1, <2>4, <2>5, Zenon DEF Contract!Reset
  <1> QED BY <1>7 DEF Simulates, Contract!Next

\* A channel changes, and its job only in what the guest has seen.
LEMMA Rests ==
  ASSUME Between, NEW c \in Chans, \A b \in Chans \ {c} : chan'[b] = chan[b] /\ job'[b] = job[b],
         asked' = asked,
         NEW k, k = job'[c], k.op = job[c].op, k.disk = job[c].disk, k.start = job[c].start,
         k.count = job[c].count, k.given = job[c].given
  PROVE  Simulates
  <1>1. Others(c)
      BY OthersStand
  <1>2. Standing(c)' = Standing(c)
      BY DEF Standing
  <1> QED BY <1>1, <1>2, StaysPut

LEMMA RestSimulates ==
  ASSUME Between, NEW c \in Chans,
         SelectAbsent(c) \/ CommandUnderBusy(c) \/ StopDma(c) \/ ReadStatus(c) \/ SetReset(c)
  PROVE  Simulates
  <1>1. TypeOK
      BY DEF Between, Inv
  <1>2. PICK k : k = job'[c]
      OBVIOUS
  <1>3. /\ k.op = job[c].op /\ k.disk = job[c].disk /\ k.start = job[c].start
        /\ k.count = job[c].count /\ k.given = job[c].given
        /\ \A b \in Chans \ {c} : job'[b] = job[b]
    <2>1. CASE ReadStatus(c)
      <3>1. PICK f \in BOOLEAN : f = ~chan[c].busy
          BY Zenon
      <3>2. job' = [job EXCEPT ![c] = [job[c] EXCEPT !.seen = f]]
          BY <2>1, <3>1 DEF ReadStatus
      <3>3. k = [job[c] EXCEPT !.seen = f] /\ job[c] \in Jobs
          BY <1>1, <1>2, <3>2 DEF TypeOK
      <3> QED BY <1>1, <3>2, <3>3 DEF TypeOK, Jobs
    <2>2. CASE ~ReadStatus(c)
        BY <1>2, <2>2 DEF SelectAbsent, CommandUnderBusy, StopDma, SetReset
    <2> QED BY <2>1, <2>2
  <1>4. (\A b \in Chans \ {c} : chan'[b] = chan[b]) /\ asked' = asked
      BY <1>1 DEF TypeOK, SelectAbsent, CommandUnderBusy, StopDma, ReadStatus, SetReset, Quiet
  <1> QED BY <1>2, <1>3, <1>4, Rests

\* The command of a task file is one the contract knows.
LEMMA IsCommand ==
  ASSUME TypeOK, NEW c \in Chans, NEW q \in guest.requests[c], NEW r, r = TaskFile(c, q),
         r.command \in Moves
  PROVE  As(NewJob(c, r), 0) \in Contract!Commands(c)
  <1>1. /\ q \in Request /\ <<c, q.drive>> \in Disks /\ CountMod \in Nat \ {0}
    <2>1. guest \in Guests /\ guest.requests \in [Chans -> SUBSET Request]
        BY ConstantsOK DEF TypeOK
    <2> QED BY <2>1, ConstantsOK
  <1>2. chan[c] \in Channels
      BY DEF TypeOK
  <1>3. r.selected = q.drive /\ r.lba = q.at /\ r.count = q.count
      BY <1>2 DEF TaskFile, Channels
  <1>4. q.at \in Sectors /\ SectorCount(r) \in 1 .. CountMod
      BY <1>1, <1>3 DEF Request, SectorCount
  <1>5. As(NewJob(c, r), 0) = [op |-> r.command, disk |-> <<c, q.drive>>, start |-> q.at,
                               count |-> SectorCount(r), done |-> 0]
      BY <1>3 DEF As, NewJob, Disk
  <1>6. r.command \in PioReads \cup PioWrites \cup {"readDma"} \cup {"writeDma"}
      BY DEF Moves, Dmas
  <1>7. <<c, q.drive>> \in {d \in Disks : d[1] = c}
      BY <1>1
  <1> QED BY <1>1, <1>4, <1>5, <1>6, <1>7 DEF Contract!Commands

\* A command begins when the last one is over.
LEMMA CommandSimulates ==
  ASSUME VerifyFirst, Between, NEW c \in Chans, NEW q \in guest.requests[c], Command(c, q)
  PROVE  Simulates
  <1>1. Inv /\ TypeOK /\ ~chan[c].busy /\ ~chan[c].drq
      BY DEF Between, Inv, Command, Idle
  <1>2. Standing(c).done = Standing(c).count
    <2>1. job[c].given = job[c].done /\ job[c].done = job[c].count
        BY <1>1, AllStored DEF Inv, ChannelsAgree, Agree
    <2> QED BY <2>1 DEF Standing
  <1>3. PICK r : r = TaskFile(c, q)
      OBVIOUS
  <1>4. ReadPio(c, r) \/ WritePio(c, r) \/ Dma(c, r) \/ Immediate(c, r)
      BY <1>3 DEF Command
  <1>5. PICK k : k = job'[c]
      OBVIOUS
  <1>6. CASE ReadPio(c, r) \/ WritePio(c, r) \/ Dma(c, r)
    <2>1. /\ r.command \in Moves /\ job' = [job EXCEPT ![c] = NewJob(c, r)] /\ asked' = asked
          /\ \A b \in Chans \ {c} : chan'[b] = chan[b]
        BY <1>1, <1>6 DEF ReadPio, WritePio, Dma, Moves, Quiet, ReadSectors, TypeOK
    <2>2. k = NewJob(c, r) /\ \A b \in Chans \ {c} : job'[b] = job[b]
        BY <1>1, <1>5, <2>1 DEF TypeOK
    <2>3. Others(c)
        BY <2>1, <2>2, OthersStand
    <2>4. Standing(c)' = As(k, k.given)
        BY <1>5, StandsAsNext
    <2>5. k.given = 0
        BY <2>2 DEF NewJob
    <2>6. As(k, 0) \in Contract!Commands(c)
        BY <1>1, <1>3, <2>1, <2>2, IsCommand
    <2> QED BY <1>2, <2>1, <2>3, <2>4, <2>5, <2>6, Begins
  <1>7. CASE Immediate(c, r)
    <2>1. job' = [job EXCEPT ![c] = NoJob] /\ asked' = asked
        BY <1>7 DEF Immediate, Quiet
    <2>2. \A b \in Chans \ {c} : chan'[b] = chan[b]
      <3>1. c = 1 => r.command # "verify"
        <4>1. guest \in Guests /\ chan[c] \in Channels
            BY <1>1 DEF TypeOK
        <4>2. r.command = q.op
            BY <1>3, <4>1 DEF TaskFile, Channels
        <4> QED BY <4>1, <4>2 DEF VerifyFirst
      <3>2. \A b \in Chans \ {c} : ~(b = 0 /\ r.command = "verify")
          BY <3>1 DEF Chans
      <3> QED BY <1>7, <3>2 DEF Immediate
    <2>3. k = NoJob /\ \A b \in Chans \ {c} : job'[b] = job[b]
        BY <1>1, <1>5, <2>1 DEF TypeOK
    <2>4. Others(c)
        BY <2>2, <2>3, OthersStand
    <2>5. Standing(c)' = Contract!None
      <3>1. Standing(c)' = As(k, k.given)
          BY <1>5, StandsAsNext
      <3> QED BY <2>3, <3>1 DEF As, NoJob, Contract!None
    <2>6. Contract!None \in Contract!Commands(c)
        BY DEF Contract!Commands
    <2> QED BY <1>2, <2>1, <2>4, <2>5, <2>6, Begins
  <1> QED BY <1>4, <1>6, <1>7

\* What becomes of a job's fields when its count does.
LEMMA CountedIs ==
  ASSUME NEW j \in Jobs, NEW n, NEW k, k = Counted(j, n)
  PROVE  /\ k.op = j.op /\ k.disk = j.disk /\ k.start = j.start /\ k.count = j.count
         /\ k.done = n /\ k.given = n
  BY DEF Counted, Jobs

\* The guest has read a sector, and the next one comes or is waited for.
LEMMA ReadDataSimulates ==
  ASSUME Between, NEW c \in Chans, ReadData(c)
  PROVE  Simulates
  <1>1. PICK r : r = chan[c]
      OBVIOUS
  <1>2. PICK j \in Jobs : j = job[c]
      BY DEF Between, Inv, TypeOK
  <1>3. PICK k : k = job'[c]
      OBVIOUS
  <1>4. /\ TypeOK /\ r.drq /\ ~r.srst /\ Agree(c, r, j, Waits(c), written) /\ asked' = asked
      BY <1>1, <1>2 DEF Between, Inv, ChannelsAgree, ReadData, Quiet
  <1>5. \A b \in Chans \ {c} : job'[b] = job[b] /\ chan'[b] = chan[b]
      BY <1>4, Zenon DEF ReadData, ReadSectors, TypeOK
  <1>6. Others(c)
      BY <1>5, OthersStand
  <1>7. [r EXCEPT !.drq = FALSE].command = r.command
      BY <1>1, <1>4 DEF TypeOK, Channels
  <1>8. CASE r.command \in PioReads
    <2>1. j.op \in PioReads
      <3>1. r.command # "identify"
          BY <1>8 DEF PioReads
      <3> QED BY <1>4, <1>8, <3>1 DEF Agree
    <2>2. k = Counted(j, j.done + 1)
      <3>1. job' = [job EXCEPT ![c] = Counted(@, @.done + 1)]
          BY <1>1, <1>7, <1>8, Zenon DEF ReadData
      <3> QED BY <1>2, <1>3, <1>4, <3>1 DEF TypeOK
    <2>3. j.given = j.done
      <3>1. j.op # "writeDma" /\ j.op \notin PioWrites
          BY <2>1 DEF PioReads, PioWrites
      <3> QED BY <1>4, <3>1 DEF Agree, Gives
    <2>4. Standing(c) = As(j, j.done) /\ Standing(c)' = As(k, k.given)
        BY <1>2, <1>3, <2>3, StandsAs, StandsAsNext
    <2>5. As(k, k.given) = [As(j, j.done) EXCEPT !.done = @ + 1]
      <3>1. /\ k.op = j.op /\ k.disk = j.disk /\ k.start = j.start /\ k.count = j.count
            /\ k.given = j.done + 1
          BY <2>2, CountedIs
      <3> QED BY <3>1 DEF As
    <2>6. Showing(c) # Contract!Nothing
      <3>1. Showing(c).there = TRUE
          BY <1>1, <1>2, <1>4, <2>1 DEF Showing
      <3> QED BY <3>1 DEF Contract!Nothing
    <2> QED BY <1>4, <1>6, <2>4, <2>5, <2>6, Takes
  <1>9. CASE r.command \notin PioReads
    <2>1. k = j
      <3>1. job' = [job EXCEPT ![c] = job[c]]
          BY <1>1, <1>7, <1>9, Zenon DEF ReadData
      <3> QED BY <1>2, <1>3, <1>4, <3>1 DEF TypeOK
    <2> QED BY <1>2, <1>3, <1>4, <1>5, <2>1, Rests
  <1> QED BY <1>8, <1>9

\* The guest has handed a sector over: it is stored, or awaited.
LEMMA WriteDataSimulates ==
  ASSUME Between, NEW c \in Chans, WriteData(c)
  PROVE  Simulates
  <1>1. PICK r : r = Interrupt(chan[c])
      OBVIOUS
  <1>2. PICK j \in Jobs : j = job[c]
      BY DEF Between, Inv, TypeOK
  <1>3. PICK k : k = job'[c]
      OBVIOUS
  <1>4. PICK d : d = Disk(c, r)
      OBVIOUS
  <1>5. Inv /\ TypeOK /\ Agree(c, chan[c], j, Waits(c), written)
      BY <1>2 DEF Between, Inv, ChannelsAgree
  <1>6. /\ r.drq = chan[c].drq /\ r.command = chan[c].command /\ r.lba = chan[c].lba
        /\ r.selected = chan[c].selected
      BY <1>1, <1>5 DEF Interrupt, TypeOK, Channels
  <1>7. /\ r.drq /\ r.command \in PioWrites
        /\ asked' = [asked EXCEPT ![d] = @ \cup {r.lba}]
        /\ \/ /\ chan' = [chan EXCEPT ![c] = SectorWritten(r)]
              /\ job' = [job EXCEPT ![c] = Counted(@, @.done + 1)]
           \/ /\ chan' = [chan EXCEPT ![c] = Wait(r)]
              /\ job' = [job EXCEPT ![c] = Given(@, @.done + 1)]
      BY <1>1, <1>4, Zenon DEF WriteData
  <1>8. j.op \in PioWrites /\ At(c, chan[c], j, 0) /\ j.given = j.done
    <2>1. r.command # "identify" /\ r.command # "writeDma"
        BY <1>7 DEF PioWrites
    <2> QED BY <1>5, <1>6, <1>7, <2>1 DEF Agree, Gives
  <1>9. d = j.disk /\ r.lba = j.start + j.done /\ j.done < j.count
      BY <1>4, <1>6, <1>8 DEF At, Disk, Jobs
  <1>10. Others(c)
    <2>1. \A b \in Chans \ {c} : job'[b] = job[b] /\ chan'[b] = chan[b]
        BY <1>5, <1>7 DEF TypeOK
    <2> QED BY <2>1, OthersStand
  <1>11. Standing(c) = As(j, j.done)
      BY <1>2, <1>8, StandsAs
  <1>12. Standing(c)' = As(j, j.done + 1)
    <2>1. PICK n \in Nat : n = j.done + 1
        BY DEF Jobs
    <2>2. k = Counted(j, n) \/ k = Given(j, n)
        BY <1>2, <1>3, <1>5, <1>7, <2>1 DEF TypeOK
    <2>3. /\ k.op = j.op /\ k.disk = j.disk /\ k.start = j.start /\ k.count = j.count
          /\ k.given = n
        BY <2>2, CountedIs, HandsOver
    <2>4. Standing(c)' = As(k, k.given)
        BY <1>3, StandsAsNext
    <2> QED BY <2>1, <2>3, <2>4 DEF As
  <1>13. PICK a : a = As(j, j.done)
      OBVIOUS
  <1>14. a = [op |-> j.op, disk |-> j.disk, start |-> j.start, count |-> j.count, done |-> j.done]
      BY <1>13 DEF As
  <1>15. As(j, j.done + 1) = [a EXCEPT !.done = @ + 1] /\ As(j, j.done + 1).op = a.op
      BY <1>14 DEF As
  <1>16. (Standing(c).op)' = a.op /\ Standing(c)' = [a EXCEPT !.done = @ + 1]
      BY <1>12, <1>15
  <1>17. /\ a.op \in PioWrites /\ a.done < a.count
         /\ asked' = [asked EXCEPT ![a.disk] = @ \cup {a.start + a.done}]
      BY <1>7, <1>8, <1>9, <1>14
  <1> QED BY <1>10, <1>11, <1>13, <1>16, <1>17, Puts

\* A read by DMA that has been carried out.
LEMMA AllTaken ==
  ASSUME NEW c \in Chans, NEW j, j.op = "readDma", Others(c), asked' = asked,
         Standing(c) = As(j, 0), Standing(c)' = As(j, j.count)
  PROVE  Simulates
  <1>1. PICK a : a = As(j, 0)
      OBVIOUS
  <1>2. a = [op |-> j.op, disk |-> j.disk, start |-> j.start, count |-> j.count, done |-> 0]
      BY <1>1 DEF As
  <1>3. As(j, j.count) = [a EXCEPT !.done = a.count] /\ As(j, j.count).op = a.op
      BY <1>2 DEF As
  <1>4. (Standing(c).op)' = a.op /\ Standing(c)' = [a EXCEPT !.done = a.count]
      BY <1>3
  <1>5. a.op = "readDma" /\ a.done = 0
      BY <1>2
  <1> QED BY <1>1, <1>4, <1>5, TakesAll

\* The bus master is started: the sectors are moved, or their block is
\* fetched.  What is written counts from now on, what is read from then.
LEMMA StartDmaSimulates ==
  ASSUME Between, NEW c \in Chans, StartDma(c)
  PROVE  Simulates
  <1>1. PICK r : r = [chan[c] EXCEPT !.dma = TRUE]
      OBVIOUS
  <1>2. PICK j \in Jobs : j = job[c]
      BY DEF Between, Inv, TypeOK
  <1>3. PICK k : k = job'[c]
      OBVIOUS
  <1>4. PICK d : d = Disk(c, r)
      OBVIOUS
  <1>5. /\ Inv /\ TypeOK /\ Agree(c, chan[c], j, Waits(c), written) /\ chan[c] \in Channels
      BY <1>2 DEF Between, Inv, ChannelsAgree, TypeOK
  <1>6. /\ r \in Channels /\ r.drq = chan[c].drq /\ r.command = chan[c].command
        /\ r.count = chan[c].count /\ r.busy = chan[c].busy
        /\ r.lba = chan[c].lba /\ r.selected = chan[c].selected
    <2>1. PICK t \in BOOLEAN : t = TRUE
        OBVIOUS
    <2>2. r = [chan[c] EXCEPT !.dma = t]
        BY <1>1, <2>1
    <2> QED BY <1>5, <2>2 DEF Channels
  <1>7. /\ r.drq /\ ~r.busy /\ r.command \in Dmas
        /\ asked' = IF r.command = "writeDma" THEN [asked EXCEPT ![d] = @ \cup Extent(r)] ELSE asked
        /\ \/ InMemory(d, r.lba) /\ DmaTransfer(c, r)
           \/ /\ ~InMemory(d, r.lba)
              /\ chan' = [chan EXCEPT ![c] = [r EXCEPT !.busy = TRUE]]
              /\ job' = [job EXCEPT ![c] =
                           IF r.command = "writeDma" THEN Given(@, SectorCount(r)) ELSE @]
      BY <1>1, <1>4, Zenon DEF StartDma
  <1>8. /\ j.op \in Dmas /\ r.command = j.op /\ j.done = 0 /\ j.given = 0
        /\ At(c, chan[c], j, 0) /\ OneBlock(chan[c])
    <2>1. r.command # "identify"
        BY <1>7 DEF Dmas
    <2> QED BY <1>5, <1>6, <1>7, <2>1 DEF Agree, Gives
  <1>9. At(c, r, j, 0) /\ OneBlock(r)
      BY <1>6, <1>8, SamePlace
  <1>10. d = j.disk /\ SectorCount(r) = j.count /\ Extent(r) = j.start .. (j.start + j.count - 1)
    <2>1. SectorCount(r) = j.count /\ Extent(r) = j.start .. j.start + j.count - 1
        BY <1>6, <1>8, <1>9, CoversAll
    <2> QED BY <1>4, <1>9, <2>1 DEF At, Disk
  <1>11. /\ \A b \in Chans \ {c} : job'[b] = job[b] /\ chan'[b] = chan[b]
         /\ k = IF InMemory(d, r.lba) THEN Counted(j, j.count)
                ELSE IF j.op = "writeDma" THEN Given(j, j.count) ELSE j
    <2>1. CASE InMemory(d, r.lba)
      <3>1. /\ chan' = [chan EXCEPT ![c] = Moved(r)]
            /\ job' = [job EXCEPT ![c] = Counted(@, j.count)]
        <4>1. DmaTransfer(c, r) /\ OneBlock(r) /\ InMemory(Disk(c, r), r.lba)
            BY <1>4, <1>7, <1>9, <2>1
        <4> QED BY <1>6, <1>10, <4>1, DmaMoves
      <3> QED BY <1>2, <1>3, <1>5, <2>1, <3>1 DEF TypeOK
    <2>2. CASE ~InMemory(d, r.lba)
      <3>1. /\ chan' = [chan EXCEPT ![c] = [r EXCEPT !.busy = TRUE]]
            /\ job' = [job EXCEPT ![c] = IF j.op = "writeDma" THEN Given(j, j.count) ELSE j]
          BY <1>2, <1>7, <1>8, <1>10, <2>2
      <3> QED BY <1>2, <1>3, <1>5, <2>2, <3>1 DEF TypeOK
    <2> QED BY <2>1, <2>2
  <1>12. Others(c)
      BY <1>11, OthersStand
  <1>13. Standing(c) = As(j, 0)
      BY <1>2, <1>8, StandsAs
  <1>14. Standing(c)' = As(j, IF InMemory(d, r.lba) \/ j.op = "writeDma" THEN j.count ELSE 0)
    <2>1. j.count \in Nat
        BY DEF Jobs
    <2>2. /\ k.op = j.op /\ k.disk = j.disk /\ k.start = j.start /\ k.count = j.count
          /\ k.given = IF InMemory(d, r.lba) \/ j.op = "writeDma" THEN j.count ELSE 0
        BY <1>8, <1>11, <2>1, CountedIs, HandsOver
    <2>3. Standing(c)' = As(k, k.given)
        BY <1>3, StandsAsNext
    <2> QED BY <2>2, <2>3 DEF As
  <1>15. CASE j.op = "writeDma"
    <2>1. Standing(c)' = As(j, j.count)
        BY <1>14, <1>15
    <2>2. PICK a : a = As(j, 0)
        OBVIOUS
    <2>3. a = [op |-> j.op, disk |-> j.disk, start |-> j.start, count |-> j.count, done |-> 0]
        BY <2>2 DEF As
    <2>4. As(j, j.count) = [a EXCEPT !.done = a.count] /\ As(j, j.count).op = a.op
        BY <2>3 DEF As
    <2>5. (Standing(c).op)' = a.op /\ Standing(c)' = [a EXCEPT !.done = a.count]
        BY <2>1, <2>4
    <2>6. /\ a.op = "writeDma" /\ a.done = 0
          /\ asked' = [asked EXCEPT ![a.disk] = @ \cup (a.start .. (a.start + a.count - 1))]
        BY <1>7, <1>8, <1>10, <1>15, <2>3
    <2> QED BY <1>12, <1>13, <2>2, <2>5, <2>6, PutsAll
  <1>16. CASE j.op # "writeDma"
    <2>1. j.op = "readDma" /\ asked' = asked
        BY <1>7, <1>8, <1>16 DEF Dmas
    <2>2. CASE InMemory(d, r.lba)
      <3>1. Standing(c)' = As(j, j.count)
          BY <1>14, <2>2
      <3> QED BY <1>12, <1>13, <2>1, <3>1, AllTaken
    <2>3. CASE ~InMemory(d, r.lba)
      <3>1. Standing(c)' = As(j, 0)
          BY <1>14, <1>16, <2>3
      <3> QED BY <1>12, <1>13, <2>1, <3>1, StaysPut
    <2> QED BY <2>2, <2>3
  <1> QED BY <1>15, <1>16

\* The callback moves what the contract has moved already, or moves it now.
LEMMA CheckCompleteSimulates ==
  ASSUME Between, CheckComplete
  PROVE  Simulates
  <1>1. PICK c \in Chans : c = slot.chan
      BY DEF Between, Inv, TypeOK
  <1>2. PICK r : r = chan[c]
      OBVIOUS
  <1>3. PICK j \in Jobs : j = job[c]
      BY DEF Between, Inv, TypeOK
  <1>4. PICK k : k = job'[c]
      OBVIOUS
  <1>5. /\ Inv /\ TypeOK /\ ~halted /\ ~halted' /\ r \in Channels /\ pending
        /\ asked' = asked /\ Agree(c, r, j, Waits(c), written) /\ Waits(c)
      BY <1>1, <1>2, <1>3 DEF Between, Inv, TypeOK, ChannelsAgree, CheckComplete, Waits
  <1>6. At(c, r, j, 0) /\ Gives(c, r, j)
      BY <1>5 DEF Agree
  <1>7. /\ slot.disk = Disk(c, r) /\ slot.at = r.lba /\ InMemory(slot.disk, slot.at)
        /\ \/ slot.kind = "read" /\ j.op \in PioReads /\ ~r.drq
           \/ slot.kind = "write" /\ j.op \in PioWrites /\ ~r.drq /\ j.given = j.done + 1
           \/ /\ slot.kind = "prefetch" /\ j.op \in Dmas /\ r.drq
              /\ j.op = "writeDma" => j.given = j.count
      BY <1>1, <1>2, <1>3, <1>5 DEF Inv, SlotAgrees, Disk
  <1>8. slot.kind = "prefetch" => DmaTransfer(c, r) /\ j.done = 0 /\ OneBlock(r)
      BY <1>1, <1>2, <1>5, <1>7, Zenon DEF CheckComplete, Agree
  <1>9. PICK n : n = IF slot.kind = "prefetch" THEN j.count
                     ELSE IF slot.kind = "read" THEN j.done ELSE j.done + 1
      OBVIOUS
  <1>10. /\ \A b \in Chans \ {c} : job'[b] = job[b] /\ chan'[b] = chan[b]
         /\ k = Counted(j, n)
    <2>1. CASE slot.kind = "prefetch"
      <3>1. DmaTransfer(c, r) /\ j.done = 0 /\ OneBlock(r) /\ InMemory(Disk(c, r), r.lba)
          BY <1>7, <1>8, <2>1
      <3>2. SectorCount(r) = j.count
          BY <1>5, <1>6, <3>1, CoversAll
      <3>3. /\ chan' = [chan EXCEPT ![c] = Moved(r)]
            /\ job' = [job EXCEPT ![c] = Counted(@, j.count)]
          BY <1>5, <3>1, <3>2, DmaMoves
      <3> QED BY <1>3, <1>4, <1>5, <1>9, <2>1, <3>3 DEF TypeOK
    <2>2. CASE slot.kind # "prefetch"
      <3>1. /\ chan' = [chan EXCEPT ![c] = IF slot.kind = "read"
                                           THEN SectorRead(r, slot.disk, slot.at)
                                           ELSE SectorWritten(r)]
            /\ job' = [job EXCEPT ![c] =
                         Counted(@, IF slot.kind = "read" THEN @.done ELSE @.done + 1)]
          BY <1>1, <1>2, <1>7, <2>2, Zenon DEF CheckComplete
      <3> QED BY <1>3, <1>4, <1>5, <1>9, <2>2, <3>1 DEF TypeOK
    <2> QED BY <2>1, <2>2
  <1>11. Others(c)
      BY <1>10, OthersStand
  <1>12. Standing(c) = As(j, j.given)
      BY <1>3, StandsAs
  <1>13. Standing(c)' = As(j, n)
    <2>1. Standing(c)' = As(k, k.given)
        BY <1>4, StandsAsNext
    <2> QED BY <1>10, <2>1, CountedIs DEF As
  <1>14. CASE j.given = n
      BY <1>5, <1>11, <1>12, <1>13, <1>14, StaysPut
  <1>15. CASE j.given # n
    <2>1. slot.kind = "prefetch" /\ j.op # "writeDma"
      <3>1. CASE slot.kind = "read"
        <4>1. j.op \notin PioWrites /\ j.op # "writeDma"
            BY <1>7, <3>1 DEF PioReads, PioWrites
        <4> QED BY <1>6, <1>9, <1>15, <3>1, <4>1 DEF Gives
      <3> QED BY <1>7, <1>9, <1>15, <3>1
    <2>2. j.op = "readDma" /\ n = j.count
        BY <1>7, <1>9, <2>1 DEF Dmas
    <2>3. j.given = 0
      <3>1. j.op \notin PioWrites
          BY <2>2 DEF PioWrites
      <3> QED BY <1>6, <1>8, <2>1, <3>1 DEF Gives
    <2> QED BY <1>5, <1>11, <1>12, <1>13, <2>2, <2>3, AllTaken
  <1> QED BY <1>14, <1>15

LEMMA StartsAsDisks ==
  ASSUME Init
  PROVE  Contract!Init
  <1>1. \A c \in Chans : job[c] = NoJob
      BY DEF Init
  <1>2. ASSUME NEW c \in Chans
        PROVE  Standing(c) = Contract!None /\ Showing(c) = Contract!Nothing
    <2>1. Standing(c) = Contract!None
        BY <1>1 DEF Standing, NoJob, Contract!None
    <2>2. job[c].op \notin PioReads
        BY <1>1 DEF NoJob, PioReads
    <2> QED BY <2>1, <2>2 DEF Showing, Contract!Nothing
  <1> QED BY <1>2 DEF Init, Contract!Init

LEMMA StepSimulates ==
  ASSUME VerifyFirst, Inv, Inv', [Next]_vars
  PROVE  [Contract!Next]_(Contract!vars)
  <1>1. Between
      BY BetweenIs
  <1>2. CASE UNCHANGED vars
    <2>1. \A c \in Chans : Standing(c)' = Standing(c) /\ Showing(c)' = Showing(c)
        BY <1>2 DEF vars, Standing, Showing
    <2>2. asked' = asked
        BY <1>2 DEF vars
    <2> QED BY <2>1, <2>2 DEF Contract!vars
  <1>3. CASE Next
    <2>1. CASE CheckComplete
        BY <1>1, <2>1, CheckCompleteSimulates DEF Simulates
    <2>2. ASSUME NEW c \in Chans, Guest(c)
          PROVE  Simulates
      <3>1. ASSUME NEW q \in guest.requests[c], Command(c, q)
            PROVE  Simulates
          BY <1>1, <3>1, CommandSimulates
      <3>2. CASE SelectAbsent(c) \/ CommandUnderBusy(c) \/ StopDma(c) \/ ReadStatus(c) \/ SetReset(c)
          BY <1>1, <3>2, RestSimulates
      <3>3. CASE ReadData(c)
          BY <1>1, <3>3, ReadDataSimulates
      <3>4. CASE WriteData(c)
          BY <1>1, <3>4, WriteDataSimulates
      <3>5. CASE StartDma(c)
          BY <1>1, <3>5, StartDmaSimulates
      <3>6. CASE ClearReset(c)
          BY <1>1, <3>6, Resets
      <3> QED BY <2>2, <3>1, <3>2, <3>3, <3>4, <3>5, <3>6 DEF Guest
    <2> QED BY <1>3, <2>1, <2>2 DEF Next, Simulates
  <1> QED BY <1>2, <1>3

\* The channels and the drivers are disks that answer at once, also to a guest
\* that uses both channels together.
THEOREM RefinesDisks ==
  ASSUME VerifyFirst, WithinBlocks
  PROVE  Spec => ImplementsDisks
  <1>1. Init => Contract!Init
      BY StartsAsDisks
  <1>2. Inv /\ Inv' /\ [Next]_vars => [Contract!Next]_(Contract!vars)
      BY StepSimulates
  <1>3. Spec => []Inv
      BY Invariant
  <1> QED BY <1>1, <1>2, <1>3, PTL DEF Spec, ImplementsDisks, Contract!Spec

=============================================================================
