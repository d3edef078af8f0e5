------------------------------- MODULE MCIde -------------------------------
(* Ide on disks of a few sectors, for TLC. *)
EXTENDS IdeRefinement

MCMasters == {<<0, 0>>, <<1, 0>>}
MCThree == MCMasters \cup {<<0, 1>>}

Ask(op, drive, at, count) == [op |-> op, drive |-> drive, at |-> at, count |-> count]

AGuest(first, second, overlaps) ==
  [requests |-> [c \in Chans |-> IF c = 0 THEN first ELSE second],
   overlaps |-> overlaps, spans |-> FALSE]

\* PIO and DMA on both channels, one channel at a time.
MCSerial ==
  AGuest({Ask("read", 0, 1, 2), Ask("write", 0, 1, 2)}, {Ask("writeDma", 0, 0, 2)}, FALSE)

\* Both channels at once.
MCOverlap ==
  AGuest({Ask("read", 0, 1, 2)}, {Ask("write", 0, 1, 2), Ask("readDma", 0, 0, 2)}, TRUE)

\* Every command of the first channel that moves no data, VERIFY on it only.
MCNoData ==
  AGuest({Ask(op, 0, 1, 1) : op \in Other \ {"none"}} \cup {Ask("read", 0, 1, 2)},
         {Ask("parameters", 0, 0, 1)}, FALSE)

\* The commands in blocks of several sectors, set up or not.
MCMultiple ==
  AGuest({Ask("setMultiple", 0, 1, 1), Ask("setMultiple", 0, 1, 2),
          Ask("readMultiple", 0, 1, 2), Ask("writeMultiple", 0, 1, 2), Ask("writeDma", 0, 0, 2)},
         {}, FALSE)

\* Two disks on the first channel, the second of them on the "sync" driver.
MCTwoDrives ==
  AGuest({Ask("read", 0, 1, 2), Ask("write", 1, 0, 0)}, {Ask("readDma", 0, 2, 1)}, FALSE)

MCGuests == {MCSerial, MCOverlap, MCNoData, MCMultiple, MCTwoDrives}

\* A DMA read of the last sector of a block and the first of the next.
MCSpanning == {[requests |-> [c \in Chans |-> {Ask("readDma", 0, 1, 2)}],
                overlaps |-> FALSE, spans |-> TRUE]}

=============================================================================
