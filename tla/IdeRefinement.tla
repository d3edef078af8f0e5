--------------------------- MODULE IdeRefinement ---------------------------
(***************************************************************************)
(* The channels and drivers of Ide behave as the disks of DiskContract,    *)
(* which answer at once, to every guest.                                   *)
(***************************************************************************)
EXTENDS Ide

\* The command a channel stands at: what the guest has handed over while its
\* block is awaited counts as moved.
Standing(c) ==
  LET j == job[c]
  IN [op |-> j.op, disk |-> j.disk, start |-> j.start, count |-> j.count, done |-> j.given]

\* The sector that a channel shows to the guest.
Showing(c) ==
  LET r == chan[c]
  IN IF job[c].op \in PioReads /\ r.drq /\ ~r.srst
     THEN [there |-> TRUE, disk |-> r.buffer.disk, at |-> r.buffer.at, new |-> r.new]
     ELSE [there |-> FALSE]

Contract ==
  INSTANCE DiskContract WITH
    Channels <- Chans,
    Starts <- Sectors, Counts <- 1..CountMod,
    Reads <- PioReads, Writes <- PioWrites,
    BulkReads <- {"readDma"}, BulkWrites <- {"writeDma"},
    store <- asked,
    command <- [c \in Chans |-> Standing(c)],
    shown <- [c \in Chans |-> Showing(c)]

\* Refinement.  Every step of the channels, of the drivers and of
\* drive_check_complete is one step of disks that answer at once, or none: that
\* a block has to be loaded, on which channel, and when the callback comes, if
\* it does, cannot be told from what is read, and a write can be read back from
\* the moment it has been handed over.  Guests that use both channels at once,
\* and may have to wait for ever, are told nothing wrong either.
ImplementsDisks == Contract!Spec

=============================================================================
