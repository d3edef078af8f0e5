---------------------------- MODULE DiskContract ----------------------------
(***************************************************************************)
(* What the ATA channels and the drivers below them promise to a guest:    *)
(* disks that answer at once.  What the guest hands over is on the disk at *)
(* that moment; a sector it is shown is what the disk holds then; a        *)
(* command's sectors are moved in order, each of them once, and all of     *)
(* them before the channel takes another command.  Only a reset takes      *)
(* something back, and no more than what the channel's command has handed  *)
(* over last.                                                              *)
(***************************************************************************)
EXTENDS Integers

CONSTANTS
  Channels, Disks,    \* the channels; the disks, <<channel, drive>>
  Starts, Counts,     \* positions and numbers of sectors of a command
  Reads, Writes,      \* the commands that move a sector at a time,
  BulkReads,          \* and those that move all of them at once
  BulkWrites

VARIABLES
  store,      \* per disk, the sectors that hold the guest's data
  command,    \* per channel, its command and how many sectors it has moved
  shown       \* per channel, the sector that the guest may read, if any

vars == <<store, command, shown>>

None == [op |-> "none", disk |-> <<0, 0>>, start |-> 0, count |-> 0, done |-> 0]

Commands(c) ==
  {None} \cup [op : Reads \cup Writes \cup BulkReads \cup BulkWrites,
               disk : {d \in Disks : d[1] = c}, start : Starts, count : Counts, done : {0}]

Extent(j) == j.start..(j.start + j.count - 1)

Nothing == [there |-> FALSE]

\* The sector that command j has come to, as its disk holds it.
Sector(j) ==
  LET at == j.start + j.done
  IN [there |-> TRUE, disk |-> j.disk, at |-> at, new |-> at \in store[j.disk]]

\* What command j may show: its next sector, or nothing yet.
Showable(j) ==
  {Nothing} \cup (IF j.op \in Reads /\ j.done < j.count THEN {Sector(j)} ELSE {})

Init ==
  /\ store = [d \in Disks |-> {}]
  /\ command = [c \in Channels |-> None]
  /\ shown = [c \in Channels |-> Nothing]

\* Channel c stands at command j, which may show its next sector already.
Stands(c, j) ==
  /\ command' = [command EXCEPT ![c] = j]
  /\ \E s \in Showable(j) : shown' = [shown EXCEPT ![c] = s]

\* A command is over when all its sectors have been moved, and not before.
Begin(c) ==
  /\ command[c].done = command[c].count
  /\ \E j \in Commands(c) : Stands(c, j)
  /\ UNCHANGED store

Show(c) ==
  /\ shown[c] = Nothing
  /\ Stands(c, command[c])
  /\ UNCHANGED store

\* While the channel is being reset the guest does not see the sector.
Hide(c) ==
  /\ shown' = [shown EXCEPT ![c] = Nothing]
  /\ UNCHANGED <<store, command>>

\* The guest has read the sector.
Take(c) ==
  /\ shown[c] # Nothing
  /\ Stands(c, [command[c] EXCEPT !.done = @ + 1])
  /\ UNCHANGED store

\* The guest hands a sector over.
Put(c) ==
  LET j == command[c]
  IN /\ j.op \in Writes /\ j.done < j.count
     /\ store' = [store EXCEPT ![j.disk] = @ \cup {j.start + j.done}]
     /\ command' = [command EXCEPT ![c] = [j EXCEPT !.done = @ + 1]]
     /\ UNCHANGED shown

TakeAll(c) ==
  LET j == command[c]
  IN /\ j.op \in BulkReads /\ j.done = 0
     /\ command' = [command EXCEPT ![c] = [j EXCEPT !.done = j.count]]
     /\ UNCHANGED <<store, shown>>

PutAll(c) ==
  LET j == command[c]
  IN /\ j.op \in BulkWrites /\ j.done = 0
     /\ store' = [store EXCEPT ![j.disk] = @ \cup Extent(j)]
     /\ command' = [command EXCEPT ![c] = [j EXCEPT !.done = j.count]]
     /\ UNCHANGED shown

\* What command j has handed over last.
Latest(j) ==
  IF j.done = 0 THEN {}
  ELSE IF j.op \in Writes THEN {j.start + j.done - 1}
  ELSE IF j.op \in BulkWrites THEN Extent(j) ELSE {}

Reset(c) ==
  LET j == command[c]
  IN /\ \E lost \in SUBSET Latest(j) :
          store' = [d \in Disks |-> IF d = j.disk THEN store[d] \ lost ELSE store[d]]
     /\ command' = [command EXCEPT ![c] = None]
     /\ shown' = [shown EXCEPT ![c] = Nothing]

Next ==
  \E c \in Channels :
    \/ Begin(c) \/ Show(c) \/ Hide(c) \/ Take(c) \/ Put(c)
    \/ TakeAll(c) \/ PutAll(c) \/ Reset(c)

Spec == Init /\ [][Next]_vars

=============================================================================
