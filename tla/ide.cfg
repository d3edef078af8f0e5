SPECIFICATION FairSpec
CONSTANTS
  Disks <- MCThree
  Chunked <- MCMasters
  NSectors = 3
  BlockSectors = 2
  CountMod = 3
  Guests <- MCGuests
INVARIANTS
  SlotHasOwner
  WritesAsAsked
  ReadyIsSignalled
  NeverAborts
  SectorsInOrder
PROPERTY
  Answered
  ImplementsDisks
