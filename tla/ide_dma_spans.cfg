SPECIFICATION Spec
CONSTANTS
  Disks <- MCMasters
  Chunked <- MCMasters
  NSectors = 4
  BlockSectors = 2
  CountMod = 3
  Guests <- MCSpanning
INVARIANT NeverAborts
