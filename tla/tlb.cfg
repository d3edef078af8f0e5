CONSTANTS
  Lin <- MCLin
  Pages <- MCPages
  Regions <- MCRegions
  Modes <- MCModes
  Capacity = 2
SPECIFICATION Spec
INVARIANTS EveryEntryListed RightsFollowTables
