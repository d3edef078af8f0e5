SPECIFICATION FairSpec
CONSTANTS
  MCLongest = 5
  Budgets <- MCBudgets
INVARIANTS
  Prompt
  EveryCycleCounted
  SliceBound
PROPERTIES
  ShadowHolds
  Wakes
