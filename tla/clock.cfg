CONSTANTS
  Byte = 2
  Scale = 1
  Horizon = 20
  MaxSlice = 2
  Second = 8
  Rates = {2, 8}
  Uses <- MCUses
  PitCounts = {3}
  PitModes = {0, 2}
  ApicCounts = {2, 3, 7}
  AcpiWrap = 3
  AcpiScale = 2
SPECIFICATION Spec
INVARIANTS NoEmptySlice NeverFast FlagsAreSignalled LateByHaltOnly
CHECK_DEADLOCK FALSE
