\* Words, latches and read-back at first, then ticks against time.
CONSTANTS
  Byte = 2
  Scale = 2
  Bytes = {0, 1}
  Accesses = {1, 2, 3}
  Modes = {0, 2, 3}
  ReadUntil = 3
  Gaps = {1, 3}
  Horizon = 18
SPECIFICATION Spec
INVARIANTS WordsAreWhole TicksFollowTime
CHECK_DEADLOCK FALSE
