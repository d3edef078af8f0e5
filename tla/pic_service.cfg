\* A guest that leaves the priorities alone and runs its handlers.
CONSTANTS
  DevLines = {0, 1, 8, 12}
  Withdraws = {12}
  Masks = {{}, {2}}
  OCW2 <- MCHandlerEOI
  OCW3 = {FALSE}
  ICW1 = {}
  ICW2 <- MCVectors
  ICW4 = {}
SPECIFICATION ReadySpec
INVARIANT EveryInterruptIsReal
PROPERTIES NestingOrder Served ImplementsContract
CHECK_DEADLOCK FALSE
