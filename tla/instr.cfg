\* Every handler, with up to two page faults at any of its accesses.
CONSTANTS
  Groups <- MCEveryGroup
  MaxFaults = 2
SPECIFICATION Spec
INVARIANTS
  FaultIsClean
  AccessesCount
  EndsWell
  RestartIsExact
PROPERTIES
  SegmentsLast
