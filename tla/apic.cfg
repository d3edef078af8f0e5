\* An edge and a level pin of one class, an interprocessor vector above, and
\* the 8259s on the processor's one line.
CONSTANTS
  Pins = {4, 10}
  LevelPins = {10}
  VecOf <- MCVecOf
  IpiVecs = {81}
  Tprs = {0, 3}
SPECIFICATION FairSpec
INVARIANTS SignalledInOrder SharedLineHeard LevelPinsHeard
PROPERTIES EdgeRemembered TopServed
CHECK_DEADLOCK FALSE
