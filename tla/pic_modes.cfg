\* Every command word, one device line on each controller.
CONSTANTS
  DevLines <- MCAllLines
  Withdraws <- MCAllLines
  Masks = {{}, {0, 1, 2, 3, 4, 5, 6, 7}}
  OCW2 <- MCAllOCW2
  OCW3 = {TRUE, FALSE}
  ICW1 <- MCInitWord
  ICW2 <- MCOneVector
  ICW4 = {TRUE}
SPECIFICATION Spec
CONSTRAINT OneMode
INVARIANTS NoLostInterrupt SignalsTheBest
CHECK_DEADLOCK FALSE
