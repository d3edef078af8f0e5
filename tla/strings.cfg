CONSTANTS
  Size = 4
  PageSize = 2
  Cap = 2
  MaxCount = 3
  Images <- FewImages
SPECIFICATION StringSpec
CHECK_DEADLOCK FALSE
INVARIANTS Resumes EndsWhereItShould
