\* Code in both of two pages, through one linear page or two.
CONSTANTS
  a = a
  b = b
  Lin <- MCLin
  Pages = 2
  PageSize = 4
  ChunkSize = 2
  Slots = 4
  Starts = {1, 2, 5}
  Lengths = {1, 3}
  Room = 2
  Sizes = {1, 2}
  WideSizes = {2}
  Amounts = {2, 5}
SPECIFICATION Spec
SYMMETRY LinSymmetry
INVARIANTS NothingStale RunsFresh
