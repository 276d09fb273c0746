SPECIFICATION Spec
CONSTANTS
  BOUND_T1_BITS = 3
  BOUND_T2_BITS = 1
  BOUND_T3_BITS = 2
  BOUND_E_BITS = 2
  HeapStart = 18
  HeapSize = 20
  Places = {9, 10, 12, 14, 17, 20, 21, 24, 28, 33}
  Sizes = {0, 1, 5, 10}
  MaxRegions = 3
  DeleteAcrossPages = FALSE
INVARIANT AccessesAreInside
CHECK_DEADLOCK FALSE
