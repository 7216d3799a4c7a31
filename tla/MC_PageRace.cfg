CONSTANTS
  TotalPages = 6
  ScanPages = 5
  BkPages = 1
  Sizes = {1, 2}
  Harts = {0, 1}
  MaxCalls = 5
SPECIFICATION Spec
INVARIANTS NoFalseDoubleFree
CHECK_DEADLOCK FALSE
