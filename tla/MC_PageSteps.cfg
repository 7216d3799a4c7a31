CONSTANTS
  TotalPages = 6
  ScanPages = 5
  BkPages = 1
  Sizes = {0, 1, 2, 3}
  Harts = {0}
  MaxCalls = 5
SPECIFICATION CarelessSpec
PROPERTIES ImplementsPageAlloc
CHECK_DEADLOCK FALSE
