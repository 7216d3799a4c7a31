CONSTANTS
  TotalPages = 9
  ScanPages = 8
  BkPages = 1
  Sizes = {0, 1, 2, 3}
SPECIFICATION Spec
INVARIANTS TypeOK Exclusive BitsEncodeLive
PROPERTIES ImplementsPageSpec
