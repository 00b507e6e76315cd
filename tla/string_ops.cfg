CONSTANTS
  WORD = 4
  MemSize = 15
  Contents <- MCContents
SPECIFICATION Spec
INVARIANTS
  TypeOK
  StaysInside
  Copies
  Fills
  Scans
CHECK_DEADLOCK FALSE
