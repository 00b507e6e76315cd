CONSTANTS
  PoolSize = 5
  Requests <- MCRequests
  UsecPerMs = 4
  MsPerSec = 3
  CPU_FREQ = 24
  Word = 1024
  MaxCycles = 150
SPECIFICATION Spec
INVARIANTS
  TypeOK
  EntropyOnce
  NeverShort
  Elapsed
  PrintsNumber
CHECK_DEADLOCK FALSE
