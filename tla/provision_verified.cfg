CONSTANTS
  v1 = v1
  v2 = v2
  v3 = v3
  Vsims <- MCTwoVsims
  Expected <- MCExpected
  HeadSize = 20
  MaxServerRuns = 1
  Faults = {}
SPECIFICATION Spec
INVARIANT AckedIsVerified
CHECK_DEADLOCK FALSE
