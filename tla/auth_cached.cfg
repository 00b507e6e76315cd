CONSTANTS
  c1 = c1
  c2 = c2
  Zero = zero
  Challenges <- MCChallenges
  GoodAutn <- MCGoodAutn
  TIMEOUT_SECONDS = 1
  MaxUeRuns = 1
  MaxHostRuns = 1
  Faults = {}
SPECIFICATION Spec
INVARIANT VsimResultCached
CHECK_DEADLOCK FALSE
