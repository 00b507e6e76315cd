CONSTANTS
  c1 = c1
  c2 = c2
  Zero = zero
  Challenges <- MCChallenges
  GoodAutn <- MCGoodAutn
  TIMEOUT_SECONDS = 2
  MaxUeRuns = 2
  MaxHostRuns = 1
  Faults = {"kill_ue"}
SPECIFICATION FairSpec
PROPERTIES
  UeReturns
  CommandServed
CHECK_DEADLOCK FALSE
