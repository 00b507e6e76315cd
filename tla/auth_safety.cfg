CONSTANTS
  c1 = c1
  c2 = c2
  Zero = zero
  Challenges <- MCChallenges
  GoodAutn <- MCGoodAutn
  TIMEOUT_SECONDS = 1
  MaxUeRuns = 2
  MaxHostRuns = 2
  Faults = {"kill_ue", "kill_host", "signal_host", "alloc"}
SPECIFICATION Spec
INVARIANTS
  TypeOK
  OwnAnswer
  AtMostOnce
  CleanHandover
  FlaggedIsStable
PROPERTY Serves
CHECK_DEADLOCK FALSE
