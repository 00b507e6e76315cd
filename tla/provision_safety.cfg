CONSTANTS
  v1 = v1
  v2 = v2
  v3 = v3
  Vsims <- MCVsims
  Expected <- MCVsims
  HeadSize = 20
  MaxServerRuns = 2
  Faults = {"kill_vsim", "vanish", "kill_server", "no_route", "cut"}
SPECIFICATION Spec
SYMMETRY MCSymmetry
INVARIANTS
  TypeOK
  AckMeansAttested
  OwnConnection
  OneMessageInFlight
  AckFits
  NoSigpipe
  NoMutualWait
PROPERTIES
  AckIsFresh
  Agrees
CHECK_DEADLOCK FALSE
