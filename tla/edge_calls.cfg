CONSTANTS
  Room <- MCRoom
  ReadSizes <- MCReadSizes
SPECIFICATION Spec
INVARIANTS
  TypeOK
  PrintsItsString
  CallsSucceed
  SendsTheMessage
PROPERTIES
  FetchesTheMessage
  BoxFits
  CallsAreAtomic
CHECK_DEADLOCK FALSE
