\* Objects with and without a timeout.  No symmetry: the properties are temporal.
CONSTANTS
  NoThread = NoThread
  Threads = {t1, t2}
  CountingGate = TRUE
CHECK_DEADLOCK FALSE
SPECIFICATION FairSpec
PROPERTIES
  GrantedReturns
  CloseWakesAll
  WaitsEnd
