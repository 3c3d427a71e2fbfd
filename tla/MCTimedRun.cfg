CONSTANTS
  INF = 2147483647
  MaxClock = 24
  Nets <- MCNets
SPECIFICATION Spec
INVARIANTS
  TypeOK
  WithinLatest
  NoStaleClock
  CoreParallelismRespected
  WorkConserving
  NoTimelock
PROPERTIES
  ProgressKept
