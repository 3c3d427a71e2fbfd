CONSTANTS
  INF = 2147483647
  MaxClock = 24
  Graphs <- RestartLockGraphs
  Nets <- LoweredNets
SPECIFICATION LoweredSpec
INVARIANT LockConserved
CHECK_DEADLOCK FALSE
