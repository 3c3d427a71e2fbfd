CONSTANTS
  INF = 2147483647
  MaxClock = 24
  Graphs <- AllGraphs
  Nets <- LoweredNets
SPECIFICATION FairLoweredSpec
INVARIANTS
  ResourcesConserved
  PrecedenceRespected
  NoReleaseDrift
PROPERTY
  JobsComplete
