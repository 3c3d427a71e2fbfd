CONSTANTS
  INF = 2147483647
  MaxClock = 12
  MaxStates = {0, 7, 130}
  Modes = {"EQUALITY", "MAX_LOWER"}
  Nets <- MCNets
  Compared <- MCCompared
SPECIFICATION ExploreSpec
INVARIANTS
  LimitRespected
  NoRedundantVertex
  ZonesAreCanonical
  FiniteWithExtrapolation
  NoSpuriousMarking
  EdgesAreFirings
PROPERTIES
  Terminates
  ImplementsReachability
