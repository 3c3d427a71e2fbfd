CONSTANTS
  INF = 2147483647
  MaxClock = 12
  MaxStates = {200}
  Modes = {"EQUALITY"}
  Graphs <- BacklogGraphs
  WrittenNets <- NoNets
  MaxAhead = 1
  Nets <- AllNets
SPECIFICATION MeasuredSpec
INVARIANT EveryResponseBounded
