CONSTANTS
  INF = 2147483647
  MaxClock = 12
  MaxStates = {200}
  Modes = {"EQUALITY"}
  Nets <- MCStopwatch
  Compared <- MCStopwatch
SPECIFICATION ExploreSpec
INVARIANTS
  NoSpuriousMarking
