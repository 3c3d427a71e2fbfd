CONSTANTS
  INF = 2147483647
  MaxClock = 12
  MaxStates = {200}
  Modes = {"EQUALITY", "MAX_LOWER"}
  Graphs <- MCGraphs
  WrittenNets <- MCWrittenNets
  MaxAhead = 0
  Nets <- AllNets
SPECIFICATION MeasuredSpec
INVARIANTS
  RunIsInClass
  FiringIsAnEdge
  ResponseBounded
  DemandBounded
  InterferenceBounded
  VerdictHolds
  HoldBounded
  ReportReadsGraph
