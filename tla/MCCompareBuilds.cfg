CONSTANTS
  INF = 2147483647
  MaxStates = {130}
  Modes = {"EQUALITY", "MAX_LOWER", "INTERSECTION"}
  Nets <- MCNets
SPECIFICATION CompareSpec
INVARIANTS
  SameBehaviour
  MergingIsLossless
