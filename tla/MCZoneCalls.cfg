CONSTANTS
  INF = 7
  Zero = 0
  Clocks = {1, 2}
  Upper = {0, 4, 6, 7}
  Lower <- MCLower
  Difference <- MCDifference
  Guards = {1, 5}
  Largest = {5, 6}
  Box = 16
SPECIFICATION Spec
CHECK_DEADLOCK FALSE
INVARIANTS
  MeansItsPoints
  BoundsAreReached
  InclusionIsSubset
