CONSTANTS
  INF = 2147483647
  Zero = 0
  MaxClocks = 2
  Starts <- MCStarts
  Delays = {2}
  Values = {1, 3}
  Half = 4
SPECIFICATION Spec
CHECK_DEADLOCK FALSE
INVARIANTS
  LibraryMeansItsPoints
  LibraryIsCanonical
  ComparisonsAreRight
PROPERTIES
  FrozenSurvivesWidening
