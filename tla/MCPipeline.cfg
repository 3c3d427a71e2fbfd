CONSTANTS
  INF = 127
  KnownPrefix = {"mutex"}
  MentionsSpin = {}
  Document <- MCDocument
  Source <- MCSource
  Requests <- MCRequests
  Replacing = {"pair", "locked"}
SPECIFICATION Spec
INVARIANTS
  SuccessMeansWritten
  PpnIsRestartStyle
  AbortsAreKnown
PROPERTY
  Ends
