SPECIFICATION Spec
CONSTANTS
  NumBlocks = 3
  p1 = p1
  p2 = p2
  Part <- MCPart
  PartOf <- MCPartOf
  Events = {"alloc", "hash", "error", "space", "move", "pause", "stop"}
  MaxBad = 0
  MaxCrash = 0
CHECK_DEADLOCK FALSE
INVARIANTS
  CompleteFileAsserts
  DownloadSurvives
PROPERTY
  KeepsPromise
