SPECIFICATION Spec
CONSTANTS
  NumBlocks = 3
  p1 = p1
  p2 = p2
  Part <- MCPart
  PartOf <- MCPartOf
  Events = {"met"}
  MaxBad = 1
  MaxCrash = 1
CHECK_DEADLOCK FALSE
INVARIANTS
  GapsAreHonest
  MetIsHonest
  OnlyGoodFilesMove
