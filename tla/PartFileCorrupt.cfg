SPECIFICATION Spec
CONSTANTS
  NumBlocks = 3
  p1 = p1
  p2 = p2
  Part <- MCPart
  PartOf <- MCPartOf
  Events = {"stop"}
  MaxBad = 1
  MaxCrash = 0
INVARIANT OnlyGoodFilesMove
