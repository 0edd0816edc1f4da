SPECIFICATION FairSpec
CONSTANTS
  NumBlocks = 3
  p1 = p1
  p2 = p2
  Part <- MCPart
  PartOf <- MCPartOf
  Events = {"aich"}
  MaxBad = 1
  MaxCrash = 0
INVARIANTS
  TypeOK
  CorruptIsMarked
PROPERTY NothingMissingCompletes
