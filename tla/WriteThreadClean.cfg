SPECIFICATION FairSpec
CONSTANTS
  Item <- MCItem
  AllocFull = TRUE
  Faults = {}
  MayStop = FALSE
  MaxPort = 3
  MaxLeak = 2
INVARIANTS
  CountsOutstanding
  PendingIoWakes
PROPERTIES
  HandedOverIsWritten
