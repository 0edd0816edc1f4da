SPECIFICATION FairSpec
CONSTANTS
  Item <- MCItem
  AllocFull = TRUE
  Faults = {"open", "sync", "short", "dequeue"}
  MayStop = TRUE
  MaxPort = 2
  MaxLeak = 1
INVARIANTS
  HeldIsPending
  WrittenIsOnDisk
  QuietWhenCompleted
PROPERTIES
  EndThreadReturns
  ImplementsPromise
