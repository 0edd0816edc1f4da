SPECIFICATION FairSpec
CONSTANTS
  c1 = c1
  c2 = c2
  f1 = f1
  f2 = f2
  Client <- MCClient
  File <- MCFile
  Block <- MCBlock
  FileOf <- MCFileOf
  Addr = {a1, a2}
  NoAddr = NoAddr
  NoFile = NoFile
  BufferLimit = 0
  Scenarios <- MCScenarios
  MaxPort = 1
  MaxSession = 2
INVARIANTS
  TypeOK
  CountsReads
  SessionKeepsReads
PROPERTIES
  RequestsAreTaken
  MainReturns
  ImplementsPromise
CHECK_DEADLOCK FALSE
