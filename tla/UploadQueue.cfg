SPECIFICATION FairSpec
CONSTANTS
  c1 = c1
  c2 = c2
  c3 = c3
  NoClient = NoClient
  Client <- MCClient
  Scenarios <- MCScenarios
  MaxSock = 3
  MinSlots = 1
  SureSlots = 1
  MaxSlots = 1
  QueueLimit = 3
INVARIANTS
  ListsMatchStates
  ServedUnlessReplaced
  SlotBound
PROPERTY ConnectingEnds
