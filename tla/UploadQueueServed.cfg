SPECIFICATION Spec
CONSTANTS
  c1 = c1
  c2 = c2
  c3 = c3
  NoClient = NoClient
  Client <- MCClient
  Scenarios <- MCSwap
  MaxSock = 3
  MinSlots = 1
  SureSlots = 1
  MaxSlots = 1
  QueueLimit = 3
INVARIANT SlotsAreServed
