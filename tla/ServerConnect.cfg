SPECIFICATION FairSpec
CONSTANTS
  s1 = s1
  s2 = s2
  s3 = s3
  NoSocket = NoSocket
  Socket <- MCSocket
  Scenarios <- MCScenarios
INVARIANTS
  TypeOK
  ConnectedIsOpen
  NoUseAfterFree
  NoneLeftBehind
  SocketsAreWatched
  KeepsTrying
PROPERTY AttemptEnds
