SPECIFICATION Spec
CONSTANTS
  NumLeases = 2
  Lifetimes <- MCLifetimes
  Events = {"network", "wizard", "exit"}
  LastWorking = "pcp"
INVARIANTS
  MappingsAreTracked
  ForwardedIsMapped
  FallbackIsUnmapped
  OneMapperAtATime
PROPERTIES
  CleanupOnNetwork
