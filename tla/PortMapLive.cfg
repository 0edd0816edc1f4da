SPECIFICATION FairSpec
CONSTANTS
  NumLeases = 1
  Lifetimes <- MCLifetimes
  Events = {"suspend", "prefs", "wizard"}
  LastWorking = "pcp"
PROPERTY DelayedConnects
