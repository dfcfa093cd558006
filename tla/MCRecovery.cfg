SPECIFICATION FairSpec
CONSTANTS
  Initial = 1
  BackoffMax = 4
  RecentMax = 2
  Jitters <- Jittered
  Settle = 1
  ResetAfter = 2
  Window = 5
  Failures = 3
  Wakes = 2
  InitialFloor = 2
  MaxFloor = 3
  History = 4
  FreshTimeout = 2
  CacheAge = 1
  MaxCommands = 1
INVARIANTS StormIsBounded CircuitIsEarned CutsArePaid
PROPERTIES FloorIsKept KeepsTrying
