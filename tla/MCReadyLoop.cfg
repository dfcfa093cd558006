SPECIFICATION FairSpec
CONSTANTS
  c1 = c1
  c2 = c2
  Callers <- TwoCallers
  Requests <- TwoRequests
  Essential = "state"
  RefreshAttempts = 2
  PollAttempts = 2
  QueryTimeout = 1
  PollInterval = 1
  MaxCalls = 3
  MaxCommands = 1
  MaxNotices = 2
  MaxSessions = 2
INVARIANTS OneOnAir NeverRefused CommandsGoFirst SweepIsWhole
PROPERTIES CallsEnd RefreshEnds
