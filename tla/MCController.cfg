CONSTANTS
  Levels = 3
  Boundary <- Boundaries3
  UpDelay = 1
  DownDelay <- Dwells3
  PMs <- Values
  NoPM = invalid
  MaxTime = 1
  MaxReadings = 1
  MaxInputs = 3
  QueueLimit = 2
SPECIFICATION FairSpec
CHECK_DEADLOCK FALSE
INVARIANTS QuietUnlessUsable NoStrayWorker
PROPERTIES FreshTarget ControlReturns
