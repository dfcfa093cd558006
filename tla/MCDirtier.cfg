CONSTANTS
  Levels = 3
  Boundary <- Boundaries3
  UpDelay = 1
  DownDelay <- Dwells3
  PMs <- Values
  NoPM = invalid
  MaxTime = 2
  MaxReadings = 5
  MaxInputs = 1
  QueueLimit = 1
SPECIFICATION FairSpec
CHECK_DEADLOCK FALSE
PROPERTIES DirtierEndsDwell
