CONSTANTS
  Levels = 3
  Boundary <- Boundaries3
  UpDelay = 1
  DownDelay <- Dwells3
  PMs <- Values
  NoPM = invalid
  MaxTime = 2
  MaxReadings = 5
  MaxInputs = 1
  QueueLimit = 1
SPECIFICATION Spec
CHECK_DEADLOCK FALSE
INVARIANTS TargetIsSent BoundaryHasAlarm
PROPERTIES RaisedWhenConfirmed SlowedAfterDwell
