CONSTANTS
  old = old
  new = new
  Nobody = nobody
  Standalone = standalone
  Transports <- Two
  MaxCycles = 1
  MaxStandalone = 1
  Resistant <- AnyCall
SPECIFICATION TimersSpec
CHECK_DEADLOCK FALSE
PROPERTIES ShutdownEnds QuarantineEnds
