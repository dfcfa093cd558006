CONSTANTS
  MaxInputs = 4
  MaxFaults = 2
  Attempts = 2
  Inputs <- Everything
SPECIFICATION FairSpec
CHECK_DEADLOCK FALSE
INVARIANTS GateIsSafe  OffBeforeCommand MemoryAgrees
PROPERTIES GateReopens UnloadEnds
