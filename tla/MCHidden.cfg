CONSTANTS
  MaxInputs = 4
  MaxFaults = 0
  Attempts = 2
  Inputs <- NoEdit
SPECIFICATION Spec
CHECK_DEADLOCK FALSE
INVARIANTS HiddenStaysOff
