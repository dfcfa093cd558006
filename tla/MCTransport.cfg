CONSTANTS
  old = old
  new = new
  Nobody = nobody
  Standalone = standalone
  Transports <- Two
  MaxCycles = 2
  MaxStandalone = 1
  Resistant <- AnyCall
SPECIFICATION Spec
CHECK_DEADLOCK FALSE
INVARIANTS LeaseInv OneLink FreshStart QuarantineHeld
PROPERTIES ImplementsLease
