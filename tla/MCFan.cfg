CONSTANTS
  low = low
  high = high
  red = red
  NoMode = none
  FanModes <- TwoModes
  Colors <- NoLight
  ButtonModes <- Button
  MaxOps = 2
  SendLimit = 2
  MaxGeneration = 2
  QueueLimit = 1
  AirLimit = 1
  EchoCopies = 1
  Disturbances <- Cancels
SPECIFICATION Spec
CHECK_DEADLOCK FALSE
INVARIANTS ForcedIsSent
PROPERTIES ConfirmedInSession
