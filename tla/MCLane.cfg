CONSTANTS
  low = low
  high = high
  red = red
  NoMode = none
  FanModes <- OneMode
  Colors <- Light
  ButtonModes <- NoButton
  MaxOps = 3
  SendLimit = 1
  MaxGeneration = 2
  QueueLimit = 1
  AirLimit = 1
  EchoCopies = 1
  Disturbances <- Cancels
SPECIFICATION Spec
CHECK_DEADLOCK FALSE
INVARIANTS NoLostWakeup SubmissionOrder
