CONSTANTS
  low = low
  high = high
  red = red
  NoMode = none
  FanModes <- OneMode
  Colors <- Light
  ButtonModes <- NoButton
  MaxOps = 2
  SendLimit = 1
  MaxGeneration = 2
  QueueLimit = 1
  AirLimit = 1
  EchoCopies = 1
  Disturbances <- NoCancel
SPECIFICATION FairSpec
CHECK_DEADLOCK FALSE
INVARIANTS LaneInv
PROPERTIES OnlyLawfulSends ImplementsService EveryCallAnswered
