SPECIFICATION MCSpec
CONSTANTS
  Console = {x}
  Balls <- Deliveries
  OverLength = 2
  TotalOvers = 1
  BowledOut <- OneOrTwo
  MaxBalls = 3
  RacedBalls = 3
PROPERTIES CancelledFrozen
CHECK_DEADLOCK FALSE
