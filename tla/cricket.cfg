SPECIFICATION MCSpec
CONSTANTS
  Console = {x, y}
  Balls <- Deliveries
  OverLength = 3
  TotalOvers = 1
  BowledOut <- OneOrTwo
  MaxBalls = 4
  RacedBalls = 3
INVARIANTS TotalsMatchLog InningsWithin TargetStands WinnerInTurn ChaseInTurn
PROPERTIES SidesKept
SYMMETRY Symmetry
CHECK_DEADLOCK FALSE
