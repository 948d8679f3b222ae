SPECIFICATION MCSpec
CONSTANTS
  Console = {x, y}
  Striker = Striker
  Squad <- OneNamed
  NoPlayer = NoPlayer
  EventTypes <- Kicks
  Controls <- PlayControls
  HalfLength = 2
  ExtraHalf = 1
  MaxEvents = 2
  MaxTime = 0
  RacedEvents = 2
  RacedTime = 0
  RacedControls <- PlayControls
  TurnEvents <- Kicks
  TimedEvents = 1
SYMMETRY Symmetry
INVARIANTS ResultMatchesScore
CHECK_DEADLOCK FALSE
