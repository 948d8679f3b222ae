SPECIFICATION MCSpec
CONSTANTS
  Console = {x, y}
  Striker = Striker
  Squad <- OneNamed
  NoPlayer = NoPlayer
  EventTypes = {"penalty_goal", "own_goal", "yellow_card"}
  Controls <- ClockControls
  HalfLength = 1
  ExtraHalf = 0
  MaxEvents = 3
  MaxTime = 1
  RacedEvents = 2
  RacedTime = 0
  RacedControls <- PlayControls
  TurnEvents <- KicksAndCards
  TimedEvents = 1
SYMMETRY Symmetry
INVARIANTS SentOffStaysOff ResultInTurn ScoreFromLog NothingBeforeKickOff
PROPERTIES ClockNeverBack
CHECK_DEADLOCK FALSE
