SPECIFICATION MCSpec
CONSTANTS
  Worker = {x, y}
  Team = {1, 2, 3, 4, 5, 6, 7, 8, 9}
  Draws <- AllDraws
  HandStatuses = {"completed", "scheduled"}
  MaxLists = 2
  Fields = {3, 4, 5, 6, 7, 9}
  Movers = {1}
  Tosses = 1
SYMMETRY Symmetry
INVARIANTS SettledInTurn OnePassSettles QualifiersInTurn DrawFair
PROPERTY StartedInTurn
CHECK_DEADLOCK FALSE
