SPECIFICATION MCSpec
CONSTANTS
  Player = {p1, p2}
  Team = {t1, t2}
  Auctioneer = {w}
  Bidder = {w}
  NoPlayer = NoPlayer
  NoTeam = NoTeam
  Increment = 1
  Purse = 2
  MaxSquad = 2
  MaxBid = 2
  BasePrices = {1}
  StatusChoices = {"live", "completed"}
  PoolChoices = {"unsold"}
  DiscountFloor = 1
  MaxSales = 2
  RacedSales = 1
SYMMETRY Symmetry
INVARIANTS SaleAnnounced
CHECK_DEADLOCK FALSE
