SPECIFICATION MCSpec
CONSTANTS
  Player = {p1, p2}
  Team = {t1, t2}
  Auctioneer = {desk}
  Bidder = {b1, desk}
  NoPlayer = NoPlayer
  NoTeam = NoTeam
  Increment = 1
  Purse = 2
  MaxSquad = 2
  MaxBid = 2
  BasePrices = {1}
  StatusChoices = {"live", "completed"}
  PoolChoices = {"unsold"}
  DiscountFloor = 2
  MaxSales = 2
  RacedSales = 1
SYMMETRY Symmetry
INVARIANTS TypeOK SquadMatchesSales OneOnHammer StandingBidInTurn FieldedInTurn
PROPERTIES PaidSaleStands BidsTopUnderLock BookInTurn
CHECK_DEADLOCK FALSE
