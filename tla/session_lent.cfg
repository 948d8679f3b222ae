SPECIFICATION LentSpec
CONSTANTS
  None = None
  b1 = b1
  b2 = b2
  b3 = b3
  w1 = w1
  w2 = w2
  Batter <- ThreeBatters
  Bowler <- TwoBowlers
  OverBalls = 1
  InningsBalls = 2
  Extra = {"none"}
  Squads <- FootballSquads
  Starters <- FootballStarters
  Kicks = {"red_card", "start"}
  MaxTaps = 2
  SheetPlayers <- Sheets
  MaxSetup = 2
  MyTeam = "t1"
  Bidder = {"t1", "t2"}
  MaxLots = 1
  Payment = {m1, m2}
  Play = {"six", "single"}
  MaxPlays = 1
  MaxTurns = 1
  MaxReads = 1
  MaxTokens = 2
  Phrase = {}
  MaxMoves = 1
  Account = {"SUPER_ADMIN", "ORG_ADMIN"}
  Path = {"/login", "/admin/dashboard", "/organization/dashboard"}
  Attempts = 1
  MaxForms = 1
  MaxEdits = 2
  MaxLooks = 1
  MaxBid = 1
  MaxActs = 1
CHECK_DEADLOCK FALSE
PROPERTIES AdminKeepsSession
