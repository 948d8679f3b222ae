SPECIFICATION ClientSpec
CONSTANTS
  None = None
  b1 = b1
  b2 = b2
  b3 = b3
  w1 = w1
  w2 = w2
  Batter <- ThreeBatters
  Bowler <- TwoBowlers
  OverBalls = 1
  InningsBalls = 2
  Extra = {"none"}
  Squads <- FootballSquads
  Starters <- FootballStarters
  Kicks = {"red_card", "start"}
  MaxTaps = 2
  SheetPlayers <- Sheets
  MaxSetup = 2
  MyTeam = "t1"
  Bidder = {"t1", "t2"}
  MaxLots = 1
  Payment = {m1, m2}
  Play = {"six", "single"}
  MaxPlays = 1
  MaxTurns = 1
  MaxReads = 1
  MaxTokens = 3
  Phrase <- Phrases
  MaxMoves = 2
  Account = {"SUPER_ADMIN", "ORG_ADMIN"}
  Path = {"/login", "/account/profile"}
  Attempts = 0
  MaxForms = 2
  MaxEdits = 4
  MaxLooks = 2
  MaxBid = 2
  MaxActs = 2
SYMMETRY Symmetry
INVARIANTS KeypadRight ChangesFit SheetsSound ParkedIsOwn ChargedOnce ReceiptClearsDraft CalledOnce DoneIsShown
PROPERTIES RefusalKeepsLive
CHECK_DEADLOCK FALSE
