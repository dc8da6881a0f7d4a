SPECIFICATION MCSpec
CONSTANTS
  NoReport = NoReport
  NoRequest = NoRequest
  Requests = {r1, r2}
  MaxRenders = 4
  TrendRobots = {a, b}
  NoRobot = NoRobot
  MaxTrend = 5
  Covered = 2
  MaxSwitches = 3
  Profits <- MCProfits
  Replays <- MCReplays
  Results <- MCResults
  Sizes = {2, 5}
  Columns = {"score", "sharpe", "actions"}
  CoreColumns = {"score", "actions"}
  RowHeight = 3
  Viewport = 4
  Overscan = 1
  LedgerSize = 2
  Ledgers <- MCLedgers
  MaxTurns = 4
  Direction = "long"
  Spacing = 10
  Tolerance = 2
  Started = 0
  StartPrice = 115
  BaseWindow = 3
  MostItems = 3
  LeastShift = 20
  Lines <- MCLines
  OrderSize = 2
  PageOfFills = 2
  Situations <- MCSituations
  FundingPaid = 3
  Grain = 4
  Day = 2
  MaxFills = 1
  MaxSyncs = 3
CHECK_DEADLOCK FALSE
INVARIANTS
  RiskHasItsCard
