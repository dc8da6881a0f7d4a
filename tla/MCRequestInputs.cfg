SPECIFICATION MCSpec
CONSTANTS
  None = None
  btc = btc
  eth = eth
  own = own
  Symbols = {btc, eth}
  Home = btc
  Ids = {own}
  MaxCalls = 3
  MaxActions = 4
  MaxFailures = 1
  MaxApiCalls = 2
  MaxFaults = 2
  Entries <- MCEntries
  Complete <- MCComplete
  Rows <- MCRows
  MaxEdits = 3
INVARIANTS AnchorIsCurrent
PROPERTIES InputsStayTheUsers WaitsEnd CallsAreSound FormIsSound
CHECK_DEADLOCK FALSE
