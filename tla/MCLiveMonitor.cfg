SPECIFICATION FairSpec
CONSTANTS
  Robots = {r1, r2}
  None = None
  MaxActions = 7
  MaxRequests = 2
  MaxFailures = 1
INVARIANTS
  RequestsAreSound
PROPERTIES
  RefreshesKeepComing
CHECK_DEADLOCK FALSE
