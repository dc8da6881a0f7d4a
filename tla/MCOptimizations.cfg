SPECIFICATION MCSpec
CONSTANTS
  NoRecord = NoRecord
  Jobs = {j1}
  LastStage = 3
  RecoveryMax = 1
  Broken = {j1}
  Clearable = {j1}
  MaxCrashes = 2
  Runs = {j1, j2}
  Rows <- MCRows
  BatchSize = 2
  Nobody = Nobody
  HistoryJobs = {1, 2}
  PageSize = 1
  LogMax = 1
  None = None
  MaxActions = 6
  MaxCalls = 2
  MaxFailures = 2
INVARIANTS
  ListsAreSound
  JobsAreDurable
  RowsAreComplete
PROPERTIES
  ConfirmedIsAsked
CHECK_DEADLOCK FALSE
