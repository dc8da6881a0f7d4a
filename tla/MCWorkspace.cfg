SPECIFICATION Spec
CONSTANTS
  None = None
  MaxJobs = 3
  MaxPage = 2
  MaxCalls = 2
  MaxActions = 6
  MaxFailures = 1
INVARIANTS StartingIsExact
PROPERTIES ShownIsTheJobs FormFollowsWorkspace
CHECK_DEADLOCK FALSE
