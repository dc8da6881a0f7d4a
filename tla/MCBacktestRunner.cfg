SPECIFICATION FairSpec
CONSTANTS
  MaxRuns = 2
  MaxDetours = 2
  MaxRequests = 2
  MaxFailures = 1
INVARIANTS
  PageIsOfItsRun
PROPERTIES
  ResultIsOfTheJob
  RunSettles
CHECK_DEADLOCK FALSE
