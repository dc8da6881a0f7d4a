SPECIFICATION FairSpec
CONSTANTS
  Pages = {p1, p2}
  None = None
  LastStep = 1
  MaxRequests = 2
  MaxFailures = 1
  MaxChanges = 1
INVARIANTS
  NotifiedOnce
PROPERTIES
  ShownIsSound
  EndIsShown
CHECK_DEADLOCK FALSE
