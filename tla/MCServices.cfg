\* No symmetry, for the temporal properties.
SPECIFICATION MCSpec
CONSTANTS
  Jobs = {j1, j2}
  NoRecord = NoRecord
  MaxRecords = 1
  TTL = 1
  LastStage = 2
  MaxTime = 2
  QueueJobs = {j1}
  NoRow = NoRow
  Pieces = 4
  MaxDeliveries = 2
  r1 = r1
  r2 = r2
  subject1 = subject1
  subject2 = subject2
  all = all
  Guarded <- MCGuarded
  Keys <- MCKeys
  KeysOf <- MCKeysOf
  Limit <- MCLimit
  Missing = Missing
  MaxCrashes = 1
  Starters = {r1, r2}
  None = None
  MaxPolls = 1
  MaxFailures = 2
  MaxVanish = 1
CHECK_DEADLOCK FALSE
INVARIANTS
  RegistryIsSound
  KeyIsHonoured
  SlotsAreCounted
PROPERTIES
  ImplementsJobOutcome
  QueueKeepsResults
  ServicesSettle
