SPECIFICATION FeedSpec
CONSTANTS
  Nothing = Nothing
  StateIds = {s1}
  Ops = {o1, o2}
  Happened = {c1}
  Ongoing = {c1, c2}
  MaxItems = 2
  PullLimit = 1
  Ttl = 1
  MaxTime = 3
  MaxEvents = 2
  MaxRequests = 2
INVARIANT FeedIsInOrder
PROPERTIES AnswersMergeSoundly RecordsArrive
CHECK_DEADLOCK FALSE
