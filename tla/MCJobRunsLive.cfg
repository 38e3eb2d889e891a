SPECIFICATION FairSpec
CONSTANTS
  bar1 = bar1
  bar2 = bar2
  check1 = check1
  other1 = other1
  dailyBar = dailyBar
  otherSet = otherSet
  p1 = p1
  p2 = p2
  w1 = w1
  w2 = w2
  None = None
  Intents <- FreeIntents
  ScopeOf <- FreeScopeOf
  Priority <- FreePriority
  Dependencies <- FreeDependencies
  ApiIntents = {}
  MaxAttempts = 2
  MaxQueued = 1
  MaxRuns = 3
  Pools = {p1}
  Threads = {w1}
  PoolOf <- OnePool
  LabelledBy <- OneLabel
  Dispatchers = {d1}
CHECK_DEADLOCK FALSE
INVARIANT BacklogBound
PROPERTY Progress
