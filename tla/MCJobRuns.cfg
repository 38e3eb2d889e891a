SPECIFICATION Spec
CONSTANTS
  bar1 = bar1
  bar2 = bar2
  check1 = check1
  other1 = other1
  dailyBar = dailyBar
  otherSet = otherSet
  p1 = p1
  p2 = p2
  w1 = w1
  w2 = w2
  None = None
  Intents <- GatedIntents
  ScopeOf <- GatedScopeOf
  Priority <- GatedPriority
  Dependencies <- GatedDependencies
  ApiIntents = {bar1}
  MaxAttempts = 2
  MaxQueued = 1
  MaxRuns = 2
  Pools = {p1, p2}
  Threads = {w1, w2}
  PoolOf <- TwoPools
  LabelledBy <- TwoLabels
  Dispatchers = {d1}
CHECK_DEADLOCK FALSE
INVARIANTS
  IInv
  OneLivePerKey
  OneRunningPerScope
  ExecutionExclusion
  DependentsWait
PROPERTIES
  SettledNeverRewritten
  LedgerSpec
