SPECIFICATION SqlFairSpec
CONSTANTS
  bar1 = bar1
  bar2 = bar2
  dailyBar = dailyBar
  p1 = p1
  w1 = w1
  w2 = w2
  None = None
  Intents <- BarIntents
  ScopeOf <- BarScopeOf
  Priority <- BarPriority
  Dependencies <- BarDependencies
  ApiIntents = {bar1}
  MaxAttempts = 2
  MaxQueued = 2
  MaxRuns = 2
  Pools = {p1}
  Threads = {w1, w2}
  PoolOf <- OnePool
  LabelledBy <- OneLabel
  Dispatchers = {d1, api}
  ApiClients = {api}
CHECK_DEADLOCK FALSE
INVARIANTS
  OneLivePerKey
  NoDoubleExecution
PROPERTIES
  LedgerSpec
  TransactionsEnd
