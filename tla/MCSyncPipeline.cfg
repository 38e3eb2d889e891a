SPECIFICATION FairSpec
CONSTANTS
  LastDay = 2
  TradingDays = {1, 2}
  StartDay = 1
  Revisable = {1}
  LateDays = {}
  Asking = {0}
  ApiStarts = {None}
  ApiEnds = {2}
  Threads = {w1, w2}
  MaxFailures = 1
  None = None
CHECK_DEADLOCK FALSE
INVARIANTS
  WatermarkCovers
  VersionsChain
PROPERTIES
  HistoryKept
  CatchUp
