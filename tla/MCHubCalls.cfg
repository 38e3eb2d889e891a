SPECIFICATION Spec
CONSTANTS
  t1 = t1
  t2 = t2
  tushare = tushare
  baostock = baostock
  c1 = c1
  c2 = c2
  None = None
  Threads = {t1, t2}
  Offers <- AllOffers
  Capabilities <- Adapters
  DefaultSource = baostock
  FactorSource = tushare
  Trusted = {tushare}
  Fallbacks <- Backup
  FieldFill = TRUE
  Columns <- BarColumns
  Supplies <- Columned
  Size <- Bytes
  MaxBytes = 2
  MaxEntries = 2
  MaxEntryBytes = 3
  SweepEvery = 2
  MaxCalls <- Calls
  MaxDrops <- Drops
INVARIANT OwnFrame
INVARIANT ForceSticks
INVARIANT SingleFlight
INVARIANT WithinLimits
CHECK_DEADLOCK FALSE
PROPERTY EveryCallEnds
