SPECIFICATION Spec
CONSTANTS
  t1 = t1
  t2 = t2
  None = None
  Threads = {t1, t2}
  Hubs = 2
  Kinds <- AllKinds
  Capacity = 3
  Rate = 1
  Cost = 2
  Span = 3
  Timeout = 2
  MaxTries = 2
  SessionTtl = 2
  Callbacks = {"returns", "raises"}
  Days <- TwoDays
  UnitCost = 2
  Limits <- Budget
  WarnRatio = 5
  Limited = {"plain", "fuyao"}
  Metered = {"plain", "fuyao"}
  MaxCalls <- Calls
INVARIANT RateBound
INVARIANT LedgerAgrees
INVARIANT HandshakeFirst
INVARIANT SessionCounted
PROPERTY CallsEnd
