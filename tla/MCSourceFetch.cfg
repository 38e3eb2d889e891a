CONSTANTS
  None = None
  All = All
  WindowDays = 2
  BondDays = 2
  BatchCodes = 2
  PageSize = 2
  MaxPages = 2
  Cases <- MCCases
SPECIFICATION Spec
INVARIANT FrameAsAsked
INVARIANT PricesAdjusted
CHECK_DEADLOCK FALSE
