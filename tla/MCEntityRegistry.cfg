SPECIFICATION Spec
CONSTANTS
  i1 = i1
  i2 = i2
  codeA = codeA
  codeB = codeB
  codeC = codeC
  name1 = name1
  name2 = name2
  name3 = name3
  None = None
  Instruments = {i1, i2}
  FirstCode <- TwoCodes
  FirstName <- TwoNames
  FirstDay = 1
  Names = {name1, name2, name3}
  Codes = {codeA, codeB, codeC}
  LastDay = 3
  EventsUntil = 3
  MaxRenames = 2
  MaxCodeChanges = 2
  MaxBuilds = 2
SYMMETRY Interchangeable
CHECK_DEADLOCK FALSE
INVARIANTS
  NamesReplayed
  ReadModelsAgree
  CodesInForce
  CurrentCode
