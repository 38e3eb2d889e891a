CONSTANTS
  w1 = w1
  w2 = w2
  w3 = w3
  c1 = c1
  c2 = c2
  c3 = c3
  None = None
  Workers <- MCWorkers
  Codes <- MCCodes
  Days = {1, 2}
  MaxCalls = 6
SPECIFICATION Spec
SYMMETRY Symmetry
INVARIANT IdentityKept
CHECK_DEADLOCK FALSE
