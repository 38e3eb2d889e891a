SPECIFICATION Spec
CONSTANTS
  p1 = p1
  p2 = p2
  r1 = r1
  w1 = w1
  w2 = w2
  w3 = w3
  None = None
  Processes = {p1, p2}
  Readers = {r1}
  Writers = {w1, w2, w3}
  ProcessOf <- Home
  MaxEvents = 3
SYMMETRY Symmetry
INVARIANTS
  InvalidationWins
  SetBackTraced
