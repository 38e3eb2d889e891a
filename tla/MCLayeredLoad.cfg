SPECIFICATION Spec
CONSTANTS
  t1 = t1
  t2 = t2
  t3 = t3
  p1 = p1
  p2 = p2
  None = None
  Processes = {p1, p2}
  Threads = {t1, t2, t3}
  ProcessOf <- Home
  LeaseTtl = 3
  LockWait = 1
  MaxCalls = 3
  MaxFaults = 2
INVARIANT OneLoader
PROPERTY LeaseKept
PROPERTY Answered
