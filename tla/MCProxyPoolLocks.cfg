SPECIFICATION Spec
CONSTANTS
  e1 = e1
  e2 = e2
  i1 = i1
  i2 = i2
  w1 = w1
  w2 = w2
  Endpoint = {e1, e2}
  IP = {i1, i2}
  IpOf <- OtherIP
  Worker = {w1, w2}
  Free = Free
  NoEndpoint = NoEndpoint
  LockThreshold = 2
  LockDuration = 1
  Backoff <- TwoBackoff
  StaleAfter = 1
  DbFaults = FALSE
  RacyReads = FALSE
  MaxTime = 3
  MaxGen = 1
  MaxCount = 3
INVARIANTS PromisedLockKept RetryDelayKept HitsExact
SYMMETRY SymmetryOtherIP
CHECK_DEADLOCK FALSE
