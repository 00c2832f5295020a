SPECIFICATION Spec
CONSTANTS
  e1 = e1
  e2 = e2
  i1 = i1
  i2 = i2
  w1 = w1
  w2 = w2
  Endpoint = {e1, e2}
  IP = {i1}
  IpOf <- SamePort
  Worker = {w1, w2}
  Free = Free
  NoEndpoint = NoEndpoint
  LockThreshold = 2
  LockDuration = 1
  Backoff <- TwoBackoff
  StaleAfter = 1
  DbFaults = TRUE
  RacyReads = TRUE
  MaxTime = 3
  MaxGen = 2
  MaxCount = 2
INVARIANTS TypeOK PoolBackedByRow IndexMatchesPool LockedNotServed FailedNotServed FailuresExact
PROPERTY ImplementsContract
SYMMETRY SymmetrySamePort
VIEW WithoutIPHistory
CHECK_DEADLOCK FALSE
