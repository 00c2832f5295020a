SPECIFICATION RoutineSpec
CONSTANTS
  e1 = e1
  e2 = e2
  i1 = i1
  c1 = c1
  Endpoint = {e1, e2}
  IP = {i1}
  IpOf <- OneAddress
  Workers = 2
  Reserve = 0
  Checker = {c1}
  VerifyCapacity = 1
  Faults = FALSE
  NoJob = NoJob
INVARIANTS
  RoutineTypeOK
  ClaimsAreOwned
PROPERTY OverdueAreChecked
