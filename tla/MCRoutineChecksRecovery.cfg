SPECIFICATION RoutineSpec
CONSTANTS
  e1 = e1
  e2 = e2
  i1 = i1
  c1 = c1
  Endpoint = {e1}
  IP = {i1}
  IpOf <- OneEndpoint
  Workers = 2
  Reserve = 0
  Checker = {c1}
  VerifyCapacity = 1
  Faults = FALSE
  NoJob = NoJob
PROPERTY RecoveryIsDeep
