SPECIFICATION VerificationSpec
CONSTANTS
  e1 = e1
  i1 = i1
  f1 = f1
  v1 = v1
  v2 = v2
  c1 = c1
  Endpoint = {e1}
  IP = {i1}
  IpOf <- OneEndpoint
  Workers = 1
  Reserve = 0
  Fetcher = {f1}
  Validator = {v1, v2}
  QueueCapacity = 1
  FetchLimit = 1
  Nothing = Nothing
  Checker = {c1}
  VerifyCapacity = 1
  Faults = TRUE
  NoJob = NoJob
INVARIANT SlotsAreAccounted
PROPERTIES
  RoutineGetsItsSlot
  CandidatesAreDecided
