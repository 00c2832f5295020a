SPECIFICATION Spec
CONSTANTS
  e1 = e1
  e2 = e2
  i1 = i1
  i2 = i2
  f1 = f1
  f2 = f2
  v1 = v1
  v2 = v2
  Endpoint = {e1}
  IP = {i1}
  IpOf <- OneEndpoint
  Workers = 2
  Reserve = 0
  Fetcher = {f1, f2}
  Validator = {v1, v2}
  QueueCapacity = 1
  FetchLimit = 1
  Nothing = Nothing
INVARIANT QueuedKeysReleased
