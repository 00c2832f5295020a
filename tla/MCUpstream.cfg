SPECIFICATION Spec
CONSTANTS
  e1 = e1
  e2 = e2
  r1 = r1
  r2 = r2
  http = http
  socks5 = socks5
  Request = {r1, r2}
  Endpoint = {e1, e2}
  Protocol = {http, socks5}
  ProtocolOf <- TwoProtocols
  Attempts = 2
  Nowhere = Nowhere
  MaxInner = 1
INVARIANTS UpstreamTypeOK CountersBalance RetriesElsewhere UnsafeOnce
PROPERTY RequestsEnd
CHECK_DEADLOCK FALSE
