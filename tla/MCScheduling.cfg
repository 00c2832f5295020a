SPECIFICATION Spec
CONSTANTS
  e1 = e1
  e2 = e2
  e3 = e3
  i1 = i1
  i2 = i2
  d1 = d1
  Endpoint = {e1, e2, e3}
  IP = {i1, i2}
  IpOf <- TwoPorts
  Domain = {d1}
  TTL = 2
  MaxUse = 1
INVARIANTS SchedulingTypeOK PickIsExact RoundRobin
SYMMETRY Symmetry
