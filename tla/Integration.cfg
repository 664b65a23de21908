CONSTANTS
  p1 = p1
  p2 = p2
  r1 = r1
  r2 = r2
  Envs = {"production", "sandbox"}
  Preferred = "production"
  Requests = {r1, r2}
  Processes = {p1, p2}
  MaxRequests = 4
  MaxPayments = 1
SYMMETRY Symmetry
SPECIFICATION ISpec
INVARIANTS
  ITypeOK
  FreshKeys
CHECK_DEADLOCK FALSE
