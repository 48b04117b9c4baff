SPECIFICATION Spec
CONSTANTS
  u = u
  w = w
  q = q
  v = v
  loc = loc
  data = data
  Callers = {u, w, q, v, loc}
  Kind <- MCKind
  Crews <- MCCrews
  MaxConns = 2
  Data = data
  ShardOf <- MCOneShard
  Rows = 2
  Events = 3
  StreamBuf = 1
  NetBuf = 1
  MaxTries <- MCTries
  MaxFaults <- MCFaults
INVARIANTS
  MarkerMeansData
CHECK_DEADLOCK FALSE
