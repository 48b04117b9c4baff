CONSTANTS
  k1 = k1
  k2 = k2
  t1 = t1
  p1 = p1
  Keys <- TwoKeys
  Buckets = {1, 2}
  Hash <- OneBucket
  Txns = {}
  Scanners = {p1}
  Batches <- PairPuts
  SegCap = 2
  SeqMax = 4
  Persistent = FALSE
  TimeTravel = FALSE
  AllocMayFail = FALSE
  SidecarMayFail = FALSE
  TruncateRaces = FALSE
  MaxCompactions = 2
SPECIFICATION CSpec
INVARIANTS
  GetExact
  CountExact
  NoDanglingLink
