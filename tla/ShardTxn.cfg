CONSTANTS
  k1 = k1
  k2 = k2
  t1 = t1
  Keys <- TwoKeys
  Buckets = {1, 2}
  Hash <- OwnBucket
  Txns = {t1}
  Scanners = {}
  Batches <- SinglePuts
  SegCap = 1
  SeqMax = 4
  Persistent = TRUE
  TimeTravel = FALSE
  AllocMayFail = TRUE
  SidecarMayFail = FALSE
  TruncateRaces = FALSE
SPECIFICATION Spec
INVARIANTS
  FirstCommitterWins
  NoSpuriousConflict
  RetainedReads
PROPERTIES
  AtomicSnapshots
