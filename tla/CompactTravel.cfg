CONSTANTS
  k1 = k1
  k2 = k2
  t1 = t1
  p1 = p1
  Keys <- OneKey
  Buckets = {1, 2}
  Hash <- OneBucket
  Txns = {t1}
  Scanners = {p1}
  Batches <- OnePut
  SegCap = 1
  SeqMax = 4
  Persistent = TRUE
  TimeTravel = TRUE
  AllocMayFail = FALSE
  SidecarMayFail = FALSE
  TruncateRaces = FALSE
  MaxCompactions = 1
SPECIFICATION CSpec
INVARIANTS
  OneCurrentVersion
  SnapshotExact
  ScanExactlyOnce
  NoLostUpdate
PROPERTIES
  VersionEndsOnce
