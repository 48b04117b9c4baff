CONSTANTS
  k1 = k1
  w1 = w1
  w2 = w2
  Keys <- OneKey
  Writers <- TwoWriters
  SegCap = 2
  MaxOps = 3
  MaxCrashes = 2
  MaxSegs = 3
  Maintenance = TRUE
  PowerLoss = TRUE
  CrashInCopy = FALSE
SPECIFICATION Spec
INVARIANTS
  AppliedOnce
  
  RecoveredUnique
PROPERTIES
  CallsReturn
CHECK_DEADLOCK FALSE
