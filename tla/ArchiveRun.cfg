SPECIFICATION Spec
CONSTANTS
  Readers = {r1}
  Ages <- MCAges
  SegCap <- MCSegCap
  MaxSeq = 3
  MaxFiles = 4
  MaxCodecs = 2
  Nows = {2, 3, 4}
  MaxPasses = 2
  MaxTunes = 1
  MaxCrashes = 1
  Configured <- MCConfigured
  Retentions <- MCRetentions
  Floors <- MCFloors
  Asks <- MCAsks
  Merge <- MCMerge
INVARIANTS
  PinnedMapped
  ScanExact
  RecoveryExact
  RetiredUnlinked
PROPERTIES
  YoungKept
