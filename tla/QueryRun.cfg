CONSTANTS
  Bits = 8
  Exact = 128
  MaxReal = 512
  Now = 50
  Saturates = FALSE
  MaxDepth = 6
  NativeDepth = 6
  MaxGroups = 4
  BloomBits = 8
  SegRecs = 2
  Scenarios <- MCScenarios
  ParentKey <- MCParentKey
SPECIFICATION Spec
INVARIANTS QueryExact
