CONSTANTS
  Bits = 8
  Exact = 128
  MaxReal = 512
  Now = 50
  Saturates = FALSE
  MaxDepth = 6
  NativeDepth = 6
  MaxGroups = 4
  BloomBits = 8
  WordSize = 4
  Lanes = 2
  SimdWidths = {4}
  NarrowWidths <- MCNarrow
  Presence = 60
  Fit = 60
  HotFit = 100
  MaxDict = 4
  MaxRows = 3
  TargetBytes = 8
  RowAlign = 2
  TopGroups = 1
  MinLive = 2
  SegRecs = 4
  Scenarios <- MCScenarios
SPECIFICATION Spec
INVARIANTS   RowsExact
