CONSTANTS
  Bits = 4
  Exact = 32
  MaxReal = 128
  Now = 5
  Saturates = FALSE
  MaxDepth = 12
  NativeDepth = 6
  MaxGroups = 4
  Laws <- MCLaws
SPECIFICATION Spec
INVARIANTS CompiledAgrees FoldSound 
CHECK_DEADLOCK FALSE
