SPECIFICATION Spec
CONSTANTS
  Keys = {k1, k2, k3}
  Rows <- SomeRows
  Width = 2
  Grace = 0
  Limit = 2
  MaxChanges = 3
  MaxClock = 4
  MaxFaults = 1
INVARIANTS
  
  SealedOnce
CHECK_DEADLOCK FALSE
