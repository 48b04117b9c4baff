SPECIFICATION Spec
CONSTANTS
  Keys = {"p", "k"}
  NoKey = "nokey"
  ParentOf <- Kids
  Vals = {"a", "b"}
  Matching = {"a"}
  Writers = {w1}
  TxnWrites <- OneTxn
  MaxSeq = 3
  HistCap = 1
  BufCap = 1
  PipeCap = 2
  Modes <- Regular
INVARIANTS
  NothingMissed
  UpsertsDelivered
  FilterExact
  
PROPERTIES
  CatchesUp
CHECK_DEADLOCK FALSE
