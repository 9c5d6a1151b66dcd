CONSTANTS
  LSQ_DEPTH = 3
  WINDOW = 4
  MaxSeq = 8
SPECIFICATION UnitSpec
INVARIANTS
  ResponsePaired
  NoStaleResult
  MemoryInProgramOrder
  StoreAtHead
