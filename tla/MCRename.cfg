CONSTANTS
  ROB_DEPTH = 3
  MaxSeq = 5
  ARCH_REGS = 3
  PHYS_REG_COUNT = 5
  Word = {0, 1}
  Value = {0, 1}
  Addr = {0}
  Decoded <- MCDecoded
  Uop <- MCUop
  NopUop <- MCNop
SPECIFICATION RenameSpec
INVARIANTS
  FreeListPartition
  RenameChain
  ResultsAgree
PROPERTIES
  PreciseRegisters
