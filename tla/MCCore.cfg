CONSTANTS
  WORDS = 8
  ROB_DEPTH = 4
  RS_DEPTH = 4
  LSQ_DEPTH = 3
  FIXED_LATENCY = 2
  MaxSeq = 6
  ARCH_REGS = 3
  PHYS_REG_COUNT = 7
  Word <- Data
  Value <- Data
  Addr <- Data
  Decoded <- MCDecoded
  Programs <- AllPrograms
  Uop <- MCUop
  NopUop <- MCNop
SPECIFICATION CoreSpec
INVARIANTS
  BusHonest
  OperandsSound
  EntriesOwned
  NoSpeculativeAccess
PROPERTIES
  ImplementsIsa
