CONSTANTS
  ROB_DEPTH = 4
  MaxSeq = 6
  Word = {0, 1}
  Addr = {0}
  Uop <- MCUop
  NopUop <- MCNop
SPECIFICATION RobSpec
INVARIANTS
  RobTypeOK
  ProgramOrder
PROPERTIES
  InOrderRetirement
  CompletionKept
