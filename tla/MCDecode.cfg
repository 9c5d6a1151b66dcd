SPECIFICATION MCSpec
CONSTANTS
  XLEN = 8
  SHAMT = 3
  REGS = 4
  NOP = 2
  Unreadable = Unreadable
  Instructions <- MCTests
  Operands <- MCOperands
  Pcs <- MCPcs
  Formats = {"I", "S", "B", "U", "J"}
  MaxOnes = 4
INVARIANTS RetireAgrees RejectedInert ArithmeticLaws ImmediatesAgree AssembledBack
CHECK_DEADLOCK FALSE
