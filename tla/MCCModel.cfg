SPECIFICATION Spec
CONSTANTS
  XLEN = 8
  REGS = 3
  Unreadable = Unreadable
  NoFile = NoFile
  CommandLines <- MCCommandLines
  NOP <- MCNop
  Fields <- MCFields
  Files <- MCFiles
  Addrs <- MCAddrs
  Values <- MCValues
  MaxCalls = 2
  MaxSteps = 3
INVARIANTS TraceComplete
PROPERTIES TraceHonest
CHECK_DEADLOCK FALSE
