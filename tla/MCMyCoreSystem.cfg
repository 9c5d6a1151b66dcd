SPECIFICATION TopFairSpec
CONSTANTS
  LINE_BEATS = 2
  COUNT = 3
  Datum = {0, 1, 2}
  RAM_LINES = 1
  Lines <- MCLines
  RamWindow <- MCRamWindow
  MmioWindow <- MCMmioWindow
  WriteData <- MCWriteData
  Slips <- MCSlips
INVARIANTS PathsAgree FirstFaultKept
PROPERTIES ErrorsDeserved ImplementsLineMemory EveryLineAnswered
