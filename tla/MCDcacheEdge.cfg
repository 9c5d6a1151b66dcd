CONSTANTS
  WAYS = 2
  SETS = 1
  TAGS = 3
  LINE_BYTES = 2
  ACCESS = 2
  RAM_LINES = 2
  FLAKY = FALSE
  StoreData <- MCStoreData
  MaxStores = 2
SPECIFICATION DcacheFairSpec
PROPERTIES
  ExistingBytesReadable
