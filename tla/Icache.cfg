CONSTANTS
  WAYS = 2
  SETS = 1
  TAGS = 3
  MaxVersion = 2
SPECIFICATION IcacheFairSpec
INVARIANTS
  CachedAfterFlush
PROPERTIES
  FreshAfterFlush
  ReadyAgain
