CONSTANTS
  QUEUE_DEPTH = 2
  LINE = 4
  PCS = 12
  MaxInflight = 3
  MaxRedirects = 3
SPECIFICATION QueueFairSpec
INVARIANTS
  ResponsesOwed
PROPERTIES
  ImplementsStream
  NeverStarves
