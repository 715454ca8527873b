SPECIFICATION Spec
CONSTANTS
  Alice = Alice
  Bob = Bob
  MaxSend = 3
  StoreList = 3
  MaxSkip = 3
INVARIANT SkippedReadable
CHECK_DEADLOCK FALSE
