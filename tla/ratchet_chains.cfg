SPECIFICATION Spec
CONSTANTS
  Alice = Alice
  Bob = Bob
  MaxSend = 5
  StoreList = 2
  MaxSkip = 3
INVARIANTS TypeOK KeysServeOnce InStep
CHECK_DEADLOCK FALSE
