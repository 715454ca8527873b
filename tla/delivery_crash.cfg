SPECIFICATION Spec
CONSTANTS
  MaxSend = 2
  MaxCalls = 3
  MaxFaults = 2
  MaxSkip = 2
  StoreList = 2
  Drain = {d1, d2}
  Reader = {r1, r2}
  TaskId = {0, 1, 2}
  TaskOf <- OwnTask
  MayCrash = TRUE
  Direct = Direct
  d1 = d1
  d2 = d2
  r1 = r1
  r2 = r2
INVARIANTS AtMostOnce AckedWasSeen
PROPERTY ChannelSpec
SYMMETRY CallSymmetry
CHECK_DEADLOCK FALSE
