SPECIFICATION FairSpec
CONSTANTS
  MaxSend = 3
  MaxCalls = 4
  MaxFaults = 1
  MaxSkip = 3
  StoreList = 3
  Drain = {d1}
  Reader = {r1}
  TaskId = {0, 1, 2}
  TaskOf <- OwnTask
  MayCrash = FALSE
  Direct = Direct
  d1 = d1
  d2 = d2
  r1 = r1
  r2 = r2
INVARIANTS TypeOK PacketsKept
 
CHECK_DEADLOCK FALSE
