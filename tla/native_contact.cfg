SPECIFICATION Spec
CONSTANTS
  c1 = c1
  c2 = c2
  Call = {c1, c2}
  MaxRequests = 1
  MaxSend = 1
  MaxPeer = 2
  MaxFaults = 1
  MaxKeys = 5
  FaultSteps <- Everywhere
  Redelivers = FALSE
SYMMETRY CallSymmetry
INVARIANTS TypeOK KeysSealOnce HeadReadable InOrder ReceiptsOwed
CHECK_DEADLOCK FALSE
