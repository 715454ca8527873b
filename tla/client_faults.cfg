SPECIFICATION ClientSpec
CONSTANTS
  c1 = c1
  c2 = c2
  r1 = r1
  r2 = r2
  q1 = q1
  q2 = q2
  m1 = m1
  m2 = m2
  Cmd = {c1, c2}
  Rcv = {r1}
  Push = {m1, m2}
  Queue = {q1, q2}
  Caller <- MCCaller
  QueueOf <- MCQueueOf
  PushOf <- MCPushOf
  Connect = Connect
  MaxFrames = 4
  MaxBatches = 2
  MaxPending = 2
  MaxBlock = 2
  MaxActive = 3
  Impatient = TRUE
SYMMETRY CmdSymmetry
INVARIANTS TypeOK OnePlace NobodyLeftWaiting FramesAccounted
CHECK_DEADLOCK FALSE
