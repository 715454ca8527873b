SPECIFICATION CalmSpec
CONSTANTS
  c1 = c1
  c2 = c2
  r1 = r1
  r2 = r2
  q1 = q1
  q2 = q2
  m1 = m1
  m2 = m2
  Cmd = {c1, c2}
  Rcv = {r1, r2}
  Push = {m1, m2}
  Queue = {q1, q2}
  Caller <- MCCaller
  QueueOf <- MCQueueOf
  PushOf <- MCPushOf
  Connect = Connect
  MaxFrames = 5
  MaxBatches = 5
  MaxPending = 4
  MaxBlock = 2
  MaxActive = 1
  Impatient = FALSE
INVARIANT OwnAnswers
PROPERTY AllServed
CHECK_DEADLOCK FALSE
