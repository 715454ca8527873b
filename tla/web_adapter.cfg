SPECIFICATION Spec
CONSTANTS
  c1 = c1
  c2 = c2
  m1 = m1
  m2 = m2
  t1 = t1
  t2 = t2
  Call = {c1, c2}
  Ref = {m1, m2}
  MaxCalls = 3
  MaxFaults = 1
  Text = {t1, t2}
  Limit = 2
  Native = TRUE
SYMMETRY CallSymmetry
INVARIANTS TypeOK ReceiptsTruthful HistoryFaithful
CHECK_DEADLOCK FALSE
