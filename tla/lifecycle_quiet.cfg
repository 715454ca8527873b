SPECIFICATION QuietSpec
CONSTANTS
  Run = {r1, r2}
  Msg = {m1, m2}
  NoMsg = NoMsg
  MaxBusy = 2
  FreshIds = TRUE
  MayDelete = TRUE
INVARIANTS TypeOK RecordsFitState
PROPERTIES LegalLife KeysOutliveQueue
