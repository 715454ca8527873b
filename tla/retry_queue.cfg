SPECIFICATION FairSpec
CONSTANTS
  t1 = t1
  t2 = t2
  t3 = t3
  alice = alice
  bob = bob
  Id = {t1, t2, t3}
  Contact = {alice, bob}
  ContactOf <- MCContactOf
  Drain = {d1, d2}
  Limit = 1
  MaxDelay = 2
  MaxAttempts = 1
  AttemptCap = 2
  MaxList = 2
  RecordItems = 3
  Resend = TRUE
  MaxSends = 3
  MaxCrashes = 1
  HostPrunes = TRUE
INVARIANTS TypeOK UniqueIds
PROPERTIES RecordKept TasksTried
CHECK_DEADLOCK FALSE
