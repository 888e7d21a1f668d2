\* Two workers on one database, an administrator, a failure and a stop.
SPECIFICATION FairSpec
CONSTANTS
  w1 = w1
  w2 = w2
  m1 = m1
  Workers = {w1, w2}
  Admins = {m1}
  TTL = 2
  MaxRun = 1
  MaxTime = 4
  DayLength = 3
  Settings <- Changing
  MaxRequests = 1
  MaxFailures = 1
  MaxStops = 1
INVARIANTS
  RetentionKeeps
PROPERTIES
  KeepsLease
  EachDayOnce
