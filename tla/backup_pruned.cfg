\* A scheduled backup while an administrator makes one, keeping one.
SPECIFICATION Spec
CONSTANTS
  w1 = w1
  w2 = w2
  m1 = m1
  Workers = {w1}
  Admins = {m1}
  TTL = 2
  MaxRun = 1
  MaxTime = 3
  DayLength = 2
  Settings <- KeepOne
  MaxRequests = 1
  MaxFailures = 0
  MaxStops = 0
INVARIANTS
  MostRecentKept
