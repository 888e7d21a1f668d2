\* Two sweeps overlap, and a client edits, renews and deletes between them, over midnights.
SPECIFICATION ApartSpec
CONSTANTS
  w1 = w1
  w2 = w2
  q1 = q1
  q2 = q2
  s1 = s1
  s2 = s2
  NoDate = NoDate
  Keep = Keep
  Subs = {s1}
  Sweepers = {w1, w2}
  Requests = {q1}
  Schedules <- TwoSchedules
  Dates <- MCDates
  Days <- FourDays
  EntryDates <- AnyEntry
  FirstDue <- MCFirstDue
  DueAfter <- MCDueAfter
  Edits <- AllEdits
  MaxRequests = 3
  MaxFailures = 1
INVARIANTS
  SameWhetherSwept
PROPERTIES
  EndedStaysEnded
CHECK_DEADLOCK FALSE
