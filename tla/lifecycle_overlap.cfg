\* A sweep and two requests interleave on one row.
SPECIFICATION FairSpec
CONSTANTS
  w1 = w1
  w2 = w2
  q1 = q1
  q2 = q2
  s1 = s1
  s2 = s2
  NoDate = NoDate
  Keep = Keep
  Subs = {s1}
  Sweepers = {w1}
  Requests = {q1, q2}
  Schedules <- OneSchedule
  Dates <- MCDates
  Days <- TwoDays
  EntryDates <- MidJanuary
  FirstDue <- MCFirstDue
  DueAfter <- MCDueAfter
  Edits <- SomeEdits
  MaxRequests = 2
  MaxFailures = 1
INVARIANTS
  EndDateFits
PROPERTIES
  CatchesUp
