\* Month ends: the lifecycle of a subscription the sweeps did or did not reach.
SPECIFICATION Spec
CONSTANTS
  Schedules <- MonthSchedules
  FirstDay <- YearEnd
  Anchors <- MonthEnds
  Pauses = {1, 30, 335}
  MaxDays = 500
INVARIANTS
  SameWhetherSwept
CHECK_DEADLOCK FALSE
