\* Day, week, month, year and dated schedules over month ends and a leap year.
SPECIFICATION Spec
CONSTANTS
  Schedules <- AllSchedules
  FirstDay <- YearEnd
  Anchors <- MonthEnds
  Pauses = {1, 30, 335}
  MaxDays = 500
CHECK_DEADLOCK FALSE
INVARIANTS
  ShownIsFirstDue
  MonthEndsBounded
  ClientDatesAgree
PROPERTIES
  RenewsOnePeriod
