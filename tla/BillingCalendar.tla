--------------------------- MODULE BillingCalendar ---------------------------
(***************************************************************************)
(* Billing dates of subdux (internal/service/subscription_rollover.go):    *)
(* calendar dates, the occurrences of a recurring schedule and the first   *)
(* occurrence on or after a day.  Dates are civil dates at UTC midnight    *)
(* (normalizeDateUTC), so they are compared year, month, day.              *)
(***************************************************************************)
EXTENDS Integers

Leap(year) == year % 4 = 0 /\ (year % 100 # 0 \/ year % 400 = 0)

DaysInMonth(year, month) ==
  IF month = 2 THEN IF Leap(year) THEN 29 ELSE 28
  ELSE IF month \in {4, 6, 9, 11} THEN 30 ELSE 31

Date == {c \in [year : Int, month : 1..12, day : 1..31] :
           c.day <= DaysInMonth(c.year, c.month)}

Before(a, b) ==
  \/ a.year < b.year
  \/ a.year = b.year /\ a.month < b.month
  \/ a.year = b.year /\ a.month = b.month /\ a.day < b.day

ClampDay(year, month, day) ==
  IF day < 1 THEN 1
  ELSE IF day > DaysInMonth(year, month) THEN DaysInMonth(year, month) ELSE day

NextMonth(c) ==
  IF c.month < 12 THEN [year |-> c.year, month |-> c.month + 1, day |-> 1]
  ELSE [year |-> c.year + 1, month |-> 1, day |-> 1]

BuildDate(year, month, day) ==
  [year |-> year, month |-> month, day |-> ClampDay(year, month, day)]

\* The days of its month that come after a date.
DaysLeft(c) == DaysInMonth(c.year, c.month) - c.day

\* time.AddDate(0, 0, n), month by month.
DaysAfter[p \in Date \X Nat] ==
  LET c == p[1]
      n == p[2]
  IN  IF n <= DaysLeft(c) THEN [c EXCEPT !.day = @ + n]
      ELSE DaysAfter[<<NextMonth(c), n - DaysLeft(c) - 1>>]

AddDays(c, n) == DaysAfter[<<c, n>>]

AddMonthsPreservePreferredDay(c, months, preferredDay) ==
  LET index == c.month - 1 + months
  IN  BuildDate(c.year + (index \div 12), (index % 12) + 1, preferredDay)

AddYearsPreservePreferredDate(c, years, month, day) == BuildDate(c.year + years, month, day)

\* A schedule that passes isRecurringScheduleValid; "count" belongs to the
\* interval types, "month" and "day" to the dated ones.
IntervalUnit == {"day", "week", "month", "year"}
Schedule == [type : IntervalUnit, count : Nat \ {0}]
            \cup [type : {"monthly_date"}, day : 1..31]
            \cup [type : {"yearly_date"}, month : 1..12, day : 1..31]

\* One turn of the loop of nextIntervalOccurrence: the day kept is the anchor's.
StepOf(s, anchor, c) ==
  CASE s.type = "day"   -> AddDays(c, s.count)
    [] s.type = "week"  -> AddDays(c, 7 * s.count)
    [] s.type = "month" -> AddMonthsPreservePreferredDay(c, s.count, anchor.day)
    [] s.type = "year"  -> AddYearsPreservePreferredDate(c, s.count, anchor.month, anchor.day)

\* Bug: a date that falls on the day itself is passed over.
Bug_SkipsTheDay(s, anchor, from) ==
  LET reach[c \in Date] == IF Before(from, c) THEN c ELSE reach[StepOf(s, anchor, c)]
  IN  reach[anchor]

\* nextIntervalOccurrence: the loop "for current.Before(from)".
NextIntervalOccurrence(s, anchor, from) ==
  LET reach[c \in Date] == IF Before(c, from) THEN reach[StepOf(s, anchor, c)] ELSE c
  IN  reach[anchor]

NextMonthlyDayOccurrence(from, day) ==
  LET candidate == BuildDate(from.year, from.month, day)
  IN  IF Before(candidate, from)
      THEN AddMonthsPreservePreferredDay(candidate, 1, day) ELSE candidate

NextYearlyDateOccurrence(from, month, day) ==
  LET candidate == BuildDate(from.year, month, day)
  IN  IF Before(candidate, from) THEN BuildDate(from.year + 1, month, day) ELSE candidate

\* nextRecurringOccurrenceOnOrAfter
NextOnOrAfter(s, anchor, from) ==
  CASE s.type \in IntervalUnit   -> NextIntervalOccurrence(s, anchor, from)
    [] s.type = "monthly_date"   -> NextMonthlyDayOccurrence(from, s.day)
    [] s.type = "yearly_date"    -> NextYearlyDateOccurrence(from, s.month, s.day)

\* Bug: the search starts a day late.
Bug_NextAfter(s, current) == NextOnOrAfter(s, current, AddDays(current, 2))

\* nextRecurringOccurrenceAfter
NextAfter(s, current) == NextOnOrAfter(s, current, AddDays(current, 1))

\* Bug: the periods are counted from the day of the sweep.
Bug_RolledFromToday(s, next, today) ==
  IF Before(next, today) THEN NextOnOrAfter(s, NextAfter(s, today), today) ELSE next

\* nextRecurringBillingDateOnOrAfter: the date an overdue subscription rolls to;
\* a date that is not overdue stays.
RolledTo(s, next, today) ==
  IF Before(next, today) /\ Before(next, NextOnOrAfter(s, next, today))
  THEN NextOnOrAfter(s, next, today) ELSE next
=============================================================================
