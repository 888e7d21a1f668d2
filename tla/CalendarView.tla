----------------------------- MODULE CalendarView -----------------------------
(***************************************************************************)
(* What the web client makes of the schedule of a subscription: the days   *)
(* that the calendar page marks in a month (calendar-page.tsx), and the    *)
(* cycle of the progress bar on a card (subscription-cycle-progress-bar).  *)
(* The client computes with JavaScript dates, not with the server's rules. *)
(***************************************************************************)
EXTENDS RenewalSchedule

Month(c) == [year |-> c.year, month |-> c.month]

Day(m, d) == [year |-> m.year, month |-> m.month, day |-> d]

PreviousMonth(m) ==
  IF m.month > 1 THEN [m EXCEPT !.month = @ - 1] ELSE [year |-> m.year - 1, month |-> 12]

Lasts(m) == DaysInMonth(m.year, m.month)

\* The last day of the month before that of a date.
MonthBefore(c) ==
  LET m == PreviousMonth(Month(c))
  IN  Day(m, Lasts(m))

\* Back by days (Date.setDate, shiftUTCDate), month by month.
DaysBefore[p \in Date \X Nat] ==
  LET c == p[1]
      n == p[2]
  IN  IF n < c.day THEN [c EXCEPT !.day = @ - n] ELSE DaysBefore[<<MonthBefore(c), n - c.day>>]

BackDays(c, n) == DaysBefore[<<c, n>>]

\* Date.setMonth and setFullYear: a day past the end of the month runs over.
SetMonth(c, months) ==
  LET index == c.month - 1 + months
  IN  AddDays([year |-> c.year + (index \div 12), month |-> (index % 12) + 1, day |-> 1], c.day - 1)

\* addInterval, forward and back.
AddInterval(s, c) ==
  CASE s.type = "day"   -> AddDays(c, s.count)
    [] s.type = "week"  -> AddDays(c, 7 * s.count)
    [] s.type = "month" -> SetMonth(c, s.count)
    [] s.type = "year"  -> SetMonth(c, 12 * s.count)

Rewind(s, c) ==
  CASE s.type = "day"   -> BackDays(c, s.count)
    [] s.type = "week"  -> BackDays(c, 7 * s.count)
    [] s.type = "month" -> SetMonth(c, -s.count)
    [] s.type = "year"  -> SetMonth(c, -12 * s.count)

\* The interval loops of getBillingDatesInMonth: back to the month, then through it.
Bug_CursorDays(s, from, m) ==
  LET first == Day(m, 1)
      last == Day(m, Lasts(m))
      days[c \in Date] ==
        IF ~Before(c, last) THEN {}
        ELSE (IF Before(c, first) THEN {} ELSE {c.day}) \cup days[AddInterval(s, c)]
  IN  days[from]

CursorDays(s, from, m) ==
  LET first == Day(m, 1)
      last == Day(m, Lasts(m))
      back[c \in Date] == IF Before(last, c) THEN back[Rewind(s, c)] ELSE c
      days[c \in Date] ==
        IF Before(last, c) THEN {}
        ELSE (IF Before(c, first) THEN {} ELSE {c.day}) \cup days[AddInterval(s, c)]
  IN  days[back[from]]

\* getBillingDatesInMonth of an active subscription whose response shows date.
BillingDays(date, m) ==
  IF mode # "auto_renew" THEN IF Month(date) = m THEN {date.day} ELSE {}
  ELSE CASE schedule.type = "monthly_date" -> {IF schedule.day > Lasts(m) THEN Lasts(m) ELSE schedule.day}
         [] schedule.type = "yearly_date"  ->
              IF schedule.month # m.month THEN {}
              ELSE {IF schedule.day > Lasts(m) THEN Lasts(m) ELSE schedule.day}
         [] OTHER                          -> CursorDays(schedule, date, m)

\* getPreviousCycleDate: shiftUTCDate keeps within the month, and with the day of
\* the date that it shifts.
PreviousCycle(s, date) ==
  CASE s.type = "day"                          -> BackDays(date, s.count)
    [] s.type = "week"                         -> BackDays(date, 7 * s.count)
    [] s.type \in {"month", "monthly_date"}    ->
         AddMonthsPreservePreferredDay(date, IF s.type = "month" THEN -s.count ELSE -1, date.day)
    [] s.type \in {"year", "yearly_date"}      ->
         BuildDate(date.year - (IF s.type = "year" THEN s.count ELSE 1), date.month, date.day)

-----------------------------------------------------------------------------
\* The months that are looked at: the one of the date shown and those around it.
Viewed(date) ==
  {Month(date), PreviousMonth(Month(date)), Month(NextMonth(date)), Month(NextMonth(NextMonth(date)))}

\* Every month has the day, for the schedules that count months or years.
CommonDay(date) == schedule.type \in {"month", "year"} => date.day <= 28

\* From the date shown on, the calendar marks the days that the server's schedule
\* charges on, and no others, over month ends, leap days and year ends; for intervals
\* of months and years only where every month has the day, since JavaScript lets a
\* 31st run over into the next month, and that day is kept from there on.
CalendarMarksCharges ==
  LET date == Presented(next)
  IN  mode = "auto_renew" /\ CommonDay(date) =>
        \A m \in Viewed(date) :
          {d \in BillingDays(date, m) : ~Before(Day(m, d), date)}
            = {c.day : c \in {x \in ChargeDates(schedule, date, Day(m, Lasts(m))) : Month(x) = m /\ ~Before(x, date)}}

\* The progress bar runs from the charge before the next one to that one: it is
\* never empty, and on days that every month has no other charge lies between.
CycleIsOnePeriod ==
  LET date == Presented(next)
      previous == PreviousCycle(schedule, date)
      dated == schedule.type \in {"monthly_date", "yearly_date"}
  IN  /\ Before(previous, date)
      /\ date.day <= 28 /\ (dated => date \in ChargeDates(schedule, date, date) /\ date.day = schedule.day)
           => NextAfter(schedule, previous) = date

\* The client computes dates of its own, for the calendar and for the progress bar, in
\* another way than the server: on days that every month has they are the same dates.
ClientDatesAgree ==
    CalendarMarksCharges /\ CycleIsOnePeriod
=============================================================================
