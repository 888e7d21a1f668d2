--------------------------- MODULE RenewalSchedule ---------------------------
(***************************************************************************)
(* The next billing date of one subscription over the days.  If it renews  *)
(* by itself, the date kept in the database is rolled whenever a sweep     *)
(* gets to run, and every read rolls it in memory to the day of the read   *)
(* (advanceSubscriptionLifecycle); if it is renewed by hand, each          *)
(* MarkManualRenewed moves the date by one period.                         *)
(***************************************************************************)
EXTENDS BillingCalendar

CONSTANTS
  Schedules, \* schedules to try
  FirstDay,  \* the day the subscription is created
  Anchors,   \* next billing dates the user may enter that day
  Pauses,    \* numbers of days that may pass before something runs again
  MaxDays    \* bound on the days the run covers

ASSUME CalendarAssumption ==
  /\ Schedules \subseteq Schedule /\ Anchors \subseteq Date /\ FirstDay \in Date
  /\ Pauses \subseteq Nat \ {0} /\ MaxDays \in Nat

VARIABLES
  schedule, \* the subscription's schedule
  mode,     \* its renewal mode
  entered,  \* history: the next billing date the user entered
  next,     \* subscriptions.next_billing_date
  today,    \* the system date
  elapsed   \* days since FirstDay

subscription == <<schedule, mode>>
vars == <<subscription, entered, next, today, elapsed>>

Init ==
  /\ schedule \in Schedules
  /\ mode \in {"auto_renew", "manual_renew"}
  /\ entered \in Anchors
  /\ next = entered
  /\ today = FirstDay
  /\ elapsed = 0

DaysPass ==
  \E n \in Pauses :
    /\ elapsed + n <= MaxDays
    /\ elapsed' = elapsed + n
    /\ today' = AddDays(today, n)
    /\ UNCHANGED <<subscription, entered, next>>

\* The sweep, a scan or the reconcile before a write persists what is due.
Sweep ==
  /\ mode = "auto_renew"
  /\ next' = RolledTo(schedule, next, today)
  /\ next' # next
  /\ UNCHANGED <<subscription, entered, today, elapsed>>

\* MarkManualRenewed: an overdue subscription has ended and is refused.  The
\* bound keeps the dates renewed ahead within the years the run covers.
MarkRenewed ==
  /\ mode = "manual_renew"
  /\ ~Before(next, today)
  /\ next.year <= FirstDay.year + MaxDays \div 365
  /\ next' = NextAfter(schedule, next)
  /\ UNCHANGED <<subscription, entered, today, elapsed>>

Next == DaysPass \/ Sweep \/ MarkRenewed

Spec == Init /\ [][Next]_vars
-----------------------------------------------------------------------------
TypeOK ==
  /\ schedule \in Schedules
  /\ mode \in {"auto_renew", "manual_renew"}
  /\ {entered, next, today} \subseteq Date
  /\ elapsed \in 0..MaxDays

\* What a read shows: presentSubscriptionForResponse.
Presented(date) == IF mode = "auto_renew" THEN RolledTo(schedule, date, today) ELSE date

\* The k-th date of an interval schedule counted from a date, without a loop.
Occurrence(s, anchor, k) ==
  LET n == k * s.count
      months == anchor.month - 1 + n
  IN CASE s.type = "day"   -> AddDays(anchor, n)
       [] s.type = "week"  -> AddDays(anchor, 7 * n)
       [] s.type = "month" -> BuildDate(anchor.year + (months \div 12), (months % 12) + 1, anchor.day)
       [] s.type = "year"  -> BuildDate(anchor.year + n, anchor.month, anchor.day)

\* Numbers of months and of days that keep the order of dates: n days later the day
\* number is at least n greater.
MonthNumber(c) == 12 * c.year + c.month
DayNumber(c) == 31 * MonthNumber(c) + c.day

\* Enough periods of an interval schedule to lead from a date past another one.
Periods(s, from, until) ==
  CASE s.type = "day"   -> 1 + (DayNumber(until) - DayNumber(from)) \div s.count
    [] s.type = "week"  -> 1 + (DayNumber(until) - DayNumber(from)) \div (7 * s.count)
    [] s.type = "month" -> 1 + (MonthNumber(until) - MonthNumber(from)) \div s.count
    [] s.type = "year"  -> 1 + (until.year - from.year) \div s.count

\* The dates a schedule charges on, counted from a date, until one past another.
ChargeDates(s, from, until) ==
  LET years == from.year .. until.year + 1
  IN  CASE s.type \in IntervalUnit -> {Occurrence(s, from, k) : k \in 0..Periods(s, from, until)}
        [] s.type = "monthly_date" -> {BuildDate(y, m, s.day) : y \in years, m \in 1..12}
        [] s.type = "yearly_date"  -> {BuildDate(y, s.month, s.day) : y \in years}

\* The billing date shown for an overdue subscription is one of the dates of its
\* schedule, is not in the past, and no earlier date of the schedule that is
\* still ahead is left out (nextIntervalOccurrence, nextMonthlyDayOccurrence,
\* nextYearlyDateOccurrence over month ends, leap days and missed periods).
ShownIsFirstDue ==
  mode = "auto_renew" /\ Before(next, today) =>
    /\ Presented(next) \in ChargeDates(schedule, next, today)
    /\ ~Before(Presented(next), today)
    /\ \A c \in ChargeDates(schedule, next, today) : Before(c, today) \/ ~Before(c, Presented(next))

\* A subscription that renews by itself looks the same whether or not the sweeps
\* kept up with it: the persisted date rolled to today is the date rolled from
\* what the user entered (the comment on advanceSubscriptionLifecycle).
SameWhetherSwept == mode = "auto_renew" => Presented(next) = Presented(entered)

\* The same where every month has the day: only intervals of months and years
\* that start after the 28th depend on when the sweeps ran.
SameOnCommonDays ==
  (schedule.type \in {"month", "year"} => entered.day <= 28) => SameWhetherSwept

\* What a sweep or a renewal at a short month costs is bounded, however many
\* follow: the persisted date stays in a month the schedule charges in, on the
\* day entered or, once that was cut off, between the 28th and that day.
MonthKept ==
  schedule.type \in {"month", "year"} =>
    \E c \in ChargeDates(schedule, entered, next) :
      /\ c.year = next.year /\ c.month = next.month
      /\ next.day = c.day \/ next.day \in 28 .. c.day

\* A renewal by hand moves the date by one period: no charge of the schedule
\* lies between the old date and the new one (MarkManualRenewed).
RenewsOnePeriod ==
  [][mode = "manual_renew" /\ next' # next =>
       /\ Before(next, next')
       /\ next' \in ChargeDates(schedule, next, next')
       /\ \A c \in ChargeDates(schedule, next, next') : ~Before(next, c) \/ ~Before(c, next')]_vars

\* What short months do to a date is bounded: a day that every month has never depends on
\* when the sweeps ran, and a later one loses days but never its month.
MonthEndsBounded ==
    SameOnCommonDays /\ MonthKept
=============================================================================
