------------------------- MODULE MCRenewalSchedule -------------------------
(* Small instances of RenewalSchedule for TLC. *)
EXTENDS CalendarView

On(y, m, d) == [year |-> y, month |-> m, day |-> d]
Every(n, unit) == [type |-> unit, count |-> n]
Monthly(d) == [type |-> "monthly_date", day |-> d]
Yearly(m, d) == [type |-> "yearly_date", month |-> m, day |-> d]

DaySchedules == {Every(30, "day"), Every(4, "week")}
MonthSchedules == {Every(1, "month"), Every(2, "month"), Every(5, "month"), Every(1, "year"),
                   Monthly(1), Monthly(30), Monthly(31), Yearly(2, 29), Yearly(12, 31)}
AllSchedules == DaySchedules \cup MonthSchedules

\* From the end of 2027 into 2029, through the leap day of 2028.
YearEnd == On(2027, 12, 30)
MonthEnds == {On(2027, 12, 31), On(2028, 1, 30), On(2028, 1, 31), On(2028, 2, 29), On(2028, 3, 15)}
=============================================================================
