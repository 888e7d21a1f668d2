---------------------- MODULE MCSubscriptionLifecycle ----------------------
(* Small instances of SubscriptionLifecycle on the calendar of 2028. *)
EXTENDS SubscriptionLifecycle, TLC

CONSTANTS w1, w2, q1, q2, s1, s2

Calendar == INSTANCE BillingCalendar

\* A number for each date, in calendar order.
On(y, m, d) == (y - 2028) * 372 + (m - 1) * 31 + (d - 1)
CodeOf(c) == On(c.year, c.month, c.day)
DateOf(n) == [year |-> 2028 + n \div 372, month |-> ((n % 372) \div 31) + 1, day |-> (n % 31) + 1]

MCDates == {n \in 0..On(2029, 6, 30) : DateOf(n).day <= Calendar!DaysInMonth(DateOf(n).year, DateOf(n).month)}
MCFirstDue(s, a, d) == CodeOf(Calendar!RolledTo(s, DateOf(a), DateOf(d)))
MCDueAfter(s, d) == CodeOf(Calendar!NextAfter(s, DateOf(d)))

Monthly == [type |-> "month", count |-> 1]
Fortnightly == [type |-> "week", count |-> 2]
OneSchedule == {Monthly}
TwoSchedules == {Monthly, Fortnightly}

FourDays == {On(2028, 1, 10), On(2028, 1, 31), On(2028, 2, 29), On(2028, 3, 20)}
TwoDays == {On(2028, 1, 30), On(2028, 2, 29)}
AnyEntry == {On(2028, 1, 15), On(2028, 1, 28), On(2028, 2, 28)}
MidJanuary == {On(2028, 1, 15)}

\* Days that every month has, if the schedule is monthly.
Regular == {x \in Schedules \X Dates : x[1] = Monthly => DateOf(x[2]).day <= 28}
ASSUME RollsCompose(Regular)

Edit(status, mode, next) == [status |-> status, mode |-> mode, endsAt |-> Keep, next |-> next, schedule |-> Keep]
Rename == Edit(Keep, Keep, Keep)
End == Edit("ended", Keep, Keep)
Reopen == Edit("active", Keep, Keep)
ToCancel == Edit(Keep, "cancel_at_period_end", Keep)
ToAuto == Edit(Keep, "auto_renew", Keep)
ToManual == Edit(Keep, "manual_renew", Keep)
Move == Edit(Keep, Keep, On(2028, 1, 15))
MoveOn == Edit(Keep, Keep, On(2028, 2, 28))
EndThen == [End EXCEPT !.endsAt = On(2028, 1, 15)]
ForgetEnd == [Rename EXCEPT !.endsAt = NoDate]
Reschedule == [Rename EXCEPT !.schedule = Fortnightly]

AllEdits == {Rename, End, Reopen, ToCancel, ToAuto, ToManual, Move, MoveOn, EndThen, ForgetEnd,
             Reschedule}
SomeEdits == {Rename, End, Reopen, ToCancel, Move}
=============================================================================
