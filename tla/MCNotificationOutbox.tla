------------------------ MODULE MCNotificationOutbox ------------------------
(* Small instances of NotificationOutbox for TLC. *)
EXTENDS NotificationOutbox, TLC

CONSTANTS r1, r2, s1, c1, p1, p2, scanLoop, dispatchLoop, other

MCSubscriptionOf == [r \in Reminders |-> s1]
MCChannelsOf == [r \in Reminders |-> Channels]
MCDateExpiry == [r \in Reminders |-> 4]
MCDateExpirySoon == [r \in Reminders |-> 2]
MCBackoffSteps == <<1, 2>>

\* One process with its two loops, the second process with its dispatch loop.
MCInstanceOf == [d \in Dispatchers |-> IF d = other THEN p2 ELSE p1]
=============================================================================
