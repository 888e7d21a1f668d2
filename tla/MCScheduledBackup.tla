------------------------- MODULE MCScheduledBackup -------------------------
(* Small instances of ScheduledBackup.                                     *)
EXTENDS ScheduledBackup, TLC

CONSTANTS w1, w2, m1

\* The backup is made in the last unit of the day, or at once.
Daily(at, keep) == [enabled |-> TRUE, at |-> at, keep |-> keep]
KeepOne == {Daily(1, 1)}
Changing == {Daily(1, 2), [enabled |-> FALSE, at |-> 0, keep |-> 1]}
=============================================================================
