--------------------------- MODULE ReminderDelivery ---------------------------
(***************************************************************************)
(* What the outbox promises about a reminder, without claims, leases,      *)
(* processes or time: it is taken up at most once, it ends delivered or    *)
(* dropped, only an open reminder is receipted, and only once.  A reminder *)
(* whose subscription is deleted is gone for good, its receipts with it.   *)
(***************************************************************************)
EXTENDS Naturals

CONSTANTS
  Reminders,  \* the reminders the program can be asked for
  Receipted   \* those with a receipt from before

VARIABLES
  state,      \* [Reminders -> State]
  receipts    \* [Reminders -> Nat]: entries in the user's log of sent reminders

vars == <<state, receipts>>

State == {"absent", "open", "delivered", "dropped", "gone"}

Init ==
  /\ state = [r \in Reminders |-> "absent"]
  /\ receipts = [r \in Reminders |-> IF r \in Receipted THEN 1 ELSE 0]

TakeUp(r) ==
  /\ state[r] = "absent" /\ receipts[r] = 0
  /\ state' = [state EXCEPT ![r] = "open"]
  /\ UNCHANGED receipts

Deliver(r) ==
  /\ state[r] = "open" /\ receipts[r] = 0
  /\ state' = [state EXCEPT ![r] = "delivered"]
  /\ receipts' = [receipts EXCEPT ![r] = 1]

Drop(S) ==
  /\ \A r \in S : state[r] = "open"
  /\ state' = [r \in Reminders |-> IF r \in S THEN "dropped" ELSE state[r]]
  /\ UNCHANGED receipts

Vanish(S) ==
  /\ state' = [r \in Reminders |-> IF r \in S THEN "gone" ELSE state[r]]
  /\ receipts' = [r \in Reminders |-> IF r \in S THEN 0 ELSE receipts[r]]

Next ==
  \/ \E r \in Reminders : TakeUp(r) \/ Deliver(r)
  \/ \E S \in SUBSET Reminders : Drop(S) \/ Vanish(S)

Spec == Init /\ [][Next]_vars
==============================================================================
