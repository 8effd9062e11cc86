----------------------------- MODULE ReminderData -----------------------------
(* The vocabulary of reminders shared by the queue, the bucket and the       *)
(* scheduler: data.Reminder of data/payloads.go.                             *)
EXTENDS Naturals

CONSTANTS Keys,     \* the reminder keys "reminder_<ticket>_<user>"
          MaxTime   \* the clock is bounded: times are 0 .. MaxTime

ASSUME MaxTimeAssumption == MaxTime \in Nat

Times == 0 .. MaxTime

(* "none" stands for a key the bucket does not hold.                         *)
Statuses == {"none", "pending", "completed", "canceled"}

==============================================================================
