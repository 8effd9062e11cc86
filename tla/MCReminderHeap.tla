---------------------------- MODULE MCReminderHeap ----------------------------
(* A heap of up to six reminders, the fewest for which an item that Remove   *)
(* moves into the hole may have to rise: its parent can be the later one.    *)
EXTENDS ReminderHeap, TLC

MCSymmetry == Permutations(Keys)

==============================================================================
