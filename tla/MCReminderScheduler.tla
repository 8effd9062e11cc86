-------------------------- MODULE MCReminderScheduler --------------------------
(* Small instances of the scheduler for TLC.                                 *)
EXTENDS ReminderScheduler, TLC

MCSymmetry == Permutations(Keys) \cup Permutations(Handlers)

==============================================================================
