---------------------------- MODULE ReminderService ----------------------------
(* What the users of reminders are promised, whatever the scheduler does to  *)
(* keep it: a reminder is recorded, moved, canceled and completed one write  *)
(* at a time; it is completed only after a time it was scheduled for, and    *)
(* the event of the version completed is told at most once, never before the *)
(* completion is recorded, or is lost for good.  No queue, no watcher, no    *)
(* lock and no process appear here; ReminderScheduler implements it.         *)
EXTENDS ReminderData

VARIABLES
  clock,
  book,      \* the status and time recorded for each key
  version,   \* per key, a number that grows with every write
  times,     \* per key, all the times it was ever scheduled for
  owed,      \* the events of completed versions, not told yet
  told       \* the events told

service == <<clock, book, version, times, owed, told>>

ServiceInit ==
  /\ clock = 0
  /\ book = [k \in Keys |-> [status |-> "none", time |-> 0]]
  /\ version = [k \in Keys |-> 0]
  /\ times = [k \in Keys |-> {}]
  /\ owed = {} /\ told = {}

Record(k, s, t) ==
  /\ book' = [book EXCEPT ![k] = [status |-> s, time |-> t]]
  /\ version' = [version EXCEPT ![k] = version'[k]]
  /\ version'[k] \in Nat /\ version'[k] > version[k]

Passes == clock' = clock + 1 /\ UNCHANGED <<book, version, times, owed, told>>

(* Set for time t; or moved there, with the status the snooze found.         *)
Schedule(k, s, t) ==
  /\ s = "pending" \/ book[k].status # "none"
  /\ Record(k, s, t)
  /\ times' = [times EXCEPT ![k] = @ \cup {t}]
  /\ UNCHANGED <<clock, owed, told>>

Cancel(k, t) ==
  /\ book[k].status # "none"
  /\ Record(k, "canceled", t)
  /\ UNCHANGED <<clock, times, owed, told>>

(* v is the version that is completed; one written since is overwritten.     *)
(* The event is owed, or lost at once.                                       *)
Complete(k, t, v) ==
  /\ v <= version[k] /\ [key |-> k, from |-> v] \notin told \cup owed
  /\ \E u \in times[k] : u <= clock
  /\ Record(k, "completed", t)
  /\ owed' \in {owed, owed \cup {[key |-> k, from |-> v]}}
  /\ UNCHANGED <<clock, times, told>>

Tell(e) ==
  /\ e \in owed /\ owed' = owed \ {e} /\ told' = told \cup {e}
  /\ UNCHANGED <<clock, book, version, times>>

Lose(e) ==
  /\ e \in owed /\ owed' = owed \ {e}
  /\ UNCHANGED <<clock, book, version, times, told>>

ServiceNext ==
  \/ Passes
  \/ \E k \in Keys, t \in Times :
       \/ \E s \in Statuses \ {"none"} : Schedule(k, s, t)
       \/ Cancel(k, t)
       \/ \E v \in 0 .. version[k] : Complete(k, t, v)
  \/ \E e \in owed : Tell(e) \/ Lose(e)

ServiceSpec == ServiceInit /\ [][ServiceNext]_service

(* An event that was told, or is owed, is of a version that has been         *)
(* overwritten by its completion: no version is completed twice, and what    *)
(* was told is owed no more.                                                 *)
ToldIsOver ==
  /\ \A e \in told \cup owed : e.from < version[e.key]
  /\ told \cap owed = {}

===============================================================================
