-------------------------- MODULE ReminderQueueSpec --------------------------
(* What a priority queue of reminders promises: the bag of ReminderQueue as  *)
(* a state machine.  "result" names the last operation and what it returned: *)
(* an item taken as the earliest has to be one, an item taken by key has to  *)
(* have that key.                                                            *)
EXTENDS ReminderQueue

CONSTANT Nothing        \* no result

VARIABLES pq, result

vars == <<pq, result>>

Init == pq = EmptyQueue /\ result = Nothing

Insert(i) == pq' = With(pq, i.key, i.time) /\ result' = Nothing

TakeEarliest ==
  \E i \in Earliest(pq) : /\ pq' = Without(pq, i.key, i.time)
                          /\ result' = [op |-> "pop", key |-> Nothing, item |-> i]

(* Taking a key out also says which of its copies was taken.                 *)
TakeKey(k) ==
  \/ \E t \in Times : /\ Holds(pq, k, t)
                      /\ pq' = Without(pq, k, t)
                      /\ result' = [op |-> "remove", key |-> k,
                                     item |-> [key |-> k, time |-> t]]
  \/ /\ \A t \in Times : ~Holds(pq, k, t)
     /\ UNCHANGED pq /\ result' = [op |-> "absent", key |-> k]

Next == TakeEarliest \/ (\E i \in Item : Insert(i)) \/ (\E k \in Keys : TakeKey(k))

Spec == Init /\ [][Next]_vars

==============================================================================
