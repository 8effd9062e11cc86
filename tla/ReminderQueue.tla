---------------------------- MODULE ReminderQueue ----------------------------
(* What the scheduler may assume of its priority queue: a bag of reminders   *)
(* from which the earliest, or one of a given key, can be taken.  The bag is *)
(* a function from key and time to the number of queued copies, because the  *)
(* Go slice holds pointers and nothing keeps two copies of a key apart.      *)
(* ReminderHeap shows that the binary heap of clients/nats.go is such a bag. *)
EXTENDS ReminderData

Item == [key : Keys, time : Times]

Queues == [Keys -> [Times -> Nat]]

EmptyQueue == [k \in Keys |-> [t \in Times |-> 0]]

Holds(q, k, t) == q[k][t] > 0

IsEmpty(q) == \A k \in Keys, t \in Times : ~Holds(q, k, t)

(* The items heap index 0 may hold: the order of equal times is arbitrary.   *)
Earliest(q) ==
  {i \in Item : /\ Holds(q, i.key, i.time)
                /\ \A k \in Keys, t \in Times : Holds(q, k, t) => i.time <= t}

With(q, k, t) == [q EXCEPT ![k][t] = @ + 1]

Without(q, k, t) == [q EXCEPT ![k][t] = @ - 1]

(* Mutant: the copy is removed whether or not there is one.                  *)
RemoveUnchecked(q, k) == {Without(q, k, t) : t \in Times}

(* "for i, item := range pq { if item.Key == key { heap.Remove; break } }":  *)
(* one copy of the key goes, the one the array happens to hold first.        *)
RemoveOne(q, k) ==
  IF \E t \in Times : Holds(q, k, t)
  THEN {Without(q, k, t) : t \in {u \in Times : Holds(q, k, u)}}
  ELSE {q}

==============================================================================
