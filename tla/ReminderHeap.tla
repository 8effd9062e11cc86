----------------------------- MODULE ReminderHeap -----------------------------
(* The binary heap itself: type ReminderPriorityQueue of clients/nats.go     *)
(* under container/heap of the Go library, which is external.  The slice is  *)
(* a sequence; Go index i is position i + 1.  pqMutex keeps every operation  *)
(* apart from the others; within one, each turn of the loops of container/   *)
(* heap is a step.                                                           *)
(* A definition whose comment begins with "Mutant" is a faulty variant of    *)
(* the one after it; the specification does not use it.                      *)
EXTENDS ReminderData, Sequences, FiniteSets

CONSTANTS Nothing,  \* no result, no key
          MaxLen    \* bound: the length of the slice

VARIABLES heap,     \* the slice
          phase,    \* where the operation is: "idle", "down", "up" or "take"
          op,       \* the operation: "none", "push", "pop" or "remove"
          wanted,   \* the key to be removed
          start,    \* where "down" began (its i0)
          at,       \* the position of the item that sinks or rises
          result    \* the last operation that changed the bag, and what it returned

loopVars == <<phase, op, wanted, start, at>>
vars == <<heap, loopVars, result>>

Items == [key : Keys, time : Times]

-----------------------------------------------------------------------------
(* sort.Interface and heap.Interface, as clients/nats.go implements them.    *)

(* Mutant: the latest reminder comes first.                                  *)
After(i, j) == heap[i].time > heap[j].time

Less(i, j) == heap[i].time < heap[j].time

Swap(i, j) == heap' = [heap EXCEPT ![i] = heap[j], ![j] = heap[i]]

PushLast(x) == heap' = Append(heap, x)

PopLast == heap' = SubSeq(heap, 1, Len(heap) - 1)

-----------------------------------------------------------------------------
(* container/heap.                                                           *)

(* The items the loops look at: the one to be taken waits at the end.        *)
Size == IF op \in {"pop", "remove"} THEN Len(heap) - 1 ELSE Len(heap)

(* Mutant: the left child is taken for the smaller one.                      *)
LeftChild(i) == 2 * i

(* The position below i of the smaller child.                                *)
Child(i) == IF 2 * i < Size /\ Less(2 * i + 1, 2 * i) THEN 2 * i + 1 ELSE 2 * i

Goto(p, i) == phase' = p /\ at' = i

Finish == phase' = "idle" /\ op' = "none" /\ wanted' = Nothing /\ start' = 0 /\ at' = 0

(* One turn of the loop of up; its end is the end of a push.                 *)
Up ==
  /\ phase = "up"
  /\ IF at > 1 /\ Less(at, at \div 2)
     THEN Swap(at \div 2, at) /\ Goto("up", at \div 2) /\ UNCHANGED <<op, wanted, start>>
     ELSE /\ UNCHANGED heap
          /\ IF op = "push" THEN Finish ELSE Goto("take", at) /\ UNCHANGED <<op, wanted, start>>
  /\ UNCHANGED result

(* Mutant: the item put in the hole sinks, and never rises.                  *)
DownOnly ==
  /\ phase = "down"
  /\ IF 2 * at <= Size /\ Less(Child(at), at)
     THEN Swap(at, Child(at)) /\ Goto("down", Child(at))
     ELSE UNCHANGED heap /\ Goto("take", at)
  /\ UNCHANGED <<op, wanted, start, result>>

(* One turn of the loop of down.  Remove calls up if nothing sank.           *)
Down ==
  /\ phase = "down"
  /\ IF 2 * at <= Size /\ Less(Child(at), at)
     THEN Swap(at, Child(at)) /\ Goto("down", Child(at))
     ELSE UNCHANGED heap /\ Goto(IF op = "remove" /\ at = start THEN "up" ELSE "take", at)
  /\ UNCHANGED <<op, wanted, start, result>>

(* h.Pop: the last item goes, and is returned.                               *)
Take ==
  /\ phase = "take"
  /\ PopLast
  /\ result' = [op |-> op, key |-> wanted, item |-> heap[Len(heap)]]
  /\ Finish

-----------------------------------------------------------------------------
(* The uses clients/nats.go makes of it.                                     *)

(* heap.Push.                                                                *)
Insert(x) ==
  /\ phase = "idle" /\ Len(heap) < MaxLen
  /\ PushLast(x)
  /\ op' = "push" /\ Goto("up", Len(heap) + 1)
  /\ result' = Nothing
  /\ UNCHANGED <<wanted, start>>

(* The item at position i is put last, and the last one in its place.        *)
Extract(name, key, i) ==
  /\ Swap(i, Len(heap))
  /\ op' = name /\ wanted' = key /\ start' = i
  /\ Goto(IF name = "remove" /\ i = Len(heap) THEN "take" ELSE "down", i)
  /\ UNCHANGED result

(* processReminders peeks at index 0, and later pops: heap.Pop.              *)
TakeEarliest == phase = "idle" /\ heap # <<>> /\ Extract("pop", Nothing, 1)

(* heap.Remove at the first index that holds the key, if there is one.       *)
TakeKey(k) ==
  /\ phase = "idle"
  /\ \/ /\ \A i \in 1 .. Len(heap) : heap[i].key # k
        /\ result' = [op |-> "absent", key |-> k] /\ UNCHANGED <<heap, loopVars>>
     \/ \E i \in 1 .. Len(heap) : /\ heap[i].key = k
                                  /\ \A j \in 1 .. i - 1 : heap[j].key # k
                                  /\ Extract("remove", k, i)

Init ==
  /\ heap = <<>> /\ phase = "idle" /\ op = "none" /\ wanted = Nothing
  /\ start = 0 /\ at = 0 /\ result = Nothing

Next ==
  \/ TakeEarliest
  \/ \E x \in Items : Insert(x)
  \/ \E k \in Keys : TakeKey(k)
  \/ Down \/ Up \/ Take

Spec == Init /\ [][Next]_vars

-----------------------------------------------------------------------------
(* Properties.                                                               *)

(* The one type invariant of the module.                                     *)
TypeOK ==
  /\ heap \in Seq(Items)
  /\ phase \in {"idle", "down", "up", "take"} /\ op \in {"none", "push", "pop", "remove"}
  /\ wanted \in Keys \cup {Nothing} /\ start \in Nat /\ at \in Nat
  /\ phase = "idle" <=> op = "none"
  /\ phase # "idle" => heap # <<>>
  /\ phase \in {"down", "take"} => op \in {"pop", "remove"}
  /\ phase = "down" => start \in 1 .. at /\ at \in 1 .. Len(heap)
  /\ phase = "down" /\ op = "remove" => at <= Size
  /\ phase = "up" => op \in {"push", "remove"} /\ at \in 1 .. Size

(* No child is earlier than its parent.                                      *)
Ordered(i) == heap[i \div 2].time <= heap[i].time

(* Between operations the slice is a heap.  heap.Remove at an index found by *)
(* a linear search has to keep this true, as Push and Pop do.                *)
HeapOrdered == phase = "idle" => \A i \in 2 .. Len(heap) : Ordered(i)

(* Why: while an item sinks, only its children may be earlier than it, and   *)
(* while it rises it alone may be earlier than its parent; what is above it  *)
(* is not later than what is below it.  An item put in a hole that has not   *)
(* sunk may be earlier than its parent.                                      *)
Settled(i) ==
  /\ phase = "down" => i \div 2 # at /\ ~(op = "remove" /\ i = at /\ at = start)
  /\ phase = "up" => i # at

SiftOrdered ==
  /\ \A i \in 2 .. Size : Settled(i) => Ordered(i)
  /\ phase \in {"down", "up"} /\ at > 1 =>
       \A i \in 2 .. Size : i \div 2 = at => heap[at \div 2].time <= heap[i].time

(* The item that waits at the end is the one asked for.                      *)
RightOneWaits ==
  /\ op = "pop" => /\ wanted = Nothing
                   /\ \A i \in 1 .. Len(heap) : heap[Len(heap)].time <= heap[i].time
  /\ op = "remove" => heap[Len(heap)].key = wanted

(* The heap is a bag: the operations lose and duplicate nothing, Pop returns *)
(* an earliest reminder, and Remove one of the key it was asked for.  The    *)
(* scheduler is written against the bag.                                     *)
Bag == [k \in Keys |-> [t \in Times |->
         Cardinality({i \in 1 .. Len(heap) : heap[i] = [key |-> k, time |-> t]})]]

Queue == INSTANCE ReminderQueueSpec WITH pq <- Bag

ImplementsQueue == Queue!Spec

==============================================================================
