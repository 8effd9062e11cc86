------------------------ MODULE ReminderSchedulerProofs ------------------------
(* Machine-checked theorems about the reminder scheduler, for every set of   *)
(* keys and handlers, every clock bound and every number of requests,        *)
(* crashes and failing calls.                                                *)
EXTENDS ReminderScheduler, SequenceTheorems, TLAPS

-----------------------------------------------------------------------------
(* Lemmas about the operators of the queue and the bucket.                   *)

(* Pushing adds one copy, of the reminder pushed, and changes nothing else.  *)
LEMMA WithCounts ==
  ASSUME NEW q \in Queues, NEW k \in Keys, NEW t \in Times
  PROVE  /\ With(q, k, t) \in Queues
         /\ \A j \in Keys, u \in Times :
              With(q, k, t)[j][u] = IF j = k /\ u = t THEN q[j][u] + 1 ELSE q[j][u]
  BY DEF With, Queues

(* Removing a copy that is there takes that copy and nothing else.           *)
LEMMA WithoutCounts ==
  ASSUME NEW q \in Queues, NEW k \in Keys, NEW t \in Times, Holds(q, k, t)
  PROVE  /\ Without(q, k, t) \in Queues
         /\ \A j \in Keys, u \in Times :
              Without(q, k, t)[j][u]
                = IF j = k /\ u = t THEN q[j][u] - 1 ELSE q[j][u]
  BY DEF Without, Queues, Holds

(* RemoveOne yields a queue, holds nothing new, and touches only its key.    *)
LEMMA RemoveOneCounts ==
  ASSUME NEW q \in Queues, NEW k \in Keys, NEW r \in RemoveOne(q, k)
  PROVE  /\ r \in Queues
         /\ \A j \in Keys, u \in Times : Holds(r, j, u) => Holds(q, j, u)
         /\ \A j \in Keys, u \in Times : j # k => (Holds(r, j, u) <=> Holds(q, j, u))
  <1>1. CASE r = q
    BY <1>1
  <1>2. CASE r # q
    <2>1. PICK t \in Times : Holds(q, k, t) /\ r = Without(q, k, t)
      BY <1>2 DEF RemoveOne
    <2>2. /\ r \in Queues
          /\ \A j \in Keys, u \in Times :
               r[j][u] = IF j = k /\ u = t THEN q[j][u] - 1 ELSE q[j][u]
      BY <2>1, WithoutCounts
    <2>3. \A j \in Keys, u \in Times : q[j][u] \in Nat
      BY DEF Queues
    <2>. QED
      BY <2>2, <2>3 DEF Holds
  <1>. QED
    BY <1>1, <1>2

(* A write stores an entry under its key with the next revision.             *)
LEMMA StoreEntry ==
  ASSUME kv \in [Keys -> Entries], seq \in Nat, lost \subseteq Keys,
         NEW k \in Keys, NEW s \in Statuses, NEW t \in Times, NEW of \in Nat,
         Store(k, s, t, of)
  PROVE  /\ kv' \in [Keys -> Entries] /\ seq' = seq + 1 /\ seq' \in Nat
         /\ lost' \subseteq Keys
         /\ kv'[k] = [status |-> s, time |-> t, of |-> of, rev |-> seq + 1]
         /\ \A j \in Keys : j # k => kv'[j] = kv[j]
         /\ lost' = lost \ {k}
  BY DEF Store, Write, Entries

-----------------------------------------------------------------------------
(* Type correctness: the type invariant of the scheduler.                    *)

LEMMA InitialValues ==
  /\ EmptyQueue \in Queues /\ NoEntry \in Entries /\ <<>> \in Seq(Updates)
  /\ 0 \in Times /\ Times \subseteq Int
  <1>1. 0 \in Times /\ Times \subseteq Int
    BY MaxTimeAssumption DEF Times
  <1>2. <<>> \in Seq(Updates)
    OBVIOUS
  <1>. QED
    BY <1>1, <1>2 DEF EmptyQueue, Queues, NoEntry, Entries, Statuses

(* What the process loses when it goes down leaves the rest well typed.      *)
LEMMA DownType ==
  ASSUME TypeOK, Down, UNCHANGED <<storeVars, now, armed>>,
         requests' \in Nat, crashes' \in Nat, faults' \in Nat,
         published' \subseteq Events, missed' \subseteq Events
  PROVE  TypeOK'
  BY InitialValues DEF TypeOK, Down, storeVars

LEMMA HeadType ==
  ASSUME TypeOK, inbox # <<>>
  PROVE  /\ Head(inbox) \in Updates /\ Tail(inbox) \in Seq(Updates)
         /\ Head(inbox).key \in Keys
  <1>1. Head(inbox) \in Updates /\ Tail(inbox) \in Seq(Updates)
    BY DEF TypeOK
  <1>. QED
    BY <1>1 DEF Updates

LEMMA EventType ==
  ASSUME TypeOK, ppc \in {"get", "put", "trigger"}
  PROVE  Event \in Events /\ peeked.key \in Keys /\ peeked.time \in Times
  <1>1. peeked \in Item
    BY DEF TypeOK
  <1>2. read \in Entries
    BY DEF TypeOK
  <1>. QED
    BY <1>1, <1>2 DEF Event, Events, Item, Entries

(* A handler that is not idle holds a well-typed request.                    *)
LEMMA RequestType ==
  ASSUME TypeOK, NEW h \in Handlers, hpc[h] # "idle"
  PROVE  /\ req[h].key \in Keys /\ req[h].status \in Statuses
         /\ req[h].time \in Times /\ req[h].of \in Nat /\ req[h].rev \in Nat
  <1>1. req[h] \in Requests
    BY DEF TypeOK
  <1>. QED
    BY <1>1 DEF Requests

LEMMA ProceedType ==
  ASSUME TypeOK, NEW h \in Handlers, NEW pc, NEW r, Step(h, pc, r),
         \/ pc = "idle" /\ r = NoRequest
         \/ pc \in {"setGet", "setPut", "cancelPut", "snoozePut"} /\ r \in Requests
  PROVE  /\ hpc' \in [Handlers -> {"idle", "setGet", "setPut", "cancelPut", "snoozePut"}]
         /\ req' \in [Handlers -> Requests \cup {NoRequest}]
         /\ \A g \in Handlers : hpc'[g] # "idle" => req'[g] \in Requests
  BY DEF Step, TypeOK

(* Every state of the scheduler is well typed; in particular the number of   *)
(* queued copies never goes below zero, and a program counter that needs a   *)
(* reminder in hand has one.                                                 *)
THEOREM TypeCorrect == Spec => []TypeOK
<1>1. Init => TypeOK
  <2> SUFFICES ASSUME Init PROVE TypeOK
    OBVIOUS
  <2>1. /\ kv \in [Keys -> Entries] /\ seq \in Nat
        /\ sentSeq \in Nat /\ inbox \in Seq(Updates)
        /\ pq \in Queues /\ signal \in BOOLEAN /\ read \in Entries
    BY InitialValues DEF Init
  <2>2. /\ hpc \in [Handlers -> {"idle", "setGet", "setPut", "cancelPut", "snoozePut"}]
        /\ req \in [Handlers -> Requests \cup {NoRequest}]
        /\ \A h \in Handlers : hpc[h] = "idle"
        /\ armed \in [Keys -> SUBSET Times] /\ now \in Times
    BY InitialValues DEF Init
  <2>. QED
    BY <2>1, <2>2 DEF Init, TypeOK
<1>2. TypeOK /\ [Next]_vars => TypeOK'
  <2> SUFFICES ASSUME TypeOK, [Next]_vars PROVE TypeOK'
    OBVIOUS
  <2> USE DEF storeVars, linkVars, queueVars, procVars, watchVars, handlerVars,
              envVars, historyVars
  <2>1. CASE Start
    <3>1. pq' \in Queues
      BY <2>1 DEF Start, Queues
    <3>. QED
      BY <2>1, <3>1 DEF Start, TypeOK, Reliable, Fault
  <2>2. CASE Crash
    BY <2>2, DownType, EventType DEF Crash, TypeOK
  <2>3. CASE Tick
    BY <2>3, MaxTimeAssumption DEF Tick, TypeOK, Times
  <2>4. CASE Deliver
    <3>1. PICK k \in Keys : Transmit(k)
      BY <2>4 DEF Deliver
    <3>2. [key |-> k, status |-> kv[k].status, time |-> kv[k].time,
           rev |-> kv[k].rev] \in Updates
      <4>1. kv[k] \in Entries
        BY DEF TypeOK
      <4>. QED
        BY <4>1 DEF Entries, Updates
    <3>3. inbox' \in Seq(Updates) /\ sentSeq' \in Nat
      <4>1. kv[k] \in Entries
        BY DEF TypeOK
      <4>. QED
        BY <3>1, <3>2, <4>1 DEF Transmit, TypeOK, Entries
    <3>. QED
      BY <2>4, <3>1, <3>3 DEF Deliver, Transmit, TypeOK
  <2>5. CASE WatchStart
    BY <2>5 DEF WatchStart, TypeOK, Reliable, Fault
  <2>6. CASE WatchRemove
    <3>1. /\ Head(inbox) \in Updates /\ Tail(inbox) \in Seq(Updates)
          /\ Head(inbox).key \in Keys
      BY <2>6, HeadType DEF WatchRemove
    <3>2. pq' \in Queues
      BY <2>6, <3>1, RemoveOneCounts DEF WatchRemove, TypeOK
    <3>. QED
      BY <2>6, <3>1, <3>2 DEF WatchRemove, TypeOK
  <2>7. CASE WatchPush
    <3>1. update.key \in Keys /\ update.time \in Times
      BY <2>7 DEF WatchPush, TypeOK, Updates
    <3>2. pq' \in Queues
      BY <2>7, <3>1, WithCounts DEF WatchPush, Push, TypeOK
    <3>. QED
      BY <2>7, <3>2 DEF WatchPush, Push, TypeOK
  <2>8. CASE Peek
    BY <2>8 DEF Peek, TypeOK, Earliest
  <2>9. CASE Wake
    BY <2>9 DEF Wake, TypeOK
  <2>10. CASE Pop
    <3>1. PICK i \in Item : /\ Holds(pq, i.key, i.time)
                            /\ pq' = Without(pq, i.key, i.time)
                            /\ lost' = IF i.key = peeked.key THEN lost
                                       ELSE lost \cup {i.key}
      BY <2>10 DEF Pop, Earliest
    <3>2. i.key \in Keys /\ i.time \in Times
      BY DEF Item
    <3>3. pq' \in Queues
      BY <3>1, <3>2, WithoutCounts DEF TypeOK
    <3>. QED
      BY <2>10, <3>1, <3>2, <3>3 DEF Pop, TypeOK
  <2>11. CASE PopPanics
    BY <2>11, DownType DEF PopPanics, TypeOK
  <2>12. CASE MarkGet
    <3>1. peeked.key \in Keys
      BY <2>12, EventType DEF MarkGet
    <3>. QED
      BY <2>12, <3>1 DEF MarkGet, TypeOK, Reliable, Fault
  <2>13. CASE MarkPut
    <3>1. Event \in Events /\ peeked.key \in Keys
      BY <2>13, EventType DEF MarkPut
    <3>2. read.time \in Times /\ read.rev \in Nat
      BY DEF TypeOK, Entries
    <3>3. kv' \in [Keys -> Entries] /\ seq' \in Nat /\ lost' \subseteq Keys
      <4>1. CASE Store(peeked.key, "completed", read.time, read.rev)
        BY <3>1, <3>2, <4>1, StoreEntry DEF TypeOK, Statuses
      <4>2. CASE UNCHANGED storeVars /\ lost' = lost \cup {peeked.key}
        BY <3>1, <4>2 DEF TypeOK
      <4>. QED
        BY <2>13, <4>1, <4>2 DEF MarkPut
    <3>4. /\ missed' \subseteq Events /\ faults' \in Nat
          /\ ppc' \in {"peek", "trigger"}
          /\ \/ UNCHANGED <<peeked, read>>
             \/ ppc' = "peek" /\ peeked' = NoItem /\ read' = NoEntry
      BY <2>13, <3>1 DEF MarkPut, TypeOK, Reliable, Fault
    <3>5. peeked' \in Item \cup {NoItem} /\ read' \in Entries
          /\ (ppc' = "trigger" => peeked' \in Item)
      BY <2>13, <3>4, InitialValues DEF MarkPut, TypeOK
    <3>. QED
      BY <2>13, <3>3, <3>4, <3>5 DEF MarkPut, TypeOK
  <2>14. CASE Trigger
    BY <2>14, EventType, InitialValues DEF Trigger, TypeOK
  <2>15. CASE TriggerFails
    BY <2>15, EventType, DownType DEF TriggerFails, TypeOK, Fault
  <2>16. ASSUME NEW h \in Handlers, NEW k \in Keys, NEW t \in Times, SetRequest(h, k, t)
         PROVE  TypeOK'
    <3>1. [key |-> k, status |-> "pending", time |-> t, of |-> 0, rev |-> 0]
            \in Requests
      BY DEF Requests, Statuses
    <3>. QED
      BY <2>16, <3>1, ProceedType DEF SetRequest, Arrive, TypeOK
  <2>17. ASSUME NEW h \in Handlers, NEW k \in Keys, CancelGet(h, k)
         PROVE  TypeOK'
    <3>1. kv[k] \in Entries
      BY DEF TypeOK
    <3>2. [key |-> k, status |-> "canceled", time |-> kv[k].time,
           of |-> kv[k].of, rev |-> kv[k].rev] \in Requests
      BY <3>1 DEF Requests, Entries, Statuses
    <3>. QED
      BY <2>17, <3>2, ProceedType DEF CancelGet, Arrive, TypeOK
  <2>18. ASSUME NEW h \in Handlers, NEW k \in Keys, NEW d \in SnoozeDurations,
                SnoozeGet(h, k, d)
         PROVE  TypeOK'
    <3>1. kv[k] \in Entries
      BY DEF TypeOK
    <3>2. [key |-> k, status |-> kv[k].status, time |-> kv[k].time + d,
           of |-> kv[k].of, rev |-> kv[k].rev] \in Requests
      BY <2>18, <3>1 DEF SnoozeGet, Requests, Entries
    <3>. QED
      BY <2>18, <3>2, ProceedType DEF SnoozeGet, Arrive, TypeOK
  <2>19. ASSUME NEW h \in Handlers, SetGet(h)
         PROVE  TypeOK'
    <3>1. req[h] \in Requests /\ kv[req[h].key].rev \in Nat
      BY <2>19, RequestType DEF SetGet, TypeOK, Entries
    <3>2. [req[h] EXCEPT !.rev = kv[req[h].key].rev] \in Requests
      BY <3>1 DEF Requests
    <3>. QED
      BY <2>19, <3>1, <3>2, ProceedType DEF SetGet, TypeOK, Reliable, Fault
  <2>20. ASSUME NEW h \in Handlers, SetPut(h)
         PROVE  TypeOK'
    <3>1. req[h].key \in Keys /\ req[h].time \in Times
      BY <2>20, RequestType DEF SetPut
    <3>2. kv' \in [Keys -> Entries] /\ seq' \in Nat /\ lost' \subseteq Keys
      <4>1. CASE Store(req[h].key, "pending", req[h].time, 0)
        BY <3>1, <4>1, StoreEntry DEF TypeOK, Statuses
      <4>2. CASE UNCHANGED <<storeVars, lost>>
        BY <4>2 DEF TypeOK
      <4>. QED
        BY <2>20, <4>1, <4>2 DEF SetPut
    <3>3. armed' \in [Keys -> SUBSET Times] /\ faults' \in Nat
      BY <2>20, <3>1 DEF SetPut, TypeOK, Reliable, Fault
    <3>. QED
      BY <2>20, <3>2, <3>3, ProceedType DEF SetPut, Finish, TypeOK
  <2>21. ASSUME NEW h \in Handlers, CancelPut(h)
         PROVE  TypeOK'
    <3>1. req[h].key \in Keys /\ req[h].time \in Times /\ req[h].of \in Nat
      BY <2>21, RequestType DEF CancelPut
    <3>2. pq' \in Queues
      BY <2>21, <3>1, RemoveOneCounts DEF CancelPut, TypeOK
    <3>3. kv' \in [Keys -> Entries] /\ seq' \in Nat /\ lost' \subseteq Keys
      <4>1. CASE Store(req[h].key, "canceled", req[h].time, req[h].of)
        BY <3>1, <4>1, StoreEntry DEF TypeOK, Statuses
      <4>2. CASE UNCHANGED storeVars /\ lost' \in {lost, lost \cup {req[h].key}}
        BY <3>1, <4>2 DEF TypeOK
      <4>. QED
        BY <2>21, <4>1, <4>2 DEF CancelPut
    <3>4. faults' \in Nat
      BY <2>21 DEF CancelPut, TypeOK, Reliable, Fault
    <3>. QED
      BY <2>21, <3>2, <3>3, <3>4, ProceedType DEF CancelPut, Finish, TypeOK
  <2>22. ASSUME NEW h \in Handlers, SnoozePut(h)
         PROVE  TypeOK'
    <3>1. /\ req[h].key \in Keys /\ req[h].status \in Statuses
          /\ req[h].time \in Times /\ req[h].of \in Nat
      BY <2>22, RequestType DEF SnoozePut
    <3>2. kv' \in [Keys -> Entries] /\ seq' \in Nat /\ lost' \subseteq Keys
      <4>1. CASE Store(req[h].key, req[h].status, req[h].time, req[h].of)
        BY <3>1, <4>1, StoreEntry DEF TypeOK
      <4>2. CASE UNCHANGED <<storeVars, lost>>
        BY <4>2 DEF TypeOK
      <4>. QED
        BY <2>22, <4>1, <4>2 DEF SnoozePut
    <3>3. armed' \in [Keys -> SUBSET Times] /\ faults' \in Nat
      BY <2>22, <3>1 DEF SnoozePut, TypeOK, Reliable, Fault
    <3>4. pq' \in Queues /\ signal' \in BOOLEAN
      <4>1. CASE \E q \in RemoveOne(pq, req[h].key) : Push(q, req[h].key, req[h].time)
        <5>1. PICK q \in RemoveOne(pq, req[h].key) : Push(q, req[h].key, req[h].time)
          BY <4>1
        <5>2. q \in Queues
          BY <3>1, RemoveOneCounts DEF TypeOK
        <5>. QED
          BY <3>1, <5>1, <5>2, WithCounts DEF Push
      <4>2. CASE UNCHANGED queueVars
        BY <4>2 DEF TypeOK
      <4>. QED
        BY <2>22, <4>1, <4>2 DEF SnoozePut
    <3>. QED
      BY <2>22, <3>2, <3>3, <3>4, ProceedType DEF SnoozePut, Finish, TypeOK
  <2>23. CASE UNCHANGED vars
    BY <2>23 DEF vars, TypeOK
  <2>. QED
    BY <2>1, <2>2, <2>3, <2>4, <2>5, <2>6, <2>7, <2>8, <2>9, <2>10, <2>11, <2>12,
       <2>13, <2>14, <2>15, <2>16, <2>17, <2>18, <2>19, <2>20, <2>21, <2>22, <2>23
    DEF Next, Processor, Watcher, Proceed, Request
<1>. QED
  BY <1>1, <1>2, PTL DEF Spec

-----------------------------------------------------------------------------
(* The queue does not grow.                                                  *)

LEMMA OneIsTwo ==
  ASSUME NEW q \in Queues, NEW k \in Keys, OneCopy(q, k)
  PROVE  TwoCopies(q, k)
  <1>1. PICK t \in Times : \A u \in Times : q[k][u] <= Spot(t, u)
    BY DEF OneCopy
  <1>2. \A u \in Times : q[k][u] <= Spot(t, u) + Spot(t, u)
    BY <1>1 DEF Spot, Queues
  <1>. QED
    BY <1>2 DEF TwoCopies

LEMMA EmptyIsOne ==
  ASSUME NEW k \in Keys
  PROVE  EmptyQueue \in Queues /\ OneCopy(EmptyQueue, k)
  <1>1. \A u \in Times : EmptyQueue[k][u] <= Spot(0, u)
    BY DEF EmptyQueue, Spot
  <1>. QED
    BY <1>1, InitialValues DEF OneCopy

(* Taking copies away adds none.                                             *)
LEMMA FewerCopies ==
  ASSUME NEW q \in Queues, NEW r \in Queues, NEW k \in Keys,
         \A u \in Times : r[k][u] <= q[k][u]
  PROVE  /\ OneCopy(q, k) => OneCopy(r, k)
         /\ TwoCopies(q, k) => TwoCopies(r, k)
  <1>1. \A u \in Times : q[k][u] \in Nat /\ r[k][u] \in Nat
    BY DEF Queues
  <1>2. \A s, u \in Times : Spot(s, u) \in Nat
    BY DEF Spot
  <1>3. ASSUME OneCopy(q, k) PROVE OneCopy(r, k)
    <2>1. PICK t \in Times : \A u \in Times : q[k][u] <= Spot(t, u)
      BY <1>3 DEF OneCopy
    <2>2. \A u \in Times : r[k][u] <= Spot(t, u)
      BY <1>1, <1>2, <2>1
    <2>. QED
      BY <2>2 DEF OneCopy
  <1>4. ASSUME TwoCopies(q, k) PROVE TwoCopies(r, k)
    <2>1. PICK s, t \in Times : \A u \in Times : q[k][u] <= Spot(s, u) + Spot(t, u)
      BY <1>4 DEF TwoCopies
    <2>2. \A u \in Times : r[k][u] <= Spot(s, u) + Spot(t, u)
      BY <1>1, <1>2, <2>1
    <2>. QED
      BY <2>2 DEF TwoCopies
  <1>. QED
    BY <1>3, <1>4

(* A removal leaves a copy less, of two and of one.                          *)
LEMMA RemoveCopies ==
  ASSUME NEW q \in Queues, NEW k \in Keys, NEW r \in RemoveOne(q, k)
  PROVE  /\ TwoCopies(q, k) => OneCopy(r, k)
         /\ OneCopy(q, k) => \A u \in Times : r[k][u] = 0
         /\ \A j \in Keys, u \in Times : r[j][u] <= q[j][u]
  <1>0. \A j \in Keys, u \in Times : q[j][u] \in Nat
    BY DEF Queues
  <1>1. CASE \A t \in Times : ~Holds(q, k, t)
    <2>1. r = q /\ \A u \in Times : r[k][u] = 0
      BY <1>0, <1>1 DEF RemoveOne, Holds
    <2>. QED
      BY <1>0, <2>1, InitialValues DEF OneCopy, Spot
  <1>2. CASE \E t \in Times : Holds(q, k, t)
    <2>1. PICK t \in Times : Holds(q, k, t) /\ r = Without(q, k, t)
      BY <1>2 DEF RemoveOne
    <2>2. \A j \in Keys, u \in Times :
            r[j][u] = IF j = k /\ u = t THEN q[j][u] - 1 ELSE q[j][u]
      BY <2>1, WithoutCounts
    <2>3. q[k][t] > 0
      BY <2>1 DEF Holds
    <2>4. ASSUME TwoCopies(q, k) PROVE OneCopy(r, k)
      <3>1. PICK s, v \in Times : \A u \in Times : q[k][u] <= Spot(s, u) + Spot(v, u)
        BY <2>4 DEF TwoCopies
      <3>2. CASE s = t
        <4>1. \A u \in Times : r[k][u] <= Spot(v, u)
          BY <1>0, <2>2, <3>1, <3>2 DEF Spot
        <4>. QED
          BY <4>1 DEF OneCopy
      <3>3. CASE v = t
        <4>1. \A u \in Times : r[k][u] <= Spot(s, u)
          BY <1>0, <2>2, <3>1, <3>3 DEF Spot
        <4>. QED
          BY <4>1 DEF OneCopy
      <3>. QED
        BY <1>0, <2>3, <3>1, <3>2, <3>3 DEF Spot
    <2>5. ASSUME OneCopy(q, k) PROVE \A u \in Times : r[k][u] = 0
      <3>1. PICK s \in Times : \A u \in Times : q[k][u] <= Spot(s, u)
        BY <2>5 DEF OneCopy
      <3>2. s = t
        BY <1>0, <2>3, <3>1 DEF Spot
      <3>. QED
        BY <1>0, <2>2, <2>3, <3>1, <3>2 DEF Spot
    <2>. QED
      BY <1>0, <2>2, <2>4, <2>5
  <1>. QED
    BY <1>1, <1>2

LEMMA PushCopies ==
  ASSUME NEW q \in Queues, NEW k \in Keys, NEW t \in Times
  PROVE  /\ (\A u \in Times : q[k][u] = 0) => OneCopy(With(q, k, t), k)
         /\ OneCopy(q, k) => TwoCopies(With(q, k, t), k)
         /\ \A j \in Keys, u \in Times : j # k => With(q, k, t)[j][u] = q[j][u]
  <1>0. \A j \in Keys, u \in Times : q[j][u] \in Nat
    BY DEF Queues
  <1> DEFINE r == With(q, k, t)
  <1>1. \A j \in Keys, u \in Times :
          r[j][u] = IF j = k /\ u = t THEN q[j][u] + 1 ELSE q[j][u]
    BY WithCounts
  <1>. HIDE DEF r
  <1>2. ASSUME \A u \in Times : q[k][u] = 0 PROVE OneCopy(r, k)
    <2>1. \A u \in Times : r[k][u] <= Spot(t, u)
      BY <1>1, <1>2 DEF Spot
    <2>. QED
      BY <2>1 DEF OneCopy
  <1>3. ASSUME OneCopy(q, k) PROVE TwoCopies(r, k)
    <2>1. PICK s \in Times : \A u \in Times : q[k][u] <= Spot(s, u)
      BY <1>3 DEF OneCopy
    <2>2. \A u \in Times : r[k][u] <= Spot(s, u) + Spot(t, u)
      BY <1>0, <1>1, <2>1 DEF Spot
    <2>. QED
      BY <2>2 DEF TwoCopies
  <1>. QED
    BY <1>1, <1>2, <1>3 DEF r

(* A step that only takes copies away, and leaves the watcher as it was.     *)
LEMMA FewerAtMostTwo ==
  ASSUME TypeOK, TypeOK', AtMostTwoCopies, UNCHANGED watchVars,
         \A k \in Keys, u \in Times : pq'[k][u] <= pq[k][u]
  PROVE  AtMostTwoCopies'
  <1>1. pq \in Queues /\ pq' \in Queues
    BY DEF TypeOK
  <1>. QED
    BY <1>1, FewerCopies DEF AtMostTwoCopies, watchVars

LEMMA DownAtMostTwo ==
  ASSUME Down
  PROVE  AtMostTwoCopies'
  BY EmptyIsOne, OneIsTwo DEF Down, AtMostTwoCopies

(* A key has at most two copies in the queue however the watcher's removal   *)
(* and push interleave with snoozes, cancellations and pops: the watcher     *)
(* lets the lock go in between, and a snooze may push its own copy then.     *)
THEOREM TwoAtMost == Spec => []AtMostTwoCopies
<1>1. Init => AtMostTwoCopies
  BY EmptyIsOne, OneIsTwo DEF Init, AtMostTwoCopies
<1>2. TypeOK /\ TypeOK' /\ AtMostTwoCopies /\ [Next]_vars => AtMostTwoCopies'
  <2> SUFFICES ASSUME TypeOK, TypeOK', AtMostTwoCopies, [Next]_vars
               PROVE  AtMostTwoCopies'
    OBVIOUS
  <2>0. pq \in Queues /\ \A k \in Keys, u \in Times : pq[k][u] \in Nat
    BY DEF TypeOK, Queues
  <2>1. CASE UNCHANGED <<pq, watchVars>>
    BY <2>1 DEF AtMostTwoCopies, watchVars
  <2>2. CASE Start
    <3>1. \A k \in Keys, u \in Times : pq'[k][u] <= Spot(kv[k].time, u)
      BY <2>2 DEF Start, Spot
    <3>2. \A k \in Keys : kv[k].time \in Times
      BY DEF TypeOK, Entries
    <3>3. \A k \in Keys : OneCopy(pq', k) /\ pq' \in Queues
      BY <3>1, <3>2 DEF OneCopy, TypeOK
    <3>. QED
      BY <3>3, OneIsTwo DEF AtMostTwoCopies
  <2>3. CASE Crash \/ PopPanics \/ TriggerFails
    BY <2>3, DownAtMostTwo DEF Crash, PopPanics, TriggerFails
  <2>4. CASE WatchStart
    BY <2>4 DEF WatchStart, queueVars, AtMostTwoCopies
  <2>5. CASE WatchRemove
    <3>1. Head(inbox).key \in Keys /\ pq' \in RemoveOne(pq, Head(inbox).key)
      BY <2>5, HeadType DEF WatchRemove
    <3>2. wpc # "push"
      BY <2>5 DEF WatchRemove
    <3>3. \A k \in Keys : TwoCopies(pq, k)
      BY <3>2 DEF AtMostTwoCopies
    <3>4. OneCopy(pq', Head(inbox).key)
      BY <2>0, <3>1, <3>3, RemoveCopies
    <3>5. pq' \in Queues
      BY DEF TypeOK
    <3>6. \A k \in Keys : TwoCopies(pq', k)
      BY <2>0, <3>1, <3>3, <3>5, RemoveCopies, FewerCopies
    <3>7. UNCHANGED watchVars \/ update' = Head(inbox)
      BY <2>5 DEF WatchRemove
    <3>. QED
      BY <3>2, <3>4, <3>6, <3>7 DEF AtMostTwoCopies, watchVars
  <2>6. CASE WatchPush
    <3>1. /\ update.key \in Keys /\ update.time \in Times
          /\ pq' = With(pq, update.key, update.time) /\ wpc = "push" /\ wpc' = "recv"
      BY <2>6 DEF WatchPush, Push, TypeOK, Updates
    <3>2. TwoCopies(pq', update.key)
      BY <2>0, <3>1, PushCopies DEF AtMostTwoCopies
    <3>3. pq' \in Queues
      BY DEF TypeOK
    <3>4. ASSUME NEW k \in Keys, k # update.key PROVE TwoCopies(pq', k)
      <4>1. \A u \in Times : pq'[k][u] = pq[k][u]
        BY <2>0, <3>1, <3>4, PushCopies
      <4>2. TwoCopies(pq, k)
        BY <3>4 DEF AtMostTwoCopies
      <4>. QED
        BY <2>0, <3>3, <4>1, <4>2, FewerCopies
    <3>. QED
      BY <3>1, <3>2, <3>4 DEF AtMostTwoCopies
  <2>7. CASE Pop
    <3>1. PICK i \in Item : Holds(pq, i.key, i.time) /\ pq' = Without(pq, i.key, i.time)
      BY <2>7 DEF Pop, Earliest
    <3>2. i.key \in Keys /\ i.time \in Times
      BY DEF Item
    <3>3. \A k \in Keys, u \in Times : pq'[k][u] <= pq[k][u]
      BY <2>0, <3>1, <3>2, WithoutCounts
    <3>. QED
      BY <2>7, <3>3, FewerAtMostTwo DEF Pop
  <2>8. ASSUME NEW h \in Handlers, CancelPut(h)
        PROVE  AtMostTwoCopies'
    <3>1. req[h].key \in Keys /\ pq' \in RemoveOne(pq, req[h].key)
      BY <2>8, RequestType DEF CancelPut
    <3>2. \A k \in Keys, u \in Times : pq'[k][u] <= pq[k][u]
      BY <2>0, <3>1, RemoveCopies
    <3>. QED
      BY <2>8, <3>2, FewerAtMostTwo DEF CancelPut
  <2>9. ASSUME NEW h \in Handlers, SnoozePut(h)
        PROVE  AtMostTwoCopies'
    <3>1. CASE UNCHANGED queueVars
      BY <2>1, <2>9, <3>1 DEF SnoozePut, queueVars
    <3>2. ASSUME NEW q \in RemoveOne(pq, req[h].key), Push(q, req[h].key, req[h].time)
          PROVE  AtMostTwoCopies'
      <4>1. req[h].key \in Keys /\ req[h].time \in Times
        BY <2>9, RequestType DEF SnoozePut
      <4>2. /\ q \in Queues /\ pq' \in Queues
            /\ pq' = With(q, req[h].key, req[h].time) /\ UNCHANGED watchVars
        BY <2>0, <2>9, <3>2, <4>1, RemoveOneCounts DEF SnoozePut, Push, TypeOK
      <4>3. /\ OneCopy(pq, req[h].key) => OneCopy(pq', req[h].key)
            /\ TwoCopies(pq, req[h].key) => TwoCopies(pq', req[h].key)
        BY <2>0, <4>1, <4>2, RemoveCopies, PushCopies
      <4>4. ASSUME NEW k \in Keys, k # req[h].key
            PROVE  /\ OneCopy(pq, k) => OneCopy(pq', k)
                   /\ TwoCopies(pq, k) => TwoCopies(pq', k)
        <5>1. \A u \in Times : pq'[k][u] = q[k][u]
          BY <4>1, <4>2, <4>4, PushCopies
        <5>2. \A u \in Times : q[k][u] <= pq[k][u]
          BY <2>0, <4>1, RemoveCopies
        <5>3. \A u \in Times : pq'[k][u] <= pq[k][u]
          BY <5>1, <5>2
        <5>. QED
          BY <2>0, <4>2, <5>3, FewerCopies
      <4>. QED
        BY <4>2, <4>3, <4>4 DEF AtMostTwoCopies, watchVars
    <3>. QED
      BY <2>9, <3>1, <3>2 DEF SnoozePut
  <2>10. CASE Tick \/ Deliver \/ Peek \/ Wake \/ MarkGet \/ MarkPut \/ Trigger
    BY <2>1, <2>10 DEF Tick, Deliver, Peek, Wake, MarkGet, MarkPut, Trigger, queueVars
  <2>11. ASSUME NEW h \in Handlers, SetGet(h) \/ SetPut(h) \/ Request(h)
         PROVE  AtMostTwoCopies'
    BY <2>1, <2>11 DEF SetGet, SetPut, Request, SetRequest, CancelGet, SnoozeGet, queueVars
  <2>12. CASE UNCHANGED vars
    BY <2>1, <2>12 DEF vars, queueVars
  <2>. QED
    BY <2>2, <2>3, <2>4, <2>5, <2>6, <2>7, <2>8, <2>9, <2>10, <2>11, <2>12
       DEF Next, Processor, Watcher, Proceed
<1>. QED
  BY <1>1, <1>2, TypeCorrect, PTL DEF Spec

-----------------------------------------------------------------------------
(* The processor does not oversleep.                                         *)

(* Whatever is pushed while the processor sleeps or polls leaves a token in  *)
(* the channel, and whatever is removed only makes the wait too short.       *)
THEOREM SleepIsSafe == Spec => []NoOversleep
<1>1. Init => NoOversleep
  BY DEF Init, NoOversleep
<1>2. TypeOK /\ NoOversleep /\ [Next]_vars => NoOversleep'
  <2> SUFFICES ASSUME TypeOK, NoOversleep, [Next]_vars PROVE NoOversleep'
    OBVIOUS
  <2> USE DEF storeVars, linkVars, queueVars, procVars, watchVars, handlerVars,
              envVars, historyVars
  <2>a. ASSUME UNCHANGED procVars, signal' = signal \/ signal' = TRUE,
               ~signal' =>
                 \A k \in Keys, t \in Times : Holds(pq', k, t) => Holds(pq, k, t)
        PROVE  NoOversleep'
    BY <2>a DEF NoOversleep, IsEmpty
  <2>b. ASSUME ppc' \notin {"sleep", "poll"}
        PROVE  NoOversleep'
    BY <2>b DEF NoOversleep
  <2>1. CASE Start \/ Down
    <3>1. CASE Down
      BY <3>1, <2>b DEF Down
    <3>2. CASE Start
      <4>1. CASE signal'
        BY <4>1 DEF NoOversleep
      <4>2. CASE ~signal'
        <5>1. \A k \in Keys, t \in Times : pq'[k][t] = 0
          <6>1. PICK loaded \in SUBSET Keys :
                  /\ signal' = (loaded # {})
                  /\ pq' = [k \in Keys |-> [t \in Times |->
                             IF k \in loaded /\ kv[k].time = t THEN 1 ELSE 0]]
            BY <3>2 DEF Start
          <6>2. loaded = {}
            BY <4>2, <6>1
          <6>. QED
            BY <6>1, <6>2
        <5>. QED
          BY <5>1 DEF NoOversleep, IsEmpty, Holds
      <4>. QED
        BY <4>1, <4>2
    <3>. QED
      BY <2>1, <3>1, <3>2
  <2>2. CASE Tick \/ Deliver \/ WatchStart
    BY <2>2, <2>a DEF Tick, Deliver, WatchStart
  <2>3. CASE WatchRemove
    <3>1. Head(inbox).key \in Keys
      BY <2>3, HeadType DEF WatchRemove
    <3>. QED
      BY <2>3, <3>1, <2>a, RemoveOneCounts DEF WatchRemove, TypeOK
  <2>4. CASE WatchPush
    BY <2>4, <2>a DEF WatchPush, Push, NoOversleep
  <2>5. CASE Peek
    BY <2>5 DEF Peek, Earliest, NoOversleep
  <2>6. CASE Wake \/ Pop \/ MarkGet \/ MarkPut \/ Trigger
    BY <2>6, <2>b DEF Wake, Pop, MarkGet, MarkPut, Trigger
  <2>7. ASSUME NEW h \in Handlers, NEW k \in Keys, NEW t, NEW d,
               SetRequest(h, k, t) \/ CancelGet(h, k) \/ SnoozeGet(h, k, d)
        PROVE  NoOversleep'
    BY <2>7, <2>a DEF SetRequest, CancelGet, SnoozeGet
  <2>8. ASSUME NEW h \in Handlers, SetGet(h) \/ SetPut(h)
        PROVE  NoOversleep'
    BY <2>8, <2>a DEF SetGet, SetPut
  <2>9. ASSUME NEW h \in Handlers, CancelPut(h)
        PROVE  NoOversleep'
    <3>1. req[h].key \in Keys
      BY <2>9, RequestType DEF CancelPut
    <3>. QED
      BY <2>9, <3>1, <2>a, RemoveOneCounts DEF CancelPut, TypeOK
  <2>10. ASSUME NEW h \in Handlers, SnoozePut(h)
         PROVE  NoOversleep'
    BY <2>10, <2>a DEF SnoozePut, Push
  <2>11. CASE UNCHANGED vars
    BY <2>11, <2>a DEF vars
  <2>. QED
    BY <2>1, <2>2, <2>3, <2>4, <2>5, <2>6, <2>7, <2>8, <2>9, <2>10, <2>11
    DEF Next, Crash, Processor, PopPanics, TriggerFails, Watcher, Proceed, Request
<1>. QED
  BY <1>1, <1>2, TypeCorrect, PTL DEF Spec

-----------------------------------------------------------------------------
(* The order of updates.                                                     *)

Ordered == RevisionsInOrder /\ StreamInOrder

(* A write gives its key a revision the watcher has not been sent.           *)
LEMMA StoreOrdered ==
  ASSUME TypeOK, Ordered, NEW k \in Keys, NEW s \in Statuses, NEW t \in Times,
         NEW of \in Nat, Store(k, s, t, of), UNCHANGED <<linkVars, watchVars, alive>>
  PROVE  /\ Ordered'
         /\ k \in Unsent'
         /\ \A j \in Keys : j # k => kv'[j] = kv[j] /\ (j \in Unsent' <=> j \in Unsent)
  <1> USE DEF linkVars, watchVars
  <1>1. /\ kv' \in [Keys -> Entries] /\ seq' = seq + 1
        /\ kv'[k].rev = seq + 1 /\ \A j \in Keys : j # k => kv'[j] = kv[j]
    <2>1. /\ kv' \in [Keys -> Entries] /\ seq' = seq + 1
          /\ kv'[k] = [status |-> s, time |-> t, of |-> of, rev |-> seq + 1]
          /\ \A j \in Keys : j # k => kv'[j] = kv[j]
      BY StoreEntry DEF TypeOK
    <2>. QED
      BY <2>1
  <1>2. \A j \in Keys : kv[j].rev \in Nat /\ kv[j].rev <= seq
    BY DEF TypeOK, Entries, Ordered, RevisionsInOrder
  <1>3. seq \in Nat /\ sentSeq \in Nat /\ sentSeq <= seq
    BY DEF TypeOK, Ordered, RevisionsInOrder
  <1>4. /\ k \in Unsent'
        /\ \A j \in Keys : j # k => (j \in Unsent' <=> j \in Unsent)
    BY <1>1, <1>3 DEF Unsent
  <1>5. RevisionsInOrder'
    BY <1>1, <1>2, <1>3 DEF Ordered, RevisionsInOrder
  <1>6. ASSUME NEW u \in Updates, NEW n \in Nat, UpToDate(u, n)
        PROVE  UpToDate(u, n)'
    <2>1. u.key \in Keys /\ u.rev \in Nat
      BY DEF Updates
    <2>2. CASE u.key = k
      <3>1. u.rev <= seq
        BY <1>2, <1>3, <1>6, <2>1 DEF UpToDate
      <3>. QED
        BY <1>1, <1>3, <1>4, <2>1, <2>2, <3>1 DEF UpToDate, Behind
    <2>3. CASE u.key # k
      BY <1>1, <1>4, <1>6, <2>1, <2>3 DEF UpToDate, Behind
    <2>. QED
      BY <2>2, <2>3
  <1>7. ASSUME NEW i \in 1 .. Len(inbox) PROVE UpToDate(inbox[i], i + 1)'
    <2>1. PICK u \in Updates : u = inbox[i]
      BY DEF TypeOK
    <2>2. i + 1 \in Nat /\ UpToDate(u, i + 1)
      BY <2>1 DEF Ordered, StreamInOrder
    <2>. QED
      BY <1>6, <2>1, <2>2
  <1>8. StreamInOrder'
    <2>1. ASSUME wpc = "push" PROVE UpToDate(update, 1)'
      <3>1. PICK u \in Updates : u = update
        BY <2>1 DEF TypeOK
      <3>2. 1 \in Nat /\ UpToDate(u, 1)
        BY <2>1, <3>1 DEF Ordered, StreamInOrder
      <3>. QED
        BY <1>6, <3>1, <3>2
    <2>. QED
      BY <1>7, <2>1 DEF Ordered, StreamInOrder
  <1>. QED
    BY <1>1, <1>4, <1>5, <1>8 DEF Ordered

(* Nothing but a write, a delivery, the watcher and a crash touches it.      *)
LEMMA FrameOrdered ==
  ASSUME Ordered, UNCHANGED <<storeVars, linkVars, watchVars, alive>>
  PROVE  Ordered'
  BY DEF storeVars, linkVars, watchVars, Ordered, RevisionsInOrder, StreamInOrder,
         UpToDate, Behind, Unsent

LEMMA DownOrdered ==
  ASSUME TypeOK, Ordered, Down, UNCHANGED storeVars
  PROVE  Ordered'
  <1>1. RevisionsInOrder'
    BY DEF Down, Ordered, RevisionsInOrder, storeVars, TypeOK
  <1>2. StreamInOrder'
    BY DEF Down, StreamInOrder
  <1>. QED
    BY <1>1, <1>2 DEF Ordered

LEMMA DeliverOrdered ==
  ASSUME TypeOK, Ordered, Deliver
  PROVE  /\ Ordered'
         /\ \A k \in Keys : k \in Unsent =>
              \/ k \in Unsent'
              \/ \E i \in 1 .. Len(inbox') :
                   inbox'[i].key = k /\ inbox'[i].rev = kv'[k].rev
  <1> USE DEF Deliver, storeVars, linkVars, watchVars, envVars
  <1>1. PICK k \in Keys : Transmit(k)
    OBVIOUS
  <1> DEFINE new == [key |-> k, status |-> kv[k].status, time |-> kv[k].time,
                     rev |-> kv[k].rev]
  <1>2. \A j \in Keys : kv[j].rev \in Nat
    BY DEF TypeOK, Entries
  <1>3. /\ inbox' = Append(inbox, new) /\ sentSeq' = kv[k].rev /\ kv' = kv /\ seq' = seq
        /\ kv[k].rev > sentSeq /\ k \in Unsent
        /\ \A j \in Unsent : kv[k].rev <= kv[j].rev
    BY <1>1 DEF Transmit, Unsent
  <1>4. new \in Updates
    BY DEF TypeOK, Entries, Updates
  <1>5. /\ inbox \in Seq(Updates) /\ Len(inbox) \in Nat /\ Len(inbox') = Len(inbox) + 1
        /\ \A i \in 1 .. Len(inbox) : inbox'[i] = inbox[i]
        /\ inbox'[Len(inbox) + 1] = new
    BY <1>3, <1>4 DEF TypeOK
  <1> HIDE DEF new
  <1>6. sentSeq \in Nat
    BY DEF TypeOK
  <1>7. \A j \in Unsent : j = k \/ j \in Unsent'
    <2> SUFFICES ASSUME NEW j \in Unsent, j # k PROVE j \in Unsent'
      OBVIOUS
    <2>1. j \in Keys /\ kv[j].rev > sentSeq
      BY DEF Unsent
    <2>2. kv[j].rev # kv[k].rev
      BY <1>2, <1>6, <2>1 DEF Ordered, RevisionsInOrder
    <2>3. kv[j].rev > kv[k].rev
      BY <1>2, <1>3, <2>1, <2>2
    <2>. QED
      BY <1>3, <2>1, <2>3 DEF Unsent
  <1>8. new.key = k /\ new.rev = kv[k].rev
    BY DEF new
  <1>9. RevisionsInOrder'
    BY <1>2, <1>3 DEF Ordered, RevisionsInOrder
  <1>10. ASSUME NEW u \in Updates, NEW n \in 1 .. Len(inbox) + 1, UpToDate(u, n)
         PROVE  UpToDate(u, n)'
    <2>a. u.key \in Keys /\ u.rev \in Nat
      BY DEF Updates
    <2>1. CASE u.rev = kv[u.key].rev
      BY <1>2, <1>3, <1>10, <2>a, <2>1 DEF UpToDate
    <2>2. CASE u.rev # kv[u.key].rev /\ u.key \in Unsent
      <3>1. CASE u.key = k
        <4>1. Len(inbox) + 1 \in n .. Len(inbox')
          BY <1>5, <1>10
        <4>2. inbox'[Len(inbox) + 1].key = u.key
              /\ inbox'[Len(inbox) + 1].rev = kv'[u.key].rev
          BY <1>3, <1>5, <1>8, <3>1
        <4>. QED
          BY <1>3, <1>10, <2>2, <4>1, <4>2 DEF UpToDate, Behind
      <3>2. CASE u.key # k
        BY <1>3, <1>7, <1>10, <2>2, <3>2 DEF UpToDate, Behind
      <3>. QED
        BY <3>1, <3>2
    <2>3. CASE u.rev # kv[u.key].rev /\ u.key \notin Unsent
      <3>1. PICK j \in n .. Len(inbox) :
              inbox[j].key = u.key /\ inbox[j].rev = kv[u.key].rev
        BY <1>10, <2>3 DEF UpToDate, Behind
      <3>2. j \in 1 .. Len(inbox) /\ j \in n .. Len(inbox')
        BY <1>5, <3>1
      <3>. QED
        BY <1>3, <1>5, <1>10, <2>3, <3>1, <3>2 DEF UpToDate, Behind
    <2>. QED
      BY <2>1, <2>2, <2>3
  <1>11. ASSUME NEW i \in 1 .. Len(inbox') PROVE UpToDate(inbox[i], i + 1)'
    <2>1. CASE i \in 1 .. Len(inbox)
      <3>1. PICK u \in Updates : u = inbox[i]
        BY <1>5, <2>1
      <3>2. i + 1 \in 1 .. Len(inbox) + 1 /\ UpToDate(u, i + 1)
        BY <1>5, <2>1, <3>1 DEF Ordered, StreamInOrder
      <3>3. UpToDate(u, i + 1)'
        BY <3>2, <1>10
      <3>. QED
        BY <1>5, <2>1, <3>1, <3>3
    <2>2. CASE i = Len(inbox) + 1
      BY <1>3, <1>5, <2>2 DEF UpToDate, new
    <2>. QED
      BY <1>5, <2>1, <2>2
  <1>12. wpc' = wpc /\ update' = update /\ alive' = alive /\ wpc \in {"recv", "push"}
    OBVIOUS
  <1>13. ASSUME wpc = "push" PROVE UpToDate(update, 1)'
    <2>1. PICK u \in Updates : u = update
      BY <1>13 DEF TypeOK
    <2>2. 1 \in 1 .. Len(inbox) + 1 /\ UpToDate(u, 1)
      BY <1>5, <1>13, <2>1 DEF Ordered, StreamInOrder
    <2>3. UpToDate(u, 1)'
      BY <2>2, <1>10
    <2>. QED
      BY <1>12, <2>1, <2>3
  <1>15. StreamInOrder'
    BY <1>11, <1>12, <1>13 DEF Ordered, StreamInOrder, TypeOK
  <1>14. ASSUME NEW j \in Keys, j \in Unsent, j \notin Unsent'
         PROVE  \E i \in 1 .. Len(inbox') :
                  inbox'[i].key = j /\ inbox'[i].rev = kv'[j].rev
    BY <1>3, <1>5, <1>7, <1>8, <1>14
  <1>. QED
    BY <1>9, <1>14, <1>15 DEF Ordered

(* Receiving the head of the stream: what is overtaken has its successor in  *)
(* the rest.  The received value itself is in hand if it is pending.         *)
LEMMA WatchRemoveOrdered ==
  ASSUME TypeOK, Ordered, WatchRemove
  PROVE  /\ Ordered'
         /\ \E u \in Updates : u = Head(inbox) /\ UpToDate(u, 1)'
         /\ \A i \in 2 .. Len(inbox) :
              i - 1 \in 1 .. Len(inbox') /\ inbox'[i - 1] = inbox[i]
  <1> USE DEF WatchRemove, storeVars, linkVars, watchVars, envVars
  <1>1. /\ kv' = kv /\ seq' = seq /\ sentSeq' = sentSeq /\ alive' = alive
        /\ inbox' = Tail(inbox) /\ wpc = "recv"
    OBVIOUS
  <1>2. /\ Head(inbox) \in Updates /\ Head(inbox) = inbox[1]
        /\ Len(inbox) \in Nat /\ 1 \in 1 .. Len(inbox)
        /\ Len(inbox') = Len(inbox) - 1
        /\ \A i \in 1 .. Len(inbox') : inbox'[i] = inbox[i + 1]
    BY <1>1, HeadType, HeadTailProperties DEF TypeOK
  <1>3. \A i \in 2 .. Len(inbox) :
          i - 1 \in 1 .. Len(inbox') /\ inbox'[i - 1] = inbox[i]
    BY <1>2
  <1>4. RevisionsInOrder'
    BY <1>1 DEF Ordered, RevisionsInOrder
  <1>5. ASSUME NEW u \in Updates, NEW n \in 2 .. Len(inbox) + 1, UpToDate(u, n)
        PROVE  UpToDate(u, n - 1)'
    <2>1. CASE Behind(u, n)
      <3>1. CASE u.key \in Unsent
        BY <1>1, <1>5, <2>1, <3>1 DEF UpToDate, Behind, Unsent
      <3>2. CASE u.key \notin Unsent
        <4>1. PICK j \in n .. Len(inbox) :
                inbox[j].key = u.key /\ inbox[j].rev = kv[u.key].rev
          BY <2>1, <3>2 DEF Behind
        <4>2. j - 1 \in n - 1 .. Len(inbox') /\ inbox'[j - 1] = inbox[j]
          BY <1>2, <1>3, <4>1
        <4>3. Behind(u, n - 1)'
          BY <1>1, <4>1, <4>2 DEF Behind
        <4>. QED
          BY <1>1, <1>5, <4>3 DEF UpToDate
      <3>. QED
        BY <3>1, <3>2
    <2>2. CASE ~Behind(u, n)
      BY <1>1, <1>5, <2>2 DEF UpToDate
    <2>. QED
      BY <2>1, <2>2
  <1>6. PICK u \in Updates : u = Head(inbox)
    BY <1>2
  <1>7. UpToDate(u, 1)'
    <2>1. 2 \in 2 .. Len(inbox) + 1 /\ UpToDate(u, 2) /\ 2 - 1 = 1
      BY <1>2, <1>6 DEF Ordered, StreamInOrder
    <2>. QED
      BY <2>1, <1>5
  <1>8. ASSUME NEW i \in 1 .. Len(inbox') PROVE UpToDate(inbox[i], i + 1)'
    <2>1. /\ i + 1 \in 1 .. Len(inbox) /\ inbox[i + 1] \in Updates
          /\ inbox'[i] = inbox[i + 1]
          /\ i + 2 \in 2 .. Len(inbox) + 1 /\ (i + 2) - 1 = i + 1
      BY <1>2 DEF TypeOK
    <2>2. PICK v \in Updates : v = inbox[i + 1]
      BY <2>1
    <2>3. UpToDate(v, i + 2)
      <3>1. UpToDate(inbox[i + 1], (i + 1) + 1)
        BY <2>1 DEF Ordered, StreamInOrder
      <3>. QED
        BY <2>1, <2>2, <3>1
    <2>4. UpToDate(v, i + 1)'
      BY <2>1, <2>3, <1>5
    <2>. QED
      BY <2>1, <2>2, <2>4
  <1>9. ASSUME wpc' = "push" PROVE UpToDate(update, 1)'
    <2>1. update' = u
      BY <1>1, <1>6, <1>9
    <2>. QED
      BY <2>1, <1>7
  <1>10. StreamInOrder'
    BY <1>1, <1>8, <1>9 DEF Ordered, StreamInOrder
  <1>. QED
    BY <1>3, <1>4, <1>6, <1>7, <1>10 DEF Ordered

(* What the watcher is going to act on is current or followed by what is.    *)
THEOREM UpdatesInOrder == Spec => []Ordered
<1>1. Init => Ordered
  BY DEF Init, Ordered, RevisionsInOrder, StreamInOrder, NoEntry
<1>2. TypeOK /\ Ordered /\ [Next]_vars => Ordered'
  <2> SUFFICES ASSUME TypeOK, Ordered, [Next]_vars PROVE Ordered'
    OBVIOUS
  <2> USE DEF storeVars, linkVars, queueVars, procVars, watchVars, handlerVars,
              envVars, historyVars
  <2>1. CASE Start
    <3>1. UNCHANGED <<kv, seq, sentSeq, inbox, wpc, update>> /\ alive'
      BY <2>1 DEF Start
    <3>. QED
      BY <3>1 DEF Ordered, RevisionsInOrder, StreamInOrder, UpToDate, Behind, Unsent
  <2>2. CASE Crash \/ PopPanics \/ TriggerFails
    BY <2>2, DownOrdered DEF Crash, PopPanics, TriggerFails
  <2>3. CASE Deliver
    BY <2>3, DeliverOrdered
  <2>4. CASE WatchStart
    <3>1. UNCHANGED <<kv, seq, sentSeq, inbox, update, alive>> /\ wpc = "start"
          /\ wpc' \in {"recv", "failed"} /\ alive
      BY <2>4 DEF WatchStart
    <3>. QED
      BY <3>1 DEF Ordered, RevisionsInOrder, StreamInOrder, UpToDate, Behind, Unsent
  <2>5. CASE WatchRemove
    BY <2>5, WatchRemoveOrdered
  <2>6. CASE WatchPush
    <3>1. UNCHANGED <<kv, seq, sentSeq, inbox, alive>> /\ wpc = "push" /\ wpc' = "recv"
      BY <2>6 DEF WatchPush
    <3>. QED
      BY <3>1 DEF Ordered, RevisionsInOrder, StreamInOrder, UpToDate, Behind, Unsent
  <2>7. CASE Tick \/ Peek \/ Wake \/ Pop \/ MarkGet \/ Trigger
    BY <2>7, FrameOrdered DEF Tick, Peek, Wake, Pop, MarkGet, Trigger
  <2>8. CASE MarkPut
    <3>1. UNCHANGED <<linkVars, watchVars, alive>>
      BY <2>8 DEF MarkPut
    <3>2. CASE Store(peeked.key, "completed", read.time, read.rev)
      <4>1. peeked.key \in Keys /\ read.time \in Times /\ read.rev \in Nat
        BY <2>8, EventType DEF MarkPut, TypeOK, Entries
      <4>. QED
        BY <3>1, <3>2, <4>1, StoreOrdered DEF Statuses
    <3>3. CASE UNCHANGED storeVars
      BY <3>1, <3>3, FrameOrdered
    <3>. QED
      BY <2>8, <3>2, <3>3 DEF MarkPut
  <2>9. ASSUME NEW h \in Handlers, NEW k, NEW t, NEW d,
               \/ SetRequest(h, k, t) \/ CancelGet(h, k) \/ SnoozeGet(h, k, d)
               \/ SetGet(h)
        PROVE  Ordered'
    BY <2>9, FrameOrdered DEF SetRequest, CancelGet, SnoozeGet, SetGet
  <2>10. ASSUME NEW h \in Handlers, SetPut(h) PROVE Ordered'
    <3>1. UNCHANGED <<linkVars, watchVars, alive>>
      BY <2>10 DEF SetPut
    <3>2. CASE Store(req[h].key, "pending", req[h].time, 0)
      BY <2>10, <3>1, <3>2, RequestType, StoreOrdered DEF SetPut, Statuses
    <3>3. CASE UNCHANGED storeVars
      BY <3>1, <3>3, FrameOrdered
    <3>. QED
      BY <2>10, <3>2, <3>3 DEF SetPut
  <2>11. ASSUME NEW h \in Handlers, CancelPut(h) PROVE Ordered'
    <3>1. UNCHANGED <<linkVars, watchVars, alive>>
      BY <2>11 DEF CancelPut
    <3>2. CASE Store(req[h].key, "canceled", req[h].time, req[h].of)
      BY <2>11, <3>1, <3>2, RequestType, StoreOrdered DEF CancelPut, Statuses
    <3>3. CASE UNCHANGED storeVars
      BY <3>1, <3>3, FrameOrdered
    <3>. QED
      BY <2>11, <3>2, <3>3 DEF CancelPut
  <2>12. ASSUME NEW h \in Handlers, SnoozePut(h) PROVE Ordered'
    <3>1. UNCHANGED <<linkVars, watchVars, alive>>
      BY <2>12 DEF SnoozePut
    <3>2. CASE Store(req[h].key, req[h].status, req[h].time, req[h].of)
      BY <2>12, <3>1, <3>2, RequestType, StoreOrdered DEF SnoozePut
    <3>3. CASE UNCHANGED storeVars
      BY <3>1, <3>3, FrameOrdered
    <3>. QED
      BY <2>12, <3>2, <3>3 DEF SnoozePut
  <2>13. CASE UNCHANGED vars
    BY <2>13, FrameOrdered DEF vars
  <2>. QED
    BY <2>1, <2>2, <2>3, <2>4, <2>5, <2>6, <2>7, <2>8, <2>9, <2>10, <2>11, <2>12, <2>13
    DEF Next, Processor, Watcher, Proceed, Request
<1>. QED
  BY <1>1, <1>2, TypeCorrect, PTL DEF Spec

-----------------------------------------------------------------------------
(* No pending reminder is forgotten.                                         *)

(* Nothing that leaves the bucket, the stream and the watcher alone, keeps   *)
(* what is lost, and keeps the queued copies of a key, disturbs that key.    *)
LEMMA StillTracked ==
  ASSUME NEW k \in Keys, Tracked(k) \/ k \in lost,
         kv'[k] = kv[k], k \in Unsent => k \in Unsent',
         UNCHANGED <<inbox, watchVars>>,
         \A t \in Times : Holds(pq, k, t) => Holds(pq', k, t),
         kv[k].time \in Times,
         ppc \in {"get", "put"} /\ peeked.key = k
           => ppc' \in {"get", "put"} /\ peeked'.key = k,
         k \in lost => k \in lost'
  PROVE  Tracked(k)' \/ k \in lost'
  BY DEF Tracked, watchVars

(* The reminder scheduler forgets no pending reminder except where "lost"    *)
(* says so: stale updates, snoozes and cancels racing with the watcher, and  *)
(* restarts with the initial updates included.                               *)
THEOREM NothingForgotten == Spec => []TrackedOrLost
<1>1. Init => TrackedOrLost
  BY DEF Init, TrackedOrLost, NoEntry
<1>2. TypeOK /\ Ordered /\ TrackedOrLost /\ [Next]_vars => TrackedOrLost'
  <2> SUFFICES ASSUME TypeOK, Ordered, TrackedOrLost, [Next]_vars, wpc' # "failed",
                      NEW k \in Keys, kv'[k].status = "pending"
               PROVE  Tracked(k)' \/ k \in lost'
    BY DEF TrackedOrLost
  <2> USE DEF storeVars, linkVars, queueVars, procVars, watchVars, handlerVars,
              envVars, historyVars
  <2>t. kv[k].rev \in Nat /\ kv[k].time \in Times /\ kv[k].status \in Statuses
    BY DEF TypeOK, Entries
  <2>p. kv[k].status = "pending" /\ wpc # "failed" => Tracked(k) \/ k \in lost
    BY DEF TrackedOrLost
  <2>a. ASSUME UNCHANGED <<kv, linkVars, watchVars>>, lost \subseteq lost',
               \A t \in Times : Holds(pq, k, t) => Holds(pq', k, t),
               ppc \in {"get", "put"} /\ peeked.key = k
                 => ppc' \in {"get", "put"} /\ peeked'.key = k
        PROVE  Tracked(k)' \/ k \in lost'
    BY <2>a, <2>t, <2>p, StillTracked DEF Unsent
  <2>b. ASSUME NEW j \in Keys, NEW s \in Statuses, NEW t \in Times, NEW of \in Nat,
               Store(j, s, t, of), UNCHANGED <<linkVars, watchVars, alive>>,
               j = k \/ \A u \in Times : Holds(pq, k, u) => Holds(pq', k, u),
               j = k \/ (ppc \in {"get", "put"} /\ peeked.key = k
                           => ppc' \in {"get", "put"} /\ peeked'.key = k)
        PROVE  Tracked(k)' \/ k \in lost'
    <3>1. /\ k = j => k \in Unsent'
          /\ k # j => kv'[k] = kv[k] /\ (k \in Unsent => k \in Unsent')
      BY <2>b, StoreOrdered
    <3>2. lost' = lost \ {j}
      BY <2>b DEF Store
    <3>3. CASE k = j
      BY <3>1, <3>3 DEF Tracked
    <3>4. CASE k # j
      BY <2>b, <2>t, <2>p, <3>1, <3>2, <3>4, StillTracked
    <3>. QED
      BY <3>3, <3>4
  <2>c. ASSUME sentSeq' = 0, UNCHANGED kv
        PROVE  Tracked(k)' \/ k \in lost'
    <3>1. kv'[k].rev > 0
      BY <2>c, <2>t DEF Ordered, RevisionsInOrder
    <3>. QED
      BY <2>c, <3>1 DEF Tracked, Unsent
  <2>1. CASE Start
    BY <2>1, <2>c DEF Start, Ordered, StreamInOrder
  <2>2. CASE Down /\ UNCHANGED storeVars
    BY <2>2, <2>c DEF Down
  <2>3. CASE WatchStart
    BY <2>3, <2>c DEF WatchStart, Ordered, StreamInOrder
  <2>4. CASE Deliver
    <3>1. /\ UNCHANGED <<kv, pq, ppc, peeked, wpc, update, lost>>
          /\ \A i \in 1 .. Len(inbox) :
               i \in 1 .. Len(inbox') /\ inbox'[i] = inbox[i]
      <4>1. PICK j \in Keys : Transmit(j)
        BY <2>4 DEF Deliver
      <4>2. [key |-> j, status |-> kv[j].status, time |-> kv[j].time,
             rev |-> kv[j].rev] \in Updates
        <5>1. kv[j] \in Entries
          BY DEF TypeOK
        <5>. QED
          BY <5>1 DEF Entries, Updates
      <4>. QED
        BY <2>4, <4>1, <4>2 DEF Deliver, Transmit, TypeOK
    <3>2. Tracked(k) \/ k \in lost
      BY <2>p, <2>4, <3>1
    <3>3. CASE k \in Unsent
      BY <2>4, <3>1, <3>3, DeliverOrdered DEF Tracked
    <3>4. CASE k \notin Unsent
      BY <3>1, <3>2, <3>4 DEF Tracked
    <3>. QED
      BY <3>3, <3>4
  <2>5. CASE WatchRemove
    <3>1. /\ UNCHANGED <<kv, sentSeq, ppc, peeked, lost>> /\ wpc = "recv"
          /\ inbox # <<>> /\ inbox' = Tail(inbox)
          /\ pq' \in RemoveOne(pq, Head(inbox).key)
      BY <2>5 DEF WatchRemove
    <3>2. PICK u \in Updates : u = Head(inbox) /\ UpToDate(u, 1)'
      BY <2>5, WatchRemoveOrdered
    <3>3. \A i \in 2 .. Len(inbox) :
            i - 1 \in 1 .. Len(inbox') /\ inbox'[i - 1] = inbox[i]
      BY <2>5, WatchRemoveOrdered
    <3>4. u = inbox[1] /\ Len(inbox) \in Nat /\ u.key \in Keys
      BY <3>1, <3>2, HeadTailProperties DEF TypeOK, Updates
    <3>5. CASE k = u.key
      <4>1. CASE u.rev = kv[k].rev
        <5>1. u.status = "pending"
          BY <3>1, <3>2, <3>5, <4>1, <2>t DEF UpToDate
        <5>2. wpc' = "push" /\ update' = u
          BY <2>5, <3>2, <5>1 DEF WatchRemove
        <5>. QED
          BY <3>1, <3>5, <4>1, <5>2 DEF Tracked
      <4>2. CASE u.rev # kv[k].rev
        BY <3>1, <3>2, <3>5, <4>2 DEF UpToDate, Behind, Tracked
      <4>. QED
        BY <4>1, <4>2
    <3>6. CASE k # u.key
      <4>1. \A t \in Times : Holds(pq, k, t) => Holds(pq', k, t)
        BY <3>1, <3>2, <3>4, <3>6, RemoveOneCounts DEF TypeOK
      <4>2. ASSUME NEW i \in 1 .. Len(inbox), inbox[i].key = k,
                   inbox[i].rev = kv[k].rev
            PROVE  Tracked(k)'
        <5>1. i \in 2 .. Len(inbox)
          BY <3>4, <3>6, <4>2
        <5>. QED
          BY <3>1, <3>3, <4>2, <5>1 DEF Tracked
      <4>3. Tracked(k) \/ k \in lost
        BY <2>p, <3>1
      <4>. QED
        BY <2>t, <3>1, <4>1, <4>2, <4>3 DEF Tracked, Unsent
    <3>. QED
      BY <3>5, <3>6
  <2>6. CASE WatchPush
    <3>1. /\ UNCHANGED <<kv, sentSeq, inbox, ppc, peeked, lost>>
          /\ wpc = "push" /\ pq' = With(pq, update.key, update.time)
      BY <2>6 DEF WatchPush, Push
    <3>2. update \in Updates /\ UpToDate(update, 1)
      BY <3>1 DEF TypeOK, Ordered, StreamInOrder
    <3>3. update.key \in Keys /\ update.time \in Times
      BY <3>2 DEF Updates
    <3>4. \A j \in Keys, t \in Times :
            /\ pq[j][t] \in Nat
            /\ pq'[j][t] = IF j = update.key /\ t = update.time
                           THEN pq[j][t] + 1 ELSE pq[j][t]
      <4>1. pq \in Queues
        BY DEF TypeOK
      <4>2. \A j \in Keys, t \in Times : pq[j][t] \in Nat
        BY <4>1 DEF Queues
      <4>. QED
        BY <3>1, <3>3, <4>1, <4>2, WithCounts
    <3>5. /\ \A t \in Times : Holds(pq, k, t) => Holds(pq', k, t)
          /\ Holds(pq', update.key, update.time)
      BY <3>3, <3>4 DEF Holds
    <3>6. CASE update.key = k /\ update.rev = kv[k].rev
      <4>1. update.time = kv'[k].time
        BY <2>t, <3>1, <3>2, <3>6 DEF UpToDate
      <4>. QED
        BY <3>5, <3>6, <4>1 DEF Tracked
    <3>7. CASE ~(update.key = k /\ update.rev = kv[k].rev)
      BY <2>t, <2>p, <3>1, <3>5, <3>7 DEF Tracked, Unsent
    <3>. QED
      BY <3>6, <3>7
  <2>7. CASE Pop
    <3>1. PICK i \in Item :
            /\ Holds(pq, i.key, i.time) /\ pq' = Without(pq, i.key, i.time)
            /\ lost' = IF i.key = peeked.key THEN lost ELSE lost \cup {i.key}
      BY <2>7 DEF Pop, Earliest
    <3>2. i.key \in Keys /\ i.time \in Times
      BY DEF Item
    <3>3. CASE k = i.key
      BY <2>7, <3>1, <3>3 DEF Pop, Tracked
    <3>4. CASE k # i.key
      <4>1. \A t \in Times : Holds(pq, k, t) => Holds(pq', k, t)
        BY <3>1, <3>2, <3>4, WithoutCounts DEF TypeOK, Holds
      <4>. QED
        BY <2>7, <2>a, <3>1, <4>1 DEF Pop
    <3>. QED
      BY <3>3, <3>4
  <2>8. CASE MarkGet
    <3>1. CASE ppc' = "put" /\ peeked' = peeked /\ lost' = lost
      BY <2>8, <3>1, <2>a DEF MarkGet
    <3>2. CASE lost' = lost \cup {peeked.key}
      <4>1. CASE k = peeked.key
        BY <3>2, <4>1
      <4>2. CASE k # peeked.key
        BY <2>8, <3>2, <4>2, <2>a DEF MarkGet
      <4>. QED
        BY <4>1, <4>2
    <3>. QED
      BY <2>8, <3>1, <3>2 DEF MarkGet
  <2>9. CASE MarkPut
    <3>1. UNCHANGED <<linkVars, watchVars, alive, pq>>
      BY <2>9 DEF MarkPut
    <3>2. CASE Store(peeked.key, "completed", read.time, read.rev)
      <4>1. peeked.key \in Keys /\ read.time \in Times /\ read.rev \in Nat
        BY <2>9, EventType DEF MarkPut, TypeOK, Entries
      <4>. QED
        BY <3>1, <3>2, <4>1, <2>b DEF Statuses
    <3>3. CASE UNCHANGED storeVars /\ lost' = lost \cup {peeked.key}
      <4>1. CASE k = peeked.key
        BY <3>3, <4>1
      <4>2. CASE k # peeked.key
        BY <3>1, <3>3, <4>2, <2>a
      <4>. QED
        BY <4>1, <4>2
    <3>. QED
      BY <2>9, <3>2, <3>3 DEF MarkPut
  <2>10. CASE Tick \/ Peek \/ Wake \/ Trigger
    BY <2>10, <2>a DEF Tick, Peek, Wake, Trigger
  <2>11. ASSUME NEW h \in Handlers, NEW j, NEW t, NEW d,
               \/ SetRequest(h, j, t) \/ CancelGet(h, j) \/ SnoozeGet(h, j, d)
               \/ SetGet(h)
        PROVE  Tracked(k)' \/ k \in lost'
    BY <2>11, <2>a DEF SetRequest, CancelGet, SnoozeGet, SetGet
  <2>12. ASSUME NEW h \in Handlers, SetPut(h)
         PROVE  Tracked(k)' \/ k \in lost'
    <3>1. UNCHANGED <<linkVars, watchVars, alive, pq, ppc, peeked>>
      BY <2>12 DEF SetPut
    <3>2. CASE Store(req[h].key, "pending", req[h].time, 0)
      BY <2>12, <3>1, <3>2, <2>b, RequestType DEF SetPut, Statuses
    <3>3. CASE UNCHANGED <<storeVars, lost>>
      BY <3>1, <3>3, <2>a
    <3>. QED
      BY <2>12, <3>2, <3>3 DEF SetPut
  <2>13. ASSUME NEW h \in Handlers, CancelPut(h)
         PROVE  Tracked(k)' \/ k \in lost'
    <3>1. /\ UNCHANGED <<linkVars, watchVars, alive, ppc, peeked>>
          /\ pq' \in RemoveOne(pq, req[h].key)
      BY <2>13 DEF CancelPut
    <3>2. /\ req[h].key \in Keys /\ req[h].status \in Statuses
          /\ req[h].time \in Times /\ req[h].of \in Nat
      BY <2>13, RequestType DEF CancelPut
    <3>3. k # req[h].key => \A t \in Times : Holds(pq, k, t) => Holds(pq', k, t)
      BY <3>1, <3>2, RemoveOneCounts DEF TypeOK
    <3>4. CASE Store(req[h].key, "canceled", req[h].time, req[h].of)
      BY <3>1, <3>2, <3>3, <3>4, <2>b DEF Statuses
    <3>5. CASE /\ UNCHANGED storeVars
               /\ lost' = IF pq' = pq THEN lost ELSE lost \cup {req[h].key}
      <4>1. CASE k = req[h].key /\ pq' # pq
        BY <3>5, <4>1
      <4>2. CASE k # req[h].key \/ pq' = pq
        BY <3>1, <3>3, <3>5, <4>2, <2>a
      <4>. QED
        BY <4>1, <4>2
    <3>. QED
      BY <2>13, <3>4, <3>5 DEF CancelPut
  <2>14. ASSUME NEW h \in Handlers, SnoozePut(h)
         PROVE  Tracked(k)' \/ k \in lost'
    <3>1. UNCHANGED <<linkVars, watchVars, alive, ppc, peeked>>
      BY <2>14 DEF SnoozePut
    <3>2. /\ req[h].key \in Keys /\ req[h].status \in Statuses
          /\ req[h].time \in Times /\ req[h].of \in Nat
      BY <2>14, RequestType DEF SnoozePut
    <3>3. CASE Store(req[h].key, req[h].status, req[h].time, req[h].of)
      <4>1. k # req[h].key => \A t \in Times : Holds(pq, k, t) => Holds(pq', k, t)
        <5>1. CASE UNCHANGED pq
          BY <5>1
        <5>2. CASE \E q \in RemoveOne(pq, req[h].key) : Push(q, req[h].key, req[h].time)
          <6>1. PICK q \in RemoveOne(pq, req[h].key) :
                  pq' = With(q, req[h].key, req[h].time)
            BY <5>2 DEF Push
          <6>2. /\ q \in Queues
                /\ \A t \in Times : k # req[h].key => (Holds(q, k, t) <=> Holds(pq, k, t))
            BY <3>2, RemoveOneCounts DEF TypeOK
          <6>. QED
            BY <3>2, <6>1, <6>2, WithCounts DEF Holds
        <5>. QED
          BY <2>14, <5>1, <5>2 DEF SnoozePut
      <4>. QED
        BY <3>1, <3>2, <3>3, <4>1, <2>b
    <3>4. CASE UNCHANGED <<storeVars, lost, pq>>
      BY <3>1, <3>4, <2>a
    <3>. QED
      BY <2>14, <3>3, <3>4 DEF SnoozePut
  <2>15. CASE UNCHANGED vars
    BY <2>15, <2>a DEF vars
  <2>. QED
    BY <2>1, <2>2, <2>3, <2>4, <2>5, <2>6, <2>7, <2>8, <2>9, <2>10, <2>11, <2>12,
       <2>13, <2>14, <2>15
    DEF Next, Crash, PopPanics, TriggerFails, Processor, Watcher, Proceed, Request
<1>. QED
  BY <1>1, <1>2, TypeCorrect, UpdatesInOrder, PTL DEF Spec

-----------------------------------------------------------------------------
(* No version is published twice.                                            *)

(* Why NeverTwice holds: a version published has been overtaken by the       *)
(* revision that completed it, and what the processor has read is newer than *)
(* any version of its key published so far.                                  *)
Overtaken ==
  /\ \A p \in published : p.from < kv[p.key].rev
  /\ ppc \in {"put", "trigger"} =>
       /\ read.rev <= kv[peeked.key].rev
       /\ \A p \in published : p.key = peeked.key => p.from < read.rev
  /\ ppc = "trigger" => read.rev < kv[peeked.key].rev

(* Revisions only grow.                                                      *)
LEMMA RevisionsGrow ==
  ASSUME TypeOK, Ordered, NEW k \in Keys, NEW s \in Statuses, NEW t \in Times,
         NEW of \in Nat, Store(k, s, t, of)
  PROVE  \A j \in Keys : /\ kv[j].rev \in Nat /\ kv'[j].rev \in Nat
                         /\ kv[j].rev <= kv'[j].rev
                         /\ j = k => kv[j].rev < kv'[j].rev
  <1>1. /\ seq \in Nat /\ kv'[k] = [status |-> s, time |-> t, of |-> of, rev |-> seq + 1]
        /\ \A j \in Keys : j # k => kv'[j] = kv[j]
    BY StoreEntry DEF TypeOK
  <1>2. \A j \in Keys : kv[j].rev \in Nat /\ kv[j].rev <= seq
    BY DEF TypeOK, Entries, Ordered, RevisionsInOrder
  <1>. QED
    BY <1>1, <1>2

(* Every publication is overtaken, in every reachable state.                 *)
LEMMA AlwaysOvertaken == Spec => []Overtaken
<1>1. Init => Overtaken
  BY DEF Init, Overtaken
<1>2. TypeOK /\ Ordered /\ Overtaken /\ [Next]_vars => Overtaken'
  <2> SUFFICES ASSUME TypeOK, Ordered, Overtaken, [Next]_vars PROVE Overtaken'
    OBVIOUS
  <2> USE DEF storeVars, linkVars, queueVars, procVars, watchVars, handlerVars,
              envVars, historyVars
  <2>t. /\ \A p \in published : p.key \in Keys /\ p.from \in Nat
        /\ \A k \in Keys : kv[k].rev \in Nat
        /\ read.rev \in Nat
        /\ ppc \in {"get", "put", "trigger"} => peeked.key \in Keys
    BY EventType DEF TypeOK, Entries, Events
  <2>a. ASSUME UNCHANGED <<kv, published>>,
               \/ ppc' \notin {"put", "trigger"}
               \/ UNCHANGED procVars
        PROVE  Overtaken'
    BY <2>a DEF Overtaken
  <2>b. ASSUME NEW k \in Keys, NEW s \in Statuses, NEW t \in Times, NEW of \in Nat,
               Store(k, s, t, of), UNCHANGED published,
               \/ UNCHANGED procVars
               \/ ppc' = "peek"
               \/ ppc = "put" /\ ppc' = "trigger" /\ UNCHANGED <<peeked, read>>
                    /\ k = peeked.key
        PROVE  Overtaken'
    <3>1. \A j \in Keys : /\ kv[j].rev \in Nat /\ kv'[j].rev \in Nat
                          /\ kv[j].rev <= kv'[j].rev
                          /\ j = k => kv[j].rev < kv'[j].rev
      BY <2>b, RevisionsGrow
    <3>2. \A p \in published' : p.from < kv'[p.key].rev
      BY <2>b, <2>t, <3>1 DEF Overtaken
    <3>3. ASSUME ppc' \in {"put", "trigger"}
          PROVE  /\ read'.rev <= kv'[peeked'.key].rev
                 /\ \A p \in published' : p.key = peeked'.key => p.from < read'.rev
                 /\ ppc' = "trigger" => read'.rev < kv'[peeked'.key].rev
      <4>1. UNCHANGED <<peeked, read>> /\ ppc \in {"put", "trigger"}
        BY <2>b, <3>3
      <4>2. read.rev <= kv[peeked.key].rev /\ peeked.key \in Keys
        BY <2>t, <4>1 DEF Overtaken
      <4>3. read.rev <= kv'[peeked.key].rev
        BY <2>t, <3>1, <4>2
      <4>4. ASSUME ppc' = "trigger" PROVE read.rev < kv'[peeked.key].rev
        BY <2>b, <2>t, <3>1, <4>2, <4>4 DEF Overtaken
      <4>. QED
        BY <2>b, <4>1, <4>3, <4>4 DEF Overtaken
    <3>. QED
      BY <3>2, <3>3 DEF Overtaken
  <2>1. CASE Start
    BY <2>1, <2>a DEF Start
  <2>2. CASE Crash \/ PopPanics
    BY <2>2, <2>a DEF Crash, PopPanics, Down
  <2>3. CASE Tick \/ Deliver \/ WatchStart \/ WatchRemove \/ WatchPush
    BY <2>3, <2>a DEF Tick, Deliver, Transmit, WatchStart, WatchRemove, WatchPush
  <2>4. CASE Peek \/ Wake \/ Pop
    BY <2>4, <2>a DEF Peek, Wake, Pop
  <2>5. CASE MarkGet
    <3>1. CASE ppc' = "put" /\ read' = kv[peeked.key] /\ peeked' = peeked
      BY <2>5, <2>t, <3>1 DEF MarkGet, Overtaken
    <3>2. CASE ppc' = "peek"
      BY <2>5, <3>2, <2>a DEF MarkGet
    <3>. QED
      BY <2>5, <3>1, <3>2 DEF MarkGet
  <2>6. CASE MarkPut
    <3>1. peeked.key \in Keys /\ read.time \in Times /\ read.rev \in Nat
      BY <2>6, EventType DEF MarkPut, TypeOK, Entries
    <3>2. CASE Store(peeked.key, "completed", read.time, read.rev)
      BY <2>6, <3>1, <3>2, <2>b DEF MarkPut, Statuses
    <3>3. CASE UNCHANGED storeVars /\ ppc' = "peek"
      BY <2>6, <3>3, <2>a DEF MarkPut
    <3>. QED
      BY <2>6, <3>2, <3>3 DEF MarkPut
  <2>7. CASE Trigger \/ TriggerFails
    <3>1. /\ UNCHANGED kv /\ ppc' = "peek" /\ ppc = "trigger"
          /\ published' \in {published, published \cup {Event}}
      BY <2>7 DEF Trigger, TriggerFails, Down
    <3>2. Event.key = peeked.key /\ Event.from = read.rev
      BY DEF Event
    <3>. QED
      BY <3>1, <3>2 DEF Overtaken
  <2>8. ASSUME NEW h \in Handlers, NEW k, NEW t, NEW d,
               \/ SetRequest(h, k, t) \/ CancelGet(h, k) \/ SnoozeGet(h, k, d)
               \/ SetGet(h)
        PROVE  Overtaken'
    BY <2>8, <2>a DEF SetRequest, CancelGet, SnoozeGet, SetGet
  <2>9. ASSUME NEW h \in Handlers, SetPut(h) \/ CancelPut(h) \/ SnoozePut(h)
        PROVE  Overtaken'
    <3>1. UNCHANGED procVars /\ UNCHANGED published
      BY <2>9 DEF SetPut, CancelPut, SnoozePut
    <3>2. /\ req[h].key \in Keys /\ req[h].status \in Statuses
          /\ req[h].time \in Times /\ req[h].of \in Nat
      BY <2>9, RequestType DEF SetPut, CancelPut, SnoozePut
    <3>3. \/ UNCHANGED storeVars
          \/ Store(req[h].key, "pending", req[h].time, 0)
          \/ Store(req[h].key, "canceled", req[h].time, req[h].of)
          \/ Store(req[h].key, req[h].status, req[h].time, req[h].of)
      BY <2>9 DEF SetPut, CancelPut, SnoozePut
    <3>. QED
      BY <3>1, <3>2, <3>3, <2>a, <2>b DEF Statuses
  <2>10. CASE UNCHANGED vars
    BY <2>10, <2>a DEF vars
  <2>. QED
    BY <2>1, <2>2, <2>3, <2>4, <2>5, <2>6, <2>7, <2>8, <2>9, <2>10
    DEF Next, Processor, Watcher, Proceed, Request
<1>. QED
  BY <1>1, <1>2, TypeCorrect, UpdatesInOrder, PTL DEF Spec

(* An event is published at most once for each revision of its reminder,     *)
(* across crashes, restarts and failed calls.                                *)
THEOREM PublishedOnce == Spec => []NeverTwice
<1>1. TypeOK /\ Overtaken => NeverTwice
  <2> SUFFICES ASSUME TypeOK, Overtaken, ppc = "trigger", Event \in published
               PROVE  FALSE
    BY DEF NeverTwice
  <2>1. Event.key = peeked.key /\ Event.from = read.rev
    BY DEF Event
  <2>2. read.rev \in Nat
    BY DEF TypeOK, Entries
  <2>3. read.rev < read.rev
    BY <2>1 DEF Overtaken
  <2>. QED
    BY <2>2, <2>3
<1>. QED
  BY <1>1, AlwaysOvertaken, TypeCorrect, PTL

==============================================================================
