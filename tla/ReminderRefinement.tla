-------------------------- MODULE ReminderRefinement --------------------------
(* Machine-checked: the reminder scheduler implements ReminderService, and   *)
(* two invariants of it, one of which the refinement rests on.               *)
EXTENDS ReminderSchedulerProofs

-----------------------------------------------------------------------------
(* No reminder fires before a time it was scheduled for.                     *)

(* Why: whatever is pending in the bucket, queued, on its way to the queue,  *)
(* or in a hand, has a time its key was scheduled for.                       *)
QueuedAreScheduled ==
  \A k \in Keys, t \in Times : Holds(pq, k, t) => t \in armed[k]

StoredAreScheduled ==
  \A k \in Keys : kv[k].status = "pending" => kv[k].time \in armed[k]

UpdatesAreScheduled ==
  /\ \A i \in 1 .. Len(inbox) :
       inbox[i].status = "pending" => inbox[i].time \in armed[inbox[i].key]
  /\ wpc = "push" => update.time \in armed[update.key]

PeekedIsScheduled ==
  ppc \in {"pop", "get", "put", "trigger"} =>
    peeked.time \in armed[peeked.key] /\ peeked.time <= now

Scheduled ==
  /\ QueuedAreScheduled /\ StoredAreScheduled
  /\ UpdatesAreScheduled /\ PeekedIsScheduled

(* A write changes the entry of its key only, to the status and time given.  *)
LEMMA StoredValue ==
  ASSUME TypeOK, NEW k \in Keys, NEW s \in Statuses, NEW t \in Times, NEW of \in Nat,
         Store(k, s, t, of)
  PROVE  \A j \in Keys :
           \/ kv'[j] = kv[j]
           \/ j = k /\ kv'[j].status = s /\ kv'[j].time = t
  <1>1. /\ kv'[k] = [status |-> s, time |-> t, of |-> of, rev |-> seq + 1]
        /\ \A j \in Keys : j # k => kv'[j] = kv[j]
    BY StoreEntry DEF TypeOK
  <1>. QED
    BY <1>1

(* A push adds a copy of the reminder pushed, and nothing else.              *)
LEMMA PushHolds ==
  ASSUME NEW q \in Queues, NEW k \in Keys, NEW t \in Times, Push(q, k, t)
  PROVE  \A j \in Keys, u \in Times :
           Holds(pq', j, u) => Holds(q, j, u) \/ (j = k /\ u = t)
  <1>1. \A j \in Keys, u \in Times :
          pq'[j][u] = IF j = k /\ u = t THEN q[j][u] + 1 ELSE q[j][u]
    BY WithCounts DEF Push
  <1>. QED
    BY <1>1 DEF Holds

(* A step that only adds to the schedule, and brings nothing new into the    *)
(* queue, the stream or a hand, keeps all four.                              *)
LEMMA FrameScheduled ==
  ASSUME TypeOK, Scheduled,
         armed' \in [Keys -> SUBSET Times],
         \A k \in Keys : armed[k] \subseteq armed'[k],
         \A k \in Keys, t \in Times :
           Holds(pq', k, t) => Holds(pq, k, t) \/ t \in armed'[k],
         \A k \in Keys : kv'[k] = kv[k] \/ kv'[k].status # "pending"
                           \/ kv'[k].time \in armed'[k],
         inbox' = inbox \/ inbox' = <<>>,
         wpc' # "push" \/ UNCHANGED watchVars,
         now' \in Times, now <= now',
         ppc' \in {"pop", "get", "put", "trigger"} =>
           ppc \in {"pop", "get", "put", "trigger"} /\ peeked' = peeked
  PROVE  Scheduled'
  <1>1. QueuedAreScheduled'
    BY DEF Scheduled, QueuedAreScheduled
  <1>2. StoredAreScheduled'
    BY DEF Scheduled, StoredAreScheduled
  <1>3. UpdatesAreScheduled'
    <2>1. ASSUME NEW i \in 1 .. Len(inbox'), inbox'[i].status = "pending"
          PROVE  inbox'[i].time \in armed'[inbox'[i].key]
      <3>1. inbox' = inbox
        BY <2>1
      <3>2. inbox[i].key \in Keys
        <4>1. inbox \in Seq(Updates) /\ i \in 1 .. Len(inbox)
          BY <3>1 DEF TypeOK
        <4>2. inbox[i] \in Updates
          BY <4>1
        <4>. QED
          BY <4>2 DEF Updates
      <3>. QED
        BY <2>1, <3>1, <3>2 DEF Scheduled, UpdatesAreScheduled
    <2>2. ASSUME wpc' = "push" PROVE update'.time \in armed'[update'.key]
      <3>1. update.key \in Keys /\ wpc = "push" /\ update' = update
        BY <2>2 DEF watchVars, TypeOK, Updates
      <3>. QED
        BY <3>1 DEF Scheduled, UpdatesAreScheduled
    <2>. QED
      BY <2>1, <2>2 DEF UpdatesAreScheduled
  <1>4. PeekedIsScheduled'
    <2>1. ASSUME ppc' \in {"pop", "get", "put", "trigger"}
          PROVE  peeked'.time \in armed'[peeked'.key] /\ peeked'.time <= now'
      <3>1. /\ ppc \in {"pop", "get", "put", "trigger"} /\ peeked' = peeked
            /\ peeked.key \in Keys /\ peeked.time \in Times
        BY <2>1 DEF TypeOK, Item
      <3>2. peeked.time \in armed[peeked.key] /\ peeked.time <= now
        BY <3>1 DEF Scheduled, PeekedIsScheduled
      <3>3. peeked.time \in Int /\ now \in Int /\ now' \in Int
        BY <3>1, InitialValues DEF TypeOK
      <3>. QED
        BY <3>1, <3>2, <3>3
    <2>. QED
      BY <2>1 DEF PeekedIsScheduled
  <1>. QED
    BY <1>1, <1>2, <1>3, <1>4 DEF Scheduled

(* The step that fires a reminder has one in its hand whose time, or that of *)
(* an earlier schedule, has come: FiresAfterSomeSchedule.                    *)
LEMMA AlwaysScheduled == Spec => []Scheduled
<1>1. Init => Scheduled
  <2> SUFFICES ASSUME Init PROVE Scheduled
    OBVIOUS
  <2>1. QueuedAreScheduled
    BY DEF Init, QueuedAreScheduled, Holds, EmptyQueue
  <2>2. StoredAreScheduled
    BY DEF Init, StoredAreScheduled, NoEntry
  <2>3. UpdatesAreScheduled
    BY DEF Init, UpdatesAreScheduled
  <2>4. PeekedIsScheduled
    BY DEF Init, PeekedIsScheduled
  <2>. QED
    BY <2>1, <2>2, <2>3, <2>4 DEF Scheduled
<1>2. TypeOK /\ Scheduled /\ [Next]_vars => Scheduled'
  <2> SUFFICES ASSUME TypeOK, Scheduled, [Next]_vars PROVE Scheduled'
    OBVIOUS
  <2> USE DEF storeVars, linkVars, queueVars, procVars, watchVars, handlerVars,
              envVars, historyVars
  <2>n. now \in Times /\ now \in Int /\ armed \in [Keys -> SUBSET Times]
    BY InitialValues DEF TypeOK
  <2>s. "pending" \in Statuses /\ "completed" \in Statuses /\ "canceled" \in Statuses
    BY DEF Statuses
  <2>a. ASSUME UNCHANGED <<armed, kv, now, peeked>>,
               \A k \in Keys, t \in Times : Holds(pq', k, t) => Holds(pq, k, t),
               inbox' = inbox \/ inbox' = <<>>,
               wpc' # "push" \/ UNCHANGED watchVars,
               \/ ppc' = ppc
               \/ ppc' = "get" /\ ppc = "pop"
        PROVE  Scheduled'
    <3>1. /\ now' \in Times /\ now <= now' /\ armed' \in [Keys -> SUBSET Times]
          /\ \A k \in Keys : armed[k] \subseteq armed'[k]
          /\ \A k \in Keys : kv'[k] = kv[k]
      BY <2>a, <2>n
    <3>. QED
      BY <2>a, <3>1, FrameScheduled
  <2>1. CASE Start
    <3>1. ASSUME NEW k \in Keys, NEW t \in Times, Holds(pq', k, t)
          PROVE  t \in armed[k]
      <4>1. PICK loaded \in SUBSET Keys :
              /\ \A j \in loaded : kv[j].status = "pending"
              /\ pq' = [j \in Keys |-> [u \in Times |->
                         IF j \in loaded /\ kv[j].time = u THEN 1 ELSE 0]]
        BY <2>1 DEF Start
      <4>2. k \in loaded /\ kv[k].time = t
        BY <3>1, <4>1 DEF Holds
      <4>. QED
        BY <4>1, <4>2 DEF Scheduled, StoredAreScheduled
    <3>2. UNCHANGED <<kv, armed, inbox, wpc, update, now, ppc, peeked>>
      BY <2>1 DEF Start
    <3>. QED
      BY <2>n, <3>1, <3>2, FrameScheduled
  <2>2. ASSUME Down, UNCHANGED <<kv, now, armed>>
        PROVE  Scheduled'
    <3>1. /\ \A k \in Keys, t \in Times : ~Holds(pq', k, t)
          /\ ppc' = "peek" /\ wpc' = "start" /\ inbox' = <<>>
      BY <2>2 DEF Down, EmptyQueue, Holds
    <3>. QED
      BY <2>2, <2>n, <3>1, FrameScheduled
  <2>3. CASE Tick
    <3>1. now' \in Times /\ now <= now'
      BY <2>3, <2>n, MaxTimeAssumption DEF Tick, Times
    <3>. QED
      BY <2>3, <2>n, <3>1, FrameScheduled DEF Tick
  <2>4. CASE WatchStart
    BY <2>4, <2>a DEF WatchStart
  <2>5. CASE Deliver
    <3>1. PICK k \in Keys : Transmit(k)
      BY <2>5 DEF Deliver
    <3>2. \A i \in 1 .. Len(inbox') :
            inbox'[i].status = "pending" => inbox'[i].time \in armed[inbox'[i].key]
      <4> DEFINE u == [key |-> k, status |-> kv[k].status,
                       time |-> kv[k].time, rev |-> kv[k].rev]
      <4>1. inbox' = Append(inbox, u) /\ inbox \in Seq(Updates)
        BY <3>1 DEF Transmit, TypeOK
      <4>2. u.status = "pending" => u.time \in armed[u.key]
        BY DEF Scheduled, StoredAreScheduled
      <4>. HIDE DEF u
      <4>3. \A i \in 1 .. Len(inbox') : IF i <= Len(inbox) THEN inbox'[i] = inbox[i] ELSE inbox'[i] = u
        <5>1. Len(inbox') = Len(inbox) + 1 /\ Len(inbox) \in Nat
          BY <4>1
        <5>. QED
          BY <4>1, <5>1
      <4>. QED
        BY <4>1, <4>2, <4>3 DEF Scheduled, UpdatesAreScheduled
    <3>3. UNCHANGED <<pq, kv, armed, now, ppc, peeked, wpc, update>>
      BY <2>5, <3>1 DEF Deliver, Transmit
    <3>. QED
      BY <3>2, <3>3 DEF Scheduled, QueuedAreScheduled, StoredAreScheduled,
                        UpdatesAreScheduled, PeekedIsScheduled
  <2>6. CASE WatchRemove
    <3>1. /\ Head(inbox) = inbox[1] /\ 1 \in 1 .. Len(inbox) /\ Head(inbox).key \in Keys
          /\ inbox' = Tail(inbox) /\ inbox \in Seq(Updates) /\ inbox # <<>>
      BY <2>6, HeadType DEF WatchRemove, TypeOK
    <3>2. QueuedAreScheduled'
      BY <2>6, <3>1, RemoveOneCounts DEF WatchRemove, TypeOK, Scheduled, QueuedAreScheduled
    <3>3. \A i \in 1 .. Len(inbox') : i + 1 \in 1 .. Len(inbox) /\ inbox'[i] = inbox[i + 1]
      BY <3>1
    <3>4. \A i \in 1 .. Len(inbox') :
            inbox'[i].status = "pending" => inbox'[i].time \in armed[inbox'[i].key]
      BY <3>3 DEF Scheduled, UpdatesAreScheduled
    <3>5. wpc' = "push" => update'.time \in armed[update'.key]
      BY <2>6, <3>1 DEF WatchRemove, Scheduled, UpdatesAreScheduled
    <3>6. UNCHANGED <<kv, armed, now, ppc, peeked>>
      BY <2>6 DEF WatchRemove
    <3>. QED
      BY <3>2, <3>4, <3>5, <3>6
      DEF Scheduled, StoredAreScheduled, UpdatesAreScheduled, PeekedIsScheduled
  <2>7. CASE WatchPush
    <3>1. update \in Updates /\ update.key \in Keys /\ update.time \in Times
      BY <2>7 DEF WatchPush, TypeOK, Updates
    <3>2. update.time \in armed[update.key]
      BY <2>7 DEF WatchPush, Scheduled, UpdatesAreScheduled
    <3>3. \A k \in Keys, t \in Times :
            Holds(pq', k, t) => Holds(pq, k, t) \/ t \in armed[k]
      BY <2>7, <3>1, <3>2, PushHolds DEF WatchPush, TypeOK
    <3>4. UNCHANGED <<kv, armed, inbox, now, ppc, peeked>> /\ wpc' = "recv"
      BY <2>7 DEF WatchPush
    <3>5. armed' \in [Keys -> SUBSET Times] /\ now' \in Times /\ now <= now'
      BY <2>n, <3>4
    <3>. QED
      BY <3>3, <3>4, <3>5, FrameScheduled
  <2>8. CASE Peek
    <3>1. UNCHANGED <<pq, kv, armed, inbox, wpc, update, now>>
      BY <2>8 DEF Peek
    <3>2. ASSUME ppc' \in {"pop", "get", "put", "trigger"}
          PROVE  peeked'.time \in armed[peeked'.key] /\ peeked'.time <= now
      <4>1. PICK i \in Earliest(pq) :
              peeked' = i /\ ppc' = IF i.time <= now THEN "pop" ELSE "sleep"
        BY <2>8, <3>2 DEF Peek
      <4>2. i.key \in Keys /\ i.time \in Times /\ Holds(pq, i.key, i.time)
        BY <4>1 DEF Earliest, Item
      <4>. QED
        BY <3>2, <4>1, <4>2 DEF Scheduled, QueuedAreScheduled
    <3>. QED
      BY <3>1, <3>2 DEF Scheduled, QueuedAreScheduled, StoredAreScheduled,
                        UpdatesAreScheduled, PeekedIsScheduled
  <2>9. CASE Wake \/ MarkGet \/ Trigger
    BY <2>9, <2>n, FrameScheduled DEF Wake, MarkGet, Trigger
  <2>10. CASE Pop
    <3>1. PICK i \in Earliest(pq) : pq' = Without(pq, i.key, i.time)
      BY <2>10 DEF Pop
    <3>2. i.key \in Keys /\ i.time \in Times /\ Holds(pq, i.key, i.time)
      BY <3>1 DEF Earliest, Item
    <3>3. \A k \in Keys, t \in Times : Holds(pq', k, t) => Holds(pq, k, t)
      <4>1. pq \in Queues
        BY DEF TypeOK
      <4>2. \A k \in Keys, t \in Times : pq[k][t] \in Nat
        BY <4>1 DEF Queues
      <4>. QED
        BY <3>1, <3>2, <4>1, <4>2, WithoutCounts DEF Holds
    <3>. QED
      BY <2>10, <2>a, <3>3 DEF Pop
  <2>11. CASE MarkPut
    <3>1. /\ peeked.key \in Keys /\ read.time \in Times /\ read.rev \in Nat
      BY <2>11, EventType DEF MarkPut, TypeOK, Entries
    <3>2. CASE Store(peeked.key, "completed", read.time, read.rev)
      <4>1. \A k \in Keys : kv'[k] = kv[k] \/ kv'[k].status # "pending"
        BY <3>1, <3>2, <2>s, StoredValue
      <4>. QED
        BY <2>11, <2>n, <4>1, FrameScheduled DEF MarkPut
    <3>3. CASE UNCHANGED storeVars
      BY <2>11, <2>n, <3>3, FrameScheduled DEF MarkPut
    <3>. QED
      BY <2>11, <3>2, <3>3 DEF MarkPut
  <2>12. ASSUME NEW h \in Handlers, NEW k, NEW t, NEW d,
                \/ SetRequest(h, k, t) \/ CancelGet(h, k) \/ SnoozeGet(h, k, d)
                \/ SetGet(h)
         PROVE  Scheduled'
    BY <2>12, <2>a DEF SetRequest, CancelGet, SnoozeGet, SetGet
  <2>13. ASSUME NEW h \in Handlers, SetPut(h) \/ CancelPut(h) \/ SnoozePut(h)
         PROVE  Scheduled'
    <3>1. /\ req[h].key \in Keys /\ req[h].status \in Statuses
          /\ req[h].time \in Times /\ req[h].of \in Nat
      BY <2>13, RequestType DEF SetPut, CancelPut, SnoozePut
    <3>2. UNCHANGED <<inbox, wpc, update, now, ppc, peeked>>
      BY <2>13 DEF SetPut, CancelPut, SnoozePut
    <3> DEFINE Grown == [armed EXCEPT ![req[h].key] = @ \cup {req[h].time}]
    <3>3. /\ Grown \in [Keys -> SUBSET Times] /\ req[h].time \in Grown[req[h].key]
          /\ \A k \in Keys : armed[k] \subseteq Grown[k]
      BY <2>n, <3>1
    <3> HIDE DEF Grown
    <3>4. CASE SetPut(h)
      <4>1. CASE UNCHANGED <<storeVars, armed>>
        BY <2>n, <3>2, <3>4, <4>1, FrameScheduled DEF SetPut
      <4>2. CASE Store(req[h].key, "pending", req[h].time, 0) /\ armed' = Grown
        <5>1. \A k \in Keys : kv'[k] = kv[k] \/ kv'[k].time \in Grown[k]
          BY <3>1, <3>3, <4>2, <2>s, StoredValue
        <5>. QED
          BY <2>n, <3>2, <3>3, <3>4, <4>2, <5>1, FrameScheduled DEF SetPut
      <4>. QED
        BY <3>4, <4>1, <4>2 DEF SetPut, Grown
    <3>5. CASE CancelPut(h)
      <4>1. \A k \in Keys, t \in Times : Holds(pq', k, t) => Holds(pq, k, t)
        BY <3>1, <3>5, RemoveOneCounts DEF CancelPut, TypeOK
      <4>2. \A k \in Keys : kv'[k] = kv[k] \/ kv'[k].status # "pending"
        <5>1. CASE UNCHANGED storeVars
          BY <5>1
        <5>2. CASE Store(req[h].key, "canceled", req[h].time, req[h].of)
          BY <3>1, <5>2, <2>s, StoredValue
        <5>. QED
          BY <3>5, <5>1, <5>2 DEF CancelPut
      <4>3. armed' = armed
        BY <3>5 DEF CancelPut
      <4>4. /\ armed' \in [Keys -> SUBSET Times]
            /\ \A k \in Keys : armed[k] \subseteq armed'[k]
        BY <2>n, <4>3
      <4>5. \A k \in Keys, t \in Times :
              Holds(pq', k, t) => Holds(pq, k, t) \/ t \in armed'[k]
        BY <4>1
      <4>6. \A k \in Keys : kv'[k] = kv[k] \/ kv'[k].status # "pending"
                                \/ kv'[k].time \in armed'[k]
        BY <4>2
      <4>7. now' \in Times /\ now <= now'
        BY <2>n, <3>2
      <4>. QED
        BY <3>2, <4>4, <4>5, <4>6, <4>7, FrameScheduled
    <3>6. CASE SnoozePut(h)
      <4>1. /\ armed' \in {armed, Grown}
            /\ \A k \in Keys : kv'[k] = kv[k] \/ kv'[k].time \in armed'[k]
        <5>1. CASE UNCHANGED <<storeVars, armed>>
          BY <5>1
        <5>2. CASE Store(req[h].key, req[h].status, req[h].time, req[h].of) /\ armed' = Grown
          BY <3>1, <3>3, <5>2, <2>s, StoredValue
        <5>. QED
          BY <3>6, <5>1, <5>2 DEF SnoozePut, Grown
      <4>2. \A k \in Keys, t \in Times :
              Holds(pq', k, t) => Holds(pq, k, t) \/ t \in armed'[k]
        <5>1. CASE UNCHANGED pq
          BY <5>1
        <5>2. ASSUME armed' = Grown,
                     NEW q \in RemoveOne(pq, req[h].key), Push(q, req[h].key, req[h].time)
              PROVE  \A k \in Keys, t \in Times :
                       Holds(pq', k, t) => Holds(pq, k, t) \/ t \in armed'[k]
          <6>1. q \in Queues /\ \A k \in Keys, t \in Times : Holds(q, k, t) => Holds(pq, k, t)
            BY <3>1, <5>2, RemoveOneCounts DEF TypeOK
          <6>. QED
            BY <3>1, <3>3, <5>2, <6>1, PushHolds
        <5>. QED
          BY <3>6, <5>1, <5>2 DEF SnoozePut, Grown
      <4>3. armed' \in [Keys -> SUBSET Times] /\ \A k \in Keys : armed[k] \subseteq armed'[k]
        BY <2>n, <3>3, <4>1
      <4>. QED
        BY <2>n, <3>2, <4>1, <4>2, <4>3, FrameScheduled
    <3>. QED
      BY <2>13, <3>4, <3>5, <3>6
  <2>14. CASE UNCHANGED vars
    BY <2>14, <2>a DEF vars
  <2>15. CASE Crash \/ PopPanics \/ TriggerFails
    BY <2>15, <2>2 DEF Crash, PopPanics, TriggerFails
  <2>. QED
    BY <2>1, <2>3, <2>4, <2>5, <2>6, <2>7, <2>8, <2>9, <2>10, <2>11, <2>12, <2>13,
       <2>14, <2>15
    DEF Next, Processor, Watcher, Proceed, Request
<1>. QED
  BY <1>1, <1>2, TypeCorrect, PTL DEF Spec

(* A reminder fires only after a time it was scheduled for has come,         *)
(* whatever pop, snooze and stale updates do to the queue.                   *)
THEOREM FiresOnTime == Spec => []FiresAfterSomeSchedule
<1>1. Scheduled => FiresAfterSomeSchedule
  BY DEF Scheduled, PeekedIsScheduled, FiresAfterSomeSchedule
<1>. QED
  BY <1>1, AlwaysScheduled, PTL

-----------------------------------------------------------------------------
(* A completed reminder was told of.                                         *)

(* The versions whose completion was told, is about to be, or was missed.    *)
Answered ==
  published \cup missed \cup (IF ppc = "trigger" THEN {Event} ELSE {})

(* Why CompletedIsSent holds: every completed version is among them, also    *)
(* one that a snooze has read and is about to write back at another time.    *)
CompletionsAnswered ==
  /\ \A k \in Keys : kv[k].status = "completed" =>
       [key |-> k, from |-> kv[k].of] \in Answered
  /\ \A h \in Handlers : hpc[h] = "snoozePut" /\ req[h].status = "completed" =>
       [key |-> req[h].key, from |-> req[h].of] \in Answered

(* An answer stands, unless the processor leaves behind the one it owed.     *)
LEMMA AnswersStand ==
  ASSUME published \subseteq published', missed \subseteq missed',
         ppc = "trigger" =>
           UNCHANGED <<ppc, peeked, read>> \/ Event \in published' \cup missed'
  PROVE  Answered \subseteq Answered'
  BY DEF Answered, Event

(* A step that completes nothing, or only what is answered, and puts nothing *)
(* completed into a hand.                                                    *)
LEMMA FrameAnswered ==
  ASSUME CompletionsAnswered, Answered \subseteq Answered',
         \A k \in Keys : \/ kv'[k] = kv[k]
                         \/ kv'[k].status = "completed" =>
                              [key |-> k, from |-> kv'[k].of] \in Answered',
         \A h \in Handlers :
           hpc'[h] = "snoozePut" => hpc[h] = "snoozePut" /\ req'[h] = req[h]
  PROVE  CompletionsAnswered'
  BY DEF CompletionsAnswered

(* A write changes the entry of its key only.                                *)
LEMMA StoredVersion ==
  ASSUME TypeOK, NEW k \in Keys, NEW s \in Statuses, NEW t \in Times, NEW of \in Nat,
         Store(k, s, t, of)
  PROVE  \A j \in Keys :
           \/ kv'[j] = kv[j]
           \/ j = k /\ kv'[j].status = s /\ kv'[j].of = of
  <1>1. /\ kv'[k] = [status |-> s, time |-> t, of |-> of, rev |-> seq + 1]
        /\ \A j \in Keys : j # k => kv'[j] = kv[j]
    BY StoreEntry DEF TypeOK
  <1>. QED
    BY <1>1

LEMMA AlwaysAnswered == Spec => []CompletionsAnswered
<1>1. Init => CompletionsAnswered
  BY DEF Init, CompletionsAnswered, NoEntry
<1>2. TypeOK /\ CompletionsAnswered /\ [Next]_vars => CompletionsAnswered'
  <2> SUFFICES ASSUME TypeOK, CompletionsAnswered, [Next]_vars
               PROVE  CompletionsAnswered'
    OBVIOUS
  <2> USE DEF storeVars, linkVars, queueVars, procVars, watchVars, handlerVars,
              envVars, historyVars
  <2>s. "pending" \in Statuses /\ "completed" \in Statuses /\ "canceled" \in Statuses
    BY DEF Statuses
  <2>a. ASSUME UNCHANGED kv,
               published \subseteq published', missed \subseteq missed',
               ppc # "trigger" \/ UNCHANGED <<ppc, peeked, read>>
                 \/ Event \in published' \cup missed',
               \/ UNCHANGED handlerVars
               \/ hpc' = [h \in Handlers |-> "idle"]
        PROVE  CompletionsAnswered'
    <3>1. Answered \subseteq Answered'
      BY <2>a, AnswersStand
    <3>2. \A h \in Handlers :
            hpc'[h] = "snoozePut" => hpc[h] = "snoozePut" /\ req'[h] = req[h]
      BY <2>a
    <3>. QED
      BY <2>a, <3>1, <3>2, FrameAnswered
  <2>1. CASE Start \/ Tick
    BY <2>1, <2>a DEF Start, Tick
  <2>2. CASE Crash \/ PopPanics \/ TriggerFails
    BY <2>2, <2>a DEF Crash, PopPanics, TriggerFails, Down
  <2>3. CASE Deliver \/ Watcher
    BY <2>3, <2>a
    DEF Deliver, Transmit, Watcher, WatchStart, WatchRemove, WatchPush
  <2>4. CASE Peek \/ Wake \/ Pop \/ MarkGet \/ Trigger
    BY <2>4, <2>a DEF Peek, Wake, Pop, MarkGet, Trigger
  <2>5. CASE MarkPut
    <3>1. peeked.key \in Keys /\ read.time \in Times /\ read.rev \in Nat
      BY <2>5, EventType DEF MarkPut, TypeOK, Entries
    <3>2. CASE UNCHANGED storeVars
      BY <2>5, <2>a, <3>2 DEF MarkPut
    <3>3. CASE /\ Store(peeked.key, "completed", read.time, read.rev)
               /\ \/ ppc' = "trigger" /\ UNCHANGED <<peeked, read, missed>>
                  \/ missed' = missed \cup {Event}
      <4>1. /\ Answered \subseteq Answered' /\ Event \in Answered'
            /\ UNCHANGED handlerVars
        BY <2>5, <3>3 DEF MarkPut, Answered, Event
      <4>2. Event = [key |-> peeked.key, from |-> read.rev]
        BY DEF Event
      <4>3. \A k \in Keys : \/ kv'[k] = kv[k]
                            \/ k = peeked.key /\ kv'[k].of = read.rev
        BY <2>s, <3>1, <3>3, StoredVersion
      <4>. QED
        BY <4>1, <4>2, <4>3, FrameAnswered
    <3>. QED
      BY <2>5, <3>2, <3>3 DEF MarkPut
  <2>6. ASSUME NEW h \in Handlers, NEW k, NEW t, NEW d,
               \/ SetGet(h)
               \/ /\ k \in Keys
                  /\ SetRequest(h, k, t) \/ CancelGet(h, k) \/ SnoozeGet(h, k, d)
        PROVE  CompletionsAnswered'
    <3>1. /\ UNCHANGED <<kv, published, missed, ppc, peeked, read>>
          /\ Answered' = Answered
      BY <2>6 DEF SetRequest, CancelGet, SnoozeGet, SetGet, Answered, Event
    <3>2. \A g \in Handlers : g # h => hpc'[g] = hpc[g] /\ req'[g] = req[g]
      BY <2>6 DEF SetRequest, CancelGet, SnoozeGet, SetGet, Step, TypeOK
    <3>3. ASSUME hpc'[h] = "snoozePut", req'[h].status = "completed"
          PROVE  [key |-> req'[h].key, from |-> req'[h].of] \in Answered
      <4>1. k \in Keys /\ SnoozeGet(h, k, d)
        BY <2>6, <3>3 DEF SetRequest, CancelGet, SetGet, Step, TypeOK
      <4>2. req'[h].key = k /\ req'[h].of = kv[k].of /\ req'[h].status = kv[k].status
        BY <4>1 DEF SnoozeGet, Step, TypeOK
      <4>. QED
        BY <3>3, <4>1, <4>2 DEF CompletionsAnswered
    <3>. QED
      BY <3>1, <3>2, <3>3 DEF CompletionsAnswered
  <2>7. ASSUME NEW h \in Handlers, SetPut(h) \/ CancelPut(h) \/ SnoozePut(h)
        PROVE  CompletionsAnswered'
    <3>1. /\ req[h].key \in Keys /\ req[h].status \in Statuses
          /\ req[h].time \in Times /\ req[h].of \in Nat
      BY <2>7, RequestType DEF SetPut, CancelPut, SnoozePut
    <3>2. Answered' = Answered
      BY <2>7 DEF SetPut, CancelPut, SnoozePut, Answered, Event
    <3>3. \A g \in Handlers :
            hpc'[g] = "snoozePut" => hpc[g] = "snoozePut" /\ req'[g] = req[g]
      BY <2>7 DEF SetPut, CancelPut, SnoozePut, Finish, Step, TypeOK
    <3>4. \/ UNCHANGED storeVars
          \/ Store(req[h].key, "pending", req[h].time, 0)
          \/ Store(req[h].key, "canceled", req[h].time, req[h].of)
          \/ /\ hpc[h] = "snoozePut"
             /\ Store(req[h].key, req[h].status, req[h].time, req[h].of)
      BY <2>7 DEF SetPut, CancelPut, SnoozePut
    <3>5. \A k \in Keys : \/ kv'[k] = kv[k]
                          \/ kv'[k].status # "completed"
                          \/ /\ hpc[h] = "snoozePut" /\ k = req[h].key
                             /\ kv'[k].status = req[h].status /\ kv'[k].of = req[h].of
      BY <2>s, <3>1, <3>4, StoredVersion
    <3>. QED
      BY <3>2, <3>3, <3>5, FrameAnswered DEF CompletionsAnswered
  <2>8. CASE UNCHANGED vars
    BY <2>8, <2>a DEF vars
  <2>. QED
    BY <2>1, <2>2, <2>3, <2>4, <2>5, <2>6, <2>7, <2>8
    DEF Next, Processor, Proceed, Request
<1>. QED
  BY <1>1, <1>2, TypeCorrect, PTL DEF Spec

(* A reminder the bucket shows as completed was published, is about to be,   *)
(* or its event is recorded as missed: nothing is completed in silence.      *)
THEOREM CompletionsAreSent == Spec => []CompletedIsSent
<1>1. CompletionsAnswered => CompletedIsSent
  BY DEF CompletionsAnswered, Answered, CompletedIsSent
<1>. QED
  BY <1>1, AlwaysAnswered, PTL

-----------------------------------------------------------------------------
(* The scheduler implements ReminderService.                                 *)

(* A reminder that is being canceled or snoozed is recorded in the bucket,   *)
(* and stays so: nothing ever removes a key.                                 *)
Recorded ==
  \A h \in Handlers : hpc[h] \in {"cancelPut", "snoozePut"} =>
    /\ req[h].status # "none"
    /\ kv[req[h].key].status # "none"

LEMMA AlwaysRecorded == Spec => []Recorded
<1>1. Init => Recorded
  BY DEF Init, Recorded
<1>2. TypeOK /\ Recorded /\ [Next]_vars => Recorded'
  <2> SUFFICES ASSUME TypeOK, Recorded, [Next]_vars PROVE Recorded'
    OBVIOUS
  <2> USE DEF storeVars, linkVars, queueVars, procVars, watchVars, handlerVars,
              envVars, historyVars
  <2>s. "pending" \in Statuses /\ "completed" \in Statuses /\ "canceled" \in Statuses
    BY DEF Statuses
  <2>a. ASSUME \A k \in Keys : kv[k].status # "none" => kv'[k].status # "none",
               \A h \in Handlers :
                 hpc'[h] \in {"cancelPut", "snoozePut"} =>
                   hpc'[h] = hpc[h] /\ req'[h] = req[h]
        PROVE  Recorded'
    <3>1. \A h \in Handlers : hpc[h] \in {"cancelPut", "snoozePut"} => req[h].key \in Keys
      BY RequestType
    <3>. QED
      BY <2>a, <3>1 DEF Recorded
  <2>1. CASE Start \/ Tick
    BY <2>1, <2>a DEF Start, Tick
  <2>2. CASE Crash \/ PopPanics \/ TriggerFails
    BY <2>2, <2>a DEF Crash, PopPanics, TriggerFails, Down
  <2>3. CASE Deliver \/ Watcher
    BY <2>3, <2>a
    DEF Deliver, Transmit, Watcher, WatchStart, WatchRemove, WatchPush
  <2>4. CASE Peek \/ Wake \/ Pop \/ MarkGet \/ Trigger
    BY <2>4, <2>a DEF Peek, Wake, Pop, MarkGet, Trigger
  <2>5. CASE MarkPut
    <3>1. peeked.key \in Keys /\ read.time \in Times /\ read.rev \in Nat
      BY <2>5, EventType DEF MarkPut, TypeOK, Entries
    <3>2. \A k \in Keys : kv[k].status # "none" => kv'[k].status # "none"
      <4>1. CASE UNCHANGED storeVars
        BY <4>1
      <4>2. CASE Store(peeked.key, "completed", read.time, read.rev)
        BY <2>s, <3>1, <4>2, StoredVersion
      <4>. QED
        BY <2>5, <4>1, <4>2 DEF MarkPut
    <3>. QED
      BY <2>5, <2>a, <3>2 DEF MarkPut
  <2>6. ASSUME NEW h \in Handlers, NEW k, NEW t, NEW d,
               \/ SetGet(h)
               \/ /\ k \in Keys
                  /\ SetRequest(h, k, t) \/ CancelGet(h, k) \/ SnoozeGet(h, k, d)
        PROVE  Recorded'
    <3>1. UNCHANGED kv
      BY <2>6 DEF SetRequest, CancelGet, SnoozeGet, SetGet
    <3>2. \A g \in Handlers : g # h => hpc'[g] = hpc[g] /\ req'[g] = req[g]
      BY <2>6 DEF SetRequest, CancelGet, SnoozeGet, SetGet, Step, TypeOK
    <3>3. ASSUME hpc'[h] \in {"cancelPut", "snoozePut"}
          PROVE  req'[h].status # "none" /\ kv[req'[h].key].status # "none"
      <4>1. CancelGet(h, k) \/ SnoozeGet(h, k, d)
        BY <2>6, <3>3 DEF SetRequest, SetGet, Step, TypeOK
      <4>2. /\ req'[h].key = k /\ kv[k].status # "none"
            /\ req'[h].status \in {"canceled", kv[k].status}
        BY <4>1 DEF CancelGet, SnoozeGet, Step, TypeOK
      <4>. QED
        BY <4>2
    <3>. QED
      BY <3>1, <3>2, <3>3 DEF Recorded
  <2>7. ASSUME NEW h \in Handlers, SetPut(h) \/ CancelPut(h) \/ SnoozePut(h)
        PROVE  Recorded'
    <3>1. /\ req[h].key \in Keys /\ req[h].status \in Statuses
          /\ req[h].time \in Times /\ req[h].of \in Nat
      BY <2>7, RequestType DEF SetPut, CancelPut, SnoozePut
    <3>2. \A g \in Handlers :
            hpc'[g] \in {"cancelPut", "snoozePut"} => hpc'[g] = hpc[g] /\ req'[g] = req[g]
      BY <2>7 DEF SetPut, CancelPut, SnoozePut, Finish, Step, TypeOK
    <3>3. \/ UNCHANGED storeVars
          \/ Store(req[h].key, "pending", req[h].time, 0)
          \/ Store(req[h].key, "canceled", req[h].time, req[h].of)
          \/ /\ req[h].status # "none"
             /\ Store(req[h].key, req[h].status, req[h].time, req[h].of)
      BY <2>7 DEF SetPut, CancelPut, SnoozePut, Recorded
    <3>4. \A k \in Keys : kv[k].status # "none" => kv'[k].status # "none"
      BY <2>s, <3>1, <3>3, StoredVersion
    <3>. QED
      BY <2>a, <3>2, <3>4
  <2>8. CASE UNCHANGED vars
    BY <2>8, <2>a DEF vars
  <2>. QED
    BY <2>1, <2>2, <2>3, <2>4, <2>5, <2>6, <2>7, <2>8
    DEF Next, Processor, Proceed, Request
<1>. QED
  BY <1>1, <1>2, TypeCorrect, PTL DEF Spec

(* What users see does not change when the processor owes the same event.    *)
Owed == IF ppc = "trigger" THEN {Event} ELSE {}

Unseen == UNCHANGED <<now, kv, armed, published>> /\ Owed' = Owed

LEMMA UnseenStutters == Unseen => UNCHANGED Service!service
  BY DEF Unseen, Owed, Service!service, Event

(* A write to the bucket is a record of the service, at a newer version.     *)
LEMMA StoreRecords ==
  ASSUME TypeOK, Ordered, NEW k \in Keys, NEW s \in Statuses, NEW t \in Times,
         NEW of \in Nat, Store(k, s, t, of)
  PROVE  Service!Record(k, s, t)
  <1>1. /\ kv'[k] = [status |-> s, time |-> t, of |-> of, rev |-> seq + 1]
        /\ \A j \in Keys : j # k => kv'[j] = kv[j]
    BY StoreEntry DEF TypeOK
  <1>2. kv'[k].rev \in Nat /\ kv'[k].rev > kv[k].rev
    BY RevisionsGrow
  <1>3. kv'[k].status = s /\ kv'[k].time = t
    BY <1>1
  <1>. QED
    BY <1>1, <1>2, <1>3 DEF Service!Record

(* The inductive invariants the refinement rests on.                         *)
Known == TypeOK /\ Ordered /\ Overtaken /\ Scheduled /\ Recorded

(* The completion of a reminder: the revision read is not newer than the     *)
(* entry overwritten, its event was not told, and its time has come.         *)
LEMMA PutCompletes ==
  ASSUME Known, MarkPut, NEW k, NEW t, NEW v,
         k = peeked.key, t = read.time, v = read.rev, Store(k, "completed", t, v)
  PROVE  /\ Service!Complete(k, t, v)
         /\ k \in Keys /\ t \in Times /\ v \in 0 .. kv[k].rev
  <1>1. k \in Keys /\ t \in Times /\ v \in Nat /\ ppc = "put"
    BY EventType DEF Known, MarkPut, TypeOK, Entries
  <1>2. kv[k].rev \in Nat
    BY <1>1 DEF Known, TypeOK, Entries
  <1>3. v <= kv[k].rev
    BY <1>1 DEF Known, Overtaken
  <1>4. [key |-> k, from |-> v] \notin published
    <2>1. \A p \in published : p.key = k => p.from < v
      BY <1>1 DEF Known, Overtaken
    <2>. QED
      BY <1>1, <2>1
  <1>5. \E u \in armed[k] : u <= now
    BY <1>1 DEF Known, Scheduled, PeekedIsScheduled
  <1>6. Service!Record(k, "completed", t)
    <2>1. TypeOK /\ Ordered /\ "completed" \in Statuses
      BY DEF Known, Statuses
    <2>. QED
      BY <1>1, <2>1, StoreRecords
  <1>7. /\ UNCHANGED <<now, armed, published>>
        /\ Owed = {} /\ Owed' \in {{}, {Event}}
    BY <1>1 DEF MarkPut, Owed, Event, envVars, historyVars
  <1>8. Event = [key |-> k, from |-> v]
    BY DEF Event
  <1>9. Service!Complete(k, t, v)
    BY <1>1, <1>3, <1>4, <1>5, <1>6, <1>7, <1>8 DEF Service!Complete, Owed
  <1>. QED
    BY <1>1, <1>2, <1>3, <1>9

(* Every step of the scheduler is one of the service, or is unseen.          *)
LEMMA StepIsService ==
  ASSUME Known, Known', [Next]_vars
  PROVE  [Service!ServiceNext]_(Service!service)
  <1> USE DEF storeVars, linkVars, queueVars, procVars, watchVars, handlerVars,
              envVars, historyVars
  <1>k. TypeOK /\ Ordered /\ Scheduled /\ Recorded
    BY DEF Known
  <1>s. "pending" \in Statuses /\ "canceled" \in Statuses
    BY DEF Statuses
  <1>u. ASSUME UNCHANGED <<now, kv, armed, published>>,
               \/ UNCHANGED <<ppc, peeked, read>>
               \/ ppc # "trigger" /\ ppc' # "trigger"
        PROVE  [Service!ServiceNext]_(Service!service)
    <2>1. Unseen
      BY <1>u DEF Unseen, Owed, Event
    <2>. QED
      BY <2>1, UnseenStutters
  <1>e. ASSUME ppc = "trigger", ppc' = "peek", UNCHANGED <<now, kv, armed>>,
               published' \in {published, published \cup {Event}}
        PROVE  [Service!ServiceNext]_(Service!service)
    <2>1. Owed = {Event} /\ Owed' = {}
      BY <1>e DEF Owed
    <2>2. CASE published' = published \cup {Event}
      <3>1. Service!Tell(Event)
        BY <1>e, <2>1, <2>2 DEF Service!Tell, Owed
      <3>. QED
        BY <2>1, <3>1 DEF Service!ServiceNext, Owed
    <2>3. CASE published' = published
      <3>1. Service!Lose(Event)
        BY <1>e, <2>1, <2>3 DEF Service!Lose, Owed
      <3>. QED
        BY <2>1, <3>1 DEF Service!ServiceNext, Owed
    <2>. QED
      BY <1>e, <2>2, <2>3
  <1>1. CASE Tick
    <2>1. Service!Passes
      BY <1>1 DEF Tick, Service!Passes, Event
    <2>. QED
      BY <2>1 DEF Service!ServiceNext
  <1>2. CASE Start \/ Deliver \/ Watcher
    BY <1>2, <1>u
    DEF Start, Deliver, Transmit, Watcher, WatchStart, WatchRemove, WatchPush
  <1>3. CASE Crash \/ TriggerFails \/ Trigger
    <2>1. CASE ppc = "trigger"
      BY <1>3, <1>e, <2>1 DEF Crash, TriggerFails, Trigger, Down
    <2>2. CASE ppc # "trigger"
      BY <1>3, <1>u, <2>2 DEF Crash, TriggerFails, Trigger, Down
    <2>. QED
      BY <2>1, <2>2
  <1>4. CASE PopPanics \/ Peek \/ Wake \/ Pop \/ MarkGet
    BY <1>4, <1>u DEF PopPanics, Down, Peek, Wake, Pop, MarkGet
  <1>5. CASE MarkPut
    <2>1. CASE Store(peeked.key, "completed", read.time, read.rev)
      <3>1. PICK k, t, v : k = peeked.key /\ t = read.time /\ v = read.rev
        OBVIOUS
      <3>2. /\ Service!Complete(k, t, v)
            /\ k \in Keys /\ t \in Times /\ v \in 0 .. kv[k].rev
        BY <1>5, <2>1, <3>1, PutCompletes
      <3>3. v \in 0 .. [j \in Keys |-> kv[j].rev][k]
        BY <3>2
      <3>. QED
        BY <3>2, <3>3 DEF Service!ServiceNext, Service!Times, Times
    <2>2. CASE UNCHANGED storeVars /\ ppc' = "peek"
      BY <1>5, <1>u, <2>2 DEF MarkPut
    <2>. QED
      BY <1>5, <2>1, <2>2 DEF MarkPut
  <1>6. ASSUME NEW h \in Handlers, NEW k, NEW t, NEW d,
               \/ SetGet(h) \/ SetRequest(h, k, t) \/ CancelGet(h, k)
               \/ SnoozeGet(h, k, d)
        PROVE  [Service!ServiceNext]_(Service!service)
    BY <1>6, <1>u DEF SetGet, SetRequest, CancelGet, SnoozeGet
  <1>7. ASSUME NEW h \in Handlers, SetPut(h) \/ CancelPut(h) \/ SnoozePut(h)
        PROVE  [Service!ServiceNext]_(Service!service)
    <2>1. PICK k, t, of, s : k = req[h].key /\ t = req[h].time /\ of = req[h].of
                               /\ s = req[h].status
      OBVIOUS
    <2>2. k \in Keys /\ s \in Statuses /\ t \in Times /\ of \in Nat
      BY <1>7, <1>k, <2>1, RequestType DEF SetPut, CancelPut, SnoozePut
    <2>3. UNCHANGED <<ppc, peeked, read, now, published>>
      BY <1>7 DEF SetPut, CancelPut, SnoozePut
    <2>4. CASE UNCHANGED <<storeVars, armed>>
      <3>1. UNCHANGED kv
        BY <2>4
      <3>. QED
        BY <1>u, <2>3, <2>4, <3>1
    <2>5. ASSUME NEW st \in Statuses \ {"none"}, NEW v \in Nat, Store(k, st, t, v),
                 armed' = [armed EXCEPT ![k] = @ \cup {t}],
                 st = "pending" \/ kv[k].status # "none"
          PROVE  [Service!ServiceNext]_(Service!service)
      <3>1. Service!Record(k, st, t)
        BY <1>k, <2>2, <2>5, StoreRecords
      <3>2. Service!Schedule(k, st, t)
        BY <2>2, <2>3, <2>5, <3>1 DEF Service!Schedule, Event
      <3>. QED
        BY <2>2, <2>5, <3>2
        DEF Service!ServiceNext, Service!Times, Service!Statuses, Times, Statuses
    <2>6. CASE SetPut(h)
      BY <1>s, <2>1, <2>4, <2>5, <2>6 DEF SetPut
    <2>7. CASE SnoozePut(h)
      <3>1. s # "none" /\ kv[k].status # "none"
        BY <1>k, <2>1, <2>7 DEF SnoozePut, Recorded
      <3>. QED
        BY <2>1, <2>2, <2>4, <2>5, <2>7, <3>1 DEF SnoozePut
    <2>8. CASE CancelPut(h)
      <3>1. CASE Store(k, "canceled", t, of)
        <4>1. Service!Record(k, "canceled", t)
          BY <1>k, <1>s, <2>2, <3>1, StoreRecords
        <4>2. kv[k].status # "none" /\ UNCHANGED armed
          BY <1>k, <2>1, <2>8 DEF CancelPut, Recorded
        <4>3. Service!Cancel(k, t)
          BY <2>2, <2>3, <4>1, <4>2 DEF Service!Cancel, Event
        <4>. QED
          BY <2>2, <4>3 DEF Service!ServiceNext, Service!Times, Times
      <3>2. CASE UNCHANGED storeVars
        BY <2>4, <2>8, <3>2 DEF CancelPut
      <3>. QED
        BY <2>1, <2>8, <3>1, <3>2 DEF CancelPut
    <2>. QED
      BY <1>7, <2>6, <2>7, <2>8
  <1>8. CASE UNCHANGED vars
    BY <1>8, <1>u DEF vars
  <1>. QED
    BY <1>1, <1>2, <1>3, <1>4, <1>5, <1>6, <1>7, <1>8
    DEF Next, Processor, Proceed, Request

(* The scheduler keeps the promises of ReminderService: reminders are        *)
(* recorded one write at a time, completed only when due, and the event of a *)
(* completed version is told at most once, whatever the processor, the       *)
(* watcher, the requests, the failures and the restarts do.                  *)
THEOREM Implements == Spec => ImplementsService
<1>1. Init => Service!ServiceInit
  BY DEF Init, Service!ServiceInit, NoEntry
<1>2. [](TypeOK /\ Ordered /\ Overtaken /\ Scheduled /\ Recorded) => []Known
  <2>1. TypeOK /\ Ordered /\ Overtaken /\ Scheduled /\ Recorded => Known
    BY DEF Known
  <2>. QED
    BY <2>1, PTL
<1>3. Spec => []Known
  BY <1>2, TypeCorrect, UpdatesInOrder, AlwaysOvertaken, AlwaysScheduled,
     AlwaysRecorded, PTL
<1>4. Known /\ Known' /\ [Next]_vars => [Service!ServiceNext]_(Service!service)
  BY StepIsService
<1>. QED
  BY <1>1, <1>3, <1>4, PTL DEF Spec, ImplementsService, Service!ServiceSpec
===============================================================================
