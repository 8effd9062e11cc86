--------------------------- MODULE ReminderScheduler ---------------------------
(* The reminder scheduler of clients/nats.go and the HTTP handlers of        *)
(* handlers/ticket.go that drive it.  Four kinds of goroutine share the      *)
(* priority queue under pqMutex, and share the bucket with no lock at all:   *)
(*   - the processor (processReminders), which sleeps until the earliest     *)
(*     reminder, pops it, marks it completed in the bucket and publishes it; *)
(*   - the watcher (watchKVUpdates), which requeues every value written;     *)
(*   - the request handlers: set, cancel and snooze;                         *)
(*   - NewNATSClient, which loads the pending reminders when the process     *)
(*     starts.                                                               *)
(* A definition whose comment begins with "Mutant" is a faulty variant of    *)
(* the one after it; the specification does not use it.                      *)
(*                                                                           *)
(* A critical section of pqMutex that makes no remote call is one atomic     *)
(* action.  SnoozeReminder holds the lock across Get and Put, which are two  *)
(* actions here; "hpc[h] = snoozePut" is what "pqMutex is held" means.       *)
EXTENDS ReminderBucket, ReminderQueue, Integers, FiniteSets

CONSTANTS Handlers,         \* concurrent HTTP requests
          SnoozeDurations,  \* the durations a snooze request may ask for
          NoKey,            \* "no reminder in hand"
          MaxRequests,      \* bound: HTTP requests in a behaviour
          MaxCrashes,       \* bound: crashes and deployments' restarts
          MaxFaults         \* bound: failing calls to NATS

ASSUME NoKeyAssumption == NoKey \notin Keys
ASSUME SnoozeAssumption == SnoozeDurations \subseteq Int
ASSUME BoundsAssumption ==
  MaxRequests \in Nat /\ MaxCrashes \in Nat /\ MaxFaults \in Nat

VARIABLES
  pq, signal,           \* the heap, and the token of newReminderChan (capacity 1)
  ppc, peeked, read,    \* processor: program counter, local "reminder", entry got
  wpc, update,          \* watcher: program counter, local "update"
  hpc, req,             \* handlers: program counter, request and entry got
  alive, now,           \* the process is up; the wall clock
  requests, crashes, faults,                  \* the counters the bounds apply to
  published,            \* history: the events sent, each with the revision read
  missed,               \* history: completed in the bucket and never sent
  lost,                 \* history: keys whose queued copy was thrown away
  armed                 \* history: the times each key was ever scheduled for

storeVars   == <<kv, seq>>
linkVars    == <<sentSeq, inbox>>
queueVars   == <<pq, signal>>
procVars    == <<ppc, peeked, read>>
watchVars   == <<wpc, update>>
handlerVars == <<hpc, req>>
envVars     == <<alive, now, requests, crashes, faults>>
historyVars == <<published, missed, lost, armed>>

vars == <<storeVars, linkVars, queueVars, procVars, watchVars, handlerVars,
          envVars, historyVars>>

NoItem == [key |-> NoKey, time |-> 0]
NoUpdate == [key |-> NoKey, status |-> "none", time |-> 0, rev |-> 0]
NoRequest == [key |-> NoKey, status |-> "none", time |-> 0, of |-> 0, rev |-> 0]

LockFree == \A h \in Handlers : hpc[h] # "snoozePut"

Reliable == UNCHANGED faults
Fault == faults < MaxFaults /\ faults' = faults + 1

(* Mutant: the push leaves no token.                                         *)
PushQuietly(q, k, t) == pq' = With(q, k, t) /\ UNCHANGED signal

(* heap.Push: append and sift up, then offer a token without blocking.       *)
Push(q, k, t) == pq' = With(q, k, t) /\ signal' = TRUE

(* A write makes a lost key current again: the watcher will be sent it.      *)
Store(k, s, t, of) == Write(k, s, t, of) /\ lost' = lost \ {k}

Requests == [key : Keys, status : Statuses, time : Times, of : Nat, rev : Nat]
Events == [key : Keys, from : Nat]

Event == [key |-> peeked.key, from |-> read.rev]

Init ==
  /\ kv = [k \in Keys |-> NoEntry] /\ seq = 0 /\ sentSeq = 0 /\ inbox = <<>>
  /\ pq = EmptyQueue /\ signal = FALSE
  /\ ppc = "peek" /\ peeked = NoItem /\ read = NoEntry
  /\ wpc = "start" /\ update = NoUpdate
  /\ hpc = [h \in Handlers |-> "idle"] /\ req = [h \in Handlers |-> NoRequest]
  /\ alive = FALSE /\ now = 0 /\ requests = 0 /\ crashes = 0 /\ faults = 0
  /\ published = {} /\ missed = {} /\ lost = {}
  /\ armed = [k \in Keys |-> {}]

-----------------------------------------------------------------------------
(* The process starts, and stops.                                            *)

(* NewNATSClient: the queue and the channel are new; loadExistingReminders   *)
(* pushes the pending reminders, all of which the watcher will be sent too.  *)
(* If Keys fails nothing is loaded, and if a Get fails that key is skipped.  *)
Start ==
  /\ ~alive /\ alive' = TRUE
  /\ \E skipped \in SUBSET {k \in Keys : kv[k].status = "pending"} :
       LET loaded == {k \in Keys : kv[k].status = "pending"} \ skipped
       IN  /\ IF skipped = {} THEN Reliable ELSE Fault
           /\ pq' = [k \in Keys |-> [t \in Times |->
                      IF k \in loaded /\ kv[k].time = t THEN 1 ELSE 0]]
           /\ signal' = (loaded # {})
  /\ UNCHANGED <<storeVars, linkVars, procVars, watchVars, handlerVars,
                 now, requests, crashes, historyVars>>

(* Everything in memory goes; an event not yet sent is never sent.           *)
Down ==
  /\ alive' = FALSE
  /\ pq' = EmptyQueue /\ signal' = FALSE
  /\ ppc' = "peek" /\ peeked' = NoItem /\ read' = NoEntry
  /\ wpc' = "start" /\ update' = NoUpdate /\ sentSeq' = 0 /\ inbox' = <<>>
  /\ hpc' = [h \in Handlers |-> "idle"]
  /\ req' = [h \in Handlers |-> NoRequest]
  /\ lost' = {}

Crash ==
  /\ alive /\ crashes < MaxCrashes /\ crashes' = crashes + 1
  /\ Down
  /\ missed' = IF ppc = "trigger" THEN missed \cup {Event} ELSE missed
  /\ UNCHANGED <<storeVars, now, requests, faults, published, armed>>

Tick ==
  /\ now < MaxTime /\ now' = now + 1
  /\ UNCHANGED <<storeVars, linkVars, queueVars, procVars, watchVars, handlerVars,
                 alive, requests, crashes, faults, historyVars>>

-----------------------------------------------------------------------------
(* The watcher: watchKVUpdates.                                              *)

(* Mutant: the watcher asks for new values only.                             *)
WatchStartUpdatesOnly ==
  /\ alive /\ wpc = "start"
  /\ wpc' = "recv" /\ sentSeq' = seq
  /\ UNCHANGED <<storeVars, inbox, queueVars, procVars, update, handlerVars,
                 envVars, historyVars>>

(* WatchAll; when it fails the goroutine logs the error and ends.            *)
WatchStart ==
  /\ alive /\ wpc = "start"
  /\ \/ wpc' = "recv" /\ Reliable
     \/ wpc' = "failed" /\ Fault
  /\ UNCHANGED <<storeVars, linkVars, queueVars, procVars, update, handlerVars,
                 alive, now, requests, crashes, historyVars>>

Deliver ==
  /\ wpc \in {"recv", "push"}
  /\ \E k \in Keys : Transmit(k)
  /\ UNCHANGED <<queueVars, procVars, watchVars, handlerVars, envVars, historyVars>>

(* Mutant: the copy already queued is not removed.                           *)
WatchKeep ==
  /\ wpc = "recv" /\ inbox # <<>> /\ LockFree
  /\ inbox' = Tail(inbox)
  /\ IF Head(inbox).status = "pending"
     THEN wpc' = "push" /\ update' = Head(inbox)
     ELSE UNCHANGED watchVars
  /\ UNCHANGED <<storeVars, sentSeq, queueVars, procVars, handlerVars, envVars,
                 historyVars>>

(* The next update: under the lock, one queued copy of its key is removed.   *)
WatchRemove ==
  /\ wpc = "recv" /\ inbox # <<>> /\ LockFree
  /\ inbox' = Tail(inbox)
  /\ pq' \in RemoveOne(pq, Head(inbox).key)
  /\ IF Head(inbox).status = "pending"
     THEN wpc' = "push" /\ update' = Head(inbox)
     ELSE UNCHANGED watchVars
  /\ UNCHANGED <<storeVars, sentSeq, signal, procVars, handlerVars, envVars,
                 historyVars>>

(* Mutant: a reminder already due is not pushed.                             *)
WatchPushFutureOnly ==
  /\ wpc = "push" /\ LockFree
  /\ IF update.time > now THEN Push(pq, update.key, update.time)
     ELSE UNCHANGED queueVars
  /\ wpc' = "recv" /\ update' = NoUpdate
  /\ UNCHANGED <<storeVars, linkVars, procVars, handlerVars, envVars, historyVars>>

(* The lock is taken again to push the pending reminder.                     *)
WatchPush ==
  /\ wpc = "push" /\ LockFree
  /\ Push(pq, update.key, update.time)
  /\ wpc' = "recv" /\ update' = NoUpdate
  /\ UNCHANGED <<storeVars, linkVars, procVars, handlerVars, envVars, historyVars>>

-----------------------------------------------------------------------------
(* The processor: processReminders, markReminderCompleted, triggerReminder.  *)

(* Under the lock: look at the earliest reminder and compute the time left.  *)
Peek ==
  /\ alive /\ ppc = "peek" /\ LockFree
  /\ \/ /\ IsEmpty(pq)
        /\ ppc' = "poll" /\ UNCHANGED peeked
     \/ \E i \in Earliest(pq) :
          /\ peeked' = i
          /\ ppc' = IF i.time <= now THEN "pop" ELSE "sleep"
  /\ UNCHANGED <<storeVars, linkVars, queueVars, read, watchVars, handlerVars,
                 envVars, historyVars>>

(* Mutant: no timer while it sleeps until a reminder.                        *)
WakeOnTokenOnly ==
  /\ \/ ppc \in {"poll", "sleep"} /\ signal /\ signal' = FALSE
     \/ ppc = "poll" /\ UNCHANGED signal
  /\ ppc' = "peek" /\ peeked' = NoItem
  /\ UNCHANGED <<storeVars, linkVars, pq, read, watchVars, handlerVars, envVars,
                 historyVars>>

(* select: the token, or the timer (one second, or until the time peeked).   *)
Wake ==
  /\ ppc \in {"poll", "sleep"}
  /\ \/ signal /\ signal' = FALSE
     \/ (ppc = "poll" \/ peeked.time <= now) /\ UNCHANGED signal
  /\ ppc' = "peek" /\ peeked' = NoItem
  /\ UNCHANGED <<storeVars, linkVars, pq, read, watchVars, handlerVars, envVars,
                 historyVars>>

(* Mutant: the reminder popped is marked, not the one peeked.                *)
PopOther ==
  /\ ppc = "pop" /\ LockFree
  /\ \E i \in Earliest(pq) :
       pq' = Without(pq, i.key, i.time) /\ peeked' = i
  /\ ppc' = "get"
  /\ UNCHANGED <<storeVars, linkVars, signal, read, watchVars, handlerVars,
                 envVars, historyVars>>

(* The lock was released after the peek: what heap.Pop takes is the earliest *)
(* now, and the reminder that is then marked is still the one peeked.        *)
Pop ==
  /\ ppc = "pop" /\ LockFree
  /\ \E i \in Earliest(pq) :
       /\ pq' = Without(pq, i.key, i.time)
       /\ lost' = IF i.key = peeked.key THEN lost ELSE lost \cup {i.key}
  /\ ppc' = "get"
  /\ UNCHANGED <<storeVars, linkVars, signal, peeked, read, watchVars, handlerVars,
                 envVars, published, missed, armed>>

(* heap.Pop of an empty heap swaps indices 0 and -1: the panic ends the      *)
(* process.                                                                  *)
PopPanics ==
  /\ ppc = "pop" /\ LockFree /\ IsEmpty(pq)
  /\ Down
  /\ UNCHANGED <<storeVars, now, requests, crashes, faults, published, missed, armed>>

MarkGet ==
  /\ ppc = "get"
  /\ \/ /\ Reliable
        /\ read' = kv[peeked.key] /\ ppc' = "put"
        /\ UNCHANGED <<peeked, lost>>
     \/ /\ Fault
        /\ lost' = lost \cup {peeked.key}
        /\ ppc' = "peek" /\ peeked' = NoItem /\ UNCHANGED read
  /\ UNCHANGED <<storeVars, linkVars, queueVars, watchVars, handlerVars,
                 alive, now, requests, crashes, published, missed, armed>>

(* Mutant: the event is published before the reminder is marked.             *)
MarkWithoutPut ==
  /\ ppc = "put" /\ ppc' = "trigger"
  /\ UNCHANGED <<storeVars, linkVars, queueVars, peeked, read, watchVars,
                 handlerVars, envVars, historyVars>>

(* Put, whatever the revision is by now.  A failing Put may have been        *)
(* applied; either way the event is not sent.                                *)
MarkPut ==
  /\ ppc = "put"
  /\ \/ /\ Reliable
        /\ Store(peeked.key, "completed", read.time, read.rev)
        /\ ppc' = "trigger" /\ UNCHANGED <<peeked, read, missed>>
     \/ /\ Fault
        /\ \/ /\ UNCHANGED <<storeVars, missed>>
              /\ lost' = lost \cup {peeked.key}
           \/ /\ Store(peeked.key, "completed", read.time, read.rev)
              /\ missed' = missed \cup {Event}
        /\ ppc' = "peek" /\ peeked' = NoItem /\ read' = NoEntry
  /\ UNCHANGED <<linkVars, queueVars, watchVars, handlerVars,
                 alive, now, requests, crashes, published, armed>>

Trigger ==
  /\ ppc = "trigger"
  /\ published' = published \cup {Event}
  /\ ppc' = "peek" /\ peeked' = NoItem /\ read' = NoEntry
  /\ UNCHANGED <<storeVars, linkVars, queueVars, watchVars, handlerVars, envVars,
                 missed, lost, armed>>

(* Mutant: the error is logged and the loop goes on.                         *)
TriggerGivesUp ==
  /\ ppc = "trigger" /\ Fault
  /\ ppc' = "peek" /\ peeked' = NoItem /\ read' = NoEntry
  /\ UNCHANGED <<storeVars, linkVars, queueVars, watchVars, handlerVars,
                 alive, now, requests, crashes, historyVars>>

(* Mutant: the publication is tried again, although the event may be stored. *)
TriggerRetries ==
  /\ ppc = "trigger" /\ Fault
  /\ published' \in {published, published \cup {Event}}
  /\ UNCHANGED <<storeVars, linkVars, queueVars, procVars, watchVars, handlerVars,
                 alive, now, requests, crashes, missed, lost, armed>>

(* PublishEvent answers an error with logger.Fatal, which ends the process;  *)
(* the event may have been stored even so.                                   *)
TriggerFails ==
  /\ ppc = "trigger" /\ Fault
  /\ Down
  /\ \/ published' = published \cup {Event} /\ UNCHANGED missed
     \/ missed' = missed \cup {Event} /\ UNCHANGED published
  /\ UNCHANGED <<storeVars, now, requests, crashes, armed>>

-----------------------------------------------------------------------------
(* The request handlers.                                                     *)

Arrive(h) ==
  /\ alive /\ hpc[h] = "idle"
  /\ requests < MaxRequests /\ requests' = requests + 1

Step(h, pc, r) ==
  /\ hpc' = [hpc EXCEPT ![h] = pc]
  /\ req' = [req EXCEPT ![h] = r]

Finish(h) == Step(h, "idle", NoRequest)

(* SetTicketReminder: a time in the past is refused.                         *)
SetRequest(h, k, t) ==
  /\ Arrive(h) /\ t >= now
  /\ Step(h, "setGet", [key |-> k, status |-> "pending", time |-> t,
                        of |-> 0, rev |-> 0])
  /\ UNCHANGED <<storeVars, linkVars, queueVars, procVars, watchVars,
                 alive, now, crashes, faults, historyVars>>

(* StoreReminderInKV: any error of Get is read as "the key does not exist".  *)
SetGet(h) ==
  /\ hpc[h] = "setGet"
  /\ \/ Reliable /\ Step(h, "setPut", [req[h] EXCEPT !.rev = kv[req[h].key].rev])
     \/ Fault /\ Step(h, "setPut", req[h])
  /\ UNCHANGED <<storeVars, linkVars, queueVars, procVars, watchVars,
                 alive, now, requests, crashes, historyVars>>

(* Create (revision 0) or Update: refused unless the revision is still that. *)
SetPut(h) ==
  /\ hpc[h] = "setPut"
  /\ LET r == req[h]
     IN  \/ /\ kv[r.key].rev = r.rev /\ Reliable
            /\ Store(r.key, "pending", r.time, 0)
            /\ armed' = [armed EXCEPT ![r.key] = @ \cup {r.time}]
         \/ /\ \/ kv[r.key].rev # r.rev /\ Reliable
               \/ Fault
            /\ UNCHANGED <<storeVars, lost, armed>>
  /\ Finish(h)
  /\ UNCHANGED <<linkVars, queueVars, procVars, watchVars,
                 alive, now, requests, crashes, published, missed>>

(* CancelTicketReminder reads the entry before it calls CancelReminder.      *)
CancelGet(h, k) ==
  /\ Arrive(h) /\ kv[k].status # "none"
  /\ Step(h, "cancelPut", [key |-> k, status |-> "canceled", time |-> kv[k].time,
                           of |-> kv[k].of, rev |-> kv[k].rev])
  /\ UNCHANGED <<storeVars, linkVars, queueVars, procVars, watchVars,
                 alive, now, crashes, faults, historyVars>>

(* CancelReminder, under the lock: a copy leaves the queue, then the entry   *)
(* read earlier is Put as canceled.  A failing Put is logged and reported as *)
(* success: the copy is gone, the bucket still says pending.                 *)
CancelPut(h) ==
  /\ hpc[h] = "cancelPut" /\ LockFree
  /\ pq' \in RemoveOne(pq, req[h].key)
  /\ \/ Reliable /\ Store(req[h].key, "canceled", req[h].time, req[h].of)
     \/ /\ Fault /\ UNCHANGED storeVars
        /\ lost' = IF pq' = pq THEN lost ELSE lost \cup {req[h].key}
  /\ Finish(h)
  /\ UNCHANGED <<linkVars, signal, procVars, watchVars,
                 alive, now, requests, crashes, published, missed, armed>>

(* SnoozeReminder takes the lock and reads the entry, whatever its status.   *)
SnoozeGet(h, k, d) ==
  /\ Arrive(h) /\ kv[k].status # "none" /\ LockFree
  /\ kv[k].time + d \in Times
  /\ Step(h, "snoozePut", [key |-> k, status |-> kv[k].status,
                           time |-> kv[k].time + d, of |-> kv[k].of, rev |-> kv[k].rev])
  /\ UNCHANGED <<storeVars, linkVars, queueVars, procVars, watchVars,
                 alive, now, crashes, faults, historyVars>>

(* Put, whatever the revision is by now; then replace a copy in the queue.   *)
(* After a failing Put, applied or not, the queue is left as it was.         *)
SnoozePut(h) ==
  /\ hpc[h] = "snoozePut"
  /\ LET r == req[h]
         Save == /\ Store(r.key, r.status, r.time, r.of)
                 /\ armed' = [armed EXCEPT ![r.key] = @ \cup {r.time}]
     IN  \/ /\ Reliable /\ Save
            /\ \E q \in RemoveOne(pq, r.key) : Push(q, r.key, r.time)
         \/ /\ Fault /\ UNCHANGED queueVars
            /\ \/ Save
               \/ UNCHANGED <<storeVars, lost, armed>>
  /\ Finish(h)
  /\ UNCHANGED <<linkVars, procVars, watchVars,
                 alive, now, requests, crashes, published, missed>>

-----------------------------------------------------------------------------
Processor == Peek \/ Wake \/ Pop \/ PopPanics \/ MarkGet \/ MarkPut \/ Trigger
               \/ TriggerFails

Watcher == WatchStart \/ WatchRemove \/ WatchPush

Proceed(h) == SetGet(h) \/ SetPut(h) \/ CancelPut(h) \/ SnoozePut(h)

Request(h) ==
  \E k \in Keys : \/ \E t \in Times : SetRequest(h, k, t)
                  \/ CancelGet(h, k)
                  \/ \E d \in SnoozeDurations : SnoozeGet(h, k, d)

Next ==
  \/ Start \/ Crash \/ Tick \/ Deliver
  \/ Processor \/ Watcher
  \/ \E h \in Handlers : Proceed(h) \/ Request(h)

Spec == Init /\ [][Next]_vars

(* The goroutines run, accepted requests go on to their end, NATS delivers   *)
(* and time passes.  Nothing says that requests come, that calls to NATS     *)
(* fail, or that a stopped process is started again.                         *)
Fairness ==
  /\ WF_vars(Tick) /\ WF_vars(Deliver)
  /\ WF_vars(Processor) /\ WF_vars(Watcher)
  /\ \A h \in Handlers : WF_vars(Proceed(h))

FairSpec == Spec /\ Fairness

-----------------------------------------------------------------------------
(* Properties.                                                               *)

(* The one type invariant of the module.                                     *)
TypeOK ==
  /\ kv \in [Keys -> Entries] /\ seq \in Nat
  /\ sentSeq \in Nat /\ inbox \in Seq(Updates)
  /\ pq \in Queues /\ signal \in BOOLEAN
  /\ ppc \in {"peek", "poll", "sleep", "pop", "get", "put", "trigger"}
  /\ peeked \in Item \cup {NoItem} /\ read \in Entries
  /\ (ppc \in {"sleep", "pop", "get", "put", "trigger"} => peeked \in Item)
  /\ wpc \in {"start", "recv", "push", "failed"} /\ update \in Updates \cup {NoUpdate}
  /\ (wpc = "push" => update \in Updates)
  /\ hpc \in [Handlers -> {"idle", "setGet", "setPut", "cancelPut", "snoozePut"}]
  /\ req \in [Handlers -> Requests \cup {NoRequest}]
  /\ (\A h \in Handlers : hpc[h] # "idle" => req[h] \in Requests)
  /\ alive \in BOOLEAN /\ now \in Times
  /\ requests \in Nat /\ crashes \in Nat /\ faults \in Nat
  /\ published \subseteq Events /\ missed \subseteq Events
  /\ lost \subseteq Keys /\ armed \in [Keys -> SUBSET Times]

(* A pending reminder is never forgotten: it is queued at its own time, or   *)
(* its value is still on the way to the queue, or the processor is marking   *)
(* it, unless its copy was thrown away by one of the three paths "lost"      *)
(* records: a Pop that takes another reminder than the one peeked, a failed  *)
(* call in markReminderCompleted, a failed Put in CancelReminder.            *)
Tracked(k) ==
  \/ Holds(pq, k, kv[k].time)
  \/ k \in Unsent
  \/ \E i \in 1 .. Len(inbox) : inbox[i].key = k /\ inbox[i].rev = kv[k].rev
  \/ wpc = "push" /\ update.key = k /\ update.rev = kv[k].rev
  \/ ppc \in {"get", "put"} /\ peeked.key = k

TrackedOrLost ==
  wpc # "failed" =>
    \A k \in Keys : kv[k].status = "pending" => Tracked(k) \/ k \in lost

(* Why TrackedOrLost holds.  The bucket's revisions order the writes; what   *)
(* the watcher holds is current, or has been overtaken by a value that is    *)
(* still behind it on the way, so acting on it cannot be the last word.      *)
RevisionsInOrder ==
  /\ sentSeq <= seq
  /\ \A k \in Keys : kv[k].rev <= seq /\ (kv[k].status = "pending" => kv[k].rev > 0)
  /\ \A j, k \in Keys : j # k /\ kv[j].rev > 0 => kv[j].rev # kv[k].rev

Behind(u, first) ==
  \/ u.key \in Unsent
  \/ \E j \in first .. Len(inbox) :
       inbox[j].key = u.key /\ inbox[j].rev = kv[u.key].rev

UpToDate(u, first) ==
  \/ u.rev = kv[u.key].rev /\ u.status = kv[u.key].status /\ u.time = kv[u.key].time
  \/ u.rev < kv[u.key].rev /\ Behind(u, first)

StreamInOrder ==
  /\ \A i \in 1 .. Len(inbox) : UpToDate(inbox[i], i + 1)
  /\ wpc = "push" => UpToDate(update, 1)
  /\ wpc \in {"start", "failed"} => sentSeq = 0
  /\ ~alive => wpc = "start"

(* The processor never sleeps past an earlier reminder: while it sleeps, or  *)
(* polls an empty queue, every reminder pushed since is later than the one   *)
(* it waits for or has left a token in newReminderChan.                      *)
NoOversleep ==
  /\ ppc = "sleep" /\ ~signal =>
       \A k \in Keys, t \in Times : Holds(pq, k, t) => peeked.time <= t
  /\ ppc = "poll" /\ ~signal => IsEmpty(pq)

(* The queue does not grow: a key has at most two copies in it, and at most  *)
(* one while the watcher is between removing a copy and pushing the new one. *)
(* The second comes from a snooze that runs in that gap.                     *)
Spot(t, u) == IF u = t THEN 1 ELSE 0

OneCopy(q, k) == \E t \in Times : \A u \in Times : q[k][u] <= Spot(t, u)

TwoCopies(q, k) ==
  \E s, t \in Times : \A u \in Times : q[k][u] <= Spot(s, u) + Spot(t, u)

AtMostTwoCopies ==
  \A k \in Keys : IF wpc = "push" /\ update.key = k THEN OneCopy(pq, k)
                                                  ELSE TwoCopies(pq, k)

(* One stored version of a reminder is published at most once, whatever      *)
(* restarts and failed calls do: completing it gives the key a new revision. *)
NeverTwice == ppc = "trigger" => Event \notin published

(* A reminder fires early only if it was once scheduled for a time that has  *)
(* come: whatever pop, snooze and stale updates do to the queue, the key the *)
(* processor marks and publishes was armed for a time now past.              *)
FiresAfterSomeSchedule ==
  ppc \in {"pop", "get", "put", "trigger"} =>
    \E t \in armed[peeked.key] : t <= now

(* "completed" in the bucket means the event of the version completed was    *)
(* published, is about to be, or is recorded as missed: the process died, or *)
(* the answer of Put was lost, between Put and Publish.                      *)
CompletedIsSent ==
  \A k \in Keys : kv[k].status = "completed" =>
    LET e == [key |-> k, from |-> kv[k].of]
    IN  e \in published \/ e \in missed \/ (ppc = "trigger" /\ Event = e)

(* The scheduler keeps the promises of ReminderService: at every step of the *)
(* processor, the watcher, the requests, and at the end of the process, what *)
(* the users can see changes as the abstract specification says.             *)
Service == INSTANCE ReminderService
  WITH clock <- now, times <- armed, told <- published,
       book <- [k \in Keys |-> [status |-> kv[k].status, time |-> kv[k].time]],
       version <- [k \in Keys |-> kv[k].rev],
       owed <- IF ppc = "trigger" THEN {Event} ELSE {}

ImplementsService == Service!ServiceSpec

(* While the process stays up every due reminder is acted upon: completed,   *)
(* canceled, or moved to a later time, unless it was lost or the watcher     *)
(* could not be started.  "Stays up" cannot be left out: with the same       *)
(* reminder due after each restart, the initial updates of the watcher can   *)
(* empty the queue between peek and pop, and the process panics, each time.  *)
DueIsHandled ==
  \A k \in Keys :
    (kv[k].status = "pending" /\ kv[k].time <= now)
      ~> (kv[k].status # "pending" \/ kv[k].time > now \/ k \in lost
             \/ wpc = "failed" \/ ~alive)

(* nats.go:207 "Process reminders continuously": the loop finds in the queue *)
(* the reminder it decided to pop.                                           *)
PopFindsAReminder == ppc = "pop" => ~IsEmpty(pq)

(* nats.go:388 "Atomic Processing with CAS Update": a reminder is completed  *)
(* only at the revision that was read.                                       *)
CompletionIsCAS ==
  [][ppc = "put" /\ ppc' = "trigger" => kv[peeked.key].rev = read.rev]_vars

==============================================================================
