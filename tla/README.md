# client-nest: a verification project

client-nest is a CRM ticket service: an HTTP server (gin) over PostgreSQL, Redis and
NATS JetStream, all of it in one Go process that systemd restarts. Customers and
employees create tickets, tickets are assigned, users set reminders, and everyone
concerned is told by mail. This directory holds TLA+ models of the parts of it that
are concurrent or can fail half-way, TLC configurations that check them, and TLAPS
proofs of the main results about them. `PROJECT.json` says which
lines each definition models, which hazard each property is for, and which mutation of
the model each property catches.

## 1. Inventory

| Component | State | Operations | Hard because |
|---|---|---|---|
| Reminder scheduler (`clients/nats.go`, reminder handlers of `handlers/ticket.go`) | heap `pq` under `pqMutex`, token channel `newReminderChan`, KV bucket `ticket_reminders` | `processReminders`, `markReminderCompleted`, `triggerReminder`, `watchKVUpdates`, `loadExistingReminders`, `StoreReminderInKV`, `CancelReminder`, `SnoozeReminder` | four kinds of goroutine share the queue under a lock that is released half-way, and share the bucket with no lock; the process may end anywhere |
| Priority queue (`ReminderPriorityQueue`) | a slice | push, pop, remove by key | removal from the middle of a heap |
| Ticket handlers (`CreateTicket`, `AssignTicket`) | table `tickets` | transactions, then an event | concurrent transactions at READ COMMITTED; the event is outside the transaction |
| Streams and consumers (`createOrUpdateStream`, `PublishEvent`, `QueueSubscribe`, `consumers/*.go`) | `CRM_TICKETS`, `CRM_DLQ`, pending messages | subscribe, fetch recipients, mail, dead-letter, Ack and Nak | messages are delivered at most once; one failing publication ends the process |
| Attachments (`GeneratePresignedUploadURL`, `ConfirmS3Upload`) | table `ticket_attachments`, two Redis keys | request an upload, confirm it | writes to two stores, keys that expire |
| Sessions (`handlers/auth.go`, `authMiddleware`, `cache/redis_lock.go`) | Redis key per token, Redis mutex per user | login, logout, renewal at every request | check, then set, with expiry; a mutex that expires under its holder |
| Permissions (`rbacMiddleware`, `GetTicketOwner`) | Redis keys for permissions and owners, permission tables | check, with two caches in front of the tables | the tables change while a request is between its read and its write of the cache |
| sqlc queries, mail and S3 clients, configuration, logging, helpers | none of their own | | |

How they interact: a ticket request commits a transaction and publishes an event to
`CRM_TICKETS`; a reminder request writes the bucket, whose watcher feeds the queue; the
processor publishes the event of a due reminder; the consumer of the event's kind reads
the recipients from the database and mails them one by one, and moves the event to
`CRM_DLQ` if a mail fails. `PublishEvent` answers an error with `logger.Fatal`, so that a
failure in one component ends all of them; what they held in memory is gone.

What makes each one correct:

- scheduler: a pending reminder is never forgotten, is acted upon when due, is not
  published twice or before a time it was scheduled for; completed means sent;
- queue: it is a bag from which an earliest item is taken;
- tickets: assignee, team and watchers agree; events match the commits;
- consumers: no event vanishes, no recipient is skipped unnoticed or mailed twice, a
  new assignee is told;
- sessions: whoever logs in stays in to the end of the day, whoever logs out is out, and a
  login keeps its mutex for as long as the mutex is good;
- attachments: an upload can be confirmed as long as it can be made; what was confirmed is
  named in its row;
- permissions: a revoked permission is forgotten ten minutes later, however often it is
  used; one that was granted counts at once.

## 2. Modules

| Module | Models |
|---|---|
| `ReminderData` | keys, times and statuses of `data.Reminder` |
| `ReminderQueue` | what the scheduler assumes of the queue: a bag, as a function from key and time to the number of copies |
| `ReminderQueueSpec` | the same as a state machine: the abstract specification of the heap |
| `ReminderHeap` | `ReminderPriorityQueue` under `container/heap`, one step per turn of its loops; implements `ReminderQueueSpec` |
| `ReminderBucket` | the JetStream key-value bucket and its watcher (external) |
| `ReminderScheduler` | the scheduler, one action per critical section or remote call |
| `ReminderService` | what users are promised of reminders, with no queue, watcher, lock or process: the abstract specification of the scheduler |
| `TicketData` | rows, users, events, and the operations on the list of watchers |
| `TicketAssignment` | `CreateTicket` and `AssignTicket` with their transactions |
| `EventConsumers` | streams, subscriptions and consumers, composed with `TicketAssignment` |
| `Notification` | what users are promised of the mails about an event, with no stream, subscription, callback or process: the abstract specification of the consumers |
| `RedisCache` | Redis keys that expire (external), as `cache/redis.go` uses them |
| `Sessions` | login with its mutex, logout and `authMiddleware` |
| `Attachments` | the upload URL and its confirmation |
| `Permissions` | `rbacMiddleware` with its two caches, and the operator who grants and revokes |
| `Requests` | the HTTP server: the routes behind `authMiddleware`, composed of the three modules above |
| `MC...` | small instances for TLC |
| `ReminderSchedulerProofs`, `ReminderRefinement`, `HeapProofs`, `TicketProofs`, `ConsumerProofs`, `PromiseProofs`, `RequestsProofs`, `AccessProofs` | the theorems |

`ReminderScheduler` extends `ReminderBucket` and `ReminderQueue`; `EventConsumers`
extends `TicketAssignment` and combines its actions with its own (a publication is also
a delivery, the end of the process clears both). The reminder that `EventConsumers`
lets fire stands for `Trigger` of `ReminderScheduler`. `Attachments` and `Permissions`
extend `Sessions`, and `Requests` extends both: their requests share handlers, Redis,
clock, failures and the process, and each step of one leaves the variables of the others
alone. `Sessions`, `Attachments` and `Permissions` have initial states and steps but no
specification of their own; `Spec` of `Requests` is the one that is checked and proved.

### The scheduler

| Code | Model |
|---|---|
| `pq` | `pq`, a bag; which copy of a key, or which of several earliest items, comes first is arbitrary |
| `newReminderChan` | `signal`, TRUE when it holds its token |
| `pqMutex` | critical sections with no remote call are single actions; `SnoozeReminder` holds the lock over two calls, and `LockFree` guards all other sections |
| the loop of `processReminders` | `ppc`: `peek`, `poll` (empty queue), `sleep` (timer), `pop`, then `get`, `put` and `trigger` of `markReminderCompleted` |
| `watchKVUpdates` | `wpc`: `start`, `recv` (remove), `push`, and `failed` when `WatchAll` failed |
| requests | `hpc`: `setGet`, `setPut`, `cancelPut`, `snoozePut`, with the entry read in `req` |
| bucket | `kv`, revisions from `seq`; the watcher's stream is `sentSeq` and `inbox` |
| `Reminder.Revision` | the field `of` of an entry |

The status of a stored reminder and its time are data; messages and event payloads are
not modelled. `published` holds the pairs of key and revision for which an event was
sent. Three more history variables serve the properties: `lost` (the keys whose queued
copy the code throws away), `missed` (completed, event never sent) and `armed` (times a
key was ever scheduled for). None of them guards an action.

Failing calls are steps of their own, bounded by `MaxFaults`. A failing write may have
been applied. Crashes, bounded by `MaxCrashes`, stand for `logger.Fatal` (also on a lost
NATS connection), `systemctl restart` at each deployment, and panics.

### The queue

`Push`, `Pop` and `Remove` of `container/heap` are not single steps of `ReminderHeap`, but
begin one: `Insert`, `TakeEarliest` and `TakeKey`. `phase` says which of the library's loops
the operation is in, `at` where the item is that sinks (`Down`) or rises (`Up`), `start`
where it began to sink, as `heap.Remove` lets it rise if it did not sink at all; `Take` is
`h.Pop`. Nothing else happens in between, as `pqMutex` is held. For the abstract queue an
item is there from `Insert` on, and gone at `Take`; all other steps are stutters.

### Tickets and consumers

A handler of `AssignTicket` has the program counters `update` (it has read the row and
decided), `commit` (it holds the row's lock), `publish`. `row` is what is committed: the
two UPDATEs become visible at the commit. A customer's or employee's role and team do not
change. `overwritten` records that a commit replaced a row other than the one it had
read; `unsent` that a committed request gave up its event.

A consumer takes a message and reads the recipients (`Fetch`), mails them in order
(`Mail`), and ends (`Settle`, `SettleEnds`). The callbacks of one subscription run one
after the other; those of the four subscriptions are concurrent. `audience` and `mailed`
record the recipients read and who was mailed; `Due` is how many mails a user is to get of
an event, as customers hear of nothing but new tickets and reminders; `handled`, `nakked`,
`dropped` how events ended.

### The HTTP server: sessions, attachments, permissions

| Code | Model |
|---|---|
| a goroutine that serves a request | a handler `h`, with `pc`, `tok`, `op` and `ttl`, and `att` or `wish` for the route it is on |
| `jwt_sig:...`, `attachmentIdKey:...`, `s3Id:...`, `permission:...`, `ticket:owner:...` | `session`, `idKey`, `s3Key`, `permKey`, `ownerKey`: the time at which each key expires |
| a cached "1" | `permYes`; a key in `permKey` and not there is a cached "0" |
| the mutex of a login | `mutex`, `mutexBy` (the value of its key), `until` (what its holder believes) |
| `role_permissions` joined with `permissions` | `granted`, changed by `Grant` and `Revoke` |
| `registerRoutes` | `Routes`, the first step of each route |

A protected request reads the key (`Check`), computes the time left of the day (`Measure`),
writes the key again (`Renew`), and enters its route: `LogoutGet` and `LogoutDelete`, a
step of `Attachments` per call to Redis and the database, or the gate of `Permissions`.
`Call` says how each call that changes something ends: well, or with an error, after which
the change may or may not have been made. `out` are the tokens logged out, `raced` those
whose last logout overtook a request that was about to write the key again. Such a request
undoes the logout, and `LoggedOutStaysOut` excuses it and nothing else: a second logout,
with no such request under way, is final. A token is a user and a time, as JWTs of one
second are equal.

A login holds a Redis mutex of its user, good for `redis.lockExpiry` seconds whether or
not the login is over, so it does not exclude a second login for certain. What it does
promise is `AloneInLogin`: as long as a mutex is good its holder has it. This depends on
redsync giving back a mutex only if the value of its key is still the one it wrote
(`HasMyValue`).

Behind the gate, `GetTicketOwner` is asked for users of the role whose id is `customer`
(`CustomerRole`), as `rbacMiddleware` compares the role's id; with the seed data of the
repository's Readme no role has that id, and the branch is taken only where one was
created with it. The creator of a ticket never changes, so the cached owner needs no
invalidation (`InvalidateTicketCache` has no caller). A permission that is read, then
revoked, then cached is excused by `late`; `heldTo` is the time of the last revocation.
`lacked` are the handlers whose request the tables did not allow at some time since it
arrived, `unread` those whose lookup of the ticket's owner failed (`OwnerUnknown`): the code
gives it the same 403 as a wrong owner, so that it is a refusal in the model as well. A
failing query for the permission is answered with 500, which is none. What the routes
behind the gate do is in `TicketAssignment` and `ReminderScheduler`: the gate adds nothing
to it but that some requests do not get there, and both let any request arrive at any time.
So "in" is an answer in `Permissions`.

Time is counted in coarse units: `DayLength` of them are a day, whose last begins at
23:59:59, when the life of a key would be 0 and `SETEX` refuses it; `Hour` of them are the
sixty minutes of a URL and its keys, and `CacheLife` the ten minutes of a permission. An
employee's login makes a key for seven days, and the first request cuts it to the end of
its day: `OpenUntilEndOfDay` is what remains for both kinds of users. The unit hides that
`int64(expiration.Seconds())` (`cache/redis.go`) cuts a life to whole seconds: a key may end
up to one second before 23:59:59, and `SETEX` refuses from just after 23:59:58. So the end
of the day in `OpenUntilEndOfDay` is meant to the second.

A client confirms any attachment whose id it was given, at any time and as often as it likes,
and whether or not it has sent the file: `ConfirmS3Upload` asks Redis and never S3. Ids are
drawn at random, so that a client confirms none that nobody was given. `SuccessMeansNamed`
speaks of the row alone; that the file is there too is not claimed, and is not so.

## 3. Runs

| Run | Bounds | Shows |
|---|---|---|
| `safety` | 2 keys, 2 handlers, times 0..2, 3 requests, no failures | `TrackedOrLost`, `NoOversleep`, `FiresAfterSomeSchedule`, `AtMostTwoCopies` |
| `faults` | the same, 2 requests, 1 crash, 1 failing call | `TypeOK`, `TrackedOrLost`, `NeverTwice`, `CompletedIsSent`, `ImplementsService` |
| `liveness` | 2 keys, 1 handler, times 0..1, 2 requests, 1 failing call | `DueIsHandled` under fairness |
| `heap` | up to 6 items of 2 keys and 3 times | `HeapOrdered`, `SiftOrdered`, `ImplementsQueue` |
| `assign` | 1 ticket, 4 employees in 2 teams, 1 customer, 3 handlers, 4 requests, 1 failure | `TypeOK`, `AssigneeWatches`, `WatchersStaySound`, `EventsMatchCommits`, `OnlyOverwritesLose` |
| `notify` | 1 ticket, 2 employees, 1 customer, 2 handlers, 3 requests, 1 failure | `HandledMeansTold`, `MailedOnce`, `AssigneeTold`, `CommitsAccounted`, `ImplementsNotification` |
| `settle` | 1 creation, 1 reminder, 2 failures, from the very first start | `EveryEventAccounted`, `EventsSettle` under fairness |
| `requests` | an employee and a customer, 2 handlers, 3 requests, times 0..3, 1 failure; one of: 2 logins with logouts, 1 login with uploads of an attachment and logouts, 1 login with assignments behind the gate and 2 changes of permissions | `TypeOK`, `AloneInLogin`, `OpenUntilEndOfDay`, `LoggedOutStaysOut`, `ConfirmableWhileUploadable`, `SuccessMeansNamed`, `RevokedIsForgotten`, `RefusedForAReason` |
| `pop`, `cas`, `previous`, `nak` | smallest that show it | the code does not do what it says, below |

Why the bounds suffice. In the scheduler two reminders are needed for one to be popped
in place of another and for the earliest to change while the processor sleeps; three
requests let a snooze and a cancel meet the update of the set before them; times 0..2
give a past, a present and a future. One failure at every place of every behaviour is
what the code is written for; the second in `settle` lets a mail fail after the
dead-letter stream could not be created. A heap of six is the smallest in which the item
that `heap.Remove` moves into the hole may have to rise, and three times are enough to tell
an item from an earlier parent and a later child. One ticket suffices as tickets
share nothing but the process. In
`requests`, times 0..3 are one day of three units and the start of the next, an hour and a
cached permission last two units, a mutex one: a request can span midnight, an upload the
end of its hour, a login the end of its mutex, and a permission can be cached, revoked, used
and expire. Three requests create an attachment and confirm it twice, renew a session around
a logout, or fill the cache and find it stale; two logins in the same unit give one token.
`Traffic` says which of the routes one behaviour uses: all combinations at once are out of
TLC's reach, and the three families touch different keys apart from the session's. The
theorems below have no such bound.

What they do not tell. `TrackedOrLost` and `FiresAfterSomeSchedule` speak of the value that is
stored now and of the times a key was ever scheduled for. A set, cancel or snooze that
overwrites a newer one, and a reminder that fires at a time a snooze has replaced, are allowed:
the code does both, and no document says what should come of it. The one it does promise,
of a completion, is `CompletionIsCAS`, and the code breaks it. `RefusedForAReason` excuses a
request whose own lookup of the owner failed; a failure in another request, or in the use of
a cache, is no excuse.

Two things the code does, and the model with it, that no property forbids, as the code makes
no other promise of them than its answers: a logout between the check of another request with
the same token and its renewal is undone (`raced`), and "File uploaded successfully" is said to
a client that has sent nothing, so that the row names an object that is not in S3
(`confirmed` is then not within `object`).

Fairness. `FairSpec` of the scheduler assumes that time passes, that NATS delivers, that
the two goroutines run and that requests once accepted go on: the Go scheduler and the
NATS client give no less, since each loop waits only for the lock, for a timer or for a
message. Requests, failures and restarts are not assumed to happen. `EventConsumers`
assumes only that each subscription's callback goes on. A call to SES or PostgreSQL that
never returns is excluded: those calls have no deadline in the code.

`DueIsHandled` excuses a process that has ended, and has to: with a reminder due at every
restart, the watcher's initial updates can empty the queue between peek and pop, and the
process panics, each time.

### What the violated properties show

- `PopFindsAReminder` (`pop`): `processReminders` peeks in one critical section and pops
  in another. If the watcher or a cancel removes the last reminder in between,
  `heap.Pop` of the empty queue panics in a goroutine that nothing recovers.
- `CompletionIsCAS` (`cas`): "Atomic Processing with CAS Update" is Get, then an
  unconditional Put. A cancel, a snooze or a new set in between is overwritten.
- `EventNamesThePrevious` (`previous`): the second of two concurrent assignments
  decides "assigned" or "reassigned", names the previous assignee, and computes the
  watchers from the row it read before the first one committed.
- `NakIsRedelivered` (`nak`): the consumers count on redelivery after Nak. The messages
  come from a core NATS subscription, which redelivers nothing.

## 4. Proofs

The theorems hold for any sets of keys, users, tickets, uploads and handlers and any
bounds, from the assumptions named in the modules that declare the constants
(`MaxTimeAssumption`, `NoKeyAssumption`, `SnoozeAssumption`, `BoundsAssumption`;
`SessionAssumption`, `UploadAssumption`, `GateAssumption`, `TrafficAssumption`;
`RolesAssumption`, `TicketBoundsAssumption`).

| Module | Theorem | Says |
|---|---|---|
| `ReminderSchedulerProofs` | `TypeCorrect` | `Spec => []TypeOK` |
| | `SleepIsSafe` | `Spec => []NoOversleep` |
| | `UpdatesInOrder` | `Spec => []Ordered` |
| | `NothingForgotten` | `Spec => []TrackedOrLost` |
| | `TwoAtMost` | `Spec => []AtMostTwoCopies` |
| | `PublishedOnce` | `Spec => []NeverTwice` |
| `ReminderRefinement` | `FiresOnTime` | `Spec => []FiresAfterSomeSchedule` |
| | `CompletionsAreSent` | `Spec => []CompletedIsSent` |
| | `Implements` | `Spec => ImplementsService` |
| `HeapProofs` | `AlwaysSifts` | `Spec => []SiftOrdered` |
| | `StaysHeap` | `Spec => []HeapOrdered` |
| | `HeapIsQueue` | `Spec => ImplementsQueue` |
| `PromiseProofs` | `ServiceTellsOnce` | `ServiceSpec => []ToldIsOver` |
| | `EndsOnce` | `NotificationSpec => []OneEnd` |
| | `EndsForGood` | `NotificationSpec => EndIsFinal` |
| | `DecidesOnce` | `NotificationSpec => DecidedOnce` |
| `RequestsProofs` | `TypeCorrect` | `Spec => []TypeOK` |
| `AccessProofs` | `LogoutHolds` | `Spec => []LoggedOutStaysOut` |
| | `LoginsAlone` | `Spec => []AloneInLogin` |
| | `StaysLoggedIn` | `Spec => []OpenUntilEndOfDay` |
| | `Forgets` | `Spec => []RevokedIsForgotten` |
| | `RefusesForAReason` | `Spec => []RefusedForAReason` |
| | `StaysConfirmable` | `Spec => []ConfirmableWhileUploadable` |
| | `SuccessIsNamed` | `Spec => []SuccessMeansNamed` |
| `TicketProofs` | `TicketsTyped` | `TicketSpec => []TypeOK` |
| | `AssigneesWatch` | `TicketSpec => []AssigneeWatches` |
| | `EventsMatch` | `TicketSpec => []EventsMatchCommits` |
| | `WatchersSound` | `TicketSpec => []WatchersStaySound` |
| | `OverlapsOnlyLose` | `TicketSpec => OnlyOverwritesLose` |
| `ConsumerProofs` | `AssigneesStillWatch` | `Spec => []AssigneeWatches` |
| | `WatchersStillSound` | `Spec => []WatchersStaySound` |
| | `OverlapsStillOnlyLose` | `Spec => OnlyOverwritesLose` |
| | `NoneVanishes` | `Spec => []EveryEventAccounted` |
| | `CommitsComeToAnEnd` | `Spec => []CommitsAccounted` |
| | `ToldWhenHandled` | `Spec => []HandledMeansTold` |
| | `NeverMailedTwice` | `Spec => []MailedOnce` |
| | `AssigneesHear` | `Spec => []AssigneeTold` |
| | `ImplementsPromise` | `Spec => ImplementsNotification` |

**The scheduler.** `NoOversleep` is inductive with the types: only `Push` adds an item,
and it leaves a token. `TrackedOrLost` is not. When the watcher removes a queued copy
because of an old update, the current value must still be on its way, which nothing in
`TrackedOrLost` says. `Ordered` says it: revisions grow with `seq`, no two keys have the
same one, and each update in `inbox`, or in the watcher's hand, is either the current
value of its key or has been overtaken by one that is unsent or behind it in `inbox`
(`RevisionsInOrder`, `StreamInOrder`). `Ordered` is inductive; `TrackedOrLost` follows
step by step from it (`StillTracked` is the lemma for steps that do not touch a key).
`NeverTwice` needs that the revision in the processor's hand is not one of those
published before: it is strengthened by bounding the revisions in `published` by the
stored revision of the key, which completing the reminder makes grow (`RevisionsGrow`).
The lemmas `WithCounts`, `WithoutCounts` and `RemoveOneCounts` say what the operations of
the bag do to the number of copies.

`AtMostTwoCopies` speaks of the copies a key has at all times together, a sum over a set of
any size. It is stated without the sum: there are two times, or one, at which all of the
copies are (`TwoCopies`, `OneCopy`). In this form it is inductive with the types: the
watcher's removal takes one copy of two (`RemoveCopies`) and its push adds one to one
(`PushCopies`). A snooze removes a copy and pushes one under the same lock, and so leaves
at most as many as there were, or one where there was none: if that happens between the
watcher's two steps, the watcher's push makes it two.

**The queue.** `HeapOrdered` says nothing while a loop runs. `SiftOrdered` does: while an
item sinks, only its children may be earlier than it, and they are no earlier than its
parent; while it rises, it alone may be earlier than its parent. The item that `heap.Remove`
has put in the hole may be earlier than its parent as long as it has not sunk: so both loops
may be needed, and the invariant is what makes the second right after the first did
nothing. `DownSifts` and `UpSifts` say that a turn of a loop keeps it, and `HeapOrdered` is
what it says at the end. That the root is earliest (`RootIsLeast`) is
an induction over positions, which is done on the least position that is earlier than the
root (`LeastNumber`), as no induction theorem of the library can be used. `RightOneWaits` says
that the item at the end of the slice is one that may be returned: an earliest one for
`Pop`, one of the key wanted for `Remove`. The abstract bag counts, for each key and time,
the positions at which they are: `CountSwap` says that exchanging two items changes no
count, `CountPush` and `CountTake` that an append or the removal of the last one changes one
count by one. So each step of a loop is a stutter, `Insert` adds to the bag, and `Take` takes an
earliest reminder or one of the key. The bag is the one the scheduler's theorems are about.

**The refinement.** `Scheduled` says that whatever is pending in the bucket, queued, on the
way to the queue or in a hand has a time its key was scheduled for; it is inductive and
gives `FiresAfterSomeSchedule`. `ReminderService` is reached by reading `kv` as the book of
reminders, its revisions as versions, `armed` as the times and `published` as what was
told; the event owed is the one in the processor's hand at `trigger`. Every step is then one
of the service, or a stutter: `MarkPut` is `Complete`, which is allowed because of
`Scheduled` and `NeverTwice`'s invariant; `Trigger` is `Tell`; the end of the process is
`Lose` when an event was owed. `ServiceTellsOnce` says of the abstract specification, and
hence of everything that implements it, that no version is told of twice.

**The server.** Types alone are not inductive: a route's step applies its functions to
`att[h]` or `wish[h]`, so that what a handler holds must fit where it is (the last conjunct
of `TypeOK`). `MovesControlled` and its kin say that once for all steps. On top of it:

- `LogoutsRaced`: whoever is about to write the key of a token that is logged out is among
  those the history excuses;
- `MutexHeld`: a login's `until` is the expiry of the mutex as long as it is good, and
  then the key has its value; one that overstayed finds another value, or none;
- `DayOpen`: a session's key lasts to the end of the day of its login, and so does what a
  renewal is about to write (`LongEnough`), as later times have later ends of day
  (`DaysEnd`, `ExpiryIsLater`);
- `Cached`: no cached permission lives longer than `CacheLife` from now; a revocation
  therefore finds it with at most that left, and a use does not prolong it;
- `Reasons`: a handler that has read a "no" is among those whose request the tables did not
  allow at some time since it arrived, and one that is about to refuse is among these or
  has failed to read the owner; a request that was allowed all the time finds no reason
  in a cache, as a cached "0" is not believed and a ticket's creator does not change;
- `Orderly`: no two handlers create the same attachment (`Alone`), a handler's keys
  outlive the URL as far as it has got (`Task`), and so do those of an upload that a client
  knows of (`Sound`).

**The tickets.** `Busy` ties what a handler holds to its step. `WatchedOnce` says of every
row that was ever assigned what `AssigneeWatches` says, which each commit restores from the
row it read. `Matched` numbers the events: each handler with an event has a number of its
own, not used in the stream, and every committed number is accounted for. `SoundLists` says
that the list a handler has read, old or not, is as sound as those of the rows: it was one
of them. `AddsSound` says that an assignment keeps it sound: it adds nobody who is on it,
and takes nobody off. `OnlyOverwritesLose` is about steps: where a commit finds the row it has
read, it keeps everyone on the list and replaces the assignee its event names. `Recalled`
says that the event's previous assignee is the one of the row read; the rest is
`KeepsListed`, that adding to a list takes nobody off.

**The consumers.** Each step of the whole process is one of the handlers, or ends the
process under requests that are not at fault, or leaves tickets and requests alone but for
a reminder's event (`TicketCases`). The lemmas for the steps of `TicketSpec` therefore carry
over, and what was proved of the handlers on their own holds of them next to the consumers
(`AssigneesStillWatch`, `WatchersStillSound`, `OverlapsStillOnlyLose`). `CommitsComeToAnEnd`
joins the two halves: what is committed is stored as an event, given up, or in the hands of
a handler that is about to publish it (`Announced`), and what is stored is accounted for.

`NoneVanishes` needs the types only: each step takes an event from one
place and puts it in another, and `WhereInFlight` says what the places are. The others
need that an event is in one place. `Numbers` says that no two events have the same number,
`Apart` that a waiting event or one in hand is in no other box and not settled, and that
nobody was mailed of one that waits. Then the mails can be counted, by `CountAppend` and
`CountTail`: for a user the event concerns, mails sent and listings still to come make up
all listings, or fall short if a mail to the user failed (`Counted`). When none are to come
this says what `HandledMeansTold` does of the two ways to settle. `Current` says that the
ticket of an assignment event lists its assignee unless it is `overwritten`; so does the
list read since, and `Heard` takes this from the query to the end of the callback.

`Notification` knows five sets of events: announced, being mailed, told, buried and lost.
They are the messages that wait, those in hand, `handled`, `dlq` and `dropped`; what is due
and sent comes from `audience` and `mailed` (`MailsDue`, `MailsSent`). Its actions let an
event be taken once, be mailed only while it is being mailed and no more than is due, and
end once. The proof needs of the dropped events what `Apart` says of the settled ones
(`Ends`). A publication is `Announce`, or `Lose` when no one is subscribed; a query is
`Take` or `Lose`; a callback's end is `Finish`; the end of the process is one `Lose` of
all that was in flight.

**The promises.** What `ReminderService` and `Notification` come to is proved of them, and so
holds of whatever implements them. `EndsOnce` says that an event is in at most one place and
has at most one end, which tells whether mails are missing; it needs that nobody is mailed
before the recipients are decided on (`Unmailed`). `EndsForGood` and `DecidesOnce` say of every
step that it leaves alone an event that has ended, and that it decides on the recipients of an
event only before the first mail of it. By `ImplementsPromise` the consumers keep all three.

Only model-checked: both liveness properties, `DueIsHandled` and `EventsSettle` (fairness is out
of the prover's reach), and the four properties that the code violates.

## 5. Not modelled

- The rate limiter, sign-up and one-time passwords, and the routes for the status, closing
  and deletion of tickets: nothing calls them, or they are commented out.
- The draining of the HTTP server as steps of its own. `App.cleanup` waits in `Shutdown` for
  the requests to end, but `ListenAndServe` returns when `Shutdown` begins, `startServer`
  then returns, and so does `main`: a signal may end the process at any step of a request,
  as `Crash` and `End` do. If `Shutdown` is done first, the pool is closed while the
  consumers run, and their queries fail, as in `Fetch`.
- The request that the mail client makes. `mailed` are the calls of `SendEmail` that
  succeeded; a mail whose call failed may have been delivered all the same.
- Generated queries are part of the actions that run them; configuration, logging and the
  formatting of answers have no state.
- HTTP decoding and validation; a request that is refused before it changes state is not
  a step.
- Deletion: the code never deletes a reminder, so that `watchKVUpdates` gets no empty
  value. Malformed stored JSON: only the program writes the bucket.
- A call that fails before it does anything, where the code then does nothing either.
- Several processes: the service runs as a single systemd unit.

## 6. Plan

Done: the scheduler, its queue and bucket, and the service it implements; tickets and
events; the consumers and the notifications they implement; sessions, attachments and
permissions as one server. Every invariant, action property and refinement that a run checks
is proved.

1. `EventsMatchCommits` for the whole process, where reminders have events too: that every
   event stored is of a committed request or of a reminder, next to `CommitsAccounted`.
2. The steps that the two liveness properties rest on, as action properties: a reminder that is due
   and queued is left in the queue by all but the processor, a cancel and the watcher.
