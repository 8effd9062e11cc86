----------------------------- MODULE ConsumerProofs -----------------------------
(* Machine-checked theorems about module EventConsumers, for every company,  *)
(* every set of tickets and handlers, and every bound.                       *)
EXTENDS EventConsumers, TicketProofs, FunctionTheorems

-----------------------------------------------------------------------------
(* The handlers next to the consumers.                                       *)

(* A step of the consumers touches nothing of the handlers' but the count of *)
(* faults.                                                                   *)
ElsewhereOnly ==
  UNCHANGED <<dbVars, hpc, tx, stream, up, requests, historyVars>> /\ (Reliable \/ Fault)

LEMMA ElsewhereTyped ==
  ASSUME Typed, ElsewhereOnly
  PROVE  Typed'
  <1>1. Store /\ Hands /\ Rows /\ \A h \in Handlers : Busy(h)
    BY TypeParts DEF Typed
  <1>2. faults' \in Nat
    BY <1>1, ReliableOrFault DEF ElsewhereOnly, Store
  <1>3. UNCHANGED <<row, writer, hpc, tx, stream, up, requests, committed, unsent, overwritten>>
    BY DEF ElsewhereOnly, dbVars, historyVars
  <1>4. Store' /\ Hands' /\ Rows'
    BY <1>1, <1>2, <1>3 DEF Store, Hands, Rows
  <1>5. \A h \in Handlers : Busy(h)'
    BY <1>1, <1>3 DEF Busy
  <1>6. TypeOK'
    BY <1>4 DEF Store, Hands, Rows, TypeOK, Steps, Txs
  <1>. QED
    BY <1>5, <1>6 DEF Typed

(* The process ends on account of something else than a request.             *)
LEMMA EndTyped ==
  ASSUME Typed, Stop(Handlers), Reliable \/ Fault,
         UNCHANGED <<row, stream, requests, committed, overwritten>>
  PROVE  Typed'
  <1>1. Store /\ Hands /\ Rows /\ \A h \in Handlers : Busy(h)
    BY TypeParts DEF Typed
  <1>2. faults' \in Nat
    BY <1>1, ReliableOrFault DEF Store
  <1>3. /\ Hands' /\ \A g \in Handlers : Busy(g)'
        /\ up' \in BOOLEAN /\ writer' \in [Tickets -> Handlers \cup {NoOne}]
        /\ unsent' \subseteq Nat
    BY <1>1, StopsTyped
  <1>4. Store' /\ Rows'
    BY <1>1, <1>2, <1>3 DEF Store, Rows
  <1>5. TypeOK'
    BY <1>3, <1>4 DEF Store, Hands, Rows, TypeOK, Steps, Txs
  <1>. QED
    BY <1>3, <1>5 DEF Typed

(* A reminder is published.                                                  *)
LEMMA ReminderTyped ==
  ASSUME Typed, NEW e \in Event, stream' = Append(stream, e),
         UNCHANGED <<dbVars, hpc, tx, up, requests, faults, historyVars>>
  PROVE  Typed'
  <1>1. stream' \in Seq(Event)
    BY DEF Typed, TypeOK
  <1>2. UNCHANGED <<row, writer, hpc, tx, up, requests, faults, committed, unsent, overwritten>>
    BY DEF dbVars, historyVars
  <1>3. TypeOK'
    BY <1>1, <1>2 DEF Typed, TypeOK
  <1>4. \A h \in Handlers : Busy(h)'
    BY <1>2 DEF Typed, Busy
  <1>. QED
    BY <1>3, <1>4 DEF Typed

-----------------------------------------------------------------------------
(* What the subscriptions hold.                                              *)

Boxes ==
  /\ inbox \in [Kinds -> Seq(Event)]
  /\ cpc \in [Kinds -> {"idle", "mail"}] /\ hand \in [Kinds -> Event \cup {NoEvent}]
  /\ \A k \in Kinds : cpc[k] = "mail" => hand[k] \in Event

Starting == subscribed \subseteq Kinds /\ toSubscribe \in Seq(Kinds) /\ reminders \in Nat

CallbacksTyped == Typed /\ Boxes /\ Starting

(* What a step does to the events: nothing, or one is published, or the      *)
(* process ends, after one was stored or not, or a callback moves on.        *)
Idles == UNCHANGED <<stream, inbox, callbackVars, outcomeVars>>

Posts(e) ==
  /\ stream' = Append(stream, e) /\ Route(e)
  /\ UNCHANGED <<startVars, callbackVars, dlq, audience, mailed, handled, nakked>>

Breaks(also) == ProcessEnds(also) /\ UNCHANGED <<streams, dlq>>

LEMMA HandlerPosts ==
  ASSUME Typed, NEW h \in Handlers, Publish(h) \/ PublishFails(h)
  PROVE  tx[h].event \in Event
  BY DEF Typed, Busy, Publish, PublishFails

LEMMA ReminderPosts ==
  ASSUME Typed, reminders \in Nat, NEW t \in Tickets, NEW u \in Users \cup Strangers, NEW v \in Users,
         ReminderFires(t, <<u, v>>)
  PROVE  \E e \in Event : /\ Posts(e) /\ e.kind = "reminder"
                          /\ e.id = MaxRequests + reminders' /\ reminders' = reminders + 1
                          /\ e.ticket = t /\ row[t] # NoRow
  <1>1. PICK e : /\ e = [id |-> MaxRequests + reminders', kind |-> "reminder", ticket |-> t,
                         was |-> row[t].assignee, to |-> NoOne, listed |-> <<u, v>>]
                 /\ stream' = Append(stream, e) /\ Route(e)
    BY DEF ReminderFires
  <1>2. row[t] \in Row
    BY DEF ReminderFires, Typed, TypeOK
  <1>3. e.was \in Assignees /\ e.to \in Assignees /\ e.ticket \in Tickets
    BY <1>1, <1>2 DEF Row, Assignees
  <1>4. e.id \in Nat /\ reminders' = reminders + 1
    BY <1>1, TicketBoundsAssumption DEF ReminderFires
  <1>5. e.listed \in Seq(Users \cup Strangers) /\ e.kind \in Kinds
    BY <1>1 DEF Kinds
  <1>6. e \in Event
    BY <1>1, <1>3, <1>4, <1>5 DEF Event
  <1>7. Posts(e) /\ row[t] # NoRow
    BY <1>1 DEF ReminderFires, Posts
  <1>. QED
    BY <1>1, <1>4, <1>6, <1>7

LEMMA StepCases ==
  ASSUME Typed, reminders \in Nat, Next
  PROVE  \/ Idles
         \/ \E e \in Event : Posts(e)
         \/ stream' = stream /\ Breaks({})
         \/ \E e \in Event : stream' = Append(stream, e) /\ Breaks({e.id})
         \/ \E k \in Kinds : Fetch(k) \/ Mail(k) \/ Settle(k)
  <1> USE DEF dbVars, historyVars, ticketVars, consumerVars
  <1>1. CASE Connect \/ Subscribe \/ Serve
    BY <1>1 DEF Connect, Subscribe, Serve, Boot, Idles
  <1>2. CASE End
    BY <1>2 DEF End, Breaks
  <1>3. ASSUME NEW h \in Handlers, HandlerStep(h)
        PROVE  Idles
    BY <1>3 DEF HandlerStep, Local, Request, CreateTicket, AssignRead, AssignUpdate,
                AssignCommit, Idles
  <1>4. ASSUME NEW h \in Handlers, PublishAndRoute(h)
        PROVE  \E e \in Event : Posts(e)
    BY <1>4, HandlerPosts DEF PublishAndRoute, Publish, Posts
  <1>5. ASSUME NEW h \in Handlers, PublishEnds(h)
        PROVE  \/ stream' = stream /\ Breaks({})
               \/ \E e \in Event : stream' = Append(stream, e) /\ Breaks({e.id})
    BY <1>5, HandlerPosts DEF PublishEnds, PublishFails, Breaks
  <1>6. ASSUME NEW t \in Tickets, NEW u \in Users \cup Strangers, NEW v \in Users,
               ReminderFires(t, <<u, v>>)
        PROVE  \E e \in Event : Posts(e)
    BY <1>6, ReminderPosts
  <1>7. ASSUME NEW k \in Kinds, SettleEnds(k)
        PROVE  stream' = stream /\ Breaks({})
    BY <1>7 DEF SettleEnds, Breaks
  <1>. QED
    BY <1>1, <1>2, <1>3, <1>4, <1>5, <1>6, <1>7 DEF Next, Consume

LEMMA BoxesKept ==
  ASSUME CallbacksTyped, [Next]_vars
  PROVE  Boxes'
  <1>1. CASE UNCHANGED vars \/ Idles
    BY <1>1 DEF vars, consumerVars, callbackVars, Idles, CallbacksTyped, Boxes
  <1>2. ASSUME NEW e \in Event, Posts(e)
        PROVE  Boxes'
    <2>1. inbox' \in {inbox, [inbox EXCEPT ![e.kind] = Append(@, e)]}
      BY <1>2 DEF Posts, Route
    <2>0. e.kind \in Kinds /\ inbox \in [Kinds -> Seq(Event)]
      BY DEF Event, CallbacksTyped, Boxes
    <2>2. inbox' \in [Kinds -> Seq(Event)]
      <3>1. Append(inbox[e.kind], e) \in Seq(Event)
        BY <2>0
      <3>. QED
        BY <2>0, <2>1, <3>1
    <2>. QED
      BY <1>2, <2>2 DEF Posts, callbackVars, CallbacksTyped, Boxes
  <1>3. ASSUME NEW also, Breaks(also)
        PROVE  Boxes'
    BY <1>3 DEF Breaks, ProcessEnds, Boxes
  <1>4. ASSUME NEW k \in Kinds, Fetch(k)
        PROVE  Boxes'
    <2>1. PICK e : e = Head(inbox[k]) /\ inbox[k] # <<>> /\ inbox[k] \in Seq(Event)
      BY <1>4 DEF Fetch, CallbacksTyped, Boxes
    <2>2. e \in Event /\ Tail(inbox[k]) \in Seq(Event)
      BY <2>1
    <2>3. inbox' = [inbox EXCEPT ![k] = Tail(@)]
      BY <1>4 DEF Fetch
    <2>4. \/ cpc' = [cpc EXCEPT ![k] = "mail"] /\ hand' = [hand EXCEPT ![k] = e]
          \/ UNCHANGED <<cpc, hand>>
      BY <1>4, <2>1 DEF Fetch, callbackVars
    <2>5. inbox' \in [Kinds -> Seq(Event)]
      BY <2>2, <2>3 DEF CallbacksTyped, Boxes
    <2>. QED
      BY <2>2, <2>4, <2>5 DEF CallbacksTyped, Boxes
  <1>5. ASSUME NEW k \in Kinds, Mail(k)
        PROVE  Boxes'
    BY <1>5 DEF Mail, CallbacksTyped, Boxes
  <1>6. ASSUME NEW k \in Kinds, Settle(k)
        PROVE  Boxes'
    BY <1>6 DEF Settle, Return, CallbacksTyped, Boxes
  <1>. QED
    BY <1>1, <1>2, <1>3, <1>4, <1>5, <1>6, StepCases DEF CallbacksTyped, Starting

LEMMA StartingKept ==
  ASSUME CallbacksTyped, [Next]_vars
  PROVE  Starting'
  <1> USE DEF startVars, consumerVars, CallbacksTyped, Starting
  <1>1. CASE UNCHANGED vars \/ Serve
    BY <1>1 DEF vars, Serve
  <1>2. CASE Connect
    <2>1. /\ toSubscribe' \in {<<>>, <<"created", "assigned", "reassigned", "reminder">>}
          /\ subscribed' = subscribed /\ reminders' = reminders
      BY <1>2 DEF Connect
    <2>2. <<"created", "assigned", "reassigned", "reminder">> \in Seq(Kinds)
      <3>1. \A a, b, c, d \in Kinds : <<a, b, c, d>> \in Seq(Kinds)
        OBVIOUS
      <3>2. /\ "created" \in Kinds /\ "assigned" \in Kinds
            /\ "reassigned" \in Kinds /\ "reminder" \in Kinds
        BY DEF Kinds
      <3>. QED
        BY <3>1, <3>2
    <2>3. toSubscribe' \in Seq(Kinds)
      <3>1. <<>> \in Seq(Kinds)
        OBVIOUS
      <3>. QED
        BY <2>1, <2>2, <3>1, Zenon
    <2>. QED
      BY <2>1, <2>3
  <1>3. CASE Subscribe
    <2>1. /\ Head(toSubscribe) \in Kinds /\ toSubscribe' = Tail(toSubscribe)
          /\ subscribed' \in {subscribed, subscribed \cup {Head(toSubscribe)}}
          /\ reminders' = reminders /\ toSubscribe # <<>>
      BY <1>3 DEF Subscribe
    <2>. QED
      BY <2>1
  <1>4. ASSUME NEW also, ProcessEnds(also)
        PROVE  Starting'
    BY <1>4 DEF ProcessEnds
  <1>5. ASSUME NEW h \in Handlers, HandlerStep(h) \/ PublishAndRoute(h)
        PROVE  Starting'
    BY <1>5 DEF HandlerStep, PublishAndRoute
  <1>6. ASSUME NEW t, NEW l, ReminderFires(t, l)
        PROVE  Starting'
    BY <1>6 DEF ReminderFires
  <1>7. ASSUME NEW k \in Kinds, Fetch(k) \/ Mail(k) \/ Settle(k)
        PROVE  Starting'
    BY <1>7 DEF Fetch, Mail, Settle
  <1>. QED
    BY <1>1, <1>2, <1>3, <1>4, <1>5, <1>6, <1>7
    DEF Next, End, PublishEnds, Consume, SettleEnds

LEMMA HandlersKept ==
  ASSUME CallbacksTyped, [Next]_vars
  PROVE  Typed'
  <1>1. CASE UNCHANGED vars
    BY <1>1, StepTyped DEF vars, CallbacksTyped
  <1>2. CASE Connect \/ Subscribe
    BY <1>2, ElsewhereTyped DEF Connect, Subscribe, ElsewhereOnly, CallbacksTyped
  <1>3. CASE Serve
    BY <1>3, StepTyped DEF Serve, TicketNext, CallbacksTyped
  <1>4. CASE End
    BY <1>4, EndTyped DEF End, CallbacksTyped
  <1>5. ASSUME NEW h \in Handlers, HandlerStep(h) \/ PublishAndRoute(h) \/ PublishEnds(h)
        PROVE  Typed'
    BY <1>5, StepTyped DEF HandlerStep, PublishAndRoute, PublishEnds, TicketNext, CallbacksTyped
  <1>6. ASSUME NEW t \in Tickets, NEW u \in Users \cup Strangers, NEW v \in Users,
               ReminderFires(t, <<u, v>>)
        PROVE  Typed'
    <2>1. PICK e \in Event : Posts(e)
      BY <1>6, ReminderPosts DEF CallbacksTyped, Starting
    <2>. QED
      BY <1>6, <2>1, ReminderTyped DEF Posts, ReminderFires, CallbacksTyped
  <1>7. ASSUME NEW k \in Kinds, Fetch(k) \/ Mail(k) \/ Settle(k)
        PROVE  Typed'
    BY <1>7, ElsewhereTyped
    DEF Fetch, Mail, Settle, ElsewhereOnly, CallbacksTyped, ticketVars, Reliable
  <1>8. ASSUME NEW k \in Kinds, SettleEnds(k)
        PROVE  Typed'
    BY <1>8, EndTyped DEF SettleEnds, CallbacksTyped
  <1>. QED
    BY <1>1, <1>2, <1>3, <1>4, <1>5, <1>6, <1>7, <1>8 DEF Next, Consume

LEMMA AlwaysDelivering == Spec => []CallbacksTyped
<1>1. Init => CallbacksTyped
  <2> SUFFICES ASSUME Init PROVE CallbacksTyped
    OBVIOUS
  <2>1. Typed
    BY InitTyped DEF Init
  <2>2. Boxes /\ Starting
    BY DEF Init, Boxes, Starting
  <2>. QED
    BY <2>1, <2>2 DEF CallbacksTyped
<1>2. CallbacksTyped /\ [Next]_vars => CallbacksTyped'
  BY HandlersKept, BoxesKept, StartingKept DEF CallbacksTyped
<1>. QED
  BY <1>1, <1>2, PTL DEF Spec

-----------------------------------------------------------------------------
(* What is true of the tickets stays true next to the consumers.             *)

(* The process ends with requests under way.                                 *)
Stranded == Stop(Handlers) /\ UNCHANGED <<row, stream, committed, overwritten>>

(* Nothing happens to a ticket or to a request, but that an event may be      *)
(* published that assigns nobody.                                            *)
Bystands ==
  /\ UNCHANGED <<row, hpc, tx, historyVars>>
  /\ stream' = stream \/ \E e \in Event : e.kind = "reminder" /\ stream' = Append(stream, e)

LEMMA TicketCases ==
  ASSUME CallbacksTyped, [Next]_vars
  PROVE  TicketNext \/ Stranded \/ Bystands
  <1> USE DEF dbVars, historyVars
  <1>1. CASE UNCHANGED vars
    BY <1>1 DEF vars, ticketVars, Bystands
  <1>2. CASE Connect \/ Subscribe
    BY <1>2 DEF Connect, Subscribe, Bystands
  <1>3. CASE Serve
    BY <1>3 DEF Serve, TicketNext
  <1>4. CASE End
    BY <1>4 DEF End, Stranded
  <1>5. ASSUME NEW h \in Handlers, HandlerStep(h) \/ PublishAndRoute(h) \/ PublishEnds(h)
        PROVE  TicketNext
    BY <1>5 DEF HandlerStep, PublishAndRoute, PublishEnds, TicketNext
  <1>6. ASSUME NEW t \in Tickets, NEW u \in Users \cup Strangers, NEW v \in Users,
               ReminderFires(t, <<u, v>>)
        PROVE  Bystands
    <2>1. PICK e \in Event : Posts(e) /\ e.kind = "reminder"
      BY <1>6, ReminderPosts DEF CallbacksTyped, Starting
    <2>. QED
      BY <1>6, <2>1 DEF Posts, ReminderFires, Bystands
  <1>7. ASSUME NEW k \in Kinds, Fetch(k) \/ Mail(k) \/ Settle(k)
        PROVE  Bystands
    BY <1>7 DEF Fetch, Mail, Settle, ticketVars, Bystands
  <1>8. ASSUME NEW k \in Kinds, SettleEnds(k)
        PROVE  Stranded
    BY <1>8 DEF SettleEnds, Stranded
  <1>. QED
    BY <1>1, <1>2, <1>3, <1>4, <1>5, <1>6, <1>7, <1>8 DEF Next, Consume

LEMMA BystandsAssigns ==
  ASSUME CallbacksTyped, Bystands, NEW t \in Tickets, Assigned(t)'
  PROVE  Assigned(t)
  <1>1. CASE stream' = stream
    BY <1>1 DEF Bystands, Assigned, AssignmentOf
  <1>2. ASSUME NEW e \in Event, e.kind = "reminder", stream' = Append(stream, e)
        PROVE  Assigned(t)
    <2>1. ~AssignmentOf(e, t)
      BY <1>2 DEF AssignmentOf
    <2>2. \A i \in DOMAIN stream' : \/ stream'[i] = e
                                    \/ i \in DOMAIN stream /\ stream'[i] = stream[i]
      BY <1>2 DEF CallbacksTyped, Typed, TypeOK
    <2>. QED
      BY <2>1, <2>2 DEF Bystands, Assigned
  <1>. QED
    BY <1>1, <1>2 DEF Bystands, historyVars

(* With the whole process running, the assignee of an assigned ticket and the *)
(* manager of the assignee watch it, and its team is the assignee's: no       *)
(* callback, reminder or end of the process disturbs what requests store.     *)
THEOREM AssigneesStillWatch == Spec => []AssigneeWatches
<1>1. Init => WatchedOnce
  BY DEF Init, TicketInit, WatchedOnce, Assigned
<1>2. ASSUME CallbacksTyped, WatchedOnce, [Next]_vars PROVE WatchedOnce'
  <2>1. CASE TicketNext
    BY <1>2, <2>1, WatchedStep DEF CallbacksTyped
  <2>2. CASE Stranded
    BY <1>2, <2>2, NoneAssigned, FrameWatch DEF Stranded, Stop
  <2>3. CASE Bystands
    BY <1>2, <2>3, BystandsAssigns, FrameWatch DEF Bystands, historyVars
  <2>. QED
    BY <1>2, <2>1, <2>2, <2>3, TicketCases
<1>3. WatchedOnce => AssigneeWatches
  BY DEF WatchedOnce, Watched, AssigneeWatches
<1>. QED
  BY <1>1, <1>2, <1>3, AlwaysDelivering, PTL DEF Spec

(* With the whole process running, the list that the consumers read their     *)
(* recipients from names every admin, and nobody twice but an admin who       *)
(* created the ticket (GetWatchersEmailsAndRoles).                            *)
THEOREM WatchersStillSound == Spec => []WatchersStaySound
<1>1. Init => SoundLists
  BY DEF Init, TicketInit, SoundLists
<1>2. ASSUME CallbacksTyped, SoundLists, [Next]_vars PROVE SoundLists'
  <2>1. CASE TicketNext
    BY <1>2, <2>1, SoundStep DEF CallbacksTyped
  <2>2. CASE Stranded
    BY <1>2, <2>2, FrameSound DEF Stranded, Stop
  <2>3. CASE Bystands
    BY <1>2, <2>3, FrameSound DEF Bystands, historyVars
  <2>. QED
    BY <1>2, <2>1, <2>2, <2>3, TicketCases
<1>3. CallbacksTyped /\ SoundLists => WatchersStaySound
  BY SoundListsSay DEF CallbacksTyped
<1>. QED
  BY <1>1, <1>2, <1>3, AlwaysDelivering, PTL DEF Spec

(* With the whole process running, no watcher is dropped from a ticket and no *)
(* event misnames the previous assignee but by a commit that overwrites a row *)
(* it has not read (AssignTicket).                                           *)
THEOREM OverlapsStillOnlyLose == Spec => OnlyOverwritesLose
<1>1. Init => Recalled
  BY DEF Init, TicketInit, Recalled
<1>2. ASSUME CallbacksTyped, Recalled, [Next]_vars PROVE Recalled'
  <2>1. CASE TicketNext
    BY <1>2, <2>1, RecalledStep DEF CallbacksTyped
  <2>2. CASE Stranded
    BY <1>2, <2>2, FrameRecalled DEF Stranded, Stop
  <2>3. CASE Bystands
    BY <1>2, <2>3, FrameRecalled DEF Bystands, historyVars
  <2>. QED
    BY <1>2, <2>1, <2>2, <2>3, TicketCases
<1>3. ASSUME CallbacksTyped, Recalled, [Next]_vars
      PROVE  [\A t \in Tickets \ overwritten' : LosesNothing(t)]_ticketVars
  <2>1. CASE TicketNext
    BY <1>3, <2>1, LosesStep DEF CallbacksTyped
  <2>2. CASE Stranded
    BY <2>2, FrameLoses DEF Stranded, Stop
  <2>3. CASE Bystands
    BY <2>3, FrameLoses DEF Bystands, historyVars
  <2>. QED
    BY <1>3, <2>1, <2>2, <2>3, TicketCases
<1>. QED
  BY <1>1, <1>2, <1>3, AlwaysDelivering, PTL DEF Spec, OnlyOverwritesLose

-----------------------------------------------------------------------------
(* No event vanishes.                                                        *)

LEMMA InUnion ==
  ASSUME NEW box, NEW n
  PROVE  n \in UNION {{box[k][i].id : i \in DOMAIN box[k]} : k \in Kinds}
         <=> \E k \in Kinds : \E i \in DOMAIN box[k] : box[k][i].id = n
  <1>1. ASSUME n \in UNION {{box[k][i].id : i \in DOMAIN box[k]} : k \in Kinds}
        PROVE  \E k \in Kinds : \E i \in DOMAIN box[k] : box[k][i].id = n
    <2>1. PICK S \in {{box[k][i].id : i \in DOMAIN box[k]} : k \in Kinds} : n \in S
      BY <1>1
    <2>. QED
      BY <2>1
  <1>2. ASSUME NEW k \in Kinds, NEW i \in DOMAIN box[k], box[k][i].id = n
        PROVE  n \in UNION {{box[j][m].id : m \in DOMAIN box[j]} : j \in Kinds}
    <2>1. n \in {box[k][j].id : j \in DOMAIN box[k]}
      BY <1>2
    <2>. QED
      BY <2>1
  <1>. QED
    BY <1>1, <1>2

LEMMA WherePlaced ==
  ASSUME NEW n
  PROVE  /\ n \in Waiting <=> \E k \in Kinds : \E i \in DOMAIN inbox[k] : inbox[k][i].id = n
         /\ n \in Waiting' <=> \E k \in Kinds : \E i \in DOMAIN inbox'[k] : inbox'[k][i].id = n
         /\ n \in InHand <=> \E k \in Kinds : cpc[k] # "idle" /\ hand[k].id = n
         /\ n \in InHand' <=> \E k \in Kinds : cpc'[k] # "idle" /\ hand'[k].id = n
  <1>1. n \in Waiting <=> \E k \in Kinds : \E i \in DOMAIN inbox[k] : inbox[k][i].id = n
    BY InUnion DEF Waiting
  <1>2. n \in Waiting' <=> \E k \in Kinds : \E i \in DOMAIN inbox'[k] : inbox'[k][i].id = n
    BY InUnion DEF Waiting
  <1>3. n \in InHand <=> \E k \in Kinds : cpc[k] # "idle" /\ hand[k].id = n
    BY DEF InHand
  <1>4. n \in InHand' <=> \E k \in Kinds : cpc'[k] # "idle" /\ hand'[k].id = n
    BY DEF InHand
  <1>. QED
    BY <1>1, <1>2, <1>3, <1>4

LEMMA WhereInFlight ==
  ASSUME NEW n
  PROVE  /\ n \in InFlight <=>
              \E k \in Kinds : \/ \E i \in DOMAIN inbox[k] : inbox[k][i].id = n
                               \/ cpc[k] # "idle" /\ hand[k].id = n
         /\ n \in InFlight' <=>
              \E k \in Kinds : \/ \E i \in DOMAIN inbox'[k] : inbox'[k][i].id = n
                               \/ cpc'[k] # "idle" /\ hand'[k].id = n
  <1>1. n \in InFlight <=> n \in Waiting \/ n \in InHand
    BY DEF InFlight
  <1>2. n \in InFlight' <=> n \in Waiting' \/ n \in InHand'
    BY DEF InFlight
  <1>3. n \in InFlight <=>
          \E k \in Kinds : \/ \E i \in DOMAIN inbox[k] : inbox[k][i].id = n
                           \/ cpc[k] # "idle" /\ hand[k].id = n
    BY <1>1, WherePlaced
  <1>4. n \in InFlight' <=>
          \E k \in Kinds : \/ \E i \in DOMAIN inbox'[k] : inbox'[k][i].id = n
                           \/ cpc'[k] # "idle" /\ hand'[k].id = n
    BY <1>2, WherePlaced
  <1>. QED
    BY <1>3, <1>4

Accounted == InFlight \cup handled \cup dlq \cup dropped

LEMMA AccountedIs == EveryEventAccounted <=> Sent \subseteq Accounted
  BY DEF EveryEventAccounted, Sent, Accounted

(* Publishing adds the event to those that are stored.                       *)
LEMMA SentGrows ==
  ASSUME stream \in Seq(Event), NEW e \in Event, stream' = Append(stream, e)
  PROVE  Sent' = Sent \cup {e.id}
  <1>1. /\ DOMAIN stream' = DOMAIN stream \cup {Len(stream) + 1}
        /\ \A i \in DOMAIN stream : stream'[i] = stream[i]
        /\ stream'[Len(stream) + 1] = e
    OBVIOUS
  <1>. QED
    BY <1>1 DEF Sent

(* The subscription has the event, or it is dropped.                         *)
LEMMA PostedSomewhere ==
  ASSUME Boxes, NEW e \in Event, Posts(e)
  PROVE  Accounted \cup {e.id} \subseteq Accounted'
  <1>1. /\ UNCHANGED <<cpc, hand, handled, dlq>> /\ dropped \subseteq dropped'
        /\ e.kind \in Kinds /\ inbox \in [Kinds -> Seq(Event)]
    BY DEF Posts, Route, callbackVars, Event, Boxes
  <1>2. CASE inbox' = [inbox EXCEPT ![e.kind] = Append(@, e)]
    <2>1. /\ \A k \in Kinds : \A i \in DOMAIN inbox[k] :
               i \in DOMAIN inbox'[k] /\ inbox'[k][i] = inbox[k][i]
          /\ \E i \in DOMAIN inbox'[e.kind] : inbox'[e.kind][i] = e
      BY <1>1, <1>2
    <2>2. ASSUME NEW n \in InFlight PROVE n \in InFlight'
      BY <1>1, <2>1, <2>2, WhereInFlight
    <2>3. e.id \in InFlight'
      BY <1>1, <2>1, WhereInFlight
    <2>. QED
      BY <1>1, <2>2, <2>3 DEF Accounted
  <1>3. CASE inbox' = inbox /\ e.id \in dropped'
    <2>1. InFlight' = InFlight
      BY <1>1, <1>3 DEF InFlight, Waiting, InHand
    <2>. QED
      BY <1>1, <1>3, <2>1 DEF Accounted
  <1>. QED
    BY <1>2, <1>3 DEF Posts, Route

(* A callback moves an event, and loses none.                                *)
LEMMA FetchedSomewhere ==
  ASSUME Boxes, NEW k \in Kinds, Fetch(k)
  PROVE  Accounted \subseteq Accounted'
  <1>1. PICK e \in Event : /\ e = Head(inbox[k]) /\ inbox[k] # <<>> /\ inbox[k] \in Seq(Event)
    BY DEF Fetch, Boxes
  <1>2. /\ \A j \in Kinds \ {k} : inbox'[j] = inbox[j]
        /\ inbox'[k] = Tail(inbox[k]) /\ cpc[k] = "idle"
        /\ handled' = handled /\ dlq' = dlq
    BY DEF Fetch, Boxes
  <1>3. \/ cpc'[k] = "mail" /\ hand'[k] = e /\ dropped' = dropped
        \/ dropped' = dropped \cup {e.id}
    BY <1>1 DEF Fetch, Boxes
  <1>4. \A j \in Kinds \ {k} : cpc'[j] = cpc[j] /\ hand'[j] = hand[j]
    BY DEF Fetch, Boxes, callbackVars
  <1>5. \A i \in DOMAIN inbox[k] :
          inbox[k][i] = e \/ \E j \in DOMAIN Tail(inbox[k]) : Tail(inbox[k])[j] = inbox[k][i]
    <2>1. ASSUME NEW i \in DOMAIN inbox[k], i # 1
          PROVE  \E j \in DOMAIN Tail(inbox[k]) : Tail(inbox[k])[j] = inbox[k][i]
      <3>1. i - 1 \in DOMAIN Tail(inbox[k]) /\ Tail(inbox[k])[i - 1] = inbox[k][i]
        BY <1>1, <2>1
      <3>. QED
        BY <3>1
    <2>2. inbox[k][1] = e
      BY <1>1
    <2>. QED
      BY <2>1, <2>2
  <1>6. ASSUME NEW n \in InFlight PROVE n \in InFlight' \/ n = e.id
    <2>1. PICK j \in Kinds : \/ \E i \in DOMAIN inbox[j] : inbox[j][i].id = n
                             \/ cpc[j] # "idle" /\ hand[j].id = n
      BY <1>6, WhereInFlight
    <2>2. CASE j = k
      <3>1. \E i \in DOMAIN inbox[k] : inbox[k][i].id = n
        BY <1>2, <2>1, <2>2
      <3>2. n = e.id \/ \E i \in DOMAIN inbox'[k] : inbox'[k][i].id = n
        BY <1>2, <1>5, <3>1
      <3>. QED
        BY <3>2, WhereInFlight
    <2>3. CASE j # k
      <3>1. \/ \E i \in DOMAIN inbox'[j] : inbox'[j][i].id = n
            \/ cpc'[j] # "idle" /\ hand'[j].id = n
        BY <1>2, <1>4, <2>1, <2>3
      <3>. QED
        BY <3>1, WhereInFlight
    <2>. QED
      BY <2>2, <2>3
  <1>7. e.id \in InFlight' \/ e.id \in dropped'
    BY <1>3, WhereInFlight
  <1>. QED
    BY <1>2, <1>3, <1>6, <1>7 DEF Accounted

LEMMA SettledSomewhere ==
  ASSUME Boxes, NEW k \in Kinds, Settle(k)
  PROVE  Accounted \subseteq Accounted'
  <1>1. /\ UNCHANGED <<inbox, dropped>> /\ cpc[k] = "mail"
        /\ \A j \in Kinds \ {k} : cpc'[j] = cpc[j] /\ hand'[j] = hand[j]
        /\ handled' \cup dlq' = handled \cup dlq \cup {hand[k].id}
    BY DEF Settle, Return, Boxes
  <1>2. ASSUME NEW n \in InFlight PROVE n \in InFlight' \/ n = hand[k].id
    BY <1>1, <1>2, WhereInFlight
  <1>. QED
    BY <1>1, <1>2 DEF Accounted

(* No event vanishes: each is on its way, mailed, in CRM_DLQ, or dropped on  *)
(* one of the paths that drop events (QueueSubscribe, moveToDLQ, the end of  *)
(* the process).                                                             *)
THEOREM NoneVanishes == Spec => []EveryEventAccounted
<1>1. Init => EveryEventAccounted
  BY DEF Init, TicketInit, EveryEventAccounted
<1>2. CallbacksTyped /\ EveryEventAccounted /\ [Next]_vars => EveryEventAccounted'
  <2> SUFFICES ASSUME CallbacksTyped, Sent \subseteq Accounted, [Next]_vars
               PROVE  Sent' \subseteq Accounted'
    BY AccountedIs, WhereInFlight DEF EveryEventAccounted, Sent, Accounted
  <2>t. Typed /\ Boxes /\ reminders \in Nat /\ stream \in Seq(Event)
    BY DEF CallbacksTyped, Starting, Typed, TypeOK
  <2>1. CASE UNCHANGED vars \/ Idles
    BY <2>1 DEF vars, ticketVars, consumerVars, callbackVars, outcomeVars, Idles, Sent,
                Accounted, InFlight, Waiting, InHand
  <2>2. ASSUME NEW e \in Event, Posts(e)
        PROVE  Sent' \subseteq Accounted'
    BY <2>2, <2>t, PostedSomewhere, SentGrows DEF Posts
  <2>3. CASE stream' = stream /\ Breaks({})
    BY <2>3, SameStream DEF Breaks, ProcessEnds, Accounted
  <2>4. ASSUME NEW e \in Event, stream' = Append(stream, e), Breaks({e.id})
        PROVE  Sent' \subseteq Accounted'
    BY <2>4, <2>t, SentGrows DEF Breaks, ProcessEnds, Accounted
  <2>5. ASSUME NEW k \in Kinds, Fetch(k)
        PROVE  Sent' \subseteq Accounted'
    BY <2>5, <2>t, FetchedSomewhere, SameStream DEF Fetch
  <2>6. ASSUME NEW k \in Kinds, Mail(k)
        PROVE  Sent' \subseteq Accounted'
    <3>1. UNCHANGED <<stream, inbox, cpc, hand, handled, dlq, dropped>>
      BY <2>6 DEF Mail
    <3>2. InFlight' = InFlight
      BY <3>1 DEF InFlight, Waiting, InHand
    <3>. QED
      BY <3>1, <3>2, SameStream DEF Accounted
  <2>7. ASSUME NEW k \in Kinds, Settle(k)
        PROVE  Sent' \subseteq Accounted'
    BY <2>7, <2>t, SettledSomewhere, SameStream DEF Settle, ticketVars
  <2>. QED
    BY <2>t, <2>1, <2>2, <2>3, <2>4, <2>5, <2>6, <2>7, StepCases
<1>. QED
  BY <1>1, <1>2, AlwaysDelivering, PTL DEF Spec

(* Nor does a commit: what is committed and neither stored as an event nor   *)
(* given up is in the hands of a handler that is about to publish it.         *)
Announced ==
  \A r \in committed :
    \/ r \in Sent \cup unsent
    \/ \E h \in Handlers : hpc[h] = "publish" /\ tx[h].event.id = r

LEMMA FrameAnnounced ==
  ASSUME Announced, Sent \subseteq Sent', unsent \subseteq unsent',
         \A r \in committed' \ committed :
           \/ r \in unsent'
           \/ \E h \in Handlers : hpc'[h] = "publish" /\ tx'[h].event.id = r,
         \A h \in Handlers : hpc[h] = "publish" =>
           \/ hpc'[h] = "publish" /\ tx'[h] = tx[h]
           \/ tx[h].event.id \in Sent' \cup unsent'
  PROVE  Announced'
  BY DEF Announced

LEMMA AnnouncedStep ==
  ASSUME Typed, Announced, TicketNext
  PROVE  Announced'
  <1> USE DEF dbVars, historyVars
  <1>t. Hands /\ stream \in Seq(Event)
    BY TypeParts DEF Typed, TypeOK
  <1>1. CASE Boot \/ Crash
    <2>1. /\ Sent' = Sent /\ committed' = committed /\ unsent \subseteq unsent'
          /\ \A h \in Handlers : hpc[h] = "publish" =>
               \/ hpc'[h] = "publish" /\ tx'[h] = tx[h]
               \/ tx[h].event.id \in unsent'
      BY <1>1, SameStream DEF Boot, Crash, Stop
    <2>. QED
      BY <2>1, FrameAnnounced
  <1>2. ASSUME NEW h \in Handlers, NEW t \in Tickets, CreateTicket(h, t)
        PROVE  Announced'
    <2>1. /\ Sent' = Sent /\ unsent \subseteq unsent' /\ hpc[h] = "idle"
          /\ committed' = committed \cup {requests'}
          /\ \A g \in Handlers \ {h} : hpc'[g] = hpc[g] /\ tx'[g] = tx[g]
          /\ \/ hpc'[h] = "publish" /\ tx'[h].event.id = requests'
             \/ requests' \in unsent'
      BY <1>2, <1>t, SameStream DEF CreateTicket, Arrive, Step, Hands
    <2>. QED
      BY <2>1, FrameAnnounced
  <1>3. ASSUME NEW h \in Handlers,
               (\E t \in Tickets : AssignRead(h, t)) \/ AssignUpdate(h)
        PROVE  Announced'
    <2>1. /\ Sent' = Sent /\ UNCHANGED <<committed, unsent>> /\ hpc[h] # "publish"
          /\ \A g \in Handlers \ {h} : hpc'[g] = hpc[g] /\ tx'[g] = tx[g]
      BY <1>3, <1>t, SameStream DEF AssignRead, Arrive, AssignUpdate, Step, Hands
    <2>. QED
      BY <2>1, FrameAnnounced
  <1>4. ASSUME NEW h \in Handlers, AssignCommit(h)
        PROVE  Announced'
    <2>1. PICK r : r = tx[h].event.id
      OBVIOUS
    <2>2. /\ Sent' = Sent /\ unsent \subseteq unsent' /\ hpc[h] = "commit"
          /\ \A g \in Handlers \ {h} : hpc'[g] = hpc[g] /\ tx'[g] = tx[g]
          /\ \/ /\ committed' = committed \cup {r}
                /\ \/ hpc'[h] = "publish" /\ tx'[h] = tx[h]
                   \/ r \in unsent'
             \/ committed' = committed
      BY <1>4, <1>t, <2>1, SameStream DEF AssignCommit, Step, Hands
    <2>. QED
      BY <2>1, <2>2, FrameAnnounced
  <1>5. ASSUME NEW h \in Handlers, Publish(h) \/ PublishFails(h)
        PROVE  Announced'
    <2>1. PICK e \in Event : e = tx[h].event
      BY <1>5, HandlerPosts
    <2>2. /\ committed' = committed /\ unsent \subseteq unsent'
          /\ stream' = Append(stream, e) \/ (stream' = stream /\ e.id \in unsent')
          /\ \A g \in Handlers \ {h} : hpc[g] = "publish" =>
               \/ hpc'[g] = "publish" /\ tx'[g] = tx[g]
               \/ tx[g].event.id \in unsent'
      BY <1>5, <1>t, <2>1 DEF Publish, PublishFails, Stop, Step, Hands
    <2>3. Sent' = Sent \cup {e.id} \/ (Sent' = Sent /\ e.id \in unsent')
      BY <1>t, <2>2, SentGrows, SameStream
    <2>. QED
      BY <2>1, <2>2, <2>3, FrameAnnounced
  <1>. QED
    BY <1>1, <1>2, <1>3, <1>4, <1>5 DEF TicketNext, Local, Request

(* What CreateTicket or AssignTicket committed is announced by an event that *)
(* comes to a known end, is about to be, or was given up by a lost answer or *)
(* the end of the process (PublishEvent, QueueSubscribe, moveToDLQ).         *)
THEOREM CommitsComeToAnEnd == Spec => []CommitsAccounted
<1>1. Init => Announced
  BY DEF Init, TicketInit, Announced
<1>2. ASSUME CallbacksTyped, Announced, [Next]_vars PROVE Announced'
  <2>1. CASE TicketNext
    BY <1>2, <2>1, AnnouncedStep DEF CallbacksTyped
  <2>2. CASE Stranded
    <3>1. /\ Sent' = Sent /\ committed' = committed /\ unsent \subseteq unsent'
          /\ \A h \in Handlers : hpc[h] = "publish" => tx[h].event.id \in unsent'
      BY <2>2, SameStream DEF Stranded, Stop
    <3>. QED
      BY <1>2, <3>1, FrameAnnounced
  <2>3. CASE Bystands
    <3>1. Sent \subseteq Sent'
      BY <1>2, <2>3, SentGrows, SameStream DEF Bystands, CallbacksTyped, Typed, TypeOK
    <3>. QED
      BY <1>2, <2>3, <3>1, FrameAnnounced DEF Bystands, historyVars
  <2>. QED
    BY <1>2, <2>1, <2>2, <2>3, TicketCases
<1>3. EveryEventAccounted /\ Announced => CommitsAccounted
  BY DEF EveryEventAccounted, Announced, CommitsAccounted, Sent
<1>. QED
  BY <1>1, <1>2, <1>3, AlwaysDelivering, NoneVanishes, PTL DEF Spec

-----------------------------------------------------------------------------
(* Events have numbers of their own, and are about tickets there are.        *)

Stored == {stream[i] : i \in DOMAIN stream}

(* Requests and reminders count from different numbers on.                   *)
Given(n) == n \in 1 .. requests \/ n \in MaxRequests + 1 .. MaxRequests + reminders

Numbers ==
  /\ requests <= MaxRequests /\ reminders <= MaxReminders
  /\ \A n \in Sent : Given(n)
  /\ \A i, j \in DOMAIN stream : stream[i].id = stream[j].id => i = j
  /\ \A h \in Handlers : hpc[h] # "idle" =>
       tx[h].event.id \in 1 .. requests /\ tx[h].event.id \notin Sent
  /\ \A g, h \in Handlers : g # h /\ hpc[g] # "idle" /\ hpc[h] # "idle" =>
       tx[g].event.id # tx[h].event.id

LEMMA StoredGrows ==
  ASSUME stream \in Seq(Event), NEW e \in Event, stream' = Append(stream, e)
  PROVE  Stored' = Stored \cup {e}
  <1>1. /\ DOMAIN stream' = DOMAIN stream \cup {Len(stream) + 1}
        /\ \A i \in DOMAIN stream : stream'[i] = stream[i]
        /\ stream'[Len(stream) + 1] = e
    OBVIOUS
  <1>. QED
    BY <1>1 DEF Stored

LEMMA StoredIsSent ==
  ASSUME NEW e \in Stored
  PROVE  e.id \in Sent
  BY DEF Stored, Sent

(* No event is stored, and no handler takes up a request.                    *)
LEMMA FrameNumbers ==
  ASSUME Numbers, UNCHANGED <<stream, requests, reminders>>,
         \A h \in Handlers : hpc'[h] # "idle" => hpc[h] # "idle" /\ tx'[h] = tx[h]
  PROVE  Numbers'
  <1>1. Sent' = Sent /\ Stored' = Stored
    BY DEF Sent, Stored
  <1>. QED
    BY <1>1 DEF Numbers, Given

(* An event with a new number is stored; no handler has it any more.         *)
LEMMA PostNumbers ==
  ASSUME Numbers, stream \in Seq(Event), requests \in Nat, reminders \in Nat,
         NEW e \in Event, stream' \in {stream, Append(stream, e)}, e.id \notin Sent,
         requests' = requests, reminders' \in Nat, reminders <= reminders',
         reminders' <= MaxReminders, Given(e.id)',
         \A h \in Handlers : hpc'[h] # "idle" =>
           hpc[h] # "idle" /\ tx'[h] = tx[h] /\ tx[h].event.id # e.id
  PROVE  Numbers'
  <1>1. Sent' \in {Sent, Sent \cup {e.id}} /\ Stored' \in {Stored, Stored \cup {e}}
    <2>1. CASE stream' = stream
      BY <2>1 DEF Sent, Stored
    <2>2. CASE stream' = Append(stream, e)
      BY <2>2, SentGrows, StoredGrows
    <2>. QED
      BY <2>1, <2>2
  <1>2. \A i, j \in DOMAIN stream' : stream'[i].id = stream'[j].id => i = j
    <2>1. \A i \in DOMAIN stream : stream[i].id # e.id
      BY DEF Sent
    <2>2. CASE stream' = Append(stream, e)
      <3>1. /\ DOMAIN stream' = DOMAIN stream \cup {Len(stream) + 1}
            /\ \A i \in DOMAIN stream : stream'[i] = stream[i]
            /\ stream'[Len(stream) + 1] = e
        BY <2>2
      <3>. QED
        BY <2>1, <3>1 DEF Numbers
    <2>. QED
      BY <2>2 DEF Numbers
  <1>3. \A n \in Sent' : Given(n)'
    BY <1>1, TicketBoundsAssumption DEF Numbers, Given
  <1>4. \A h \in Handlers : hpc'[h] # "idle" =>
          tx'[h].event.id \in 1 .. requests' /\ tx'[h].event.id \notin Sent'
    BY <1>1 DEF Numbers
  <1>. QED
    BY <1>2, <1>3, <1>4 DEF Numbers

(* A request takes the next number.                                          *)
LEMMA ArriveNumbers ==
  ASSUME Typed, Typed', Numbers, NEW h \in Handlers, Request(h), reminders' = reminders
  PROVE  Numbers'
  <1>1. /\ stream' = stream /\ requests' = requests + 1 /\ requests < MaxRequests
        /\ requests \in Nat
    BY DEF Request, CreateTicket, AssignRead, Arrive, Typed, TypeOK
  <1>2. /\ \A g \in Handlers \ {h} : hpc'[g] = hpc[g] /\ tx'[g] = tx[g]
        /\ hpc'[h] = "idle" \/ tx'[h].event.id = requests'
    BY DEF Request, CreateTicket, AssignRead, Arrive, Step, Typed, TypeOK
  <1>3. Sent' = Sent /\ Stored' = Stored /\ requests' \notin Sent
    <2>1. Sent' = Sent /\ Stored' = Stored
      BY <1>1 DEF Sent, Stored
    <2>. QED
      BY <1>1, <2>1, TicketBoundsAssumption DEF Numbers, Given
  <1>4. \A n \in Sent' : Given(n)'
    BY <1>1, <1>3 DEF Numbers, Given
  <1>5. \A g \in Handlers : hpc'[g] # "idle" =>
          tx'[g].event.id \in 1 .. requests' /\ tx'[g].event.id \notin Sent'
    BY <1>1, <1>2, <1>3 DEF Numbers
  <1>6. \A f, g \in Handlers : f # g /\ hpc'[f] # "idle" /\ hpc'[g] # "idle" =>
          tx'[f].event.id # tx'[g].event.id
    BY <1>1, <1>2 DEF Numbers
  <1>7. requests' <= MaxRequests /\ reminders' <= MaxReminders
    BY <1>1, TicketBoundsAssumption DEF Numbers
  <1>. QED
    BY <1>1, <1>3, <1>4, <1>5, <1>6, <1>7 DEF Numbers

LEMMA AlwaysNumbered == Spec => []Numbers
<1>1. Init => Numbers
  BY TicketBoundsAssumption, RemindersAssumption
  DEF Init, TicketInit, Numbers, Sent, Stored, Given
<1>2. CallbacksTyped /\ CallbacksTyped' /\ Numbers /\ [Next]_vars => Numbers'
  <2> SUFFICES ASSUME CallbacksTyped, CallbacksTyped', Numbers, [Next]_vars PROVE Numbers'
    OBVIOUS
  <2> USE DEF dbVars, historyVars, ticketVars, consumerVars
  <2>t. /\ Typed /\ Typed' /\ Hands /\ stream \in Seq(Event)
        /\ requests \in Nat /\ reminders \in Nat /\ reminders' \in Nat
    BY TypeParts DEF CallbacksTyped, Starting, Typed, TypeOK
  <2>1. CASE UNCHANGED vars
    BY <2>1, FrameNumbers DEF vars
  <2>2. CASE Connect \/ Subscribe \/ Serve
    BY <2>2, FrameNumbers DEF Connect, Subscribe, Serve, Boot
  <2>3. CASE End
    BY <2>3, FrameNumbers DEF End, Stop, ProcessEnds
  <2>4. ASSUME NEW h \in Handlers, HandlerStep(h)
        PROVE  Numbers'
    <3>1. CASE Request(h)
      BY <2>4, <2>t, <3>1, ArriveNumbers DEF HandlerStep
    <3>2. CASE AssignUpdate(h) \/ AssignCommit(h)
      <4>1. /\ UNCHANGED <<stream, requests, reminders>> /\ hpc[h] # "idle"
            /\ \A g \in Handlers \ {h} : hpc'[g] = hpc[g] /\ tx'[g] = tx[g]
            /\ hpc'[h] = "idle" \/ tx'[h] = tx[h]
        BY <2>4, <2>t, <3>2 DEF HandlerStep, AssignUpdate, AssignCommit, Step, Hands
      <4>. QED
        BY <4>1, FrameNumbers
    <3>. QED
      BY <2>4, <3>1, <3>2 DEF HandlerStep, Local
  <2>5. ASSUME NEW h \in Handlers, PublishAndRoute(h) \/ PublishEnds(h)
        PROVE  Numbers'
    <3>1. PICK e \in Event : e = tx[h].event /\ hpc[h] = "publish"
      BY <2>5, <2>t, HandlerPosts DEF PublishAndRoute, PublishEnds, Publish, PublishFails
    <3>2. e.id \notin Sent /\ e.id \in 1 .. requests
      BY <3>1 DEF Numbers
    <3>3. /\ stream' \in {stream, Append(stream, e)}
          /\ UNCHANGED <<requests, reminders>>
      BY <2>5, <3>1 DEF PublishAndRoute, PublishEnds, Publish, PublishFails, ProcessEnds
    <3>4. \A g \in Handlers : hpc'[g] # "idle" => g # h /\ hpc[g] # "idle" /\ tx'[g] = tx[g]
      BY <2>5, <2>t DEF PublishAndRoute, PublishEnds, Publish, PublishFails, Step, Stop, Hands
    <3>5. \A g \in Handlers : hpc'[g] # "idle" =>
            hpc[g] # "idle" /\ tx'[g] = tx[g] /\ tx[g].event.id # e.id
      BY <3>1, <3>4 DEF Numbers
    <3>6. Given(e.id)' /\ reminders' <= MaxReminders
      BY <3>2, <3>3 DEF Given, Numbers
    <3>. QED
      BY <2>t, <3>2, <3>3, <3>5, <3>6, PostNumbers
  <2>6. ASSUME NEW t \in Tickets, NEW u \in Users \cup Strangers, NEW v \in Users,
               ReminderFires(t, <<u, v>>)
        PROVE  Numbers'
    <3>1. PICK e \in Event : /\ Posts(e) /\ e.id = MaxRequests + reminders'
                             /\ reminders' = reminders + 1
      BY <2>6, <2>t, ReminderPosts
    <3>2. UNCHANGED <<hpc, tx, requests>> /\ reminders < MaxReminders
      BY <2>6 DEF ReminderFires
    <3>3. e.id \notin Sent
      BY <2>t, <3>1, TicketBoundsAssumption DEF Numbers, Given
    <3>4. Given(e.id)' /\ reminders' <= MaxReminders
      BY <2>t, <3>1, <3>2, TicketBoundsAssumption, RemindersAssumption DEF Given
    <3>5. \A g \in Handlers : hpc'[g] # "idle" =>
            hpc[g] # "idle" /\ tx'[g] = tx[g] /\ tx[g].event.id # e.id
      BY <2>t, <3>1, <3>2, TicketBoundsAssumption DEF Numbers
    <3>. QED
      BY <2>t, <3>1, <3>2, <3>3, <3>4, <3>5, PostNumbers DEF Posts
  <2>7. ASSUME NEW k \in Kinds, Fetch(k) \/ Mail(k) \/ Settle(k)
        PROVE  Numbers'
    BY <2>7, FrameNumbers DEF Fetch, Mail, Settle
  <2>8. ASSUME NEW k \in Kinds, SettleEnds(k)
        PROVE  Numbers'
    BY <2>8, FrameNumbers DEF SettleEnds, Stop, ProcessEnds
  <2>. QED
    BY <2>1, <2>2, <2>3, <2>4, <2>5, <2>6, <2>7, <2>8 DEF Next, Consume
<1>. QED
  BY <1>1, <1>2, AlwaysDelivering, PTL DEF Spec

(* The ticket of an event is there, and watched by the assignee the event    *)
(* names, unless an assignment that had read an older row replaced the list. *)
About(e) ==
  /\ row[e.ticket] # NoRow
  /\ e.kind \in {"assigned", "reassigned"} =>
       /\ e.to \in Employees
       /\ IsIn(e.to, row[e.ticket].watchers) \/ e.ticket \in overwritten

Current ==
  /\ \A e \in Stored : About(e)
  /\ \A h \in Handlers : hpc[h] = "publish" => About(tx[h].event)

(* A step takes nobody off a list, or the ticket is among the overwritten.   *)
ListsGrow ==
  /\ overwritten \subseteq overwritten'
  /\ \A t \in Tickets : row[t] # NoRow =>
       /\ row'[t] # NoRow
       /\ \/ t \in overwritten'
          \/ \A v : IsIn(v, row[t].watchers) => IsIn(v, row'[t].watchers)

LEMMA AboutKept ==
  ASSUME ListsGrow, NEW e \in Event, About(e)
  PROVE  About(e)'
  BY DEF ListsGrow, About, Event

(* The list of an assignment has its assignee, and everyone the row it read  *)
(* had.                                                                      *)
LEMMA CommitGrows ==
  ASSUME Typed, NEW h \in Handlers, AssignCommit(h)
  PROVE  /\ ListsGrow
         /\ hpc'[h] = "publish" => About(tx[h].event)' /\ tx'[h] = tx[h]
  <1>t. Hands /\ Rows /\ hpc[h] = "commit" /\ Busy(h)
    BY TypeParts DEF Typed, AssignCommit
  <1>1. PICK t \in Tickets, e \in Employees, old \in Seq(Users) :
          /\ t = tx[h].event.ticket /\ e = tx[h].event.to /\ row[t] \in Row
          /\ old = tx[h].read.watchers
    BY <1>t DEF Busy, Event, Rows, Row
  <1>2. PICK w \in Seq(Users) :
          /\ w = WithAssignee(old, e) /\ IsIn(e, w)
          /\ \A v : IsIn(v, old) => IsIn(v, w)
    <2>1. e \in Users \cup {NoOne} /\ ManagerOf[e] \in Users \cup {NoOne}
      BY RolesAssumption DEF Users
    <2>2. PICK l \in Seq(Users) : l = AddIfAbsent(old, e) /\ \A v : IsIn(v, old) => IsIn(v, l)
      BY <2>1, AddsOne
    <2>3. WithAssignee(old, e) = AddIfAbsent(l, ManagerOf[e])
      BY <2>2 DEF WithAssignee
    <2>. QED
      BY <2>1, <2>2, <2>3, AddsOne, AddsAssignee
  <1>3. CASE UNCHANGED <<row, overwritten>> /\ hpc'[h] = "idle"
    BY <1>3 DEF ListsGrow
  <1>4. CASE /\ row' = [row EXCEPT ![t].assignee = e, ![t].team = TeamOf[e],
                                   ![t].watchers = w]
             /\ overwritten' = IF row[t] = tx[h].read THEN overwritten
                               ELSE overwritten \cup {t}
             /\ hpc'[h] = "publish" => tx'[h] = tx[h]
    <2>1. PICK r \in Row : r = [row[t] EXCEPT !.assignee = e, !.team = TeamOf[e],
                                             !.watchers = w]
      BY <1>1, RowAssigned
    <2>2. row'[t] = r /\ r.watchers = w /\ \A k \in Tickets \ {t} : row'[k] = row[k]
      BY <1>t, <1>1, <1>4, <2>1 DEF Rows, Row
    <2>3. r # NoRow
      BY DEF Row, NoRow, Statuses
    <2>4. t \in overwritten' \/ \A v : IsIn(v, row[t].watchers) => IsIn(v, row'[t].watchers)
      BY <1>1, <1>2, <1>4, <2>2
    <2>5. ListsGrow
      BY <1>4, <2>2, <2>3, <2>4 DEF ListsGrow
    <2>6. hpc'[h] = "publish" => About(tx[h].event)'
      BY <1>1, <1>2, <1>4, <2>2, <2>3 DEF About
    <2>. QED
      BY <1>4, <2>5, <2>6
  <1>. QED
    BY <1>t, <1>1, <1>2, <1>3, <1>4 DEF AssignCommit, Step, Hands, historyVars

LEMMA FrameCurrent ==
  ASSUME Typed, Current, ListsGrow, stream' = stream,
         \A h \in Handlers : hpc'[h] = "publish" =>
           (hpc[h] = "publish" /\ tx'[h] = tx[h]) \/ About(tx[h].event)'
  PROVE  Current'
  <1>1. \A e \in Stored : e \in Event
    BY DEF Stored, Typed, TypeOK
  <1>2. \A e \in Stored' : About(e)'
    BY <1>1, AboutKept DEF Current, Stored
  <1>3. \A h \in Handlers : hpc[h] = "publish" => tx[h].event \in Event
    BY DEF Typed, Busy
  <1>. QED
    BY <1>2, <1>3, AboutKept DEF Current

LEMMA PostCurrent ==
  ASSUME Typed, Current, UNCHANGED <<row, overwritten>>, NEW e \in Event, About(e),
         stream' \in {stream, Append(stream, e)},
         \A h \in Handlers : hpc'[h] = "publish" => hpc[h] = "publish" /\ tx'[h] = tx[h]
  PROVE  Current'
  <1>1. Stored' \in {Stored, Stored \cup {e}}
    <2>1. stream \in Seq(Event)
      BY DEF Typed, TypeOK
    <2>2. CASE stream' = stream
      BY <2>2 DEF Stored
    <2>3. CASE stream' = Append(stream, e)
      BY <2>1, <2>3, StoredGrows
    <2>. QED
      BY <2>2, <2>3
  <1>2. \A f : About(f) => About(f)'
    BY DEF About
  <1>. QED
    BY <1>1, <1>2 DEF Current

LEMMA AlwaysCurrent == Spec => []Current
<1>1. Init => Current
  BY DEF Init, TicketInit, Current, Stored
<1>2. CallbacksTyped /\ Current /\ [Next]_vars => Current'
  <2> SUFFICES ASSUME CallbacksTyped, Current, [Next]_vars PROVE Current'
    OBVIOUS
  <2> USE DEF dbVars, historyVars, ticketVars, consumerVars
  <2>t. Typed /\ Hands /\ Rows /\ reminders \in Nat
    BY TypeParts DEF CallbacksTyped, Starting, Typed
  <2>1. ASSUME UNCHANGED <<row, stream, overwritten>>,
               UNCHANGED <<hpc, tx>> \/ \A h \in Handlers : hpc'[h] = "idle"
        PROVE  Current'
    <3>1. ListsGrow
      BY <2>1 DEF ListsGrow
    <3>. QED
      BY <2>t, <2>1, <3>1, FrameCurrent
  <2>2. CASE UNCHANGED vars
    BY <2>1, <2>2 DEF vars
  <2>3. CASE Connect \/ Subscribe \/ Serve \/ End
    BY <2>1, <2>3 DEF Connect, Subscribe, Serve, Boot, End, Stop
  <2>4. ASSUME NEW h \in Handlers, NEW t \in Tickets, CreateTicket(h, t)
        PROVE  Current'
    <3>1. /\ row[t] = NoRow /\ UNCHANGED <<stream, overwritten>>
          /\ \A k \in Tickets \ {t} : row'[k] = row[k]
          /\ \A g \in Handlers \ {h} : hpc'[g] = hpc[g] /\ tx'[g] = tx[g]
          /\ \/ UNCHANGED <<hpc, tx>>
             \/ tx'[h].event.kind = "created" /\ tx'[h].event.ticket = t
      BY <2>4, <2>t DEF CreateTicket, Step, Hands, Rows
    <3>2. row'[t] # NoRow
      <4>1. PICK u \in Users, e \in Assignees, g \in Teams, s \in Statuses :
              row' = [row EXCEPT ![t] = [status |-> s, assignee |-> e, team |-> g,
                                         watchers |-> FirstWatchers(u)]]
        BY <2>4 DEF CreateTicket
      <4>2. row'[t].status \in Statuses
        BY <2>t, <4>1 DEF Rows
      <4>. QED
        BY <4>2 DEF NoRow, Statuses
    <3>3. ListsGrow
      BY <3>1 DEF ListsGrow
    <3>. QED
      BY <2>t, <3>1, <3>2, <3>3, FrameCurrent DEF About
  <2>5. ASSUME NEW h \in Handlers,
               (\E t \in Tickets : AssignRead(h, t)) \/ AssignUpdate(h)
        PROVE  Current'
    <3>1. /\ UNCHANGED <<row, stream, overwritten>> /\ hpc'[h] # "publish"
          /\ \A g \in Handlers \ {h} : hpc'[g] = hpc[g] /\ tx'[g] = tx[g]
      BY <2>5, <2>t DEF AssignRead, AssignUpdate, Step, Hands
    <3>2. ListsGrow
      BY <3>1 DEF ListsGrow
    <3>. QED
      BY <2>t, <3>1, <3>2, FrameCurrent
  <2>6. ASSUME NEW h \in Handlers, AssignCommit(h)
        PROVE  Current'
    <3>1. /\ stream' = stream
          /\ \A g \in Handlers \ {h} : hpc'[g] = hpc[g] /\ tx'[g] = tx[g]
      BY <2>6, <2>t DEF AssignCommit, Step, Hands
    <3>. QED
      BY <2>6, <2>t, <3>1, CommitGrows, FrameCurrent
  <2>7. ASSUME NEW h \in Handlers, Publish(h) \/ PublishFails(h)
        PROVE  Current'
    <3>1. PICK e \in Event : e = tx[h].event /\ About(e)
      BY <2>7, <2>t, HandlerPosts DEF Publish, PublishFails, Current
    <3>2. UNCHANGED <<row, overwritten>> /\ stream' \in {stream, Append(stream, e)}
      BY <2>7, <3>1 DEF Publish, PublishFails
    <3>3. \A g \in Handlers : hpc'[g] = "publish" => hpc[g] = "publish" /\ tx'[g] = tx[g]
      BY <2>7, <2>t DEF Publish, PublishFails, Step, Stop, Hands
    <3>. QED
      BY <2>t, <3>1, <3>2, <3>3, PostCurrent
  <2>8. ASSUME NEW t \in Tickets, NEW u \in Users \cup Strangers, NEW v \in Users,
               ReminderFires(t, <<u, v>>)
        PROVE  Current'
    <3>1. PICK e \in Event : /\ Posts(e) /\ e.kind = "reminder"
                             /\ e.ticket = t /\ row[t] # NoRow
      BY <2>8, <2>t, ReminderPosts
    <3>2. UNCHANGED <<row, overwritten, hpc, tx>>
      BY <2>8 DEF ReminderFires
    <3>. QED
      BY <2>t, <3>1, <3>2, PostCurrent DEF About, Posts
  <2>9. ASSUME NEW k \in Kinds, Fetch(k) \/ Mail(k) \/ Settle(k) \/ SettleEnds(k)
        PROVE  Current'
    BY <2>1, <2>9 DEF Fetch, Mail, Settle, SettleEnds, Stop
  <2>. QED
    BY <2>2, <2>3, <2>4, <2>5, <2>6, <2>7, <2>8, <2>9
    DEF Next, Consume, HandlerStep, PublishAndRoute, PublishEnds, Local, Request
<1>. QED
  BY <1>1, <1>2, AlwaysDelivering, PTL DEF Spec

-----------------------------------------------------------------------------
(* Counting mails.                                                           *)

LEMMA CountOf ==
  ASSUME NEW list \in Seq(Users), NEW u
  PROVE  /\ Occurrences(u, list) \in Nat
         /\ IsFiniteSet({i \in DOMAIN list : list[i] = u})
         /\ Occurrences(u, list) = 0 <=> ~IsIn(u, list)
  <1> DEFINE P == {i \in DOMAIN list : list[i] = u}
  <1>1. IsFiniteSet(P)
    <2>1. IsFiniteSet(1 .. Len(list)) /\ P \subseteq 1 .. Len(list)
      BY FS_Interval
    <2>. QED
      BY <2>1, FS_Subset
  <1>2. Occurrences(u, list) = Cardinality(P)
    BY DEF Occurrences
  <1>3. P = {} <=> ~IsIn(u, list)
    BY DEF IsIn
  <1> HIDE DEF P
  <1>4. Cardinality(P) \in Nat /\ (Cardinality(P) = 0 <=> P = {})
    BY <1>1, FS_CardinalityType, FS_EmptySet
  <1>5. Occurrences(u, list) \in Nat /\ (Occurrences(u, list) = 0 <=> ~IsIn(u, list))
    BY <1>2, <1>3, <1>4
  <1>. QED
    BY <1>1, <1>5 DEF P

LEMMA CountEmpty ==
  ASSUME NEW u
  PROVE  Occurrences(u, <<>>) = 0
  <1>1. ~IsIn(u, <<>>) /\ <<>> \in Seq(Users)
    BY DEF IsIn
  <1>. QED
    BY <1>1, CountOf

LEMMA CountAppend ==
  ASSUME NEW list \in Seq(Users), NEW v \in Users, NEW u
  PROVE  Occurrences(u, Append(list, v)) =
           IF u = v THEN Occurrences(u, list) + 1 ELSE Occurrences(u, list)
  <1> DEFINE n == Len(list) + 1
             P == {i \in DOMAIN list : list[i] = u}
             Q == {i \in DOMAIN Append(list, v) : Append(list, v)[i] = u}
  <1>1. /\ DOMAIN Append(list, v) = DOMAIN list \cup {n} /\ n \notin DOMAIN list
        /\ \A i \in DOMAIN list : Append(list, v)[i] = list[i]
        /\ Append(list, v)[n] = v
    OBVIOUS
  <1>2. Q = IF u = v THEN P \cup {n} ELSE P
    BY <1>1
  <1>3. IsFiniteSet(P) /\ n \notin P
    BY <1>1, CountOf
  <1>4. Occurrences(u, list) = Cardinality(P) /\ Occurrences(u, Append(list, v)) = Cardinality(Q)
    BY DEF Occurrences
  <1> HIDE DEF n, P, Q
  <1>5. Cardinality(P \cup {n}) = Cardinality(P) + 1
    BY <1>3, FS_AddElement
  <1>. QED
    BY <1>2, <1>4, <1>5

LEMMA CountTail ==
  ASSUME NEW list \in Seq(Users), list # <<>>, NEW u
  PROVE  Occurrences(u, list) =
           IF u = Head(list) THEN Occurrences(u, Tail(list)) + 1
           ELSE Occurrences(u, Tail(list))
  <1> DEFINE P == {i \in DOMAIN list : list[i] = u}
             Q == {i \in DOMAIN Tail(list) : Tail(list)[i] = u}
             f == [i \in P \ {1} |-> i - 1]
  <1>1. /\ DOMAIN list = 1 .. Len(list) /\ Len(list) \in Nat /\ Len(list) > 0
        /\ DOMAIN Tail(list) = 1 .. Len(list) - 1 /\ Tail(list) \in Seq(Users)
        /\ \A i \in 1 .. Len(list) - 1 : Tail(list)[i] = list[i + 1]
        /\ Head(list) = list[1]
    OBVIOUS
  <1>2. /\ \A i : i \in P <=> i \in 1 .. Len(list) /\ list[i] = u
        /\ \A i : i \in Q <=> i \in 1 .. Len(list) - 1 /\ list[i + 1] = u
    BY <1>1
  <1>3. IsFiniteSet(P) /\ IsFiniteSet(Q)
    BY <1>1, CountOf
  <1>4. Occurrences(u, list) = Cardinality(P) /\ Occurrences(u, Tail(list)) = Cardinality(Q)
    BY DEF Occurrences
  <1> HIDE DEF P, Q
  <1>5. f \in [P \ {1} -> Q]
    BY <1>1, <1>2
  <1>6. \A i, j \in P \ {1} : f[i] = f[j] => i = j
    BY <1>2
  <1>7. \A j \in Q : \E i \in P \ {1} : f[i] = j
    <2> SUFFICES ASSUME NEW j \in Q PROVE j + 1 \in P \ {1} /\ f[j + 1] = j
      OBVIOUS
    <2>. QED
      BY <1>1, <1>2
  <1>8. ExistsBijection(P \ {1}, Q)
    <2>1. f \in Bijection(P \ {1}, Q)
      BY <1>5, <1>6, <1>7, Fun_IsBij
    <2>. QED
      BY <2>1 DEF ExistsBijection
  <1>9. /\ IsFiniteSet(P \ {1})
        /\ Cardinality(P \ {1}) = IF 1 \in P THEN Cardinality(P) - 1 ELSE Cardinality(P)
    BY <1>3, FS_RemoveElement
  <1>10. Cardinality(Q) = Cardinality(P \ {1})
    BY <1>8, <1>9, FS_Bijection
  <1>11. 1 \in P <=> u = Head(list)
    BY <1>1, <1>2
  <1>12. Cardinality(P) \in Nat /\ Cardinality(Q) \in Nat
    BY <1>3, FS_CardinalityType
  <1>. QED
    BY <1>4, <1>9, <1>10, <1>11, <1>12

LEMMA Unique ==
  ASSUME Numbers, NEW a \in Stored, NEW b \in Stored, a.id = b.id
  PROVE  a = b
  BY DEF Numbers, Stored

LEMMA NumbersFit ==
  ASSUME Numbers, requests \in Nat, reminders \in Nat, NEW n \in Sent
  PROVE  n \in Ids
  BY TicketBoundsAssumption, RemindersAssumption DEF Numbers, Given, Ids

(* The event that is stored has a number no other has.                       *)
LEMMA PostedIsNew ==
  ASSUME Numbers', stream \in Seq(Event), NEW e \in Event, stream' = Append(stream, e)
  PROVE  e.id \notin Sent
  <1>1. /\ DOMAIN stream' = DOMAIN stream \cup {Len(stream) + 1}
        /\ \A i \in DOMAIN stream : stream'[i] = stream[i] /\ i # Len(stream) + 1
        /\ stream'[Len(stream) + 1] = e
    OBVIOUS
  <1>. QED
    BY <1>1 DEF Numbers, Sent

Letters ==
  /\ todo \in [Kinds -> Seq(Users)] /\ failed \in [Kinds -> SUBSET Users]
  /\ audience \in [Ids -> Seq(Users)] /\ mailed \in [Ids -> Seq(Users)]
  /\ \A k \in Kinds : cpc[k] = "idle" => failed[k] = {}

(* Events that wait or are in hand are stored, not settled, and there once.  *)
Waits(e, k) ==
  e \in Stored /\ e.kind = k /\ e.id \notin handled \cup dlq

Apart(k) ==
  /\ \A i \in DOMAIN inbox[k] : Waits(inbox[k][i], k) /\ mailed[inbox[k][i].id] = <<>>
  /\ \A i, j \in DOMAIN inbox[k] : inbox[k][i].id = inbox[k][j].id => i = j
  /\ cpc[k] = "mail" =>
       Waits(hand[k], k) /\ \A i \in DOMAIN inbox[k] : inbox[k][i].id # hand[k].id

(* Of the mails of an event in hand, those that were sent and those to come  *)
(* are all that are due, but for the users whose mail failed.                *)
Counted(k) ==
  cpc[k] = "mail" =>
    \A u \in Users :
      LET sent == Occurrences(u, mailed[hand[k].id])
          left == Occurrences(u, todo[k])
          all  == Occurrences(u, audience[hand[k].id])
      IN  /\ ~Concerns(hand[k], u) => sent = 0 /\ u \notin failed[k]
          /\ Concerns(hand[k], u) => IF u \in failed[k] THEN sent + left < all
                                     ELSE sent + left = all

Right(e) ==
  /\ \A u \in Users : Occurrences(u, mailed[e.id]) <= Due(e, u)
  /\ e.id \in handled => \A u \in Users : Occurrences(u, mailed[e.id]) = Due(e, u)
  /\ e.id \in dlq => \E u \in Users : Occurrences(u, mailed[e.id]) < Due(e, u)

Mails ==
  /\ Letters
  /\ handled \cup dlq \subseteq Sent
  /\ \A n \in Ids \ Sent : mailed[n] = <<>>
  /\ \A k \in Kinds : Apart(k) /\ Counted(k)
  /\ \A e \in Stored : Right(e)

LEMMA DueIsNat ==
  ASSUME Letters, NEW e, e.id \in Ids, NEW u
  PROVE  Due(e, u) \in Nat
  BY CountOf DEF Letters, Due

(* An event nobody was mailed of, and that is not settled, is right.         *)
LEMMA UnmailedIsRight ==
  ASSUME Letters, NEW e, e.id \in Ids, mailed[e.id] = <<>>, e.id \notin handled \cup dlq
  PROVE  Right(e)
  BY CountEmpty, DueIsNat DEF Right

LEMMA FrameMails ==
  ASSUME Mails, UNCHANGED <<stream, inbox, cpc, hand, todo, failed, audience, mailed,
                            handled, dlq>>
  PROVE  Mails'
  <1>1. Sent' = Sent /\ Stored' = Stored
    BY DEF Sent, Stored
  <1>2. Letters'
    BY DEF Mails, Letters
  <1>3. \A k \in Kinds : Apart(k)'
    BY <1>1 DEF Mails, Apart, Waits
  <1>4. \A k \in Kinds : Counted(k)'
    BY DEF Mails, Counted
  <1>5. \A e \in Stored' : Right(e)'
    BY <1>1 DEF Mails, Right, Due
  <1>. QED
    BY <1>1, <1>2, <1>3, <1>4, <1>5 DEF Mails

(* An event is stored, and perhaps delivered.                                *)
LEMMA StoreMails ==
  ASSUME Mails, stream \in Seq(Event), NEW e \in Event, stream' = Append(stream, e),
         e.id \in Ids \ Sent, UNCHANGED <<audience, mailed, handled, dlq>>
  PROVE  /\ handled' \cup dlq' \subseteq Sent' /\ \A n \in Ids \ Sent' : mailed'[n] = <<>>
         /\ \A a \in Stored' : (Letters' => Right(a)')
         /\ \A a, k : Waits(a, k) => Waits(a, k)'
         /\ Waits(e, e.kind)' /\ mailed'[e.id] = <<>>
  <1>1. Sent' = Sent \cup {e.id} /\ Stored' = Stored \cup {e}
    BY SentGrows, StoredGrows
  <1>2. \A a \in Stored : Right(a)'
    BY DEF Mails, Right, Due
  <1>3. mailed'[e.id] = <<>> /\ e.id \notin handled' \cup dlq'
    BY DEF Mails
  <1>4. ASSUME Letters' PROVE Right(e)'
    <2>1. \A u : Occurrences(u, mailed'[e.id]) = 0
      BY <1>3, CountEmpty
    <2>2. \A u : Due(e, u)' \in Nat
      <3>1. audience'[e.id] \in Seq(Users)
        BY <1>4 DEF Letters
      <3>. QED
        BY <3>1, CountOf DEF Due
    <2>. QED
      BY <1>3, <2>1, <2>2 DEF Right
  <1>. QED
    BY <1>1, <1>2, <1>3, <1>4 DEF Mails, Waits

LEMMA PostMails ==
  ASSUME Mails, Boxes, stream \in Seq(Event), NEW e \in Event, Posts(e),
         e.id \in Ids \ Sent
  PROVE  Mails'
  <1>1. /\ UNCHANGED <<cpc, hand, todo, failed, audience, mailed, handled, dlq>>
        /\ stream' = Append(stream, e) /\ e.kind \in Kinds
        /\ inbox' \in {inbox, [inbox EXCEPT ![e.kind] = Append(@, e)]}
        /\ inbox \in [Kinds -> Seq(Event)] /\ cpc \in [Kinds -> {"idle", "mail"}]
    BY DEF Posts, Route, callbackVars, Event, Boxes
  <1>2. Letters'
    BY <1>1 DEF Mails, Letters
  <1>3. /\ handled' \cup dlq' \subseteq Sent' /\ \A n \in Ids \ Sent' : mailed'[n] = <<>>
        /\ \A a \in Stored' : Right(a)'
        /\ \A a, k : Waits(a, k) => Waits(a, k)'
        /\ Waits(e, e.kind)' /\ mailed'[e.id] = <<>>
    BY <1>1, <1>2, StoreMails
  <1>4. ASSUME NEW k \in Kinds PROVE Apart(k)'
    <2>1. Apart(k)
      BY DEF Mails
    <2>2. CASE inbox'[k] = inbox[k]
      BY <1>1, <1>3, <2>1, <2>2 DEF Apart
    <2>3. CASE k = e.kind /\ inbox'[k] = Append(inbox[k], e)
      <3>1. /\ \A i \in DOMAIN inbox'[k] :
                 \/ i \in DOMAIN inbox[k] /\ inbox'[k][i] = inbox[k][i]
                 \/ i = Len(inbox[k]) + 1 /\ inbox'[k][i] = e
        BY <1>1, <2>3
      <3>2. \A i \in DOMAIN inbox[k] : inbox[k][i].id # e.id
        BY <2>1, StoredIsSent DEF Apart, Waits
      <3>3. cpc[k] = "mail" => hand[k].id # e.id
        BY <2>1, StoredIsSent DEF Apart, Waits
      <3>4. \A i \in DOMAIN inbox'[k] :
              Waits(inbox[k][i], k)' /\ mailed'[inbox'[k][i].id] = <<>>
        <4> SUFFICES ASSUME NEW i \in DOMAIN inbox'[k]
                     PROVE  Waits(inbox[k][i], k)' /\ mailed'[inbox'[k][i].id] = <<>>
          OBVIOUS
        <4>1. CASE i \in DOMAIN inbox[k] /\ inbox'[k][i] = inbox[k][i]
          BY <1>1, <1>3, <2>1, <4>1 DEF Apart, Waits
        <4>2. CASE inbox'[k][i] = e
          BY <1>3, <2>3, <4>2 DEF Waits
        <4>. QED
          BY <3>1, <4>1, <4>2
      <3>5. \A i, j \in DOMAIN inbox'[k] : inbox'[k][i].id = inbox'[k][j].id => i = j
        BY <2>1, <3>1, <3>2 DEF Apart
      <3>6. cpc'[k] = "mail" =>
              Waits(hand[k], k)' /\ \A i \in DOMAIN inbox'[k] : inbox'[k][i].id # hand'[k].id
        BY <1>1, <1>3, <2>1, <3>1, <3>3 DEF Apart, Waits
      <3>. QED
        BY <3>4, <3>5, <3>6 DEF Apart
    <2>. QED
      BY <1>1, <2>2, <2>3
  <1>5. ASSUME NEW k \in Kinds PROVE Counted(k)'
    BY <1>1 DEF Mails, Counted
  <1>. QED
    BY <1>2, <1>3, <1>4, <1>5 DEF Mails

LEMMA BreakMails ==
  ASSUME Mails, Boxes, stream \in Seq(Event), NEW also, Breaks(also),
         \/ stream' = stream
         \/ \E e \in Event : stream' = Append(stream, e) /\ e.id \in Ids \ Sent
  PROVE  Mails'
  <1>1. /\ UNCHANGED <<audience, mailed, handled, dlq>>
        /\ \A k \in Kinds : inbox'[k] = <<>> /\ cpc'[k] = "idle"
        /\ todo' = [k \in Kinds |-> <<>>] /\ failed' = [k \in Kinds |-> {}]
    BY DEF Breaks, ProcessEnds
  <1>2. Letters'
    <2>1. <<>> \in Seq(Users)
      OBVIOUS
    <2>. QED
      BY <1>1, <2>1 DEF Mails, Letters
  <1>3. \A k \in Kinds : Apart(k)' /\ Counted(k)'
    BY <1>1 DEF Apart, Counted
  <1>4. /\ handled' \cup dlq' \subseteq Sent' /\ \A n \in Ids \ Sent' : mailed'[n] = <<>>
        /\ \A a \in Stored' : Right(a)'
    <2>1. CASE stream' = stream
      <3>1. Sent' = Sent /\ Stored' = Stored
        BY <2>1 DEF Sent, Stored
      <3>. QED
        BY <1>1, <3>1 DEF Mails, Right, Due
    <2>2. ASSUME NEW e \in Event, stream' = Append(stream, e), e.id \in Ids \ Sent
          PROVE  /\ handled' \cup dlq' \subseteq Sent'
                 /\ \A n \in Ids \ Sent' : mailed'[n] = <<>>
                 /\ \A a \in Stored' : Right(a)'
      BY <1>1, <1>2, <2>2, StoreMails
    <2>. QED
      BY <2>1, <2>2
  <1>. QED
    BY <1>2, <1>3, <1>4 DEF Mails

(* Whoever a readable event goes to is a user.                               *)
LEMMA RecipientsAreUsers ==
  ASSUME Rows, NEW e \in Event, row[e.ticket] # NoRow, ~Unreadable(e)
  PROVE  Recipients(e) \in Seq(Users)
  <1>1. CASE e.kind = "reminder"
    <2>1. PICK l \in Seq(Users \cup Strangers) : l = e.listed /\ l = Recipients(e)
      BY <1>1 DEF Event, Recipients
    <2>2. \A i \in 1 .. Len(l) : l[i] \in Users
      BY <2>1 DEF Unreadable, IsIn
    <2>3. Len(l) \in Nat /\ l = [i \in 1 .. Len(l) |-> l[i]]
      BY <2>1
    <2>. QED
      BY <2>1, <2>2, <2>3
  <1>2. CASE e.kind # "reminder"
    <2>1. row[e.ticket] \in Row
      BY DEF Rows, Event
    <2>. QED
      BY <1>2, <2>1 DEF Row, Recipients
  <1>. QED
    BY <1>1, <1>2

(* Events in different places have different numbers.                        *)
LEMMA ElsewhereDiffers ==
  ASSUME Numbers, NEW j, NEW k, j # k, NEW a, NEW b, Waits(a, j), Waits(b, k)
  PROVE  a.id # b.id
  BY Unique DEF Waits

LEMMA FetchMails ==
  ASSUME Mails, Boxes, Numbers, Current, Rows, requests \in Nat, reminders \in Nat,
         NEW k \in Kinds, Fetch(k)
  PROVE  Mails'
  <1>1. PICK e \in Event : e = Head(inbox[k]) /\ inbox[k] # <<>> /\ inbox[k] \in Seq(Event)
    BY DEF Fetch, Boxes
  <1>2. /\ Waits(e, k) /\ mailed[e.id] = <<>> /\ cpc[k] = "idle" /\ failed[k] = {}
        /\ Apart(k)
    BY <1>1 DEF Mails, Apart, Letters, Fetch
  <1>3. e.id \in Ids /\ About(e) /\ \A a \in Stored : a.id = e.id => a = e
    <2>1. e \in Stored
      BY <1>2 DEF Waits
    <2>. QED
      BY <2>1, StoredIsSent, NumbersFit, Unique DEF Current
  <1>4. /\ UNCHANGED <<stream, mailed, handled, dlq, row>> /\ failed' = failed
        /\ inbox' = [inbox EXCEPT ![k] = Tail(@)]
    BY DEF Fetch, callbackVars, dbVars
  <1>5. Sent' = Sent /\ Stored' = Stored /\ \A a, j : Waits(a, j)' <=> Waits(a, j)
    BY <1>4 DEF Sent, Stored, Waits
  <1>6. /\ \A i \in DOMAIN inbox'[k] : i + 1 \in DOMAIN inbox[k] /\ inbox'[k][i] = inbox[k][i + 1]
                                       /\ i \in Nat
        /\ inbox[k][1] = e /\ 1 \in DOMAIN inbox[k]
        /\ \A j \in Kinds \ {k} : inbox'[j] = inbox[j]
    BY <1>1, <1>4 DEF Boxes
  <1>7. /\ \A i \in DOMAIN inbox'[k] :
             Waits(inbox[k][i], k)' /\ mailed'[inbox'[k][i].id] = <<>> /\ inbox'[k][i].id # e.id
        /\ \A i, j \in DOMAIN inbox'[k] : inbox'[k][i].id = inbox'[k][j].id => i = j
    <2>1. ASSUME NEW i \in DOMAIN inbox'[k]
          PROVE  Waits(inbox[k][i], k)' /\ mailed'[inbox'[k][i].id] = <<>> /\ inbox'[k][i].id # e.id
      BY <1>2, <1>4, <1>5, <1>6 DEF Apart, Waits
    <2>2. ASSUME NEW i \in DOMAIN inbox'[k], NEW j \in DOMAIN inbox'[k],
                 inbox'[k][i].id = inbox'[k][j].id
          PROVE  i = j
      <3>1. i + 1 = j + 1
        BY <1>2, <1>6, <2>2 DEF Apart
      <3>. QED
        BY <1>6, <3>1
    <2>. QED
      BY <2>1, <2>2
  <1>8. CASE /\ cpc' = [cpc EXCEPT ![k] = "mail"] /\ hand' = [hand EXCEPT ![k] = e]
             /\ todo' = [todo EXCEPT ![k] = Recipients(e)]
             /\ audience' = [audience EXCEPT ![e.id] = Recipients(e)]
             /\ ~Unreadable(e)
    <2>1. PICK l \in Seq(Users) : l = Recipients(e)
      BY <1>3, <1>8, RecipientsAreUsers DEF About
    <2>2. /\ cpc'[k] = "mail" /\ hand'[k] = e /\ todo'[k] = l /\ audience'[e.id] = l
          /\ \A j \in Kinds \ {k} : cpc'[j] = cpc[j] /\ hand'[j] = hand[j] /\ todo'[j] = todo[j]
          /\ \A n \in Ids \ {e.id} : audience'[n] = audience[n]
      BY <1>3, <1>8, <2>1 DEF Boxes, Mails, Letters
    <2>3. Letters'
      <3>1. /\ todo' \in [Kinds -> Seq(Users)] /\ audience' \in [Ids -> Seq(Users)]
            /\ failed' \in [Kinds -> SUBSET Users] /\ mailed' \in [Ids -> Seq(Users)]
        BY <1>4, <1>8, <2>1 DEF Mails, Letters
      <3>2. \A j \in Kinds : cpc'[j] = "idle" => failed'[j] = {}
        BY <1>4, <2>2 DEF Mails, Letters
      <3>. QED
        BY <3>1, <3>2 DEF Letters
    <2>4. Apart(k)'
      BY <1>2, <1>5, <1>7, <2>2 DEF Apart, Waits
    <2>5. Counted(k)'
      <3>1. \A u : Occurrences(u, mailed'[e.id]) = 0
        BY <1>2, <1>4, CountEmpty
      <3>2. \A u : Occurrences(u, l) \in Nat
        BY CountOf
      <3>. QED
        BY <1>2, <1>4, <2>2, <3>1, <3>2 DEF Counted
    <2>6. ASSUME NEW j \in Kinds \ {k} PROVE Apart(j)' /\ Counted(j)'
      <3>1. Apart(j) /\ Counted(j)
        BY DEF Mails
      <3>2. cpc[j] = "mail" => hand[j].id \in Ids \ {e.id}
        <4>1. cpc[j] = "mail" => Waits(hand[j], j)
          BY <3>1 DEF Apart
        <4>. QED
          BY <1>2, <4>1, ElsewhereDiffers, StoredIsSent, NumbersFit DEF Waits
      <3>3. Apart(j)'
        BY <1>4, <1>5, <1>6, <2>2, <3>1 DEF Apart, Waits
      <3>4. Counted(j)'
        BY <1>4, <2>2, <3>1, <3>2 DEF Counted
      <3>. QED
        BY <3>3, <3>4
    <2>7. ASSUME NEW a \in Stored' PROVE Right(a)'
      <3>1. CASE a.id = e.id
        <4>1. \A u : Occurrences(u, mailed'[a.id]) = 0
          BY <1>2, <1>4, <3>1, CountEmpty
        <4>2. \A u : Due(a, u)' \in Nat
          BY <2>1, <2>2, <3>1, CountOf DEF Due
        <4>. QED
          BY <1>2, <1>4, <3>1, <4>1, <4>2 DEF Right, Waits
      <3>2. CASE a.id # e.id
        <4>1. a \in Stored /\ a.id \in Ids
          BY <1>5, StoredIsSent, NumbersFit
        <4>. QED
          BY <1>4, <2>2, <3>2, <4>1 DEF Mails, Right, Due
      <3>. QED
        BY <3>1, <3>2
    <2>. QED
      BY <1>4, <1>5, <2>3, <2>4, <2>5, <2>6, <2>7 DEF Mails
  <1>9. CASE UNCHANGED <<callbackVars, audience>>
    <2>1. UNCHANGED <<cpc, hand, todo, failed, audience>>
      BY <1>9 DEF callbackVars
    <2>2. Letters'
      BY <1>4, <2>1 DEF Mails, Letters
    <2>3. Apart(k)'
      BY <1>2, <1>7, <2>1 DEF Apart
    <2>4. \A j \in Kinds \ {k} : Apart(j)'
      BY <1>4, <1>5, <1>6, <2>1 DEF Mails, Apart, Waits
    <2>5. \A j \in Kinds : Counted(j)'
      BY <1>4, <2>1 DEF Mails, Counted
    <2>6. \A a \in Stored' : Right(a)'
      BY <1>4, <1>5, <2>1 DEF Mails, Right, Due
    <2>. QED
      BY <1>4, <1>5, <2>2, <2>3, <2>4, <2>5, <2>6 DEF Mails
  <1>. QED
    BY <1>1, <1>8, <1>9 DEF Fetch

(* The event in hand is stored, and is nowhere else.                         *)
LEMMA HandApart ==
  ASSUME Mails, Numbers, requests \in Nat, reminders \in Nat, NEW k \in Kinds,
         cpc[k] = "mail"
  PROVE  /\ Waits(hand[k], k) /\ hand[k].id \in Ids /\ todo[k] \in Seq(Users)
         /\ mailed[hand[k].id] \in Seq(Users) /\ audience[hand[k].id] \in Seq(Users)
         /\ \A a \in Stored : a.id \in Ids /\ (a.id = hand[k].id => a = hand[k])
         /\ \A j \in Kinds : \A i \in DOMAIN inbox[j] : inbox[j][i].id # hand[k].id
         /\ \A j \in Kinds \ {k} : cpc[j] = "mail" => hand[j].id # hand[k].id
  <1>1. Waits(hand[k], k) /\ \A i \in DOMAIN inbox[k] : inbox[k][i].id # hand[k].id
    BY DEF Mails, Apart
  <1>2. \A a \in Stored : a.id \in Ids
    BY StoredIsSent, NumbersFit
  <1>3. hand[k] \in Stored /\ \A a \in Stored : a.id = hand[k].id => a = hand[k]
    BY <1>1, Unique DEF Waits
  <1>4. ASSUME NEW j \in Kinds \ {k}
        PROVE  /\ \A i \in DOMAIN inbox[j] : inbox[j][i].id # hand[k].id
               /\ cpc[j] = "mail" => hand[j].id # hand[k].id
    <2>1. /\ \A i \in DOMAIN inbox[j] : Waits(inbox[j][i], j)
          /\ cpc[j] = "mail" => Waits(hand[j], j)
      BY DEF Mails, Apart
    <2>. QED
      BY <1>1, <2>1, ElsewhereDiffers
  <1>5. hand[k].id \in Ids
    BY <1>2, <1>3
  <1>6. /\ todo[k] \in Seq(Users) /\ mailed[hand[k].id] \in Seq(Users)
        /\ audience[hand[k].id] \in Seq(Users)
    BY <1>5 DEF Mails, Letters
  <1>. QED
    BY <1>1, <1>2, <1>3, <1>4, <1>5, <1>6

(* One recipient is done: mailed, left out, or among the failures.           *)
LEMMA MailMails ==
  ASSUME Mails, Boxes, Numbers, requests \in Nat, reminders \in Nat,
         NEW k \in Kinds, Mail(k)
  PROVE  Mails'
  <1>0. /\ cpc[k] = "mail" /\ todo[k] # <<>>
        /\ todo[k] \in Seq(Users) /\ mailed[hand[k].id] \in Seq(Users)
    BY HandApart DEF Mail
  <1>e. PICK e : e = hand[k]
    OBVIOUS
  <1>l. PICK l \in Seq(Users) : l = todo[k]
    BY <1>0
  <1>v. PICK v \in Users : v = Head(l)
    BY <1>0, <1>l
  <1>m. PICK m \in Seq(Users) : m = mailed[e.id]
    BY <1>0, <1>e
  <1>1. e = hand[k] /\ l = todo[k] /\ v = Head(l) /\ m = mailed[e.id] /\ l # <<>>
    BY <1>0, <1>e, <1>l, <1>v, <1>m
  <1>2. /\ cpc[k] = "mail" /\ Waits(e, k) /\ e.id \in Ids /\ l \in Seq(Users)
        /\ audience[e.id] \in Seq(Users)
        /\ \A a \in Stored : a.id \in Ids /\ (a.id = e.id => a = e)
        /\ \A j \in Kinds : \A i \in DOMAIN inbox[j] : inbox[j][i].id # e.id
        /\ \A j \in Kinds \ {k} : cpc[j] = "mail" => hand[j].id # e.id
    BY <1>1, HandApart DEF Mail
  <1>3. /\ UNCHANGED <<stream, inbox, cpc, hand, audience, handled, dlq>>
        /\ todo' = [todo EXCEPT ![k] = Tail(l)]
        /\ \/ ~Concerns(e, v) /\ failed' = failed /\ mailed' = mailed
           \/ /\ Concerns(e, v) /\ failed' = failed
              /\ mailed' = [mailed EXCEPT ![e.id] = Append(m, v)]
           \/ /\ Concerns(e, v) /\ mailed' = mailed
              /\ failed' = [failed EXCEPT ![k] = @ \cup {v}]
    BY <1>1 DEF Mail
  <1>4. Sent' = Sent /\ Stored' = Stored /\ \A a, j : Waits(a, j)' <=> Waits(a, j)
    BY <1>3 DEF Sent, Stored, Waits
  <1>5. /\ \A j \in Kinds \ {k} : todo'[j] = todo[j] /\ failed'[j] = failed[j]
        /\ \A n \in Ids \ {e.id} : mailed'[n] = mailed[n]
        /\ todo'[k] = Tail(l)
    BY <1>2, <1>3 DEF Mails, Letters
  <1>6. Letters'
    <2>1. Tail(l) \in Seq(Users) /\ Append(m, v) \in Seq(Users)
      BY <1>1, <1>2
    <2>2. todo' \in [Kinds -> Seq(Users)] /\ audience' \in [Ids -> Seq(Users)]
      BY <1>3, <2>1 DEF Mails, Letters
    <2>4. mailed' \in [Ids -> Seq(Users)]
      BY <1>3, <2>1 DEF Mails, Letters
    <2>5. failed' \in [Kinds -> SUBSET Users]
      <3>1. failed \in [Kinds -> SUBSET Users] /\ failed[k] \cup {v} \in SUBSET Users
        BY DEF Mails, Letters
      <3>2. failed' \in {failed, [failed EXCEPT ![k] = failed[k] \cup {v}]}
        BY <1>3
      <3>. QED
        BY <3>1, <3>2
    <2>3. \A j \in Kinds : cpc'[j] = "idle" => failed'[j] = {}
      BY <1>2, <1>3, <1>5 DEF Mails, Letters
    <2>. QED
      BY <2>2, <2>3, <2>4, <2>5 DEF Letters
  <1>7. ASSUME NEW j \in Kinds PROVE Apart(j)'
    <2>1. Apart(j)
      BY DEF Mails
    <2>2. \A i \in DOMAIN inbox[j] : mailed'[inbox[j][i].id] = mailed[inbox[j][i].id]
      BY <1>2, <1>5, <2>1 DEF Apart, Waits
    <2>. QED
      BY <1>3, <1>4, <2>1, <2>2 DEF Apart
  <1>8. ASSUME NEW j \in Kinds \ {k} PROVE Counted(j)'
    <2>1. Counted(j) /\ (cpc[j] = "mail" => hand[j].id \in Ids \ {e.id})
      BY <1>2, HandApart DEF Mails
    <2>. QED
      BY <1>3, <1>5, <2>1 DEF Counted
  <1>9. ASSUME NEW u \in Users
        PROVE  /\ Occurrences(u, l) = IF u = v THEN Occurrences(u, Tail(l)) + 1
                                      ELSE Occurrences(u, Tail(l))
               /\ Occurrences(u, Append(m, v)) = IF u = v THEN Occurrences(u, m) + 1
                                                 ELSE Occurrences(u, m)
               /\ Occurrences(u, Tail(l)) \in Nat
               /\ Occurrences(u, m) \in Nat /\ Occurrences(u, audience[e.id]) \in Nat
    <2>1. Tail(l) \in Seq(Users)
      BY <1>1
    <2>2. /\ Occurrences(u, Tail(l)) \in Nat
          /\ Occurrences(u, m) \in Nat /\ Occurrences(u, audience[e.id]) \in Nat
      BY <1>2, <2>1, CountOf
    <2>3. Occurrences(u, l) = IF u = v THEN Occurrences(u, Tail(l)) + 1
                              ELSE Occurrences(u, Tail(l))
      BY <1>1, CountTail
    <2>. QED
      BY <2>2, <2>3, CountAppend
  <1>10. ASSUME NEW u \in Users
         PROVE  LET sent == Occurrences(u, mailed'[e.id])
                    left == Occurrences(u, Tail(l))
                    all  == Occurrences(u, audience[e.id])
                IN  /\ ~Concerns(e, u) => sent = 0 /\ u \notin failed'[k]
                    /\ Concerns(e, u) => IF u \in failed'[k] THEN sent + left < all
                                         ELSE sent + left = all
    <2>1. /\ ~Concerns(e, u) => Occurrences(u, m) = 0 /\ u \notin failed[k]
          /\ Concerns(e, u) =>
               IF u \in failed[k]
               THEN Occurrences(u, m) + Occurrences(u, l) < Occurrences(u, audience[e.id])
               ELSE Occurrences(u, m) + Occurrences(u, l) = Occurrences(u, audience[e.id])
      BY <1>1, <1>2 DEF Mails, Counted
    <2>2. CASE ~Concerns(e, v) /\ failed' = failed /\ mailed' = mailed
      BY <1>1, <1>9, <2>1, <2>2
    <2>3. CASE /\ Concerns(e, v) /\ failed' = failed
               /\ mailed' = [mailed EXCEPT ![e.id] = Append(m, v)]
      <3>1. mailed'[e.id] = Append(m, v)
        BY <1>2, <2>3 DEF Mails, Letters
      <3>2. CASE u = v
        <4>1. /\ Occurrences(u, l) = Occurrences(u, Tail(l)) + 1
              /\ Occurrences(u, mailed'[e.id]) = Occurrences(u, m) + 1
              /\ Occurrences(u, Tail(l)) \in Nat /\ Occurrences(u, m) \in Nat
              /\ Occurrences(u, audience[e.id]) \in Nat
          BY <1>9, <3>1, <3>2
        <4>2. Concerns(e, u) /\ failed'[k] = failed[k]
          BY <2>3, <3>2
        <4>. QED
          BY <2>1, <4>1, <4>2
      <3>3. CASE u # v
        BY <1>1, <1>9, <2>1, <2>3, <3>1, <3>3
      <3>. QED
        BY <3>2, <3>3
    <2>4. CASE /\ Concerns(e, v) /\ mailed' = mailed
               /\ failed' = [failed EXCEPT ![k] = @ \cup {v}]
      <3>0. failed \in [Kinds -> SUBSET Users]
        BY DEF Mails, Letters
      <3>1. failed'[k] = failed[k] \cup {v}
        BY <2>4, <3>0
      <3>2. mailed'[e.id] = m
        BY <1>1, <2>4
      <3>3. CASE u = v
        <4>1. /\ Occurrences(u, l) = Occurrences(u, Tail(l)) + 1
              /\ Occurrences(u, Tail(l)) \in Nat /\ Occurrences(u, m) \in Nat
              /\ Occurrences(u, audience[e.id]) \in Nat
          BY <1>9, <3>3
        <4>2. Concerns(e, u) /\ u \in failed'[k]
          BY <2>4, <3>1, <3>3
        <4>3. Occurrences(u, m) + Occurrences(u, l) <= Occurrences(u, audience[e.id])
          BY <2>1, <4>1, <4>2
        <4>4. Occurrences(u, m) + Occurrences(u, Tail(l)) < Occurrences(u, audience[e.id])
          BY <4>1, <4>3
        <4>. QED
          BY <3>2, <4>2, <4>4
      <3>4. CASE u # v
        <4>1. Occurrences(u, l) = Occurrences(u, Tail(l))
          BY <1>9, <3>4
        <4>2. u \in failed'[k] <=> u \in failed[k]
          BY <3>1, <3>4
        <4>. QED
          BY <2>1, <3>2, <4>1, <4>2
      <3>. QED
        BY <3>3, <3>4
    <2>. QED
      BY <1>3, <2>2, <2>3, <2>4
  <1>11. Counted(k)'
    <2>1. hand'[k] = e /\ audience' = audience
      BY <1>1, <1>3
    <2>. QED
      BY <1>5, <1>10, <2>1 DEF Counted
  <1>12. Right(e)'
    <2>1. e.id \notin handled' \cup dlq'
      BY <1>2, <1>3 DEF Waits
    <2>2. ASSUME NEW u \in Users PROVE Occurrences(u, mailed'[e.id]) <= Due(e, u)'
      <3>1. mailed'[e.id] \in Seq(Users)
        BY <1>2, <1>6 DEF Letters
      <3>2. Occurrences(u, mailed'[e.id]) \in Nat
        BY <3>1, CountOf
      <3>3. Due(e, u)' = IF Concerns(e, u) THEN Occurrences(u, audience[e.id]) ELSE 0
        BY <1>3 DEF Due
      <3>4. /\ ~Concerns(e, u) => Occurrences(u, mailed'[e.id]) = 0
            /\ Concerns(e, u) =>
                 Occurrences(u, mailed'[e.id]) + Occurrences(u, Tail(l))
                   <= Occurrences(u, audience[e.id])
        <4>1. /\ Occurrences(u, Tail(l)) \in Nat /\ Occurrences(u, audience[e.id]) \in Nat
          BY <1>9
        <4>. QED
          BY <1>10, <3>2, <4>1
      <3>. QED
        BY <1>9, <3>2, <3>3, <3>4
    <2>. QED
      BY <2>1, <2>2 DEF Right
  <1>13. ASSUME NEW a \in Stored' PROVE Right(a)'
    <2>1. a \in Stored
      BY <1>4
    <2>2. CASE a.id # e.id
      BY <1>2, <1>3, <1>5, <2>1, <2>2 DEF Mails, Right, Due
    <2>3. CASE a = e
      BY <1>12, <2>3
    <2>. QED
      BY <1>2, <2>1, <2>2, <2>3
  <1>14. \A n \in Ids \ Sent' : mailed'[n] = <<>>
    <2>1. e.id \in Sent
      BY <1>2, StoredIsSent DEF Waits
    <2>. QED
      BY <1>4, <1>5, <2>1 DEF Mails
  <1>15. handled' \cup dlq' \subseteq Sent'
    BY <1>3, <1>4 DEF Mails
  <1>. QED
    BY <1>6, <1>7, <1>8, <1>11, <1>13, <1>14, <1>15 DEF Mails

(* All recipients are done: everyone was mailed, or somebody was not.        *)
LEMMA SettleMails ==
  ASSUME Mails, Boxes, Numbers, requests \in Nat, reminders \in Nat,
         NEW k \in Kinds, Settle(k)
  PROVE  Mails'
  <1>e. PICK e : e = hand[k]
    OBVIOUS
  <1>1. /\ cpc[k] = "mail" /\ todo[k] = <<>> /\ e.id \in Ids /\ Waits(e, k)
        /\ audience[e.id] \in Seq(Users) /\ mailed[e.id] \in Seq(Users)
        /\ \A a \in Stored : a.id \in Ids /\ (a.id = e.id => a = e)
        /\ \A j \in Kinds : \A i \in DOMAIN inbox[j] : inbox[j][i].id # e.id
        /\ \A j \in Kinds \ {k} : cpc[j] = "mail" => hand[j].id # e.id
    BY <1>e, HandApart DEF Settle
  <1>2. /\ UNCHANGED <<stream, inbox, audience, mailed>>
        /\ cpc' = [cpc EXCEPT ![k] = "idle"] /\ hand' = [hand EXCEPT ![k] = NoEvent]
        /\ todo' = [todo EXCEPT ![k] = <<>>] /\ failed' = [failed EXCEPT ![k] = {}]
        /\ \/ failed[k] = {} /\ handled' = handled \cup {e.id} /\ dlq' = dlq
           \/ failed[k] # {} /\ dlq' = dlq \cup {e.id} /\ handled' = handled
    BY <1>e DEF Settle, Return, ticketVars
  <1>3. /\ \A j \in Kinds \ {k} : /\ cpc'[j] = cpc[j] /\ hand'[j] = hand[j]
                                  /\ todo'[j] = todo[j] /\ failed'[j] = failed[j]
        /\ cpc'[k] = "idle" /\ failed'[k] = {}
    BY <1>2 DEF Boxes, Mails, Letters
  <1>4. /\ Sent' = Sent /\ Stored' = Stored
        /\ \A a, j : Waits(a, j) /\ a.id # e.id => Waits(a, j)'
    BY <1>2 DEF Sent, Stored, Waits
  <1>5. Letters'
    <2>1. /\ audience' \in [Ids -> Seq(Users)] /\ mailed' \in [Ids -> Seq(Users)]
          /\ <<>> \in Seq(Users)
      BY <1>2 DEF Mails, Letters
    <2>2. todo' \in [Kinds -> Seq(Users)]
      BY <1>2, <2>1 DEF Mails, Letters
    <2>3. failed' \in [Kinds -> SUBSET Users]
      BY <1>2 DEF Mails, Letters
    <2>4. \A j \in Kinds : cpc'[j] = "idle" => failed'[j] = {}
      BY <1>3 DEF Mails, Letters
    <2>. QED
      BY <2>1, <2>2, <2>3, <2>4 DEF Letters
  <1>6. ASSUME NEW j \in Kinds PROVE Apart(j)' /\ Counted(j)'
    <2>1. Apart(j) /\ Counted(j)
      BY DEF Mails
    <2>2. \A i \in DOMAIN inbox'[j] :
            Waits(inbox[j][i], j)' /\ mailed'[inbox'[j][i].id] = <<>>
      BY <1>1, <1>2, <1>4, <2>1 DEF Apart
    <2>3. \A i, n \in DOMAIN inbox'[j] : inbox'[j][i].id = inbox'[j][n].id => i = n
      BY <1>2, <2>1 DEF Apart
    <2>4. cpc'[j] = "mail" =>
            /\ j # k /\ Waits(hand[j], j)'
            /\ \A i \in DOMAIN inbox'[j] : inbox'[j][i].id # hand'[j].id
      BY <1>1, <1>2, <1>3, <1>4, <2>1 DEF Apart
    <2>5. Apart(j)'
      BY <2>2, <2>3, <2>4 DEF Apart
    <2>6. Counted(j)'
      BY <1>2, <1>3, <2>1, <2>4 DEF Counted
    <2>. QED
      BY <2>5, <2>6
  <1>7. /\ \A u \in Users : ~Concerns(e, u) => Occurrences(u, mailed[e.id]) = 0 /\ u \notin failed[k]
        /\ \A u \in Users : Concerns(e, u) =>
             IF u \in failed[k] THEN Occurrences(u, mailed[e.id]) < Occurrences(u, audience[e.id])
             ELSE Occurrences(u, mailed[e.id]) = Occurrences(u, audience[e.id])
    <2> SUFFICES ASSUME NEW u \in Users
                 PROVE  /\ ~Concerns(e, u) => Occurrences(u, mailed[e.id]) = 0 /\ u \notin failed[k]
                        /\ Concerns(e, u) =>
                             IF u \in failed[k]
                             THEN Occurrences(u, mailed[e.id]) < Occurrences(u, audience[e.id])
                             ELSE Occurrences(u, mailed[e.id]) = Occurrences(u, audience[e.id])
      OBVIOUS
    <2>1. /\ Occurrences(u, todo[k]) = 0
          /\ Occurrences(u, mailed[e.id]) \in Nat /\ Occurrences(u, audience[e.id]) \in Nat
      BY <1>1, CountEmpty, CountOf
    <2>. QED
      BY <1>e, <1>1, <2>1 DEF Mails, Counted
  <1>8. Right(e)'
    <2>1. /\ e.id \notin handled /\ e.id \notin dlq /\ failed[k] \subseteq Users
      BY <1>1 DEF Waits, Mails, Letters
    <2>2. \A u \in Users : /\ Occurrences(u, mailed[e.id]) \in Nat
                           /\ Occurrences(u, audience[e.id]) \in Nat
      BY <1>1, CountOf
    <2>3. \A u : Due(e, u)' = IF Concerns(e, u) THEN Occurrences(u, audience[e.id]) ELSE 0
      BY <1>2 DEF Due
    <2>4. \A u \in Users : Occurrences(u, mailed'[e.id]) <= Due(e, u)'
      BY <1>2, <1>7, <2>2, <2>3
    <2>5. CASE failed[k] = {}
      <3>1. \A u \in Users : Occurrences(u, mailed'[e.id]) = Due(e, u)'
        BY <1>2, <1>7, <2>3, <2>5
      <3>2. e.id \notin dlq'
        BY <1>2, <2>1, <2>5
      <3>. QED
        BY <2>4, <3>1, <3>2 DEF Right
    <2>6. CASE failed[k] # {}
      <3>1. PICK u \in Users : u \in failed[k]
        BY <2>1, <2>6
      <3>2. Occurrences(u, mailed'[e.id]) < Due(e, u)'
        BY <1>2, <1>7, <2>3, <3>1
      <3>3. e.id \notin handled'
        BY <1>2, <2>1, <2>6
      <3>. QED
        BY <2>4, <3>2, <3>3 DEF Right
    <2>. QED
      BY <2>5, <2>6
  <1>9. ASSUME NEW a \in Stored' PROVE Right(a)'
    <2>1. a \in Stored
      BY <1>4
    <2>2. CASE a.id # e.id
      <3>1. Right(a)
        BY <2>1 DEF Mails
      <3>2. a.id \in handled' => a.id \in handled
        BY <1>2, <2>2
      <3>3. a.id \in dlq' => a.id \in dlq
        BY <1>2, <2>2
      <3>. QED
        BY <1>2, <3>1, <3>2, <3>3 DEF Right, Due
    <2>3. CASE a = e
      BY <1>8, <2>3
    <2>. QED
      BY <1>1, <2>1, <2>2, <2>3
  <1>10. /\ handled' \cup dlq' \subseteq Sent' /\ \A n \in Ids \ Sent' : mailed'[n] = <<>>
    <2>1. e.id \in Sent
      BY <1>1, StoredIsSent DEF Waits
    <2>. QED
      BY <1>2, <1>4, <2>1 DEF Mails
  <1>. QED
    BY <1>5, <1>6, <1>9, <1>10 DEF Mails

LEMMA AlwaysMails == Spec => []Mails
<1>1. Init => Mails
  <2> SUFFICES ASSUME Init PROVE Mails
    OBVIOUS
  <2>1. /\ stream = <<>> /\ handled = {} /\ dlq = {}
        /\ inbox = [k \in Kinds |-> <<>>] /\ cpc = [k \in Kinds |-> "idle"]
        /\ todo = [k \in Kinds |-> <<>>] /\ failed = [k \in Kinds |-> {}]
        /\ audience = [i \in Ids |-> <<>>] /\ mailed = [i \in Ids |-> <<>>]
    BY DEF Init, TicketInit
  <2>2. Stored = {}
    BY <2>1 DEF Stored
  <2>3. Letters
    <3>1. <<>> \in Seq(Users)
      OBVIOUS
    <3>. QED
      BY <2>1, <3>1 DEF Letters
  <2>4. \A k \in Kinds : Apart(k) /\ Counted(k)
    BY <2>1 DEF Apart, Counted
  <2>. QED
    BY <2>1, <2>2, <2>3, <2>4 DEF Mails
<1>2. /\ CallbacksTyped /\ CallbacksTyped' /\ Numbers /\ Numbers' /\ Current
      /\ Mails /\ [Next]_vars
      => Mails'
  <2> SUFFICES ASSUME CallbacksTyped, CallbacksTyped', Numbers, Numbers', Current, Mails,
                      [Next]_vars
               PROVE  Mails'
    OBVIOUS
  <2>t. /\ Typed /\ Boxes /\ Rows /\ stream \in Seq(Event)
        /\ requests \in Nat /\ reminders \in Nat /\ requests' \in Nat /\ reminders' \in Nat
    BY TypeParts DEF CallbacksTyped, Starting, Typed, TypeOK
  <2>n. ASSUME NEW e \in Event, stream' = Append(stream, e)
        PROVE  e.id \in Ids \ Sent
    <3>1. e.id \in Sent'
      BY <2>n, <2>t, SentGrows
    <3>2. e.id \in 1 .. (MaxRequests + MaxReminders)
      BY <2>t, <3>1, TicketBoundsAssumption, RemindersAssumption DEF Numbers, Given
    <3>3. e.id \notin Sent
      BY <2>n, <2>t, PostedIsNew
    <3>. QED
      BY <3>2, <3>3 DEF Ids
  <2>1. CASE UNCHANGED vars \/ Idles
    BY <2>1, FrameMails
    DEF vars, ticketVars, consumerVars, callbackVars, outcomeVars, Idles
  <2>2. ASSUME NEW e \in Event, Posts(e)
        PROVE  Mails'
    <3>1. e.id \in Ids \ Sent
      BY <2>2, <2>n DEF Posts
    <3>. QED
      BY <2>2, <2>t, <3>1, PostMails
  <2>3. CASE stream' = stream /\ Breaks({})
    BY <2>3, <2>t, BreakMails
  <2>4. ASSUME NEW e \in Event, stream' = Append(stream, e), Breaks({e.id})
        PROVE  Mails'
    BY <2>4, <2>n, <2>t, BreakMails
  <2>5. ASSUME NEW k \in Kinds, Fetch(k) \/ Mail(k) \/ Settle(k)
        PROVE  Mails'
    BY <2>5, <2>t, FetchMails, MailMails, SettleMails
  <2>. QED
    BY <2>t, <2>1, <2>2, <2>3, <2>4, <2>5, StepCases
<1>. QED
  BY <1>1, <1>2, AlwaysDelivering, AlwaysNumbered, AlwaysCurrent, PTL DEF Spec

(* An event processed without an error was mailed to everyone it is due to,  *)
(* and one in CRM_DLQ was not (the four callbacks, moveToDLQ).               *)
THEOREM ToldWhenHandled == Spec => []HandledMeansTold
<1>1. Mails => HandledMeansTold
  BY DEF Mails, Right, Stored, HandledMeansTold
<1>. QED
  BY <1>1, AlwaysMails, PTL

(* Nobody gets more mails of an event than are due, whatever fails and       *)
(* however often the process ends (the four callbacks).                      *)
THEOREM NeverMailedTwice == Spec => []MailedOnce
<1>1. Mails => MailedOnce
  BY DEF Mails, Right, Stored, MailedOnce
<1>. QED
  BY <1>1, AlwaysMails, PTL

-----------------------------------------------------------------------------
(* A new assignee hears of it.                                               *)

Taken(n) == n \in handled \/ \E k \in Kinds : cpc[k] = "mail" /\ hand[k].id = n

(* The recipients read for an assignment have its assignee.                  *)
Heard ==
  \A e \in Stored :
    e.kind \in {"assigned", "reassigned"} /\ Taken(e.id) =>
      IsIn(e.to, audience[e.id]) \/ e.ticket \in overwritten

LEMMA OverwrittenGrows ==
  ASSUME Next
  PROVE  overwritten \subseteq overwritten'
  <1> USE DEF historyVars
  <1>1. CASE Connect \/ Subscribe \/ Serve \/ End
    BY <1>1 DEF Connect, Subscribe, Serve, Boot, End
  <1>2. ASSUME NEW h \in Handlers, HandlerStep(h)
        PROVE  overwritten \subseteq overwritten'
    BY <1>2 DEF HandlerStep, Local, Request, CreateTicket, AssignRead, AssignUpdate, AssignCommit
  <1>3. ASSUME NEW h \in Handlers, PublishAndRoute(h) \/ PublishEnds(h)
        PROVE  overwritten' = overwritten
    BY <1>3 DEF PublishAndRoute, Publish, PublishEnds, PublishFails
  <1>4. ASSUME NEW t, NEW l, ReminderFires(t, l)
        PROVE  overwritten' = overwritten
    BY <1>4 DEF ReminderFires
  <1>5. ASSUME NEW k \in Kinds, Consume(k)
        PROVE  overwritten' = overwritten
    BY <1>5 DEF Consume, Fetch, Mail, Settle, SettleEnds, ticketVars
  <1>. QED
    BY <1>1, <1>2, <1>3, <1>4, <1>5 DEF Next

(* No event is taken up that was not, and none is stored that is taken up.   *)
LEMMA FrameHeard ==
  ASSUME Heard, overwritten \subseteq overwritten', audience' = audience,
         \A e \in Stored' : Taken(e.id)' => e \in Stored /\ Taken(e.id)
  PROVE  Heard'
  BY DEF Heard

LEMMA AlwaysHeard == Spec => []Heard
<1>1. Init => Heard
  BY DEF Init, TicketInit, Heard, Stored
<1>2. CallbacksTyped /\ Numbers /\ Numbers' /\ Current /\ Mails /\ Heard /\ [Next]_vars => Heard'
  <2> SUFFICES ASSUME CallbacksTyped, Numbers, Numbers', Current, Mails, Heard, [Next]_vars
               PROVE  Heard'
    OBVIOUS
  <2>t. /\ Typed /\ Boxes /\ stream \in Seq(Event) /\ requests \in Nat /\ reminders \in Nat
        /\ audience \in [Ids -> Seq(Users)]
    BY DEF CallbacksTyped, Starting, Typed, TypeOK, Mails, Letters
  <2>g. overwritten \subseteq overwritten'
    BY OverwrittenGrows DEF vars, ticketVars, historyVars
  <2>n. ASSUME NEW e \in Event, stream' = Append(stream, e)
        PROVE  Stored' = Stored \cup {e} /\ ~Taken(e.id)
    <3>1. e.id \notin Sent /\ Stored' = Stored \cup {e}
      BY <2>n, <2>t, PostedIsNew, StoredGrows
    <3>2. e.id \notin handled
      BY <3>1 DEF Mails
    <3>3. \A k \in Kinds : cpc[k] = "mail" => hand[k].id \in Sent
      BY StoredIsSent DEF Mails, Apart, Waits
    <3>. QED
      BY <3>1, <3>2, <3>3 DEF Taken
  <2>1. CASE UNCHANGED vars \/ Idles
    <3>1. UNCHANGED <<stream, cpc, hand, handled, audience>>
      BY <2>1 DEF vars, ticketVars, consumerVars, callbackVars, outcomeVars, Idles
    <3>. QED
      BY <2>g, <3>1, FrameHeard DEF Stored, Taken
  <2>2. ASSUME NEW e \in Event, Posts(e)
        PROVE  Heard'
    <3>1. UNCHANGED <<cpc, hand, handled, audience>> /\ stream' = Append(stream, e)
      BY <2>2 DEF Posts, callbackVars
    <3>2. \A n : Taken(n)' <=> Taken(n)
      BY <3>1 DEF Taken
    <3>. QED
      BY <2>g, <2>n, <3>1, <3>2, FrameHeard
  <2>3. ASSUME NEW also, Breaks(also),
               stream' = stream \/ \E e \in Event : stream' = Append(stream, e)
        PROVE  Heard'
    <3>1. \A k \in Kinds : cpc'[k] = "idle"
      BY <2>3 DEF Breaks, ProcessEnds
    <3>2. \A n : Taken(n)' => Taken(n)
      BY <2>3, <3>1 DEF Breaks, ProcessEnds, Taken
    <3>3. \A a \in Stored' : Taken(a.id) => a \in Stored
      BY <2>3, <2>n DEF Stored
    <3>4. audience' = audience
      BY <2>3 DEF Breaks, ProcessEnds
    <3>. QED
      BY <2>g, <3>2, <3>3, <3>4, FrameHeard
  <2>4. ASSUME NEW k \in Kinds, Fetch(k)
        PROVE  Heard'
    <3>1. PICK e \in Event : e = Head(inbox[k]) /\ inbox[k] # <<>> /\ inbox[k] \in Seq(Event)
      BY <2>4, <2>t DEF Fetch, Boxes
    <3>2. e \in Stored
      <4>1. e = inbox[k][1] /\ 1 \in DOMAIN inbox[k]
        BY <3>1
      <4>. QED
        BY <4>1 DEF Mails, Apart, Waits
    <3>3. e.id \in Ids /\ About(e) /\ \A a \in Stored : a.id = e.id => a = e
      BY <2>t, <3>2, StoredIsSent, NumbersFit, Unique DEF Current
    <3>4. UNCHANGED <<stream, row, overwritten, handled>> /\ Stored' = Stored
      BY <2>4 DEF Fetch, dbVars, historyVars, Stored
    <3>5. CASE /\ cpc' = [cpc EXCEPT ![k] = "mail"] /\ hand' = [hand EXCEPT ![k] = e]
               /\ audience' = [audience EXCEPT ![e.id] = Recipients(e)]
      <4>1. /\ audience'[e.id] = Recipients(e)
            /\ \A n : n # e.id => audience'[n] = audience[n]
        BY <2>t, <3>3, <3>5
      <4>2. \A n : Taken(n)' /\ n # e.id => Taken(n)
        BY <2>t, <3>4, <3>5 DEF Taken, Boxes
      <4>3. e.kind \in {"assigned", "reassigned"} =>
              IsIn(e.to, audience'[e.id]) \/ e.ticket \in overwritten'
        BY <3>3, <3>4, <4>1 DEF About, Recipients
      <4>4. ASSUME NEW a \in Stored', a.kind \in {"assigned", "reassigned"}, Taken(a.id)'
            PROVE  IsIn(a.to, audience'[a.id]) \/ a.ticket \in overwritten'
        BY <3>3, <3>4, <4>1, <4>2, <4>3, <4>4 DEF Heard
      <4>. QED
        BY <4>4 DEF Heard
    <3>6. CASE UNCHANGED <<callbackVars, audience>>
      BY <2>g, <3>4, <3>6, FrameHeard DEF callbackVars, Taken
    <3>. QED
      BY <2>4, <3>1, <3>5, <3>6 DEF Fetch
  <2>5. ASSUME NEW k \in Kinds, Mail(k)
        PROVE  Heard'
    <3>1. UNCHANGED <<stream, cpc, hand, handled, audience>>
      BY <2>5 DEF Mail
    <3>. QED
      BY <2>g, <3>1, FrameHeard DEF Stored, Taken
  <2>6. ASSUME NEW k \in Kinds, Settle(k)
        PROVE  Heard'
    <3>1. /\ UNCHANGED <<stream, audience>> /\ cpc[k] = "mail" /\ cpc'[k] = "idle"
          /\ \A j \in Kinds \ {k} : cpc'[j] = cpc[j] /\ hand'[j] = hand[j]
          /\ handled' \subseteq handled \cup {hand[k].id}
      BY <2>6, <2>t DEF Settle, Return, ticketVars, Boxes
    <3>2. \A n : Taken(n)' => Taken(n)
      BY <3>1 DEF Taken
    <3>. QED
      BY <2>g, <3>1, <3>2, FrameHeard DEF Stored
  <2>. QED
    BY <2>t, <2>1, <2>2, <2>3, <2>4, <2>5, <2>6, StepCases
<1>. QED
  BY <1>1, <1>2, AlwaysDelivering, AlwaysNumbered, AlwaysCurrent, AlwaysMails, PTL DEF Spec

(* The assignee of an event processed without an error was mailed, or a      *)
(* concurrent assignment had replaced the watchers (AssignTicket,            *)
(* processTicketAssigned, processTicketReassigned).                          *)
THEOREM AssigneesHear == Spec => []AssigneeTold
<1>1. CallbacksTyped /\ Numbers /\ Current /\ Mails /\ Heard => AssigneeTold
  <2> SUFFICES ASSUME CallbacksTyped, Numbers, Current, Mails, Heard,
                      NEW i \in DOMAIN stream, NEW e, e = stream[i],
                      e.id \in handled, e.kind \in {"assigned", "reassigned"},
                      e.ticket \notin overwritten
               PROVE  IsIn(e.to, mailed[e.id])
    BY DEF AssigneeTold
  <2>1. e \in Stored /\ e.id \in Ids
    <3>1. e \in Stored
      BY DEF Stored
    <3>2. requests \in Nat /\ reminders \in Nat
      BY DEF CallbacksTyped, Starting, Typed, TypeOK
    <3>. QED
      BY <3>1, <3>2, StoredIsSent, NumbersFit
  <2>2. e.to \in Users /\ Concerns(e, e.to)
    <3>1. e.to \in Employees
      BY <2>1 DEF Current, About
    <3>. QED
      BY <3>1, RolesAssumption DEF Users, Concerns
  <2>3. IsIn(e.to, audience[e.id])
    BY <2>1 DEF Heard, Taken
  <2>4. Occurrences(e.to, mailed[e.id]) = Occurrences(e.to, audience[e.id])
    BY <2>1, <2>2 DEF Mails, Right, Due
  <2>5. mailed[e.id] \in Seq(Users) /\ audience[e.id] \in Seq(Users)
    BY <2>1 DEF Mails, Letters
  <2>. QED
    BY <2>3, <2>4, <2>5, CountOf
<1>. QED
  BY <1>1, AlwaysDelivering, AlwaysNumbered, AlwaysCurrent, AlwaysMails, AlwaysHeard, PTL

-----------------------------------------------------------------------------
(* The consumers implement Notification.                                     *)

(* What was dropped was stored, is nowhere else, and came to no other end;   *)
(* nobody has read the recipients of what is not stored.                     *)
Ends ==
  /\ dropped \subseteq Sent /\ dropped \cap (handled \cup dlq) = {}
  /\ dropped \cap InFlight = {}
  /\ \A n \in Ids \ Sent : audience[n] = <<>>

(* What is in flight is stored, and not settled.                             *)
LEMMA FlightIsOpen ==
  ASSUME Mails, Boxes
  PROVE  InFlight \subseteq Sent /\ InFlight \cap (handled \cup dlq) = {}
  <1> SUFFICES ASSUME NEW n \in InFlight PROVE n \in Sent /\ n \notin handled \cup dlq
    OBVIOUS
  <1>1. PICK k \in Kinds : \/ \E i \in DOMAIN inbox[k] : inbox[k][i].id = n
                           \/ cpc[k] # "idle" /\ hand[k].id = n
    BY WhereInFlight
  <1>2. cpc[k] # "idle" => cpc[k] = "mail"
    BY DEF Boxes
  <1>3. \E e : Waits(e, k) /\ e.id = n
    BY <1>1, <1>2 DEF Mails, Apart
  <1>. QED
    BY <1>3, StoredIsSent DEF Waits

LEMMA FrameFates ==
  ASSUME UNCHANGED <<inbox, cpc, hand>>
  PROVE  Waiting' = Waiting /\ InHand' = InHand /\ InFlight' = InFlight
  BY DEF Waiting, InHand, InFlight

(* What becomes of the sets of Notification when an event is stored.         *)
LEMMA PostFates ==
  ASSUME Boxes, NEW e \in Event, Posts(e)
  PROVE  /\ InHand' = InHand
         /\ \/ Waiting' = Waiting \cup {e.id} /\ dropped' = dropped
            \/ Waiting' = Waiting /\ dropped' = dropped \cup {e.id}
  <1>1. UNCHANGED <<cpc, hand>> /\ e.kind \in Kinds /\ inbox \in [Kinds -> Seq(Event)]
    BY DEF Posts, callbackVars, Event, Boxes
  <1>2. InHand' = InHand
    BY <1>1 DEF InHand
  <1>3. CASE inbox' = [inbox EXCEPT ![e.kind] = Append(@, e)] /\ dropped' = dropped
    <2>1. /\ \A k \in Kinds \ {e.kind} : inbox'[k] = inbox[k]
          /\ inbox'[e.kind] = Append(inbox[e.kind], e)
      BY <1>1, <1>3
    <2>2. /\ \A i \in DOMAIN inbox[e.kind] :
               i \in DOMAIN inbox'[e.kind] /\ inbox'[e.kind][i] = inbox[e.kind][i]
          /\ \A i \in DOMAIN inbox'[e.kind] :
               \/ i \in DOMAIN inbox[e.kind] /\ inbox'[e.kind][i] = inbox[e.kind][i]
               \/ inbox'[e.kind][i] = e
          /\ \E i \in DOMAIN inbox'[e.kind] : inbox'[e.kind][i] = e
      BY <1>1, <2>1
    <2>3. \A n : n \in Waiting' <=> n \in Waiting \/ n = e.id
      <3> SUFFICES ASSUME NEW n PROVE n \in Waiting' <=> n \in Waiting \/ n = e.id
        OBVIOUS
      <3>1. ASSUME n \in Waiting' PROVE n \in Waiting \/ n = e.id
        <4>1. PICK j \in Kinds : \E i \in DOMAIN inbox'[j] : inbox'[j][i].id = n
          BY <3>1, WherePlaced
        <4>2. CASE j = e.kind
          <5>1. n = e.id \/ \E m \in DOMAIN inbox[j] : inbox[j][m].id = n
            BY <2>2, <4>1, <4>2
          <5>. QED
            BY <5>1, WherePlaced
        <4>3. CASE j # e.kind
          BY <2>1, <4>1, <4>3, WherePlaced
        <4>. QED
          BY <4>2, <4>3
      <3>2. n \in Waiting => n \in Waiting'
        BY <2>1, <2>2, WherePlaced
      <3>3. n = e.id => n \in Waiting'
        BY <1>1, <2>2, WherePlaced
      <3>. QED
        BY <3>1, <3>2, <3>3
    <2>. QED
      BY <1>2, <1>3, <2>3
  <1>4. CASE inbox' = inbox /\ dropped' = dropped \cup {e.id}
    BY <1>2, <1>4 DEF Waiting
  <1>. QED
    BY <1>3, <1>4 DEF Posts, Route

LEMMA BreakFates ==
  ASSUME NEW also, Breaks(also)
  PROVE  Waiting' = {} /\ InHand' = {} /\ dropped' = dropped \cup InFlight \cup also
  <1>1. \A k \in Kinds : inbox'[k] = <<>> /\ cpc'[k] = "idle"
    BY DEF Breaks, ProcessEnds
  <1>2. \A n : n \notin Waiting' /\ n \notin InHand'
    BY <1>1, WherePlaced
  <1>. QED
    BY <1>2 DEF Breaks, ProcessEnds

LEMMA FetchFates ==
  ASSUME Mails, Boxes, Numbers, NEW k \in Kinds, Fetch(k)
  PROVE  \E e \in Event :
           /\ e = Head(inbox[k]) /\ e.id \in Waiting /\ e.id \notin InHand /\ e \in Stored
           /\ Waiting' = Waiting \ {e.id}
           /\ \/ /\ ~Unreadable(e) /\ audience' = [audience EXCEPT ![e.id] = Recipients(e)]
                 /\ InHand' = InHand \cup {e.id} /\ dropped' = dropped
              \/ /\ audience' = audience
                 /\ InHand' = InHand /\ dropped' = dropped \cup {e.id}
  <1>1. PICK e \in Event : e = Head(inbox[k]) /\ inbox[k] # <<>> /\ inbox[k] \in Seq(Event)
    BY DEF Fetch, Boxes
  <1>2. /\ 1 \in DOMAIN inbox[k] /\ inbox[k][1] = e /\ inbox'[k] = Tail(inbox[k])
        /\ \A j \in Kinds \ {k} : inbox'[j] = inbox[j]
        /\ cpc[k] = "idle"
    BY <1>1 DEF Fetch, Boxes
  <1>3. /\ \A i \in DOMAIN inbox'[k] : /\ i + 1 \in DOMAIN inbox[k] /\ i + 1 # 1
                                       /\ inbox'[k][i] = inbox[k][i + 1]
        /\ \A i \in DOMAIN inbox[k] : i = 1 \/ /\ i - 1 \in DOMAIN inbox'[k]
                                               /\ inbox'[k][i - 1] = inbox[k][i]
    BY <1>1, <1>2
  <1>4. Waits(e, k) /\ e \in Stored /\ Apart(k)
    BY <1>2 DEF Mails, Apart, Waits
  <1>5. e.id \in Waiting
    BY <1>2, WherePlaced
  <1>6. e.id \notin Waiting'
    <2>1. \A i \in DOMAIN inbox'[k] : inbox'[k][i].id # e.id
      BY <1>2, <1>3, <1>4 DEF Apart
    <2>2. \A j \in Kinds \ {k} : \A i \in DOMAIN inbox[j] : Waits(inbox[j][i], j)
      BY DEF Mails, Apart
    <2>3. \A j \in Kinds \ {k} : \A i \in DOMAIN inbox'[j] : inbox'[j][i].id # e.id
      BY <1>2, <1>4, <2>2, ElsewhereDiffers
    <2>. QED
      BY <2>1, <2>3, WherePlaced
  <1>7. \A n : n # e.id => (n \in Waiting' <=> n \in Waiting)
    <2> SUFFICES ASSUME NEW n, n # e.id PROVE n \in Waiting' <=> n \in Waiting
      OBVIOUS
    <2>0. n # e.id
      OBVIOUS
    <2>1. ASSUME n \in Waiting' PROVE n \in Waiting
      <3>1. PICK j \in Kinds : \E i \in DOMAIN inbox'[j] : inbox'[j][i].id = n
        BY <2>1, WherePlaced
      <3>2. \E m \in DOMAIN inbox[j] : inbox[j][m].id = n
        <4>1. CASE j = k
          BY <1>3, <3>1, <4>1
        <4>2. CASE j # k
          BY <1>2, <3>1, <4>2
        <4>. QED
          BY <4>1, <4>2
      <3>. QED
        BY <3>2, WherePlaced
    <2>2. n \in Waiting => n \in Waiting'
      <3>1. ASSUME n \in Waiting PROVE n \in Waiting'
        <4>1. PICK j \in Kinds : \E i \in DOMAIN inbox[j] : inbox[j][i].id = n
          BY <3>1, WherePlaced
        <4>2. CASE j = k
          <5>1. PICK i \in DOMAIN inbox[k] : inbox[k][i].id = n
            BY <4>1, <4>2
          <5>2. i # 1
            BY <1>2, <2>0, <5>1
          <5>3. i - 1 \in DOMAIN inbox'[k] /\ inbox'[k][i - 1].id = n
            BY <1>3, <5>1, <5>2
          <5>. QED
            BY <5>3, WherePlaced
        <4>3. CASE j # k
          BY <1>2, <4>1, <4>3, WherePlaced
        <4>. QED
          BY <4>2, <4>3
      <3>. QED
        BY <3>1
    <2>. QED
      BY <2>1, <2>2
  <1>8. Waiting' = Waiting \ {e.id}
    BY <1>5, <1>6, <1>7
  <1>h. e.id \notin InHand
    <2>1. \A j \in Kinds : cpc[j] # "idle" => j # k /\ Waits(hand[j], j)
      BY <1>2 DEF Mails, Apart, Boxes
    <2>2. \A j \in Kinds : cpc[j] # "idle" => hand[j].id # e.id
      BY <1>4, <2>1, ElsewhereDiffers
    <2>. QED
      BY <2>2, WherePlaced
  <1>9. CASE /\ ~Unreadable(e) /\ audience' = [audience EXCEPT ![e.id] = Recipients(e)]
             /\ cpc' = [cpc EXCEPT ![k] = "mail"] /\ hand' = [hand EXCEPT ![k] = e]
             /\ dropped' = dropped
    <2>1. /\ cpc'[k] = "mail" /\ hand'[k] = e
          /\ \A j \in Kinds \ {k} : cpc'[j] = cpc[j] /\ hand'[j] = hand[j]
      BY <1>9 DEF Boxes
    <2>2. \A n : n \in InHand' <=> n \in InHand \/ n = e.id
      <3> SUFFICES ASSUME NEW n PROVE n \in InHand' <=> n \in InHand \/ n = e.id
        OBVIOUS
      <3>1. n \in InHand => n \in InHand'
        BY <1>2, <2>1, WherePlaced
      <3>2. n \in InHand' => n \in InHand \/ n = e.id
        BY <2>1, WherePlaced
      <3>3. n = e.id => n \in InHand'
        BY <2>1, WherePlaced
      <3>. QED
        BY <3>1, <3>2, <3>3
    <2>. QED
      BY <1>1, <1>4, <1>5, <1>8, <1>h, <1>9, <2>2
  <1>10. CASE UNCHANGED <<callbackVars, audience>> /\ dropped' = dropped \cup {e.id}
    <2>1. InHand' = InHand
      BY <1>10 DEF callbackVars, InHand
    <2>. QED
      BY <1>1, <1>4, <1>5, <1>8, <1>h, <1>10, <2>1
  <1>. QED
    BY <1>1, <1>9, <1>10 DEF Fetch

LEMMA SettleFates ==
  ASSUME Mails, Boxes, Numbers, requests \in Nat, reminders \in Nat, NEW k \in Kinds, Settle(k)
  PROVE  /\ hand[k].id \in InHand /\ InHand' = InHand \ {hand[k].id} /\ Waiting' = Waiting
         /\ hand[k] \in Stored /\ hand[k].id \in Ids
         /\ \/ handled' = handled \cup {hand[k].id} /\ dlq' = dlq
            \/ dlq' = dlq \cup {hand[k].id} /\ handled' = handled
  <1>1. /\ UNCHANGED inbox /\ cpc[k] = "mail" /\ cpc'[k] = "idle"
        /\ \A j \in Kinds \ {k} : cpc'[j] = cpc[j] /\ hand'[j] = hand[j]
    BY DEF Settle, Return, Boxes
  <1>2. /\ hand[k] \in Stored /\ hand[k].id \in Ids
        /\ \A j \in Kinds \ {k} : cpc[j] = "mail" => hand[j].id # hand[k].id
    BY <1>1, HandApart DEF Waits
  <1>3. \A j \in Kinds : cpc[j] # "idle" => cpc[j] = "mail"
    BY DEF Boxes
  <1>4. hand[k].id \in InHand /\ hand[k].id \notin InHand'
    BY <1>1, <1>2, <1>3, WherePlaced
  <1>5. \A n : n # hand[k].id => (n \in InHand' <=> n \in InHand)
    BY <1>1, WherePlaced
  <1>6. Waiting' = Waiting
    BY <1>1 DEF Waiting
  <1>. QED
    BY <1>2, <1>4, <1>5, <1>6 DEF Settle

LEMMA AlwaysEnds == Spec => []Ends
<1>1. Init => Ends
  <2> SUFFICES ASSUME Init PROVE Ends
    OBVIOUS
  <2>1. /\ dropped = {} /\ audience = [i \in Ids |-> <<>>]
    BY DEF Init
  <2>. QED
    BY <2>1 DEF Ends
<1>2. CallbacksTyped /\ Numbers /\ Numbers' /\ Mails /\ Ends /\ [Next]_vars => Ends'
  <2> SUFFICES ASSUME CallbacksTyped, Numbers, Numbers', Mails, Ends, [Next]_vars
               PROVE  Ends'
    OBVIOUS
  <2>t. /\ Typed /\ Boxes /\ stream \in Seq(Event) /\ requests \in Nat /\ reminders \in Nat
        /\ audience \in [Ids -> Seq(Users)] /\ handled \cup dlq \subseteq Sent
    BY DEF CallbacksTyped, Starting, Typed, TypeOK, Mails, Letters
  <2>f. InFlight \subseteq Sent /\ InFlight \cap (handled \cup dlq) = {}
    BY <2>t, FlightIsOpen
  <2>n. ASSUME NEW e \in Event, stream' = Append(stream, e)
        PROVE  e.id \notin Sent /\ Sent' = Sent \cup {e.id}
    BY <2>n, <2>t, PostedIsNew, SentGrows
  <2>1. CASE UNCHANGED vars \/ Idles \/ \E k \in Kinds : Mail(k)
    <3>1. UNCHANGED <<stream, inbox, cpc, hand, handled, dlq, dropped, audience>>
      BY <2>1 DEF vars, ticketVars, consumerVars, callbackVars, outcomeVars, Idles, Mail
    <3>2. InFlight' = InFlight /\ Sent' = Sent
      BY <3>1, FrameFates, SameStream
    <3>. QED
      BY <3>1, <3>2 DEF Ends
  <2>2. ASSUME NEW e \in Event, Posts(e)
        PROVE  Ends'
    <3>1. e.id \notin Sent /\ Sent' = Sent \cup {e.id} /\ UNCHANGED <<handled, dlq, audience>>
      BY <2>2, <2>n DEF Posts
    <3>2. /\ InFlight' \subseteq InFlight \cup {e.id} /\ dropped' \subseteq dropped \cup {e.id}
          /\ InFlight' = InFlight \/ dropped' = dropped
      BY <2>2, <2>t, PostFates DEF InFlight
    <3>. QED
      BY <2>t, <2>f, <3>1, <3>2 DEF Ends
  <2>3. ASSUME NEW also, Breaks(also),
               \/ also = {} /\ stream' = stream
               \/ \E e \in Event : also = {e.id} /\ stream' = Append(stream, e)
        PROVE  Ends'
    <3>1. InFlight' = {} /\ dropped' = dropped \cup InFlight \cup also
      BY <2>3, BreakFates DEF InFlight
    <3>2. Sent' = Sent \cup also /\ also \cap Sent = {}
      BY <2>3, <2>n, SameStream
    <3>3. UNCHANGED <<handled, dlq, audience>>
      BY <2>3 DEF Breaks, ProcessEnds
    <3>. QED
      BY <2>t, <2>f, <3>1, <3>2, <3>3 DEF Ends
  <2>4. ASSUME NEW k \in Kinds, Fetch(k)
        PROVE  Ends'
    <3>1. PICK e \in Event :
            /\ e.id \in Waiting /\ e.id \notin InHand /\ Waiting' = Waiting \ {e.id}
            /\ \/ /\ audience' = [audience EXCEPT ![e.id] = Recipients(e)]
                  /\ InHand' = InHand \cup {e.id} /\ dropped' = dropped
               \/ /\ audience' = audience
                  /\ InHand' = InHand /\ dropped' = dropped \cup {e.id}
      BY <2>4, <2>t, FetchFates
    <3>2. UNCHANGED <<handled, dlq>> /\ Sent' = Sent
      BY <2>4, SameStream DEF Fetch
    <3>3. e.id \in InFlight /\ e.id \in Sent
      BY <2>f, <3>1 DEF InFlight
    <3>4. \A n \in Ids \ Sent : audience'[n] = audience[n]
      BY <2>t, <3>1, <3>3
    <3>5. dropped' \cap InFlight' = {}
      BY <3>1, <3>3 DEF Ends, InFlight
    <3>6. dropped' \subseteq Sent /\ dropped' \cap (handled \cup dlq) = {}
      BY <2>f, <3>1, <3>3 DEF Ends
    <3>. QED
      BY <3>2, <3>4, <3>5, <3>6 DEF Ends
  <2>5. ASSUME NEW k \in Kinds, Settle(k)
        PROVE  Ends'
    <3>1. /\ hand[k].id \in InFlight /\ InFlight' \subseteq InFlight
          /\ handled' \cup dlq' = handled \cup dlq \cup {hand[k].id}
      BY <2>5, <2>t, SettleFates DEF InFlight
    <3>2. UNCHANGED <<audience, dropped>> /\ Sent' = Sent
      BY <2>5, SameStream DEF Settle, ticketVars
    <3>. QED
      BY <3>1, <3>2 DEF Ends
  <2>. QED
    BY <2>t, <2>1, <2>2, <2>3, <2>4, <2>5, StepCases
<1>. QED
  BY <1>1, <1>2, AlwaysDelivering, AlwaysNumbered, AlwaysMails, PTL DEF Spec

(* The mails due of the events there are do not change.                      *)
LEMMA DueKept ==
  ASSUME stream \in Seq(Event), audience' = audience,
         \/ stream' = stream
         \/ \E e \in Event : stream' = Append(stream, e) /\ audience[e.id] = <<>>
  PROVE  MailsDue' = MailsDue
  <1>1. CASE stream' = stream
    BY <1>1 DEF MailsDue
  <1>2. ASSUME NEW e \in Event, stream' = Append(stream, e), audience[e.id] = <<>>
        PROVE  MailsDue' = MailsDue
    <2>1. /\ DOMAIN stream' = DOMAIN stream \cup {Len(stream) + 1}
          /\ \A i \in DOMAIN stream : stream'[i] = stream[i]
          /\ stream'[Len(stream) + 1] = e
      BY <1>2
    <2> DEFINE Hears(n, u) == \E i \in DOMAIN stream : stream[i].id = n /\ Concerns(stream[i], u)
               Will(n, u) == \E i \in DOMAIN stream' : stream'[i].id = n /\ Concerns(stream'[i], u)
    <2>2. \A n, u : n # e.id => (Will(n, u) <=> Hears(n, u))
      BY <2>1
    <2>3. \A u : Occurrences(u, audience[e.id]) = 0
      BY <1>2, CountEmpty
    <2> HIDE DEF Hears, Will
    <2>4. \A n \in Ids, u \in Users :
            (IF Will(n, u) THEN Occurrences(u, audience[n]) ELSE 0)
              = (IF Hears(n, u) THEN Occurrences(u, audience[n]) ELSE 0)
      BY <2>2, <2>3
    <2>5. \A n, u : Concerns(n, u)' <=> Concerns(n, u)
      BY DEF Concerns
    <2>6. MailsDue = [n \in Ids |-> [u \in Users |->
                        IF Hears(n, u) THEN Occurrences(u, audience[n]) ELSE 0]]
      BY DEF MailsDue, Hears
    <2>7. MailsDue' = [n \in Ids |-> [u \in Users |->
                         IF Will(n, u) THEN Occurrences(u, audience[n]) ELSE 0]]
      BY DEF MailsDue, Will
    <2>. QED
      BY <2>4, <2>6, <2>7
  <1>. QED
    BY <1>1, <1>2

(* What is due and sent of a stored event.                                   *)
LEMMA DueOfStored ==
  ASSUME Numbers, NEW e \in Stored, e.id \in Ids, NEW u \in Users
  PROVE  MailsDue[e.id][u] = Due(e, u) /\ MailsSent[e.id][u] = Occurrences(u, mailed[e.id])
  <1>1. (\E i \in DOMAIN stream : stream[i].id = e.id /\ Concerns(stream[i], u))
          <=> Concerns(e, u)
    BY Unique DEF Stored
  <1>. QED
    BY <1>1 DEF MailsDue, MailsSent, Due

(* What the theorem rests on.                                                *)
Settled == CallbacksTyped /\ Numbers /\ Current /\ Mails /\ Ends

LEMMA Lost ==
  ASSUME NEW gone \in SUBSET Ids, gone \cap (handled \cup dlq \cup dropped) = {},
         dropped' = dropped \cup gone, Waiting' = Waiting \ gone, InHand' = InHand \ gone,
         UNCHANGED <<handled, dlq>>, MailsDue' = MailsDue, MailsSent' = MailsSent
  PROVE  Notices!NotificationNext
  <1>1. Notices!Drop(gone)
    BY DEF Notices!Drop, Notices!Ended
  <1>. QED
    BY <1>1 DEF Notices!NotificationNext

LEMMA SentKept ==
  ASSUME mailed' = mailed
  PROVE  MailsSent' = MailsSent
  BY DEF MailsSent

LEMMA PostNotice ==
  ASSUME Settled, NEW e \in Event, Posts(e), e.id \in Ids \ Sent
  PROVE  Notices!NotificationNext
  <1>t. Boxes /\ stream \in Seq(Event)
    BY DEF Settled, CallbacksTyped, Typed, TypeOK
  <1>1. /\ UNCHANGED <<handled, dlq, audience, mailed>> /\ stream' = Append(stream, e)
        /\ audience[e.id] = <<>>
    BY DEF Posts, Settled, Ends
  <1>2. MailsDue' = MailsDue /\ MailsSent' = MailsSent
    BY <1>t, <1>1, DueKept, SentKept
  <1>3. e.id \notin Waiting \cup InHand \cup (handled \cup dlq \cup dropped)
    BY <1>t, FlightIsOpen DEF Settled, Mails, Ends, InFlight
  <1>4. CASE Waiting' = Waiting \cup {e.id} /\ dropped' = dropped /\ InHand' = InHand
    <2>1. Notices!Announce(e.id)
      BY <1>1, <1>2, <1>3, <1>4 DEF Notices!Announce, Notices!Ended
    <2>. QED
      BY <2>1 DEF Notices!NotificationNext
  <1>5. CASE Waiting' = Waiting /\ dropped' = dropped \cup {e.id} /\ InHand' = InHand
    <2>1. /\ {e.id} \in SUBSET Ids /\ {e.id} \cap (handled \cup dlq \cup dropped) = {}
          /\ Waiting' = Waiting \ {e.id} /\ InHand' = InHand \ {e.id}
      BY <1>3, <1>5
    <2>. QED
      BY <1>1, <1>2, <1>5, <2>1, Lost
  <1>. QED
    BY <1>t, <1>4, <1>5, PostFates

LEMMA BreakNotice ==
  ASSUME Settled, NEW also, Breaks(also),
         \/ also = {} /\ stream' = stream
         \/ \E e \in Event : /\ also = {e.id} /\ stream' = Append(stream, e)
                             /\ e.id \in Ids \ Sent
  PROVE  Notices!NotificationNext
  <1>t. /\ Boxes /\ stream \in Seq(Event) /\ requests \in Nat /\ reminders \in Nat
    BY DEF Settled, CallbacksTyped, Starting, Typed, TypeOK
  <1>1. PICK gone : gone = InFlight \cup also
    OBVIOUS
  <1>2. /\ Waiting' = {} /\ InHand' = {} /\ dropped' = dropped \cup gone
        /\ UNCHANGED <<handled, dlq, audience, mailed>>
    BY <1>1, BreakFates DEF Breaks, ProcessEnds
  <1>3. also \subseteq Ids \ Sent
    OBVIOUS
  <1>4. gone \in SUBSET Ids
    <2>1. \A n \in InFlight : n \in Ids
      BY <1>t, FlightIsOpen, NumbersFit DEF Settled
    <2>. QED
      BY <1>1, <1>3, <2>1
  <1>5. gone \cap (handled \cup dlq \cup dropped) = {}
    BY <1>t, <1>1, <1>3, FlightIsOpen DEF Settled, Mails, Ends
  <1>6. Waiting' = Waiting \ gone /\ InHand' = InHand \ gone
    BY <1>1, <1>2 DEF InFlight
  <1>7. MailsDue' = MailsDue
    <2>1. \A n \in Ids \ Sent : audience[n] = <<>>
      BY DEF Settled, Ends
    <2>. QED
      BY <1>t, <1>2, <2>1, DueKept
  <1>. QED
    BY <1>2, <1>4, <1>5, <1>6, <1>7, SentKept, Lost

LEMMA FetchNotice ==
  ASSUME Settled, NEW k \in Kinds, Fetch(k)
  PROVE  Notices!NotificationNext
  <1>t. /\ Boxes /\ Rows /\ stream \in Seq(Event) /\ requests \in Nat /\ reminders \in Nat
        /\ audience \in [Ids -> Seq(Users)] /\ Mails /\ Numbers
    BY TypeParts DEF Settled, CallbacksTyped, Starting, Typed, TypeOK, Mails, Letters
  <1>1. PICK e \in Event :
          /\ e.id \in Waiting /\ e.id \notin InHand /\ e \in Stored /\ Waiting' = Waiting \ {e.id}
          /\ \/ /\ ~Unreadable(e) /\ audience' = [audience EXCEPT ![e.id] = Recipients(e)]
                /\ InHand' = InHand \cup {e.id} /\ dropped' = dropped
             \/ /\ audience' = audience
                /\ InHand' = InHand /\ dropped' = dropped \cup {e.id}
    BY <1>t, FetchFates
  <1>2. UNCHANGED <<stream, handled, dlq, mailed>>
    BY DEF Fetch
  <1>3. e.id \in Ids /\ e.id \notin handled \cup dlq \cup dropped
    BY <1>t, <1>1, FlightIsOpen, StoredIsSent, NumbersFit DEF Settled, Ends, InFlight
  <1>4. MailsSent' = MailsSent
    BY <1>2, SentKept
  <1>5. CASE /\ ~Unreadable(e) /\ audience' = [audience EXCEPT ![e.id] = Recipients(e)]
             /\ InHand' = InHand \cup {e.id} /\ dropped' = dropped
    <2>1. PICK l \in Seq(Users) : l = Recipients(e)
      BY <1>t, <1>1, <1>5, RecipientsAreUsers DEF Settled, Current, About
    <2>2. audience'[e.id] = l /\ \A n \in Ids \ {e.id} : audience'[n] = audience[n]
      BY <1>t, <1>3, <1>5, <2>1
    <2>3. /\ MailsDue' = [n \in Ids |-> MailsDue'[n]]
          /\ MailsDue = [n \in Ids |-> MailsDue[n]]
      BY DEF MailsDue
    <2>4. \A n \in Ids \ {e.id} : MailsDue'[n] = MailsDue[n]
      BY <1>2, <2>2 DEF MailsDue
    <2>5. MailsDue'[e.id] \in [Users -> Nat]
      <3>1. \A u : Occurrences(u, audience'[e.id]) \in Nat
        BY <2>2, CountOf
      <3>. QED
        BY <1>3, <3>1 DEF MailsDue
    <2>6. MailsDue' = [MailsDue EXCEPT ![e.id] = MailsDue'[e.id]]
      BY <1>3, <2>3, <2>4
    <2>7. Notices!Take(e.id)
      BY <1>1, <1>2, <1>4, <1>5, <2>5, <2>6 DEF Notices!Take
    <2>. QED
      BY <1>3, <2>7 DEF Notices!NotificationNext
  <1>6. CASE audience' = audience /\ InHand' = InHand /\ dropped' = dropped \cup {e.id}
    <2>1. MailsDue' = MailsDue
      BY <1>t, <1>2, <1>6, DueKept
    <2>2. InHand' = InHand \ {e.id} /\ {e.id} \in SUBSET Ids
      BY <1>1, <1>3, <1>6
    <2>3. {e.id} \cap (handled \cup dlq \cup dropped) = {}
      BY <1>3
    <2>. QED
      BY <1>1, <1>2, <1>4, <1>6, <2>1, <2>2, <2>3, Lost
  <1>. QED
    BY <1>1, <1>5, <1>6

LEMMA MailNotice ==
  ASSUME Settled, Mails', NEW k \in Kinds, Mail(k)
  PROVE  Notices!NotificationNext \/ UNCHANGED Notices!notices
  <1>t. /\ Boxes /\ stream \in Seq(Event) /\ requests \in Nat /\ reminders \in Nat
        /\ mailed \in [Ids -> Seq(Users)] /\ Mails /\ Numbers
    BY DEF Settled, CallbacksTyped, Starting, Typed, TypeOK, Mails, Letters
  <1>1. PICK e : e = hand[k]
    OBVIOUS
  <1>2. /\ cpc[k] = "mail" /\ e.id \in Ids /\ e \in Stored /\ todo[k] \in Seq(Users)
        /\ todo[k] # <<>>
    BY <1>t, <1>1, HandApart DEF Mail, Waits
  <1>3. PICK v \in Users : v = Head(todo[k])
    BY <1>2
  <1>4. /\ UNCHANGED <<stream, inbox, cpc, hand, handled, dlq, dropped, audience>>
        /\ mailed' = mailed \/ mailed' = [mailed EXCEPT ![e.id] = Append(@, v)]
    BY <1>1, <1>3 DEF Mail
  <1>5. Waiting' = Waiting /\ InHand' = InHand /\ MailsDue' = MailsDue
    BY <1>t, <1>4, FrameFates, DueKept
  <1>6. CASE mailed' = mailed
    BY <1>4, <1>5, <1>6, SentKept DEF Notices!notices, Notices!fates
  <1>7. CASE mailed' = [mailed EXCEPT ![e.id] = Append(@, v)]
    <2>1. /\ mailed'[e.id] = Append(mailed[e.id], v) /\ mailed[e.id] \in Seq(Users)
          /\ \A n \in Ids \ {e.id} : mailed'[n] = mailed[n]
      BY <1>t, <1>2, <1>7
    <2>2. \A u \in Users : Occurrences(u, mailed'[e.id]) =
            IF u = v THEN Occurrences(u, mailed[e.id]) + 1 ELSE Occurrences(u, mailed[e.id])
      BY <2>1, CountAppend
    <2>3. Occurrences(v, mailed[e.id]) \in Nat
      BY <2>1, CountOf
    <2>4. Occurrences(v, mailed[e.id]) + 1 <= Due(e, v)
      <3>1. e \in Stored'
        BY <1>2, <1>4 DEF Stored
      <3>2. Occurrences(v, mailed'[e.id]) <= Due(e, v)'
        BY <3>1 DEF Mails, Right
      <3>3. Due(e, v)' = Due(e, v)
        BY <1>4 DEF Due
      <3>. QED
        BY <2>2, <3>2, <3>3
    <2>5. Due(e, v) \in Nat
      BY <1>2, DueIsNat DEF Settled, Mails
    <2>6. e.id \in InHand
      BY <1>1, <1>2, WherePlaced
    <2>7. MailsSent[e.id][v] < MailsDue[e.id][v]
      BY <1>t, <1>2, <2>3, <2>4, <2>5, DueOfStored
    <2>8. MailsSent' = [MailsSent EXCEPT ![e.id][v] = @ + 1]
      <3>1. \A n \in Ids : MailsSent[n] = [u \in Users |-> Occurrences(u, mailed[n])]
        BY DEF MailsSent
      <3>2. \A n \in Ids : MailsSent'[n] = [u \in Users |-> Occurrences(u, mailed'[n])]
        BY DEF MailsSent
      <3>3. ASSUME NEW n \in Ids \ {e.id} PROVE MailsSent'[n] = MailsSent[n]
        <4>1. mailed'[n] = mailed[n]
          BY <2>1
        <4>. QED
          BY <4>1 DEF MailsSent
      <3>4. MailsSent'[e.id] = [MailsSent[e.id] EXCEPT ![v] = @ + 1]
        <4>1. /\ MailsSent[e.id] = [u \in Users |-> Occurrences(u, mailed[e.id])]
              /\ MailsSent'[e.id] = [u \in Users |-> Occurrences(u, mailed'[e.id])]
          BY <1>2, <3>1, <3>2
        <4>2. MailsSent'[e.id] = [u \in Users |-> IF u = v THEN Occurrences(u, mailed[e.id]) + 1
                                                  ELSE Occurrences(u, mailed[e.id])]
          BY <2>2, <4>1
        <4>. QED
          BY <4>1, <4>2
      <3>5. DOMAIN MailsSent = Ids /\ MailsSent = [n \in Ids |-> MailsSent[n]]
            /\ MailsSent' = [n \in Ids |-> MailsSent'[n]]
        BY DEF MailsSent
      <3>. QED
        BY <1>2, <3>3, <3>4, <3>5
    <2>9. Notices!Send(e.id, v)
      BY <1>4, <1>5, <2>6, <2>7, <2>8 DEF Notices!Send, Notices!fates
    <2>. QED
      BY <1>2, <1>3, <2>9 DEF Notices!NotificationNext
  <1>. QED
    BY <1>4, <1>6, <1>7

LEMMA SettleNotice ==
  ASSUME Settled, Mails', NEW k \in Kinds, Settle(k)
  PROVE  Notices!NotificationNext
  <1>t. /\ Boxes /\ stream \in Seq(Event) /\ requests \in Nat /\ reminders \in Nat
        /\ Mails /\ Numbers
    BY DEF Settled, CallbacksTyped, Starting, Typed, TypeOK
  <1>1. PICK e : e = hand[k]
    OBVIOUS
  <1>2. /\ e.id \in InHand /\ InHand' = InHand \ {e.id} /\ Waiting' = Waiting
        /\ e \in Stored /\ e.id \in Ids
        /\ \/ handled' = handled \cup {e.id} /\ dlq' = dlq
           \/ dlq' = dlq \cup {e.id} /\ handled' = handled
    BY <1>t, <1>1, SettleFates
  <1>3. UNCHANGED <<stream, audience, mailed, dropped>>
    BY DEF Settle, ticketVars
  <1>4. MailsDue' = MailsDue /\ MailsSent' = MailsSent
    BY <1>t, <1>3, DueKept, SentKept
  <1>5. /\ e.id \in handled' => \A u \in Users : Occurrences(u, mailed[e.id]) = Due(e, u)
        /\ e.id \in dlq' => \E u \in Users : Occurrences(u, mailed[e.id]) < Due(e, u)
    <2>1. Right(e)'
      BY <1>2, <1>3 DEF Mails, Stored
    <2>2. \A u : Due(e, u)' = Due(e, u)
      BY <1>3 DEF Due
    <2>. QED
      BY <1>3, <2>1, <2>2 DEF Right
  <1>6. \A u \in Users : /\ MailsDue[e.id][u] = Due(e, u)
                         /\ MailsSent[e.id][u] = Occurrences(u, mailed[e.id])
    BY <1>t, <1>2, DueOfStored
  <1>7. CASE handled' = handled \cup {e.id} /\ dlq' = dlq
    <2>1. MailsSent[e.id] = MailsDue[e.id]
      <3>1. /\ MailsSent[e.id] = [u \in Users |-> MailsSent[e.id][u]]
            /\ MailsDue[e.id] = [u \in Users |-> MailsDue[e.id][u]]
        BY <1>2 DEF MailsSent, MailsDue
      <3>. QED
        BY <1>5, <1>6, <1>7, <3>1
    <2>2. Notices!Finish(e.id)
      BY <1>2, <1>3, <1>4, <1>7, <2>1 DEF Notices!Finish
    <2>. QED
      BY <1>2, <2>2 DEF Notices!NotificationNext
  <1>8. CASE dlq' = dlq \cup {e.id} /\ handled' = handled
    <2>1. PICK u \in Users : Occurrences(u, mailed[e.id]) < Due(e, u)
      BY <1>5, <1>8
    <2>2. Occurrences(u, mailed[e.id]) \in Nat /\ Due(e, u) \in Nat
      <3>1. mailed[e.id] \in Seq(Users)
        BY <1>2 DEF Settled, Mails, Letters
      <3>. QED
        BY <1>2, <3>1, CountOf, DueIsNat DEF Settled, Mails
    <2>3. MailsSent[e.id] # MailsDue[e.id]
      BY <1>6, <2>1, <2>2
    <2>4. Notices!Finish(e.id)
      BY <1>2, <1>3, <1>4, <1>8, <2>3 DEF Notices!Finish
    <2>. QED
      BY <1>2, <2>4 DEF Notices!NotificationNext
  <1>. QED
    BY <1>2, <1>7, <1>8

LEMMA StepIsNotice ==
  ASSUME Settled, Numbers', Mails', [Next]_vars
  PROVE  [Notices!NotificationNext]_(Notices!notices)
  <1>t. /\ Typed /\ Boxes /\ stream \in Seq(Event)
        /\ requests \in Nat /\ reminders \in Nat /\ requests' \in Nat /\ reminders' \in Nat
    <2>1. CallbacksTyped'
      BY HandlersKept, BoxesKept, StartingKept DEF Settled, CallbacksTyped
    <2>. QED
      BY <2>1 DEF Settled, CallbacksTyped, Starting, Typed, TypeOK
  <1>n. ASSUME NEW e \in Event, stream' = Append(stream, e)
        PROVE  e.id \in Ids \ Sent
    <2>1. e.id \in Sent'
      BY <1>n, <1>t, SentGrows
    <2>2. e.id \in 1 .. (MaxRequests + MaxReminders)
      BY <1>t, <2>1, TicketBoundsAssumption, RemindersAssumption DEF Numbers, Given
    <2>3. e.id \notin Sent
      BY <1>n, <1>t, PostedIsNew
    <2>. QED
      BY <2>2, <2>3 DEF Ids
  <1>1. CASE UNCHANGED vars \/ Idles
    <2>1. UNCHANGED <<stream, inbox, cpc, hand, handled, dlq, dropped, audience, mailed>>
      BY <1>1 DEF vars, ticketVars, consumerVars, callbackVars, outcomeVars, Idles
    <2>. QED
      BY <1>t, <2>1, FrameFates, DueKept, SentKept DEF Notices!notices, Notices!fates
  <1>2. ASSUME NEW e \in Event, Posts(e)
        PROVE  Notices!NotificationNext
    BY <1>2, <1>n, PostNotice DEF Posts
  <1>3. CASE stream' = stream /\ Breaks({})
    BY <1>3, BreakNotice
  <1>4. ASSUME NEW e \in Event, stream' = Append(stream, e), Breaks({e.id})
        PROVE  Notices!NotificationNext
    BY <1>4, <1>n, BreakNotice
  <1>5. ASSUME NEW k \in Kinds, Fetch(k) \/ Mail(k) \/ Settle(k)
        PROVE  [Notices!NotificationNext]_(Notices!notices)
    BY <1>5, FetchNotice, MailNotice, SettleNotice
  <1>. QED
    BY <1>t, <1>1, <1>2, <1>3, <1>4, <1>5, StepCases

(* The consumers, with their subscriptions, callbacks, failures and restarts, *)
(* implement Notification: the recipients of an event are read once, nobody   *)
(* is mailed more than is due, and nobody at all after the event's one end    *)
(* (QueueSubscribe, the four callbacks, moveToDLQ).                           *)
THEOREM ImplementsPromise == Spec => ImplementsNotification
<1>1. Init => Notices!NotificationInit
  <2> SUFFICES ASSUME Init PROVE Notices!NotificationInit
    OBVIOUS
  <2>1. /\ stream = <<>> /\ handled = {} /\ dlq = {} /\ dropped = {}
        /\ inbox = [k \in Kinds |-> <<>>] /\ cpc = [k \in Kinds |-> "idle"]
        /\ mailed = [i \in Ids |-> <<>>]
    BY DEF Init, TicketInit
  <2>2. Waiting = {} /\ InHand = {}
    <3>1. \A n : n \notin Waiting /\ n \notin InHand
      BY <2>1, WherePlaced
    <3>. QED
      BY <3>1
  <2>3. MailsDue = [n \in Ids |-> [u \in Users |-> 0]]
    BY <2>1 DEF MailsDue
  <2>4. MailsSent = [n \in Ids |-> [u \in Users |-> 0]]
    BY <2>1, CountEmpty DEF MailsSent
  <2>. QED
    BY <2>1, <2>2, <2>3, <2>4 DEF Notices!NotificationInit
<1>2. Spec => []Settled
  <2>1. CallbacksTyped /\ Numbers /\ Current /\ Mails /\ Ends => Settled
    BY DEF Settled
  <2>. QED
    BY <2>1, AlwaysDelivering, AlwaysNumbered, AlwaysCurrent, AlwaysMails, AlwaysEnds, PTL
<1>3. Settled /\ Settled' /\ [Next]_vars => [Notices!NotificationNext]_(Notices!notices)
  BY StepIsNotice DEF Settled
<1>. QED
  BY <1>1, <1>2, <1>3, PTL DEF Spec, ImplementsNotification, Notices!NotificationSpec

=============================================================================
