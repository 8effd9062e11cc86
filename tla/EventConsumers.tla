---------------------------- MODULE EventConsumers ----------------------------
(* The way of an event from the request that publishes it to the mails: the  *)
(* four consumers of consumers/*.go, QueueSubscribe and createOrUpdateStream *)
(* of clients/nats.go, composed with the handlers of TicketAssignment.  One  *)
(* process runs them all.                                                    *)
(*                                                                           *)
(* QueueSubscribe creates a durable JetStream consumer and never reads from  *)
(* it: messages come from a core NATS queue subscription, which is sent what *)
(* is published while it exists and nothing else.  A subscription calls back *)
(* one message at a time, in order.  The messages carry no redelivery, so    *)
(* Ack and Nak have no effect on what is delivered.                          *)
(* A definition whose comment begins with "Mutant" is a faulty variant of    *)
(* the one after it; the specification does not use it.                      *)
EXTENDS TicketAssignment

CONSTANT MaxReminders   \* bound: reminders that come due

ASSUME RemindersAssumption == MaxReminders \in Nat

VARIABLES
  streams,          \* the streams that exist at the NATS server
  phase,            \* the process: "down", "subscribing" or "serving"
  toSubscribe,      \* the kinds whose consumer is still to be started
  subscribed,       \* the kinds with a subscription
  inbox,            \* per kind: messages delivered, waiting for the callback
  cpc, hand, todo,  \* per kind: the callback, its event and the recipients left
  failed,           \* per kind: failedWatchers
  dlq,              \* the events stored in CRM_DLQ
  reminders,        \* the counter the bound applies to
  audience, mailed, \* history: per event, the recipients read and who was mailed
  handled,          \* history: events processed without an error
  nakked,           \* history: events whose callback ended in Nak
  dropped           \* history: events that ended in neither mails nor CRM_DLQ

startVars    == <<streams, phase, toSubscribe, subscribed>>
callbackVars == <<cpc, hand, todo, failed>>
outcomeVars  == <<dlq, audience, mailed, handled, nakked, dropped>>
consumerVars == <<startVars, inbox, callbackVars, reminders, outcomeVars>>

vars == <<ticketVars, consumerVars>>

Ids == 1 .. (MaxRequests + MaxReminders)

Init ==
  /\ TicketInit
  /\ streams = {} /\ phase = "down" /\ toSubscribe = <<>> /\ subscribed = {}
  /\ inbox = [k \in Kinds |-> <<>>]
  /\ cpc = [k \in Kinds |-> "idle"] /\ hand = [k \in Kinds |-> NoEvent]
  /\ todo = [k \in Kinds |-> <<>>] /\ failed = [k \in Kinds |-> {}]
  /\ dlq = {} /\ reminders = 0
  /\ audience = [i \in Ids |-> <<>>] /\ mailed = [i \in Ids |-> <<>>]
  /\ handled = {} /\ nakked = {} /\ dropped = {}

-----------------------------------------------------------------------------
(* What is delivered, and what is lost.                                      *)

(* NATS sends a published event to the subscription there is, if any.        *)
Route(e) ==
  IF e.kind \in subscribed
  THEN inbox' = [inbox EXCEPT ![e.kind] = Append(@, e)] /\ UNCHANGED dropped
  ELSE UNCHANGED inbox /\ dropped' = dropped \cup {e.id}

(* The events delivered, those that callbacks have taken, and both.          *)
Waiting == UNION {{inbox[k][i].id : i \in DOMAIN inbox[k]} : k \in Kinds}
InHand == {hand[k].id : k \in {j \in Kinds : cpc[j] # "idle"}}
InFlight == Waiting \cup InHand

(* The process ends: what its subscriptions held is gone.  "also" are events *)
(* stored by the call that ended it.                                         *)
ProcessEnds(also) ==
  /\ phase' = "down" /\ toSubscribe' = <<>> /\ subscribed' = {}
  /\ inbox' = [k \in Kinds |-> <<>>]
  /\ cpc' = [k \in Kinds |-> "idle"] /\ hand' = [k \in Kinds |-> NoEvent]
  /\ todo' = [k \in Kinds |-> <<>>] /\ failed' = [k \in Kinds |-> {}]
  /\ dropped' = dropped \cup InFlight \cup also
  /\ UNCHANGED <<reminders, audience, mailed, handled, nakked>>

-----------------------------------------------------------------------------
(* main: NewNATSClient, then the consumers in turn, then the HTTP server.    *)

(* createOrUpdateStream looks for CRM_TICKETS alone: if the process ended    *)
(* after it created that one, CRM_DLQ is never created.                      *)
Connect ==
  /\ phase = "down"
  /\ \/ "CRM_TICKETS" \in streams /\ UNCHANGED streams /\ Reliable
        /\ phase' = "subscribing"
     \/ "CRM_TICKETS" \notin streams
        /\ \/ streams' = {"CRM_TICKETS", "CRM_DLQ"} /\ Reliable
              /\ phase' = "subscribing"
           \/ streams' = {"CRM_TICKETS"} /\ Fault /\ UNCHANGED phase
  /\ toSubscribe' = IF phase' = "down" THEN <<>>
                    ELSE <<"created", "assigned", "reassigned", "reminder">>
  /\ UNCHANGED <<dbVars, hpc, tx, stream, up, requests, historyVars, subscribed, inbox,
                 callbackVars, reminders, outcomeVars>>

(* InitializeConsumers logs a failure of QueueSubscribe and goes on.         *)
Subscribe ==
  /\ phase = "subscribing" /\ toSubscribe # <<>>
  /\ toSubscribe' = Tail(toSubscribe)
  /\ \/ Reliable /\ subscribed' = subscribed \cup {Head(toSubscribe)}
     \/ Fault /\ UNCHANGED subscribed
  /\ UNCHANGED <<dbVars, hpc, tx, stream, up, requests, historyVars, streams, phase,
                 inbox, callbackVars, reminders, outcomeVars>>

Serve ==
  /\ phase = "subscribing" /\ toSubscribe = <<>>
  /\ phase' = "serving" /\ Boot
  /\ UNCHANGED <<streams, toSubscribe, subscribed, inbox, callbackVars, reminders,
                 outcomeVars>>

End ==
  /\ phase # "down" /\ Fault
  /\ Stop(Handlers) /\ ProcessEnds({})
  /\ UNCHANGED <<row, stream, requests, committed, overwritten, streams, dlq>>

-----------------------------------------------------------------------------
(* Events are published: by a request, or by the reminder scheduler, which   *)
(* runs from NewNATSClient on.  Its event lists the recipients: names from    *)
(* the request that set the reminder, one of them the user who sent it.      *)

HandlerStep(h) == Local(h) /\ UNCHANGED consumerVars

PublishAndRoute(h) ==
  /\ Publish(h) /\ Route(tx[h].event)
  /\ UNCHANGED <<startVars, callbackVars, reminders, dlq, audience, mailed, handled,
                 nakked>>

PublishEnds(h) ==
  /\ PublishFails(h)
  /\ ProcessEnds(IF stream' = stream THEN {} ELSE {tx[h].event.id})
  /\ UNCHANGED <<streams, dlq>>

ReminderFires(t, listed) ==
  /\ phase # "down" /\ row[t] # NoRow
  /\ reminders < MaxReminders /\ reminders' = reminders + 1
  /\ LET e == [id |-> MaxRequests + reminders', kind |-> "reminder", ticket |-> t,
               was |-> row[t].assignee, to |-> NoOne, listed |-> listed]
     IN  stream' = Append(stream, e) /\ Route(e)
  /\ UNCHANGED <<dbVars, hpc, tx, up, requests, faults, historyVars, startVars,
                 callbackVars, dlq, audience, mailed, handled, nakked>>

-----------------------------------------------------------------------------
(* The callbacks: processTicketCreated, -Assigned, -Reassigned, -Reminder.   *)

Return(k) ==
  /\ cpc' = [cpc EXCEPT ![k] = "idle"] /\ hand' = [hand EXCEPT ![k] = NoEvent]
  /\ todo' = [todo EXCEPT ![k] = <<>>] /\ failed' = [failed EXCEPT ![k] = {}]

(* GetWatchersEmailsAndRoles reads the watchers as they are now.             *)
Recipients(e) == IF e.kind = "reminder" THEN e.listed ELSE row[e.ticket].watchers

(* Customers hear of new tickets and reminders only.                         *)
Concerns(e, u) == e.kind \in {"created", "reminder"} \/ u \notin Customers

(* The query fails as a whole if NULL comes back as the address of one name. *)
Unreadable(e) == \E u \in Strangers : IsIn(u, Recipients(e))

(* The next message, and the query for its recipients.  If that fails the    *)
(* callback ends in Nak, and nothing is moved to the DLQ.                    *)
Fetch(k) ==
  /\ cpc[k] = "idle" /\ inbox[k] # <<>>
  /\ inbox' = [inbox EXCEPT ![k] = Tail(@)]
  /\ LET e == Head(inbox[k])
     IN  \/ /\ ~Unreadable(e) /\ Reliable
            /\ cpc' = [cpc EXCEPT ![k] = "mail"]
            /\ hand' = [hand EXCEPT ![k] = e]
            /\ todo' = [todo EXCEPT ![k] = Recipients(e)]
            /\ audience' = [audience EXCEPT ![e.id] = Recipients(e)]
            /\ UNCHANGED <<failed, nakked, dropped>>
         \/ /\ \/ Unreadable(e) /\ Reliable
               \/ Fault
            /\ nakked' = nakked \cup {e.id} /\ dropped' = dropped \cup {e.id}
            /\ UNCHANGED <<callbackVars, audience>>
  /\ UNCHANGED <<dbVars, hpc, tx, stream, up, requests, historyVars, startVars,
                 reminders, dlq, mailed, handled>>

(* SendEmail to the next recipient, if it concerns the user; a failure is    *)
(* collected.                                                                *)
Mail(k) ==
  /\ cpc[k] = "mail" /\ todo[k] # <<>>
  /\ todo' = [todo EXCEPT ![k] = Tail(@)]
  /\ LET u == Head(todo[k])
     IN  \/ /\ ~Concerns(hand[k], u) /\ Reliable /\ UNCHANGED <<failed, mailed>>
         \/ /\ Concerns(hand[k], u) /\ Reliable /\ UNCHANGED failed
            /\ mailed' = [mailed EXCEPT ![hand[k].id] = Append(@, u)]
         \/ /\ Concerns(hand[k], u) /\ Fault /\ UNCHANGED mailed
            /\ failed' = [failed EXCEPT ![k] = @ \cup {u}]
  /\ UNCHANGED <<dbVars, hpc, tx, stream, up, requests, historyVars, startVars, inbox,
                 cpc, hand, reminders, dlq, audience, handled, nakked, dropped>>

(* Mutant: Nak puts the message back, and all the mails are sent again.      *)
SettleAndRedeliver(k) ==
  /\ cpc[k] = "mail" /\ todo[k] = <<>>
  /\ IF failed[k] = {}
     THEN handled' = handled \cup {hand[k].id} /\ UNCHANGED <<inbox, nakked>>
     ELSE /\ inbox' = [inbox EXCEPT ![k] = Append(@, hand[k])]
          /\ nakked' = nakked \cup {hand[k].id} /\ UNCHANGED handled
  /\ Return(k)
  /\ UNCHANGED <<ticketVars, startVars, reminders, dlq, audience, mailed, dropped>>

(* Mutant: the failures are not looked at.                                   *)
SettleAlways(k) ==
  /\ cpc[k] = "mail" /\ todo[k] = <<>>
  /\ handled' = handled \cup {hand[k].id}
  /\ Return(k)
  /\ UNCHANGED <<ticketVars, startVars, inbox, reminders, dlq, audience, mailed, nakked,
                 dropped>>

(* Mutant: moveToDLQ does not publish.                                       *)
SettleForgets(k) ==
  /\ cpc[k] = "mail" /\ todo[k] = <<>>
  /\ IF failed[k] = {}
     THEN handled' = handled \cup {hand[k].id} /\ UNCHANGED nakked
     ELSE nakked' = nakked \cup {hand[k].id} /\ UNCHANGED handled
  /\ Return(k)
  /\ UNCHANGED <<ticketVars, startVars, inbox, reminders, dlq, audience, mailed, dropped>>

(* Mutant: the callback goes on after moveToDLQ, to Ack.                     *)
SettleBoth(k) ==
  /\ cpc[k] = "mail" /\ todo[k] = <<>>
  /\ failed[k] # {} => "CRM_DLQ" \in streams
  /\ handled' = handled \cup {hand[k].id}
  /\ dlq' = IF failed[k] = {} THEN dlq ELSE dlq \cup {hand[k].id}
  /\ Return(k)
  /\ UNCHANGED <<ticketVars, startVars, inbox, reminders, audience, mailed, nakked, dropped>>

(* All mails were tried.  With a failure, moveToDLQ and then Nak.            *)
Settle(k) ==
  /\ cpc[k] = "mail" /\ todo[k] = <<>>
  /\ \/ failed[k] = {} /\ handled' = handled \cup {hand[k].id} /\ UNCHANGED <<dlq, nakked>>
     \/ /\ failed[k] # {} /\ "CRM_DLQ" \in streams
        /\ dlq' = dlq \cup {hand[k].id} /\ nakked' = nakked \cup {hand[k].id}
        /\ UNCHANGED handled
  /\ Return(k)
  /\ UNCHANGED <<ticketVars, startVars, inbox, reminders, audience, mailed, dropped>>

(* PublishEvent to the DLQ fails, as it must when there is no CRM_DLQ: Fatal.*)
SettleEnds(k) ==
  /\ cpc[k] = "mail" /\ todo[k] = <<>> /\ failed[k] # {}
  /\ \/ Fault
     \/ "CRM_DLQ" \notin streams /\ Reliable
  /\ Stop(Handlers) /\ ProcessEnds({})
  /\ UNCHANGED <<row, stream, requests, committed, overwritten, streams, dlq>>

-----------------------------------------------------------------------------
Consume(k) == Fetch(k) \/ Mail(k) \/ Settle(k) \/ SettleEnds(k)

Next ==
  \/ Connect \/ Subscribe \/ Serve \/ End
  \/ \E h \in Handlers : HandlerStep(h) \/ PublishAndRoute(h) \/ PublishEnds(h)
  \/ \E t \in Tickets, u \in Users \cup Strangers, v \in Users : ReminderFires(t, <<u, v>>)
  \/ \E k \in Kinds : Consume(k)

Spec == Init /\ [][Next]_vars

(* The NATS client calls back as long as there are messages, and the calls a *)
(* callback makes return.  Nothing is assumed of requests or of restarts.    *)
FairSpec == Spec /\ \A k \in Kinds : WF_vars(Consume(k))

-----------------------------------------------------------------------------
(* Properties.                                                               *)

(* No event vanishes: each one stored in CRM_TICKETS is delivered and waits, *)
(* is being processed, was processed, is in CRM_DLQ, or was dropped on one   *)
(* of the paths that drop events: no subscription yet, recipients that could *)
(* not be fetched, the end of the process.                                   *)
EveryEventAccounted ==
  \A i \in DOMAIN stream : stream[i].id \in InFlight \cup handled \cup dlq \cup dropped

(* Nor does a commit: what CreateTicket or AssignTicket stored is announced, *)
(* by an event that is accounted for as above or that its handler is about   *)
(* to publish, or the event was given up because the process ended or the    *)
(* answer of the commit was lost.                                            *)
CommitsAccounted ==
  \A r \in committed :
    \/ r \in InFlight \cup handled \cup dlq \cup dropped \cup unsent
    \/ \E h \in Handlers : hpc[h] = "publish" /\ tx[h].event.id = r

(* How many mails a user is to get of an event: one per listing, and a       *)
(* customer none of an assignment.                                           *)
Due(e, u) == IF Concerns(e, u) THEN Occurrences(u, audience[e.id]) ELSE 0

(* Processed without an error means that everyone got the mails that were    *)
(* due; moved to CRM_DLQ means that someone did not.                         *)
HandledMeansTold ==
  \A i \in DOMAIN stream :
    LET e == stream[i]
    IN  /\ e.id \in handled =>
             \A u \in Users : Occurrences(u, mailed[e.id]) = Due(e, u)
        /\ e.id \in dlq =>
             \E u \in Users : Occurrences(u, mailed[e.id]) < Due(e, u)

(* Nobody gets more mails of an event than are due, whatever fails, is       *)
(* Nakked or is started again.                                               *)
MailedOnce ==
  \A i \in DOMAIN stream, u \in Users :
    Occurrences(u, mailed[stream[i].id]) <= Due(stream[i], u)

(* A new assignee hears of it: the consumer reads the watchers only after    *)
(* the commit that added the assignee, so the assignee of an event processed *)
(* without an error was mailed, unless a concurrent assignment of the ticket *)
(* had replaced the list of watchers by one computed from an older row.      *)
AssigneeTold ==
  \A i \in DOMAIN stream :
    LET e == stream[i]
    IN  e.id \in handled /\ e.kind \in {"assigned", "reassigned"} =>
          IsIn(e.to, mailed[e.id]) \/ e.ticket \in overwritten

(* The consumers keep the promises of Notification: whatever fails, ends or  *)
(* is lost, the recipients of an event are read once, nobody is mailed more  *)
(* than is due, and nobody at all once the event was processed, moved to     *)
(* CRM_DLQ or dropped; and no event comes to two of these ends.              *)
MailsDue ==
  [n \in Ids |-> [u \in Users |->
     IF \E i \in DOMAIN stream : stream[i].id = n /\ Concerns(stream[i], u)
     THEN Occurrences(u, audience[n]) ELSE 0]]

MailsSent == [n \in Ids |-> [u \in Users |-> Occurrences(u, mailed[n])]]

Notices == INSTANCE Notification
  WITH Notices <- Ids, Readers <- Users,
       open <- Waiting, sending <- InHand, finished <- handled, buried <- dlq, lost <- dropped,
       due <- MailsDue, got <- MailsSent

ImplementsNotification == Notices!NotificationSpec

(* Every event stored comes to an end: mails, CRM_DLQ, or dropped.  No       *)
(* consumer waits for another one, or for a failed mail, for ever.           *)
EventsSettle ==
  \A n \in Ids : (\E i \in DOMAIN stream : stream[i].id = n)
                  ~> (n \in handled \cup dlq \cup dropped)

(* ticket_created.go:40 "processing failed, message will be retried": an     *)
(* event whose callback ended in Nak is given to a callback again.           *)
NakIsRedelivered ==
  \A n \in Ids : n \in nakked ~> \E k \in Kinds : hand[k].id = n

==============================================================================
