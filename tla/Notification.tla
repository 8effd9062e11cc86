------------------------------ MODULE Notification ------------------------------
(* What the users of tickets are promised of the mails about an event,       *)
(* whatever the consumers do to keep it: the recipients are read once, nobody *)
(* gets more than is due, and the event comes to at most one end, after      *)
(* which nobody is mailed.  No stream, no subscription, no callback and no   *)
(* process appear here; EventConsumers implements it.                        *)
EXTENDS Naturals

CONSTANTS Notices,   \* the numbers of events
          Readers    \* whom mails go to

VARIABLES
  open, sending,           \* the events announced, and those being mailed
  finished, buried, lost,  \* the events that ended, and how
  due,                     \* per event and user: the mails the user is to get
  got                      \* per event and user: the mails sent

fates == <<open, sending, finished, buried, lost>>
notices == <<fates, due, got>>

NotificationInit ==
  /\ open = {} /\ sending = {} /\ finished = {} /\ buried = {} /\ lost = {}
  /\ due = [n \in Notices |-> [u \in Readers |-> 0]]
  /\ got = [n \in Notices |-> [u \in Readers |-> 0]]

Ended == finished \cup buried \cup lost

Announce(n) ==
  /\ n \notin open \cup sending \cup Ended
  /\ open' = open \cup {n}
  /\ UNCHANGED <<sending, finished, buried, lost, due, got>>

(* The recipients are settled.                                               *)
Take(n) ==
  /\ n \in open /\ open' = open \ {n} /\ sending' = sending \cup {n}
  /\ due'[n] \in [Readers -> Nat] /\ due' = [due EXCEPT ![n] = due'[n]]
  /\ UNCHANGED <<finished, buried, lost, got>>

Send(n, u) ==
  /\ n \in sending /\ got[n][u] < due[n][u]
  /\ got' = [got EXCEPT ![n][u] = @ + 1]
  /\ UNCHANGED <<fates, due>>

(* Everyone was told, or somebody was not.                                   *)
Finish(n) ==
  /\ n \in sending /\ sending' = sending \ {n}
  /\ \/ got[n] = due[n] /\ finished' = finished \cup {n} /\ UNCHANGED buried
     \/ got[n] # due[n] /\ buried' = buried \cup {n} /\ UNCHANGED finished
  /\ UNCHANGED <<open, lost, due, got>>

(* Events are lost before they come to another end, perhaps as soon as they  *)
(* are announced.                                                            *)
Drop(gone) ==
  /\ gone \cap Ended = {} /\ lost' = lost \cup gone
  /\ open' = open \ gone /\ sending' = sending \ gone
  /\ UNCHANGED <<finished, buried, due, got>>

NotificationNext ==
  \/ \E n \in Notices : \/ Announce(n) \/ Take(n) \/ Finish(n)
                        \/ \E u \in Readers : Send(n, u)
  \/ \E gone \in SUBSET Notices : Drop(gone)

NotificationSpec == NotificationInit /\ [][NotificationNext]_notices

(* An event is announced, being mailed, or has come to one of the three ends, *)
(* and never to two; it is finished only with all mails sent, buried only    *)
(* with a mail missing, and nobody ever has more than is due.                *)
OneEnd ==
  /\ \A n \in Notices :
       /\ n \in finished => n \notin buried \cup lost /\ got[n] = due[n]
       /\ n \in buried => n \notin lost /\ got[n] # due[n]
       /\ n \in Ended => n \notin open \cup sending
       /\ n \in open => n \notin sending
  /\ \A n \in Notices, u \in Readers : got[n][u] <= due[n][u]

(* The end of an event is for good: it has no other end later, no recipient  *)
(* of it is added or dropped, and no mail of it is sent.                      *)
EndIsFinal ==
  [][\A n \in Ended : /\ n \in finished <=> n \in finished'
                      /\ n \in buried <=> n \in buried'
                      /\ n \in lost <=> n \in lost'
                      /\ got'[n] = got[n] /\ due'[n] = due[n]]_notices

(* Who is to get a mail of an event is decided once, before the first is sent. *)
DecidedOnce ==
  [][\A n \in Notices : due'[n] # due[n] =>
       n \in open /\ n \in sending' /\ \A u \in Readers : got[n][u] = 0]_notices

=================================================================================
