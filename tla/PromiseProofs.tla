----------------------------- MODULE PromiseProofs -----------------------------
(* Machine-checked: what the promises of ReminderService and Notification    *)
(* come to, for every set of keys, events and users and every bound on the   *)
(* clock.  They hold of whatever implements them: Implements of              *)
(* ReminderRefinement and ImplementsPromise of ConsumerProofs say what does. *)
EXTENDS ReminderService, Notification, TLAPS

-----------------------------------------------------------------------------
(* Reminders.                                                                *)

(* Events name a key and a number, and versions are numbers.                 *)
ServiceTypes ==
  /\ version \in [Keys -> Nat]
  /\ told \cup owed \subseteq [key : Keys, from : Nat]

(* No event is told for a version that is still the current one, and none    *)
(* that was told is still owed: whatever implements the service never tells  *)
(* of one version of a reminder twice.                                       *)
THEOREM ServiceTellsOnce == ServiceSpec => []ToldIsOver
<1> DEFINE Inv == ServiceTypes /\ ToldIsOver
<1>1. ServiceInit => Inv
  BY DEF ServiceInit, ServiceTypes, ToldIsOver
<1>2. Inv /\ [ServiceNext]_service => Inv'
  <2> SUFFICES ASSUME Inv, [ServiceNext]_service PROVE Inv'
    OBVIOUS
  <2>t. /\ \A e \in told \cup owed : /\ e.key \in Keys /\ e.from \in Nat
                                     /\ e.from < version[e.key]
        /\ \A k \in Keys : version[k] \in Nat
    BY DEF ServiceTypes, ToldIsOver
  <2>a. ASSUME version' \in [Keys -> Nat], \A k \in Keys : version[k] <= version'[k],
               told' \subseteq told \cup owed, told' \cap owed' = {},
               \A e \in owed' : \/ e \in owed
                                \/ /\ e \in [key : Keys, from : Nat]
                                   /\ e.from < version'[e.key]
        PROVE  Inv'
    <3>1. \A e \in told' \cup owed' : /\ e \in [key : Keys, from : Nat]
                                      /\ e.from < version'[e.key]
      <4>1. ASSUME NEW e \in told \cup owed
            PROVE  e \in [key : Keys, from : Nat] /\ e.from < version'[e.key]
        <5>1. /\ e.from < version[e.key] /\ version[e.key] <= version'[e.key]
              /\ e.from \in Nat /\ version[e.key] \in Nat /\ version'[e.key] \in Nat
          BY <2>a, <2>t
        <5>. QED
          BY <5>1 DEF ServiceTypes
      <4>. QED
        BY <2>a, <4>1
    <3>. QED
      BY <2>a, <3>1 DEF ServiceTypes, ToldIsOver
  <2>b. ASSUME NEW k \in Keys, NEW s, NEW t, Record(k, s, t)
        PROVE  /\ version' \in [Keys -> Nat] /\ version[k] < version'[k]
               /\ \A j \in Keys : version[j] <= version'[j]
    BY <2>b DEF Record, ServiceTypes
  <2>1. CASE Passes \/ UNCHANGED service
    BY <2>1 DEF Passes, service, ServiceTypes, ToldIsOver
  <2>2. ASSUME NEW k \in Keys, NEW t, NEW s, Schedule(k, s, t) \/ Cancel(k, t)
        PROVE  Inv'
    BY <2>2, <2>a, <2>b DEF Schedule, Cancel, ToldIsOver
  <2>3. ASSUME NEW k \in Keys, NEW t, NEW v \in 0 .. version[k], Complete(k, t, v)
        PROVE  Inv'
    <3> DEFINE e == [key |-> k, from |-> v]
    <3>1. /\ version' \in [Keys -> Nat] /\ version[k] < version'[k]
          /\ \A j \in Keys : version[j] <= version'[j]
      BY <2>3, <2>b DEF Complete
    <3>2. e \in [key : Keys, from : Nat] /\ e.from < version'[e.key]
      BY <2>3, <2>t, <3>1
    <3>3. told' = told /\ owed' \subseteq owed \cup {e} /\ e \notin told
      BY <2>3 DEF Complete
    <3>. QED
      BY <2>a, <3>1, <3>2, <3>3 DEF ToldIsOver
  <2>4. ASSUME NEW e \in owed, Tell(e) \/ Lose(e) PROVE Inv'
    BY <2>4, <2>t DEF Tell, Lose, ServiceTypes, ToldIsOver
  <2>. QED
    BY <2>1, <2>2, <2>3, <2>4 DEF ServiceNext
<1>. QED
  BY <1>1, <1>2, PTL DEF ServiceSpec

-----------------------------------------------------------------------------
(* Notifications.                                                            *)

Counts ==
  /\ open \cup sending \cup Ended \subseteq Notices
  /\ due \in [Notices -> [Readers -> Nat]] /\ got \in [Notices -> [Readers -> Nat]]

(* Why OneEnd holds: nobody is mailed before the recipients are settled, so  *)
(* that settling them takes nothing back.                                    *)
Unmailed ==
  \A n \in Notices \ (sending \cup Ended) : \A u \in Readers : got[n][u] = 0

Promised == Counts /\ Unmailed /\ OneEnd

LEMMA AnnounceKeeps ==
  ASSUME Promised, NEW n \in Notices, Announce(n)
  PROVE  Promised'
  BY DEF Announce, Promised, Counts, Unmailed, OneEnd, Ended

LEMMA TakeKeeps ==
  ASSUME Promised, NEW n \in Notices, Take(n)
  PROVE  Promised'
  <1>1. /\ n \in open /\ open' = open \ {n} /\ sending' = sending \cup {n}
        /\ UNCHANGED <<finished, buried, lost, got>>
    BY DEF Take
  <1>2. n \notin sending \cup Ended /\ \A u \in Readers : got'[n][u] = 0
    BY <1>1 DEF Promised, OneEnd, Unmailed
  <1>3. PICK f \in [Readers -> Nat] : due' = [due EXCEPT ![n] = f]
    BY DEF Take
  <1>4. /\ due' \in [Notices -> [Readers -> Nat]]
        /\ \A m \in Notices \ {n} : due'[m] = due[m]
        /\ due'[n] = f
    BY <1>3 DEF Promised, Counts
  <1>5. Counts' /\ Unmailed'
    BY <1>1, <1>2, <1>4 DEF Promised, Counts, Unmailed, Ended
  <1>6. \A m \in Notices, u \in Readers : got'[m][u] <= due'[m][u]
    <2>1. \A u \in Readers : got'[n][u] <= due'[n][u]
      BY <1>2, <1>4
    <2>. QED
      BY <1>1, <1>4, <2>1 DEF Promised, OneEnd
  <1>7. OneEnd'
    BY <1>1, <1>2, <1>4, <1>6 DEF Promised, OneEnd, Ended
  <1>. QED
    BY <1>5, <1>7 DEF Promised

LEMMA SendKeeps ==
  ASSUME Promised, NEW n \in Notices, NEW u \in Readers, Send(n, u)
  PROVE  Promised'
  <1>1. /\ UNCHANGED <<open, sending, finished, buried, lost, due>>
        /\ n \in sending /\ got[n][u] < due[n][u]
        /\ got' = [got EXCEPT ![n][u] = @ + 1]
    BY DEF Send, fates
  <1>2. n \notin Ended
    BY <1>1 DEF Promised, OneEnd
  <1>3. /\ got' \in [Notices -> [Readers -> Nat]]
        /\ \A m \in Notices \ {n} : got'[m] = got[m]
        /\ got'[n][u] = got[n][u] + 1
        /\ \A v \in Readers \ {u} : got'[n][v] = got[n][v]
    BY <1>1 DEF Promised, Counts
  <1>4. Counts' /\ Unmailed'
    BY <1>1, <1>3 DEF Promised, Counts, Unmailed, Ended
  <1>5. got'[n][u] <= due'[n][u]
    BY <1>1, <1>3 DEF Promised, Counts
  <1>6. \A m \in Notices, v \in Readers : got'[m][v] <= due'[m][v]
    BY <1>1, <1>3, <1>5 DEF Promised, OneEnd
  <1>7. OneEnd'
    BY <1>1, <1>2, <1>3, <1>6 DEF Promised, OneEnd, Ended
  <1>. QED
    BY <1>4, <1>7 DEF Promised

LEMMA FinishKeeps ==
  ASSUME Promised, NEW n \in Notices, Finish(n)
  PROVE  Promised'
  <1>1. n \notin open /\ n \notin Ended
    BY DEF Finish, Promised, OneEnd
  <1>. QED
    BY <1>1 DEF Finish, Promised, Counts, Unmailed, OneEnd, Ended

LEMMA DropKeeps ==
  ASSUME Promised, NEW gone \in SUBSET Notices, Drop(gone)
  PROVE  Promised'
  BY DEF Drop, Promised, Counts, Unmailed, OneEnd, Ended

LEMMA AlwaysPromised == NotificationSpec => []Promised
<1>1. NotificationInit => Promised
  BY DEF NotificationInit, Promised, Counts, Unmailed, OneEnd, Ended
<1>2. ASSUME Promised, [NotificationNext]_notices PROVE Promised'
  <2>1. CASE UNCHANGED notices
    BY <1>2, <2>1 DEF notices, fates, Promised, Counts, Unmailed, OneEnd, Ended
  <2>. QED
    BY <1>2, <2>1, AnnounceKeeps, TakeKeeps, SendKeeps, FinishKeeps, DropKeeps
    DEF NotificationNext
<1>. QED
  BY <1>1, <1>2, PTL DEF NotificationSpec

(* An event comes to one end at most, which says whether a mail is missing,  *)
(* and nobody has more mails than are due.                                   *)
THEOREM EndsOnce == NotificationSpec => []OneEnd
<1>1. Promised => OneEnd
  BY DEF Promised
<1>. QED
  BY <1>1, AlwaysPromised, PTL

(* After its end, an event is the same for ever.                             *)
THEOREM EndsForGood == NotificationSpec => EndIsFinal
<1>1. ASSUME Promised, NotificationNext, NEW n \in Ended
      PROVE  /\ n \in finished <=> n \in finished'
             /\ n \in buried <=> n \in buried'
             /\ n \in lost <=> n \in lost'
             /\ got'[n] = got[n] /\ due'[n] = due[n]
  <2>t. n \in Notices /\ n \notin open \cup sending
    BY <1>1 DEF Promised, Counts, OneEnd
  <2>1. ASSUME NEW m \in Notices, Announce(m) \/ Take(m) \/ Finish(m)
        PROVE  /\ n # m /\ got'[n] = got[n] /\ due'[n] = due[n]
               /\ n \in finished <=> n \in finished'
               /\ n \in buried <=> n \in buried'
               /\ n \in lost <=> n \in lost'
    BY <1>1, <2>1, <2>t DEF Announce, Take, Finish, Promised, Counts
  <2>2. ASSUME NEW m \in Notices, NEW u \in Readers, Send(m, u)
        PROVE  n # m /\ got'[n] = got[n] /\ UNCHANGED <<due, finished, buried, lost>>
    BY <1>1, <2>2, <2>t DEF Send, fates, Promised, Counts
  <2>3. ASSUME NEW gone \in SUBSET Notices, Drop(gone)
        PROVE  n \notin gone /\ lost' = lost \cup gone /\ UNCHANGED <<due, got, finished, buried>>
    BY <1>1, <2>3 DEF Drop
  <2>. QED
    BY <1>1, <2>1, <2>2, <2>3 DEF NotificationNext
<1>2. Promised /\ [NotificationNext]_notices =>
        [\A n \in Ended : /\ n \in finished <=> n \in finished'
                          /\ n \in buried <=> n \in buried'
                          /\ n \in lost <=> n \in lost'
                          /\ got'[n] = got[n] /\ due'[n] = due[n]]_notices
  BY <1>1
<1>. QED
  BY <1>2, AlwaysPromised, PTL DEF NotificationSpec, EndIsFinal

(* The recipients of an event are decided once, before the first mail of it. *)
THEOREM DecidesOnce == NotificationSpec => DecidedOnce
<1>1. ASSUME Promised, NotificationNext, NEW n \in Notices, due'[n] # due[n]
      PROVE  n \in open /\ n \in sending' /\ \A u \in Readers : got[n][u] = 0
  <2>1. PICK m \in Notices : Take(m)
    BY <1>1 DEF NotificationNext, Announce, Finish, Send, Drop
  <2>2. n = m
    BY <1>1, <2>1 DEF Take, Promised, Counts
  <2>3. n \in open /\ n \in sending'
    BY <2>1, <2>2 DEF Take
  <2>4. n \notin sending \cup Ended
    BY <1>1, <2>3 DEF Promised, OneEnd
  <2>. QED
    BY <1>1, <2>3, <2>4 DEF Promised, Unmailed
<1>2. Promised /\ [NotificationNext]_notices =>
        [\A n \in Notices : due'[n] # due[n] =>
           n \in open /\ n \in sending' /\ \A u \in Readers : got[n][u] = 0]_notices
  BY <1>1
<1>. QED
  BY <1>2, AlwaysPromised, PTL DEF NotificationSpec, DecidedOnce

===============================================================================
