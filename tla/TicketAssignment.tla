--------------------------- MODULE TicketAssignment ---------------------------
(* CreateTicket and AssignTicket of handlers/ticket.go, run concurrently by  *)
(* the HTTP server against PostgreSQL.  Transactions run at the default      *)
(* isolation, READ COMMITTED: a SELECT sees the last committed row and locks *)
(* nothing; an UPDATE takes the row's lock, and keeps it until the end of    *)
(* the transaction.  The event of a request is published after its commit.   *)
(* A definition whose comment begins with "Mutant" is a faulty variant of    *)
(* the one after it; the specification does not use it.                      *)
EXTENDS TicketData

CONSTANTS Handlers,      \* concurrent HTTP requests
          MaxRequests,   \* bound: requests in a behaviour
          MaxFaults      \* bound: failing calls to PostgreSQL or NATS

ASSUME TicketBoundsAssumption == MaxRequests \in Nat /\ MaxFaults \in Nat

VARIABLES
  row, writer,       \* the committed row of each ticket, and who holds its lock
  hpc, tx,           \* handlers: program counter, and the request with what it read
  stream,            \* the events stored in CRM_TICKETS, in order
  up,                \* the process runs
  requests, faults,  \* the counters the bounds apply to
  committed,         \* history: the requests whose transaction committed
  unsent,            \* history: the committed requests whose event was given up
  overwritten        \* history: tickets where a commit replaced a row it had not read

dbVars == <<row, writer>>
historyVars == <<committed, unsent, overwritten>>
ticketVars == <<dbVars, hpc, tx, stream, up, requests, faults, historyVars>>

NoEvent == [id |-> 0]
NoTx == [event |-> NoEvent, read |-> NoRow]

Reliable == UNCHANGED faults
Fault == faults < MaxFaults /\ faults' = faults + 1

TicketInit ==
  /\ row = [t \in Tickets |-> NoRow] /\ writer = [t \in Tickets |-> NoOne]
  /\ hpc = [h \in Handlers |-> "idle"] /\ tx = [h \in Handlers |-> NoTx]
  /\ stream = <<>> /\ up = FALSE /\ requests = 0 /\ faults = 0
  /\ committed = {} /\ unsent = {} /\ overwritten = {}

-----------------------------------------------------------------------------
(* The process starts, and stops.                                            *)

Boot ==
  /\ ~up /\ up' = TRUE
  /\ UNCHANGED <<dbVars, hpc, tx, stream, requests, faults, historyVars>>

(* PostgreSQL rolls back what was not committed; the events of the requests  *)
(* "given" are never published.                                              *)
Stop(given) ==
  /\ up' = FALSE
  /\ writer' = [t \in Tickets |-> NoOne]
  /\ hpc' = [h \in Handlers |-> "idle"] /\ tx' = [h \in Handlers |-> NoTx]
  /\ unsent' = unsent \cup {tx[h].event.id : h \in {g \in given : hpc[g] = "publish"}}

Crash ==
  /\ up /\ Fault /\ Stop(Handlers)
  /\ UNCHANGED <<row, stream, requests, committed, overwritten>>

-----------------------------------------------------------------------------
(* The handlers.                                                             *)

Arrive(h) ==
  /\ up /\ hpc[h] = "idle"
  /\ requests < MaxRequests /\ requests' = requests + 1

Step(h, pc, x) == hpc' = [hpc EXCEPT ![h] = pc] /\ tx' = [tx EXCEPT ![h] = x]

(* CreateTicket: Begin, GetAdminIDs, INSERT, Commit.  No one can see the row *)
(* before the commit.  Team and status are the request's.  When the answer   *)
(* of Commit is lost, the row may be there, but the event is not sent.       *)
CreateTicket(h, t) ==
  /\ Arrive(h) /\ row[t] = NoRow
  /\ \E u \in Users, e \in Assignees, g \in Teams, s \in Statuses :
       row' = [row EXCEPT ![t] = [status |-> s, assignee |-> e, team |-> g,
                                  watchers |-> FirstWatchers(u)]]
  /\ LET event == [id |-> requests', kind |-> "created", ticket |-> t,
                   was |-> row'[t].assignee, to |-> NoOne, listed |-> <<>>]
     IN  \/ Reliable /\ Step(h, "publish", [event |-> event, read |-> NoRow])
            /\ UNCHANGED unsent
         \/ Fault /\ UNCHANGED <<hpc, tx>> /\ unsent' = unsent \cup {requests'}
  /\ committed' = committed \cup {requests'}
  /\ UNCHANGED <<writer, stream, up, overwritten>>

(* AssignTicket up to the event type: the SELECTs and the early returns.     *)
AssignRead(h, t) ==
  /\ Arrive(h)
  /\ row[t] # NoRow /\ row[t].status # "closed"
  /\ \E actor \in Employees, e \in Employees :
       /\ actor \in Managers => TeamOf[e] = TeamOf[actor]
       /\ row[t].assignee # e
       /\ Step(h, "update",
               [event |-> [id |-> requests', ticket |-> t, was |-> row[t].assignee,
                           kind |-> IF row[t].assignee = NoOne THEN "assigned"
                                    ELSE "reassigned",
                           to |-> e, listed |-> <<>>],
                read |-> row[t]])
  /\ UNCHANGED <<dbVars, stream, up, faults, historyVars>>

(* Mutant: UpdateTicketAssignment runs outside the transaction.              *)
AssignUpdateAtOnce(h) ==
  /\ hpc[h] = "update"
  /\ LET t == tx[h].event.ticket
         e == tx[h].event.to
     IN  /\ writer[t] = NoOne
         /\ row' = [row EXCEPT ![t].assignee = e, ![t].team = TeamOf[e]]
  /\ Step(h, "commit", tx[h])
  /\ UNCHANGED <<writer, stream, up, requests, faults, historyVars>>

(* UpdateTicketAssignment waits for the row's lock, or fails.                *)
AssignUpdate(h) ==
  /\ hpc[h] = "update"
  /\ \/ /\ Reliable
        /\ writer[tx[h].event.ticket] = NoOne
        /\ writer' = [writer EXCEPT ![tx[h].event.ticket] = h]
        /\ Step(h, "commit", tx[h])
     \/ Fault /\ UNCHANGED writer /\ Step(h, "idle", NoTx)
  /\ UNCHANGED <<row, stream, up, requests, historyVars>>

(* Mutant: the assignee is left out of the watchers.                         *)
AssignCommitNoWatchers(h) ==
  /\ hpc[h] = "commit"
  /\ LET t == tx[h].event.ticket
         e == tx[h].event.to
     IN  /\ row' = [row EXCEPT ![t].assignee = e, ![t].team = TeamOf[e]]
         /\ writer' = [writer EXCEPT ![t] = NoOne]
  /\ committed' = committed \cup {tx[h].event.id}
  /\ Step(h, "publish", tx[h])
  /\ UNCHANGED <<stream, up, requests, faults, unsent, overwritten>>

(* Mutant: the error of Commit is logged, and the event published.           *)
AssignCommitUnchecked(h) ==
  /\ hpc[h] = "commit"
  /\ LET t == tx[h].event.ticket
     IN  /\ writer' = [writer EXCEPT ![t] = NoOne]
         /\ \/ Reliable /\ committed' = committed \cup {tx[h].event.id}
               /\ row' = [row EXCEPT ![t].assignee = tx[h].event.to]
            \/ Fault /\ UNCHANGED <<row, committed>>
  /\ Step(h, "publish", tx[h])
  /\ UNCHANGED <<stream, up, requests, unsent, overwritten>>

(* Mutant: the list written is that of the assignee and the manager only.    *)
AssignCommitAnew(h) ==
  /\ hpc[h] = "commit"
  /\ LET t == tx[h].event.ticket
         e == tx[h].event.to
     IN  /\ row' = [row EXCEPT ![t].assignee = e, ![t].team = TeamOf[e],
                               ![t].watchers = WithAssignee(<<>>, e)]
         /\ writer' = [writer EXCEPT ![t] = NoOne]
         /\ overwritten' = IF row[t] = tx[h].read THEN overwritten
                           ELSE overwritten \cup {t}
  /\ committed' = committed \cup {tx[h].event.id}
  /\ Step(h, "publish", tx[h])
  /\ UNCHANGED <<stream, up, requests, faults, unsent>>

(* UpdateWachersList writes the list computed from the row read at first,    *)
(* and Commit makes both UPDATEs visible.  If one of the statements fails,   *)
(* the deferred Rollback undoes them; if the answer of Commit is lost, they  *)
(* may have been made visible all the same, and the event is not sent.       *)
AssignCommit(h) ==
  /\ hpc[h] = "commit"
  /\ LET t == tx[h].event.ticket
         e == tx[h].event.to
         Apply ==
           /\ row' = [row EXCEPT
                        ![t].assignee = e, ![t].team = TeamOf[e],
                        ![t].watchers = WithAssignee(tx[h].read.watchers, e)]
           /\ committed' = committed \cup {tx[h].event.id}
           /\ overwritten' = IF row[t] = tx[h].read THEN overwritten
                             ELSE overwritten \cup {t}
     IN  /\ writer' = [writer EXCEPT ![t] = NoOne]
         /\ \/ Reliable /\ Apply /\ Step(h, "publish", tx[h]) /\ UNCHANGED unsent
            \/ /\ Fault /\ Step(h, "idle", NoTx)
               /\ \/ Apply /\ unsent' = unsent \cup {tx[h].event.id}
                  \/ UNCHANGED <<row, historyVars>>
  /\ UNCHANGED <<stream, up, requests>>

Publish(h) ==
  /\ hpc[h] = "publish"
  /\ stream' = Append(stream, tx[h].event)
  /\ Step(h, "idle", NoTx)
  /\ UNCHANGED <<dbVars, up, requests, faults, historyVars>>

(* PublishEvent answers an error with logger.Fatal: the process ends, with   *)
(* every other request in it.  The event may have been stored even so.       *)
PublishFails(h) ==
  /\ hpc[h] = "publish" /\ Fault
  /\ \/ stream' = Append(stream, tx[h].event) /\ Stop(Handlers \ {h})
     \/ UNCHANGED stream /\ Stop(Handlers)
  /\ UNCHANGED <<row, requests, committed, overwritten>>

-----------------------------------------------------------------------------
Request(h) == \E t \in Tickets : CreateTicket(h, t) \/ AssignRead(h, t)

Local(h) == Request(h) \/ AssignUpdate(h) \/ AssignCommit(h)

TicketNext ==
  \/ Boot \/ Crash
  \/ \E h \in Handlers : Local(h) \/ Publish(h) \/ PublishFails(h)

TicketSpec == TicketInit /\ [][TicketNext]_ticketVars

-----------------------------------------------------------------------------
(* Properties.                                                               *)

TypeOK ==
  /\ row \in [Tickets -> Row \cup {NoRow}]
  /\ writer \in [Tickets -> Handlers \cup {NoOne}]
  /\ hpc \in [Handlers -> {"idle", "update", "commit", "publish"}]
  /\ tx \in [Handlers -> [event : Event \cup {NoEvent}, read : Row \cup {NoRow}]]
  /\ stream \in Seq(Event) /\ up \in BOOLEAN
  /\ requests \in Nat /\ faults \in Nat
  /\ committed \subseteq Nat /\ unsent \subseteq Nat /\ overwritten \subseteq Tickets

AssignmentOf(e, t) == e # NoEvent /\ e.ticket = t /\ e.kind \in {"assigned", "reassigned"}

Assigned(t) ==
  \/ \E i \in DOMAIN stream : AssignmentOf(stream[i], t)
  \/ \E h \in Handlers : hpc[h] = "publish" /\ AssignmentOf(tx[h].event, t)

(* The row lock makes one unit of the two UPDATEs: once a ticket has been    *)
(* assigned, its assignee and the manager of the assignee watch it and its   *)
(* team is the assignee's, however requests are interleaved or rolled back.  *)
AssigneeWatches ==
  \A t \in Tickets : Assigned(t) =>
    /\ row[t].team = TeamOf[row[t].assignee]
    /\ IsIn(row[t].assignee, row[t].watchers)
    /\ ManagerOf[row[t].assignee] = NoOne \/ IsIn(ManagerOf[row[t].assignee], row[t].watchers)

(* No assignment drops an admin from the watchers or lists anyone twice: the *)
(* only user listed twice is an admin who created the ticket, whom           *)
(* CreateTicket lists as creator and as admin.                               *)
WatchersStaySound ==
  \A t \in Tickets : row[t] # NoRow =>
    /\ \A u \in Admins : IsIn(u, row[t].watchers)
    /\ \A u \in Users : Occurrences(u, row[t].watchers) <=
                          IF u = row[t].watchers[1] /\ u \in Admins THEN 2 ELSE 1

(* Events are neither early, nor repeated, nor silently missing: each event  *)
(* stored is of a committed request, no request has two, and a committed     *)
(* request has its event stored, on the way, or recorded as given up because *)
(* the process ended or the answer of Commit was lost.                       *)
EventsMatchCommits ==
  /\ \A i \in DOMAIN stream : stream[i].id \in committed
  /\ \A i, j \in DOMAIN stream : stream[i].id = stream[j].id => i = j
  /\ \A r \in committed :
       \/ \E i \in DOMAIN stream : stream[i].id = r
       \/ \E h \in Handlers : hpc[h] = "publish" /\ tx[h].event.id = r
       \/ r \in unsent

(* An assignment takes nothing from a ticket, and its event tells the truth  *)
(* about whom it replaces, unless its commit overwrites a row it has not     *)
(* read: no watcher is dropped, and no previous assignee misnamed, but by    *)
(* two assignments that overlap.                                             *)
LosesNothing(t) ==
  /\ row[t] # NoRow =>
       \A u \in Users : IsIn(u, row[t].watchers) => IsIn(u, row'[t].watchers)
  /\ \A h \in Handlers :
       hpc[h] = "commit" /\ hpc'[h] = "publish" /\ tx[h].event.ticket = t =>
         row[t].assignee = tx[h].event.was

OnlyOverwritesLose ==
  [][\A t \in Tickets \ overwritten' : LosesNothing(t)]_ticketVars

(* An assignee is told to be the new one and the mail names the previous one *)
(* (ticket.reassigned.go:80, "Previous Assignee: %s"): at the commit the row *)
(* still has the assignee that the event says was replaced.                  *)
EventNamesThePrevious ==
  [][\A h \in Handlers :
       hpc[h] = "commit" /\ hpc'[h] = "publish" =>
         row[tx[h].event.ticket].assignee = tx[h].event.was]_ticketVars

==============================================================================
