------------------------------ MODULE TicketProofs ------------------------------
(* Machine-checked theorems about module TicketAssignment, for every company,*)
(* every set of tickets and handlers, and every bound.                       *)
EXTENDS TicketAssignment, FiniteSetTheorems, SequenceTheorems, TLAPS

-----------------------------------------------------------------------------
(* The lists of watchers.                                                    *)

LEMMA AddsOne ==
  ASSUME NEW list \in Seq(Users), NEW u \in Users \cup {NoOne}
  PROVE  /\ AddIfAbsent(list, u) \in Seq(Users)
         /\ u # NoOne => IsIn(u, AddIfAbsent(list, u))
         /\ \A v : IsIn(v, list) => IsIn(v, AddIfAbsent(list, u))
  <1>1. CASE u = NoOne \/ IsIn(u, list)
    BY <1>1 DEF AddIfAbsent
  <1>2. CASE u # NoOne /\ ~IsIn(u, list)
    <2>1. AddIfAbsent(list, u) = Append(list, u)
      BY <1>2 DEF AddIfAbsent
    <2>2. /\ Append(list, u) \in Seq(Users) /\ Len(list) \in Nat
          /\ DOMAIN Append(list, u) = 1 .. Len(list) + 1 /\ DOMAIN list = 1 .. Len(list)
          /\ Append(list, u)[Len(list) + 1] = u
          /\ \A i \in 1 .. Len(list) : Append(list, u)[i] = list[i]
      BY <1>2
    <2>. QED
      BY <2>1, <2>2 DEF IsIn
  <1>. QED
    BY <1>1, <1>2

(* The new assignee and the manager are watchers after an assignment.        *)
LEMMA AddsAssignee ==
  ASSUME NEW list \in Seq(Users), NEW e \in Employees
  PROVE  /\ WithAssignee(list, e) \in Seq(Users)
         /\ IsIn(e, WithAssignee(list, e))
         /\ ManagerOf[e] = NoOne \/ IsIn(ManagerOf[e], WithAssignee(list, e))
  <1>1. e \in Users /\ e # NoOne /\ ManagerOf[e] \in Users \cup {NoOne}
    BY RolesAssumption DEF Users
  <1>2. /\ AddIfAbsent(list, e) \in Seq(Users) /\ IsIn(e, AddIfAbsent(list, e))
    BY <1>1, AddsOne
  <1> DEFINE l == AddIfAbsent(list, e)
  <1> HIDE DEF l
  <1>3. l \in Seq(Users) /\ IsIn(e, l)
    BY <1>2 DEF l
  <1>4. WithAssignee(list, e) = AddIfAbsent(l, ManagerOf[e])
    BY DEF WithAssignee, l
  <1>. QED
    BY <1>1, <1>3, <1>4, AddsOne

LEMMA AdminsListed ==
  SetToSeq(Admins) \in Seq(Admins)
  <1>1. /\ Cardinality(Admins) \in Nat
        /\ ExistsBijection(1 .. Cardinality(Admins), Admins)
    BY RolesAssumption, FS_CardinalityType
  <1>2. \E f \in [1 .. Cardinality(Admins) -> Admins] : IsInjective(f)
    BY <1>1 DEF ExistsBijection, Bijection, Injection
  <1>3. SetToSeq(Admins) \in [1 .. Cardinality(Admins) -> Admins]
    BY <1>2 DEF SetToSeq
  <1>. QED
    BY <1>1, <1>3, SeqDef

LEMMA FirstListed ==
  ASSUME NEW u \in Users
  PROVE  FirstWatchers(u) \in Seq(Users)
  <1>1. Admins \subseteq Users
    BY RolesAssumption DEF Users
  <1>2. SetToSeq(Admins) \in Seq(Users)
    BY <1>1, AdminsListed, SeqDef
  <1>3. <<u>> \in Seq(Users)
    OBVIOUS
  <1>. QED
    BY <1>2, <1>3, ConcatProperties DEF FirstWatchers

-----------------------------------------------------------------------------
(* Type correctness.                                                         *)

Steps == {"idle", "update", "commit", "publish"}
Txs == [event : Event \cup {NoEvent}, read : Row \cup {NoRow}]

(* What a handler has in its hands is a request; one that assigns has read a *)
(* row, and rows do not vanish.                                              *)
Busy(h) ==
  /\ hpc[h] # "idle" => tx[h].event \in Event
  /\ hpc[h] \in {"update", "commit"} =>
       /\ tx[h].event.to \in Employees /\ tx[h].read \in Row
       /\ row[tx[h].event.ticket] # NoRow

Typed == TypeOK /\ \A h \in Handlers : Busy(h)

(* The rest of TypeOK, and where each handler is.                            *)
Store ==
  /\ writer \in [Tickets -> Handlers \cup {NoOne}] /\ stream \in Seq(Event)
  /\ up \in BOOLEAN /\ requests \in Nat /\ faults \in Nat
  /\ committed \subseteq Nat /\ unsent \subseteq Nat /\ overwritten \subseteq Tickets

Hands == hpc \in [Handlers -> Steps] /\ tx \in [Handlers -> Txs]

Rows == row \in [Tickets -> Row \cup {NoRow}]

LEMMA TypeParts == TypeOK <=> Store /\ Hands /\ Rows
  BY DEF TypeOK, Store, Hands, Rows, Steps, Txs

(* An assignment makes a row of a row.                                       *)
LEMMA RowAssigned ==
  ASSUME NEW r \in Row, NEW e \in Employees, NEW w \in Seq(Users)
  PROVE  [r EXCEPT !.assignee = e, !.team = TeamOf[e], !.watchers = w] \in Row
  BY RolesAssumption DEF Row, Assignees

LEMMA ReliableOrFault ==
  ASSUME faults \in Nat, Reliable \/ Fault
  PROVE  faults' \in Nat
  BY DEF Reliable, Fault

(* One handler moves; no row vanishes.                                       *)
LEMMA OneMoves ==
  ASSUME Hands, \A g \in Handlers : Busy(g), NEW h \in Handlers,
         NEW step \in Steps, NEW x \in Txs, Step(h, step, x),
         \A t \in Tickets : row[t] # NoRow => row'[t] # NoRow,
         step # "idle" => x.event \in Event,
         step \in {"update", "commit"} =>
           x.event.to \in Employees /\ x.read \in Row /\ row'[x.event.ticket] # NoRow
  PROVE  Hands' /\ \A g \in Handlers : Busy(g)'
  <1>1. Hands'
    BY DEF Hands, Step
  <1>2. hpc'[h] = step /\ tx'[h] = x
    BY DEF Hands, Step
  <1>3. Busy(h)'
    BY <1>2 DEF Busy
  <1>4. ASSUME NEW g \in Handlers \ {h} PROVE Busy(g)'
    <2>1. hpc'[g] = hpc[g] /\ tx'[g] = tx[g]
      BY DEF Hands, Step
    <2>2. hpc[g] # "idle" => tx[g].event.ticket \in Tickets
      BY DEF Busy, Event
    <2>. QED
      BY <2>1, <2>2 DEF Busy
  <1>. QED
    BY <1>1, <1>3, <1>4

(* All handlers are idle after the end of the process.                       *)
LEMMA StopsTyped ==
  ASSUME Hands, Store, \A g \in Handlers : Busy(g), NEW given \in SUBSET Handlers, Stop(given)
  PROVE  /\ Hands' /\ \A g \in Handlers : Busy(g)'
         /\ up' \in BOOLEAN /\ writer' \in [Tickets -> Handlers \cup {NoOne}]
         /\ unsent' \subseteq Nat
  <1>1. \A g \in given : hpc[g] = "publish" => tx[g].event.id \in Nat
    BY DEF Busy, Event
  <1>2. NoTx \in Txs
    BY DEF NoTx, Txs
  <1>. QED
    BY <1>1, <1>2 DEF Stop, Hands, Store, Busy, Steps

(* A step of a handler, of the start or of the end keeps the types.          *)
LEMMA StepTyped ==
  ASSUME Typed, [TicketNext]_ticketVars
  PROVE  Typed'
<1>0. NoTx \in Txs
  BY DEF NoTx, Txs
<1> SUFFICES ASSUME Typed, [TicketNext]_ticketVars PROVE Store' /\ Rows' /\ Hands'
                      /\ \A h \in Handlers : Busy(h)'
  BY TypeParts DEF Typed, Store, Hands, Rows, TypeOK, Steps, Txs
<1> USE DEF dbVars, historyVars
<1>t. Store /\ Hands /\ Rows /\ \A h \in Handlers : Busy(h)
  BY TypeParts DEF Typed
<1>h. ASSUME NEW h \in Handlers, hpc[h] # "idle"
      PROVE  /\ tx[h] \in Txs /\ tx[h].event \in Event /\ tx[h].event.ticket \in Tickets
             /\ tx[h].event.id \in Nat
  BY <1>t, <1>h DEF Hands, Busy, Event
<1>1. CASE UNCHANGED ticketVars
  BY <1>1, <1>t DEF ticketVars, Store, Hands, Rows, Busy
<1>2. CASE Boot
  BY <1>2, <1>t DEF Boot, Store, Hands, Rows, Busy
<1>3. CASE Crash
  <2>1. /\ Hands' /\ \A g \in Handlers : Busy(g)'
        /\ up' \in BOOLEAN /\ writer' \in [Tickets -> Handlers \cup {NoOne}]
        /\ unsent' \subseteq Nat
    BY <1>3, <1>t, StopsTyped DEF Crash
  <2>2. faults' \in Nat
    BY <1>3, <1>t, ReliableOrFault DEF Crash, Store
  <2>. QED
    BY <1>3, <1>t, <2>1, <2>2 DEF Crash, Store, Rows
<1>4. ASSUME NEW h \in Handlers, NEW t \in Tickets, CreateTicket(h, t)
      PROVE  Store' /\ Rows' /\ Hands' /\ \A g \in Handlers : Busy(g)'
  <2>1. PICK r \in Row : row' = [row EXCEPT ![t] = r]
    <3>1. PICK u \in Users, e \in Assignees, g \in Teams, s \in Statuses :
            row' = [row EXCEPT ![t] = [status |-> s, assignee |-> e, team |-> g,
                                       watchers |-> FirstWatchers(u)]]
      BY <1>4 DEF CreateTicket
    <3>2. [status |-> s, assignee |-> e, team |-> g,
           watchers |-> FirstWatchers(u)] \in Row
      BY FirstListed DEF Row
    <3>. QED
      BY <3>1, <3>2
  <2>2. r # NoRow /\ Rows' /\ row'[t] = r
    BY <1>t, <2>1 DEF Rows, Row, NoRow, Statuses
  <2> DEFINE x == [event |-> [id |-> requests', kind |-> "created", ticket |-> t,
                              was |-> row'[t].assignee, to |-> NoOne, listed |-> <<>>],
                   read |-> NoRow]
  <2>3. PICK y \in Txs : y = x /\ y.event \in Event
    <3>1. requests' \in Nat /\ row'[t].assignee \in Assignees /\ NoOne \in Assignees
      BY <1>4, <1>t, <2>2 DEF CreateTicket, Arrive, Store, Row, Assignees
    <3>2. x.event \in Event /\ x \in Txs
      BY <3>1 DEF Event, Kinds, Txs
    <3>. QED
      BY <3>2
  <2>4. Step(h, "publish", y) \/ UNCHANGED <<hpc, tx>>
    BY <1>4, <2>3 DEF CreateTicket
  <2>5. \A k \in Tickets : row[k] # NoRow => row'[k] # NoRow
    BY <1>t, <2>1, <2>2 DEF Rows
  <2>6. Hands' /\ \A g \in Handlers : Busy(g)'
    <3>1. CASE Step(h, "publish", y)
      BY <1>t, <2>3, <2>5, <3>1, OneMoves DEF Steps
    <3>2. CASE UNCHANGED <<hpc, tx>>
      BY <1>t, <2>5, <3>2 DEF Hands, Busy, Event
    <3>. QED
      BY <2>4, <3>1, <3>2
  <2>7. Store'
    <3>1. /\ UNCHANGED <<writer, stream, up, overwritten>> /\ requests' = requests + 1
          /\ committed' = committed \cup {requests'}
          /\ unsent' \in {unsent, unsent \cup {requests'}}
      BY <1>4 DEF CreateTicket, Arrive
    <3>2. faults' \in Nat
      BY <1>4, <1>t, ReliableOrFault DEF CreateTicket, Store
    <3>. QED
      BY <1>t, <3>1, <3>2 DEF Store
  <2>. QED
    BY <2>2, <2>6, <2>7
<1>5. ASSUME NEW h \in Handlers, NEW t \in Tickets, AssignRead(h, t)
      PROVE  Store' /\ Rows' /\ Hands' /\ \A g \in Handlers : Busy(g)'
  <2>1. PICK e \in Employees :
          Step(h, "update",
               [event |-> [id |-> requests', ticket |-> t, was |-> row[t].assignee,
                           kind |-> IF row[t].assignee = NoOne THEN "assigned"
                                    ELSE "reassigned",
                           to |-> e, listed |-> <<>>],
                read |-> row[t]])
    BY <1>5 DEF AssignRead
  <2>2. row[t] \in Row /\ requests' \in Nat /\ UNCHANGED row
    BY <1>5, <1>t DEF AssignRead, Arrive, Rows, Store
  <2>3. PICK ev \in Event : /\ ev.to = e /\ ev.ticket = t
                            /\ Step(h, "update", [event |-> ev, read |-> row[t]])
    <3>1. row[t].assignee \in Assignees /\ e \in Assignees
      BY <2>2 DEF Row, Assignees
    <3>2. [id |-> requests', ticket |-> t, was |-> row[t].assignee,
           kind |-> IF row[t].assignee = NoOne THEN "assigned" ELSE "reassigned",
           to |-> e, listed |-> <<>>] \in Event
      BY <2>2, <3>1 DEF Event, Kinds
    <3>. QED
      BY <2>1, <3>2
  <2>4. [event |-> ev, read |-> row[t]] \in Txs
    BY <2>2 DEF Txs
  <2>5. Hands' /\ \A g \in Handlers : Busy(g)'
    BY <1>5, <1>t, <2>2, <2>3, <2>4, OneMoves DEF AssignRead, Steps
  <2>. QED
    BY <1>5, <1>t, <2>2, <2>5 DEF AssignRead, Store, Rows
<1>6. ASSUME NEW h \in Handlers, AssignUpdate(h)
      PROVE  Store' /\ Rows' /\ Hands' /\ \A g \in Handlers : Busy(g)'
  <2>1. hpc[h] = "update" /\ UNCHANGED row
        /\ \/ Step(h, "commit", tx[h])
           \/ Step(h, "idle", NoTx)
    BY <1>6 DEF AssignUpdate
  <2>2. PICK x \in Txs : x = tx[h]
    BY <1>h, <2>1
  <2>3. Busy(h)
    BY <1>t
  <2>4. Hands' /\ \A g \in Handlers : Busy(g)'
    BY <1>0, <1>t, <2>1, <2>2, <2>3, OneMoves DEF Steps, Busy
  <2>5. Store'
    BY <1>6, <1>h, <1>t, ReliableOrFault DEF AssignUpdate, Store
  <2>. QED
    BY <1>t, <2>1, <2>4, <2>5 DEF Rows
<1>7. ASSUME NEW h \in Handlers, AssignCommit(h)
      PROVE  Store' /\ Rows' /\ Hands' /\ \A g \in Handlers : Busy(g)'
  <2>1. PICK x \in Txs, t \in Tickets, e \in Employees :
          /\ x = tx[h] /\ t = x.event.ticket /\ e = x.event.to
          /\ row[t] \in Row /\ x.read \in Row /\ hpc[h] = "commit"
          /\ x.event \in Event /\ x.event.id \in Nat
    BY <1>7, <1>h, <1>t DEF AssignCommit, Busy, Rows
  <2>2. PICK w \in Seq(Users) : w = WithAssignee(x.read.watchers, e)
    <3>1. x.read.watchers \in Seq(Users)
      BY <2>1 DEF Row
    <3>. QED
      BY <3>1, AddsAssignee
  <2>3. \/ UNCHANGED row
        \/ row' = [row EXCEPT ![t] = [@ EXCEPT !.assignee = e, !.team = TeamOf[e],
                                     !.watchers = w]]
    BY <1>7, <2>1, <2>2 DEF AssignCommit
  <2>4. Rows' /\ \A k \in Tickets : row[k] # NoRow => row'[k] # NoRow
    <3>1. PICK r \in Row : r = [row[t] EXCEPT !.assignee = e, !.team = TeamOf[e],
                                             !.watchers = w]
      BY <2>1, RowAssigned
    <3>2. r # NoRow
      BY DEF Row, NoRow, Statuses
    <3>. QED
      BY <1>t, <2>3, <3>1, <3>2 DEF Rows
  <2>5. Step(h, "publish", x) \/ Step(h, "idle", NoTx)
    BY <1>7, <2>1 DEF AssignCommit
  <2>6. Hands' /\ \A g \in Handlers : Busy(g)'
    BY <1>0, <1>t, <2>1, <2>4, <2>5, OneMoves DEF Steps
  <2>7. Store'
    <3>1. /\ UNCHANGED <<stream, up, requests>> /\ writer' = [writer EXCEPT ![t] = NoOne]
          /\ committed' \in {committed, committed \cup {x.event.id}}
          /\ unsent' \in {unsent, unsent \cup {x.event.id}}
          /\ overwritten' \in {overwritten, overwritten \cup {t}}
      BY <1>7, <2>1 DEF AssignCommit
    <3>2. faults' \in Nat
      BY <1>7, <1>t, ReliableOrFault DEF AssignCommit, Store
    <3>. QED
      BY <1>t, <2>1, <3>1, <3>2 DEF Store
  <2>. QED
    BY <2>4, <2>6, <2>7
<1>8. ASSUME NEW h \in Handlers, Publish(h)
      PROVE  Store' /\ Rows' /\ Hands' /\ \A g \in Handlers : Busy(g)'
  <2>1. hpc[h] = "publish" /\ UNCHANGED row /\ Step(h, "idle", NoTx)
    BY <1>8 DEF Publish
  <2>2. Hands' /\ \A g \in Handlers : Busy(g)'
    BY <1>0, <1>t, <2>1, OneMoves DEF Steps
  <2>3. Store'
    BY <1>8, <1>h, <1>t, <2>1 DEF Publish, Store
  <2>. QED
    BY <1>t, <2>1, <2>2, <2>3 DEF Rows
<1>9. ASSUME NEW h \in Handlers, PublishFails(h)
      PROVE  Store' /\ Rows' /\ Hands' /\ \A g \in Handlers : Busy(g)'
  <2>1. \/ Stop(Handlers) \/ Stop(Handlers \ {h})
    BY <1>9 DEF PublishFails
  <2>2. /\ Hands' /\ \A g \in Handlers : Busy(g)'
        /\ up' \in BOOLEAN /\ writer' \in [Tickets -> Handlers \cup {NoOne}]
        /\ unsent' \subseteq Nat
    BY <1>t, <2>1, StopsTyped
  <2>3. faults' \in Nat
    BY <1>9, <1>t, ReliableOrFault DEF PublishFails, Store
  <2>4. stream' \in Seq(Event)
    BY <1>9, <1>h, <1>t DEF PublishFails, Store
  <2>. QED
    BY <1>9, <1>t, <2>2, <2>3, <2>4 DEF PublishFails, Store, Rows
<1>. QED
  BY <1>1, <1>2, <1>3, <1>4, <1>5, <1>6, <1>7, <1>8, <1>9
  DEF TicketNext, Local, Request

LEMMA InitTyped == TicketInit => Typed
<1> SUFFICES ASSUME TicketInit PROVE Typed
  OBVIOUS
<1>0. NoTx \in Txs
  BY DEF NoTx, Txs
<1>1. Store
  <2>1. up \in BOOLEAN /\ requests \in Nat /\ faults \in Nat
    BY DEF TicketInit
  <2>2. stream \in Seq(Event)
    BY DEF TicketInit
  <2>3. /\ writer \in [Tickets -> Handlers \cup {NoOne}]
        /\ committed = {} /\ unsent = {} /\ overwritten = {}
    BY DEF TicketInit, historyVars
  <2>. QED
    BY <2>1, <2>2, <2>3 DEF Store
<1>2. Hands /\ \A h \in Handlers : Busy(h)
  BY <1>0 DEF TicketInit, Hands, Busy, Steps
<1>3. Rows
  BY DEF TicketInit, Rows
<1>. QED
  BY <1>1, <1>2, <1>3, TypeParts DEF Typed

LEMMA AlwaysTyped == TicketSpec => []Typed
BY InitTyped, StepTyped, PTL DEF TicketSpec

(* Rows, requests and events are what PostgreSQL and the handlers make of    *)
(* them (CreateTicket, AssignTicket).                                        *)
THEOREM TicketsTyped == TicketSpec => []TypeOK
<1>1. Typed => TypeOK
  BY DEF Typed
<1>. QED
  BY <1>1, AlwaysTyped, PTL

-----------------------------------------------------------------------------
(* The assignee watches.                                                     *)

Watched(r) ==
  /\ r.team = TeamOf[r.assignee] /\ IsIn(r.assignee, r.watchers)
  /\ ManagerOf[r.assignee] = NoOne \/ IsIn(ManagerOf[r.assignee], r.watchers)

(* Why AssigneeWatches holds: a row that was assigned stays, and every       *)
(* assignment writes assignee, team and watchers at once.                    *)
WatchedOnce == \A t \in Tickets : Assigned(t) => row[t] # NoRow /\ Watched(row[t])

LEMMA FrameWatch ==
  ASSUME WatchedOnce, \A t \in Tickets : Assigned(t)' => Assigned(t),
         \A t \in Tickets : \/ row'[t] = row[t] \/ row[t] = NoRow
                            \/ row'[t] # NoRow /\ Watched(row'[t])
  PROVE  WatchedOnce'
  <1> SUFFICES ASSUME NEW t \in Tickets, Assigned(t)'
               PROVE  row'[t] # NoRow /\ Watched(row'[t])
    BY DEF WatchedOnce, Watched
  <1>. QED
    BY DEF WatchedOnce

(* A handler that does not turn to publish an assignment, nor appends one,   *)
(* assigns nothing.                                                          *)
LEMMA NoneAssigned ==
  ASSUME UNCHANGED stream, NEW t \in Tickets,
         \A h \in Handlers : hpc'[h] = "publish" =>
           \/ hpc[h] = "publish" /\ tx'[h] = tx[h]
           \/ tx'[h].event.kind = "created"
  PROVE  Assigned(t)' => Assigned(t)
  BY DEF Assigned, AssignmentOf

(* Every step of the handlers keeps it.                                      *)
LEMMA WatchedStep ==
  ASSUME Typed, WatchedOnce, [TicketNext]_ticketVars
  PROVE  WatchedOnce'
  <1> USE DEF dbVars, historyVars
  <1>t. Store /\ Hands /\ Rows /\ \A h \in Handlers : Busy(h)
    BY TypeParts DEF Typed
  <1>1. CASE UNCHANGED ticketVars \/ Boot
    BY <1>1, NoneAssigned, FrameWatch DEF ticketVars, Boot
  <1>2. CASE Crash
    BY <1>2, NoneAssigned, FrameWatch DEF Crash, Stop
  <1>3. ASSUME NEW h \in Handlers, NEW t \in Tickets, CreateTicket(h, t) PROVE WatchedOnce'
    <2>1. \A k \in Tickets : row'[k] = row[k] \/ row[k] = NoRow
      BY <1>3, <1>t DEF CreateTicket, Rows
    <2>2. UNCHANGED stream /\ \A g \in Handlers \ {h} : hpc'[g] = hpc[g] /\ tx'[g] = tx[g]
      BY <1>3, <1>t DEF CreateTicket, Step, Hands
    <2>3. hpc'[h] = "publish" => tx'[h].event.kind = "created"
      BY <1>3, <1>t DEF CreateTicket, Arrive, Step, Hands
    <2>. QED
      BY <2>1, <2>2, <2>3, NoneAssigned, FrameWatch
  <1>4. ASSUME NEW h \in Handlers,
               (\E t \in Tickets : AssignRead(h, t)) \/ AssignUpdate(h)
        PROVE  WatchedOnce'
    <2>1. UNCHANGED <<row, stream>> /\ hpc'[h] # "publish"
          /\ \A g \in Handlers \ {h} : hpc'[g] = hpc[g] /\ tx'[g] = tx[g]
      BY <1>4, <1>t DEF AssignRead, AssignUpdate, Step, Hands
    <2>. QED
      BY <2>1, NoneAssigned, FrameWatch
  <1>5. ASSUME NEW h \in Handlers, AssignCommit(h) PROVE WatchedOnce'
    <2>1. PICK t \in Tickets, e \in Employees, w \in Seq(Users) :
            /\ t = tx[h].event.ticket /\ e = tx[h].event.to /\ row[t] \in Row
            /\ w = WithAssignee(tx[h].read.watchers, e) /\ tx[h].read.watchers \in Seq(Users)
      <3>1. /\ tx[h].event.ticket \in Tickets /\ tx[h].event.to \in Employees
            /\ row[tx[h].event.ticket] \in Row /\ tx[h].read.watchers \in Seq(Users)
        BY <1>5, <1>t DEF AssignCommit, Busy, Event, Rows, Row
      <3>. QED
        BY <3>1, AddsAssignee
    <2>2. /\ UNCHANGED stream
          /\ \A g \in Handlers \ {h} : hpc'[g] = hpc[g] /\ tx'[g] = tx[g]
          /\ hpc'[h] = "publish" => tx'[h] = tx[h]
      BY <1>5, <1>t DEF AssignCommit, Step, Hands
    <2>3. \/ UNCHANGED row /\ hpc'[h] # "publish"
          \/ row' = [row EXCEPT ![t] = [@ EXCEPT !.assignee = e, !.team = TeamOf[e],
                                       !.watchers = w]]
      <3>1. \/ UNCHANGED row /\ hpc' = [hpc EXCEPT ![h] = "idle"]
            \/ row' = [row EXCEPT ![t].assignee = e, ![t].team = TeamOf[e],
                                  ![t].watchers = w]
        BY <1>5, <2>1 DEF AssignCommit, Step
      <3>. QED
        BY <1>5, <1>t, <3>1 DEF Hands
    <2>4. CASE UNCHANGED row /\ hpc'[h] # "publish"
      BY <2>2, <2>4, NoneAssigned, FrameWatch
    <2>5. CASE row' = [row EXCEPT ![t] = [@ EXCEPT !.assignee = e, !.team = TeamOf[e],
                                        !.watchers = w]]
      <3>1. PICK r \in Row : r = [row[t] EXCEPT !.assignee = e, !.team = TeamOf[e],
                                               !.watchers = w]
        BY <2>1, RowAssigned
      <3>2. /\ row'[t] = r /\ r.assignee = e /\ r.team = TeamOf[e] /\ r.watchers = w
            /\ \A k \in Tickets \ {t} : row'[k] = row[k]
        BY <1>t, <2>1, <2>5, <3>1 DEF Rows, Row
      <3>3. IsIn(e, w) /\ (ManagerOf[e] = NoOne \/ IsIn(ManagerOf[e], w))
        BY <2>1, AddsAssignee
      <3>4. row'[t] # NoRow /\ Watched(row'[t])
        BY <3>2, <3>3 DEF Watched, Row, NoRow, Statuses
      <3>5. ASSUME NEW k \in Tickets \ {t}, Assigned(k)' PROVE row'[k] = row[k] /\ Assigned(k)
        <4>1. hpc'[h] = "publish" => tx'[h].event.ticket # k
          BY <2>1, <2>2
        <4>. QED
          BY <2>2, <3>2, <3>5, <4>1 DEF Assigned, AssignmentOf
      <3>6. \A k \in Tickets : Assigned(k)' => row'[k] # NoRow /\ Watched(row'[k])
        BY <3>4, <3>5 DEF WatchedOnce
      <3>. QED
        BY <3>6 DEF WatchedOnce, Watched
    <2>. QED
      BY <2>3, <2>4, <2>5
  <1>6. ASSUME NEW h \in Handlers, Publish(h) \/ PublishFails(h) PROVE WatchedOnce'
    <2>1. UNCHANGED row /\ hpc[h] = "publish" /\ stream \in Seq(Event) /\ tx[h].event \in Event
      BY <1>6, <1>t DEF Publish, PublishFails, Store, Busy
    <2>2. \A g \in Handlers : hpc'[g] = "publish" => hpc[g] = "publish" /\ tx'[g] = tx[g]
      BY <1>6, <1>t DEF Publish, PublishFails, Step, Stop, Hands
    <2>3. stream' \in {stream, Append(stream, tx[h].event)}
      BY <1>6 DEF Publish, PublishFails
    <2>4. ASSUME NEW k \in Tickets, Assigned(k)' PROVE Assigned(k)
      <3>1. \A i \in DOMAIN stream' : \/ i \in DOMAIN stream /\ stream'[i] = stream[i]
                                    \/ stream'[i] = tx[h].event
        BY <2>1, <2>3
      <3>. QED
        BY <2>1, <2>2, <2>4, <3>1 DEF Assigned, AssignmentOf
    <2>. QED
      BY <2>1, <2>4, FrameWatch
  <1>. QED
    BY <1>1, <1>2, <1>3, <1>4, <1>5, <1>6 DEF TicketNext, Local, Request

(* Once a ticket has been assigned its assignee and the manager watch it, in *)
(* the assignee's team (AssignTicket, UpdateWachersList).                    *)
THEOREM AssigneesWatch == TicketSpec => []AssigneeWatches
<1>1. TicketInit => WatchedOnce
  BY DEF TicketInit, WatchedOnce, Assigned
<1>2. Typed /\ WatchedOnce /\ [TicketNext]_ticketVars => WatchedOnce'
  BY WatchedStep
<1>3. WatchedOnce => AssigneeWatches
  BY DEF WatchedOnce, Watched, AssigneeWatches
<1>. QED
  BY <1>1, <1>2, <1>3, AlwaysTyped, PTL DEF TicketSpec

-----------------------------------------------------------------------------
(* Events and commits.                                                       *)

Sent == {stream[i].id : i \in DOMAIN stream}

(* Why EventsMatchCommits holds: a request has a number of its own, and its  *)
(* place says whether it is committed, and whether its event is stored.      *)
Numbered(h) ==
  /\ hpc[h] # "idle" => tx[h].event.id <= requests
  /\ hpc[h] \in {"update", "commit"} => tx[h].event.id \notin committed
  /\ hpc[h] = "publish" => tx[h].event.id \in committed \ Sent

Matched ==
  /\ EventsMatchCommits
  /\ \A r \in committed : r <= requests
  /\ \A h \in Handlers : Numbered(h)
  /\ \A g, h \in Handlers : g # h /\ hpc[g] # "idle" /\ hpc[h] # "idle" =>
                            tx[g].event.id # tx[h].event.id

(* What was stored of the events is as it was.                               *)
LEMMA SameStream ==
  ASSUME UNCHANGED stream
  PROVE  Sent' = Sent
  BY DEF Sent

(* No event is stored, and nothing commits.                                  *)
LEMMA FrameMatched ==
  ASSUME Matched, UNCHANGED <<stream, committed, requests>>, unsent \subseteq unsent',
         \A h \in Handlers : hpc'[h] # "idle" =>
           /\ hpc[h] # "idle" /\ tx'[h] = tx[h]
           /\ hpc'[h] = "publish" <=> hpc[h] = "publish",
         \A h \in Handlers : hpc[h] = "publish" =>
           hpc'[h] = "publish" \/ tx[h].event.id \in unsent',
         Hands, Hands'
  PROVE  Matched'
  <1>1. Sent' = Sent
    BY SameStream
  <1>2. \A h \in Handlers : Numbered(h)'
    BY <1>1 DEF Matched, Numbered, Hands, Steps
  <1>3. EventsMatchCommits'
    BY DEF Matched, EventsMatchCommits
  <1>. QED
    BY <1>2, <1>3 DEF Matched

(* Events are neither early, nor repeated, nor silently missing              *)
(* (CreateTicket, AssignTicket, PublishEvent).                               *)
THEOREM EventsMatch == TicketSpec => []EventsMatchCommits
<1>1. TicketInit => Matched
  BY DEF TicketInit, Matched, EventsMatchCommits, Numbered, historyVars
<1>2. Typed /\ Typed' /\ Matched /\ [TicketNext]_ticketVars => Matched'
  <2> SUFFICES ASSUME Typed, Typed', Matched, [TicketNext]_ticketVars PROVE Matched'
    OBVIOUS
  <2> USE DEF dbVars, historyVars
  <2>t. /\ Hands /\ Hands' /\ stream \in Seq(Event) /\ requests \in Nat
        /\ \A h \in Handlers : hpc[h] # "idle" => tx[h].event.id \in Nat /\ tx[h].event \in Event
    BY DEF Typed, TypeOK, Hands, Steps, Txs, Busy, Event
  <2>1. CASE UNCHANGED ticketVars \/ Boot
    BY <2>1, <2>t, FrameMatched DEF ticketVars, Boot
  <2>2. CASE Crash
    BY <2>2, <2>t, FrameMatched DEF Crash, Stop
  <2>3. ASSUME NEW h \in Handlers, NEW t \in Tickets, CreateTicket(h, t) PROVE Matched'
    <3>1. /\ UNCHANGED stream /\ requests' = requests + 1 /\ hpc[h] = "idle"
          /\ committed' = committed \cup {requests'} /\ unsent \subseteq unsent'
          /\ \A g \in Handlers \ {h} : hpc'[g] = hpc[g] /\ tx'[g] = tx[g]
          /\ \/ hpc'[h] = "publish" /\ tx'[h].event.id = requests'
             \/ hpc'[h] = "idle" /\ requests' \in unsent'
      BY <2>3, <2>t DEF CreateTicket, Arrive, Step, Hands
    <3>2. Sent' = Sent /\ requests' \notin Sent /\ requests' \notin committed
      BY <2>t, <3>1, SameStream DEF Matched, EventsMatchCommits, Sent
    <3>3. ASSUME NEW g \in Handlers PROVE Numbered(g)'
      BY <2>t, <3>1, <3>2 DEF Matched, Numbered
    <3>4. EventsMatchCommits'
      BY <3>1 DEF Matched, EventsMatchCommits
    <3>5. \A r \in committed' : r <= requests'
      BY <2>t, <3>1 DEF Matched, Typed, TypeOK
    <3>6. \A f, g \in Handlers : f # g /\ hpc'[f] # "idle" /\ hpc'[g] # "idle" =>
                                tx'[f].event.id # tx'[g].event.id
      BY <2>t, <3>1 DEF Matched, Numbered
    <3>. QED
      BY <3>3, <3>4, <3>5, <3>6 DEF Matched
  <2>4. ASSUME NEW h \in Handlers, NEW t \in Tickets, AssignRead(h, t) PROVE Matched'
    <3>1. /\ UNCHANGED <<stream, committed, unsent>> /\ requests' = requests + 1
          /\ hpc[h] = "idle"
          /\ \A g \in Handlers \ {h} : hpc'[g] = hpc[g] /\ tx'[g] = tx[g]
          /\ hpc'[h] = "update" /\ tx'[h].event.id = requests'
      BY <2>4, <2>t DEF AssignRead, Arrive, Step, Hands
    <3>2. Sent' = Sent /\ requests' \notin committed
      BY <2>t, <3>1, SameStream DEF Matched
    <3>3. ASSUME NEW g \in Handlers PROVE Numbered(g)'
      BY <2>t, <3>1, <3>2 DEF Matched, Numbered
    <3>4. EventsMatchCommits'
      BY <3>1 DEF Matched, EventsMatchCommits
    <3>5. \A r \in committed' : r <= requests'
      BY <2>t, <3>1 DEF Matched, Typed, TypeOK
    <3>6. \A f, g \in Handlers : f # g /\ hpc'[f] # "idle" /\ hpc'[g] # "idle" =>
                                tx'[f].event.id # tx'[g].event.id
      BY <2>t, <3>1 DEF Matched, Numbered
    <3>. QED
      BY <3>3, <3>4, <3>5, <3>6 DEF Matched
  <2>5. ASSUME NEW h \in Handlers, AssignUpdate(h) PROVE Matched'
    <3>1. /\ UNCHANGED <<stream, committed, requests, unsent>> /\ hpc[h] = "update"
          /\ \A g \in Handlers \ {h} : hpc'[g] = hpc[g] /\ tx'[g] = tx[g]
          /\ hpc'[h] = "idle" \/ (hpc'[h] = "commit" /\ tx'[h] = tx[h])
      BY <2>5, <2>t DEF AssignUpdate, Step, Hands
    <3>. QED
      BY <2>t, <3>1, FrameMatched
  <2>6. ASSUME NEW h \in Handlers, AssignCommit(h) PROVE Matched'
    <3>1. PICK n \in Nat : n = tx[h].event.id /\ hpc[h] = "commit"
      BY <2>6, <2>t DEF AssignCommit
    <3>2. /\ UNCHANGED <<stream, requests>> /\ unsent \subseteq unsent'
          /\ \A g \in Handlers \ {h} : hpc'[g] = hpc[g] /\ tx'[g] = tx[g]
          /\ \/ hpc'[h] = "publish" /\ tx'[h] = tx[h] /\ committed' = committed \cup {n}
             \/ hpc'[h] = "idle" /\ committed' = committed \cup {n} /\ n \in unsent'
             \/ hpc'[h] = "idle" /\ committed' = committed
      BY <2>6, <2>t, <3>1 DEF AssignCommit, Step, Hands
    <3>3. Sent' = Sent /\ n \notin committed /\ n <= requests /\ Sent \subseteq committed
      BY <3>1, <3>2, SameStream DEF Matched, Numbered, EventsMatchCommits, Sent
    <3>4. ASSUME NEW g \in Handlers PROVE Numbered(g)'
      BY <2>t, <3>1, <3>2, <3>3 DEF Matched, Numbered, Hands, Steps
    <3>5. EventsMatchCommits'
      BY <3>1, <3>2 DEF Matched, EventsMatchCommits
    <3>6. \A f, g \in Handlers : f # g /\ hpc'[f] # "idle" /\ hpc'[g] # "idle" =>
                                tx'[f].event.id # tx'[g].event.id
      BY <3>1, <3>2 DEF Matched
    <3>. QED
      BY <3>2, <3>3, <3>4, <3>5, <3>6 DEF Matched
  <2>7. ASSUME NEW h \in Handlers, Publish(h) \/ PublishFails(h) PROVE Matched'
    <3>1. PICK ev \in Event : ev = tx[h].event /\ hpc[h] = "publish"
      BY <2>7, <2>t DEF Publish, PublishFails
    <3>2. /\ UNCHANGED <<requests, committed>> /\ unsent \subseteq unsent' /\ hpc'[h] = "idle"
          /\ stream' = Append(stream, ev) \/ (stream' = stream /\ ev.id \in unsent')
          /\ \A g \in Handlers \ {h} : \/ hpc'[g] = hpc[g] /\ tx'[g] = tx[g]
                                       \/ /\ hpc'[g] = "idle"
                                          /\ hpc[g] = "publish" => tx[g].event.id \in unsent'
      BY <2>7, <2>t, <3>1 DEF Publish, PublishFails, Stop, Step, Hands
    <3>3. /\ \A i \in DOMAIN stream : i \in DOMAIN stream' /\ stream'[i] = stream[i]
          /\ \A i \in DOMAIN stream' : i \in DOMAIN stream \/ stream'[i] = ev
          /\ \A i, j \in DOMAIN stream' :
               i \notin DOMAIN stream /\ j \notin DOMAIN stream => i = j
          /\ stream' = stream \/ \E i \in DOMAIN stream' : stream'[i] = ev
      BY <2>t, <3>2
    <3>4. /\ ev.id \in committed /\ ev.id \notin Sent /\ Sent' \subseteq Sent \cup {ev.id}
      <4>1. ev.id \in committed /\ ev.id \notin Sent
        BY <3>1 DEF Matched, Numbered
      <4>2. Sent' \subseteq Sent \cup {ev.id}
        BY <3>3 DEF Sent
      <4>. QED
        BY <4>1, <4>2
    <3>5. ASSUME NEW g \in Handlers PROVE Numbered(g)'
      <4>1. CASE hpc'[g] = "idle"
        BY <4>1 DEF Numbered
      <4>2. CASE hpc'[g] # "idle"
        <5>1. g # h /\ hpc'[g] = hpc[g] /\ tx'[g] = tx[g] /\ tx[g].event.id # ev.id
          BY <3>1, <3>2, <4>2 DEF Matched
        <5>. QED
          BY <3>2, <3>4, <5>1 DEF Matched, Numbered
      <4>. QED
        BY <4>1, <4>2
    <3>6. EventsMatchCommits'
      <4>1. \A i \in DOMAIN stream' : stream'[i].id \in committed'
        BY <3>2, <3>3, <3>4 DEF Matched, EventsMatchCommits
      <4>2. \A i, j \in DOMAIN stream' : stream'[i].id = stream'[j].id => i = j
        BY <3>3, <3>4 DEF Matched, EventsMatchCommits, Sent
      <4>3. ASSUME NEW r \in committed'
            PROVE  \/ \E i \in DOMAIN stream' : stream'[i].id = r
                   \/ \E g \in Handlers : hpc'[g] = "publish" /\ tx'[g].event.id = r
                   \/ r \in unsent'
        <5>1. CASE r = ev.id
          BY <3>2, <3>3, <5>1
        <5>2. CASE r # ev.id
          BY <3>1, <3>2, <3>3, <5>2 DEF Matched, EventsMatchCommits
        <5>. QED
          BY <5>1, <5>2
      <4>. QED
        BY <4>1, <4>2, <4>3 DEF EventsMatchCommits
    <3>. QED
      BY <3>2, <3>5, <3>6 DEF Matched
  <2>. QED
    BY <2>1, <2>2, <2>3, <2>4, <2>5, <2>6, <2>7 DEF TicketNext, Local, Request
<1>3. Matched => EventsMatchCommits
  BY DEF Matched
<1>. QED
  BY <1>1, <1>2, <1>3, AlwaysTyped, PTL DEF TicketSpec

-----------------------------------------------------------------------------
(* The list of watchers stays sound.                                         *)

(* All admins are listed, and nobody is twice but an admin who comes first.  *)
SoundList(list) ==
  /\ Len(list) > 0
  /\ \A u \in Admins : IsIn(u, list)
  /\ \A i, j \in DOMAIN list :
       list[i] = list[j] =>
         i = j \/ (list[i] = list[1] /\ list[1] \in Admins /\ (i = 1 \/ j = 1))

LEMMA SoundOccurs ==
  ASSUME NEW list \in Seq(Users), SoundList(list), NEW u
  PROVE  Occurrences(u, list) <= IF u = list[1] /\ u \in Admins THEN 2 ELSE 1
  <1> DEFINE P == {i \in DOMAIN list : list[i] = u}
  <1>0. Occurrences(u, list) = Cardinality(P)
    BY DEF Occurrences
  <1> HIDE DEF P
  <1>p. \A i : i \in P <=> i \in DOMAIN list /\ list[i] = u
    BY DEF P
  <1>1. CASE P = {}
    <2>1. Cardinality(P) = 0
      BY <1>1, FS_EmptySet
    <2>. QED
      BY <1>0, <2>1
  <1>2. CASE P # {}
    <2>1. PICK i \in P : i = 1 \/ 1 \notin P
      BY <1>2
    <2>2. CASE \A j \in P : j = i
      <3>1. P = {i}
        BY <2>2
      <3>2. Cardinality(P) = 1
        BY <3>1, FS_Singleton
      <3>. QED
        BY <1>0, <3>2
    <2>3. CASE \E j \in P : j # i
      <3>1. PICK j \in P : j # i
        BY <2>3
      <3>2. i = 1 /\ u = list[1] /\ u \in Admins
        BY <1>p, <2>1, <3>1 DEF SoundList
      <3>3. \A k \in P : k = 1 \/ k = j
        BY <1>p, <3>1, <3>2 DEF SoundList
      <3>4. P = {1} \cup {j}
        BY <3>1, <3>2, <3>3
      <3>5. Cardinality(P) = 2
        <4>1. IsFiniteSet({1}) /\ Cardinality({1}) = 1 /\ j \notin {1}
          BY <3>1, <3>2, FS_Singleton
        <4>2. Cardinality({1} \cup {j}) = Cardinality({1}) + 1
          BY <4>1, FS_AddElement
        <4>3. Cardinality(P) = Cardinality({1}) + 1
          BY ONLY <3>4, <4>2, Zenon
        <4>. QED
          BY ONLY <4>1, <4>3
      <3>. QED
        BY <1>0, <3>2, <3>5
    <2>. QED
      BY <2>2, <2>3
  <1>. QED
    BY <1>1, <1>2

LEMMA AddsSound ==
  ASSUME NEW list \in Seq(Users), SoundList(list), NEW u \in Users \cup {NoOne}
  PROVE  SoundList(AddIfAbsent(list, u))
  <1>1. CASE u = NoOne \/ IsIn(u, list)
    BY <1>1 DEF AddIfAbsent
  <1>2. CASE u # NoOne /\ ~IsIn(u, list)
    <2> DEFINE n == Len(list)
               longer == Append(list, u)
    <2>1. AddIfAbsent(list, u) = longer
      BY <1>2 DEF AddIfAbsent
    <2>2. /\ n \in Nat /\ DOMAIN list = 1 .. n
          /\ DOMAIN longer = 1 .. n + 1 /\ Len(longer) = n + 1 /\ longer[n + 1] = u
          /\ \A i \in 1 .. n : longer[i] = list[i] /\ list[i] # u
      BY <1>2 DEF IsIn
    <2>3. n > 0 /\ longer[1] = list[1]
      BY <2>2 DEF SoundList
    <2> HIDE DEF longer, n
    <2>4. \A v \in Admins : IsIn(v, longer)
      BY <2>2 DEF SoundList, IsIn
    <2>5. ASSUME NEW i \in DOMAIN longer, NEW j \in DOMAIN longer, longer[i] = longer[j], i # j
          PROVE  longer[i] = longer[1] /\ longer[1] \in Admins /\ (i = 1 \/ j = 1)
      <3>1. i \in 1 .. n /\ j \in 1 .. n
        BY <2>2, <2>5
      <3>. QED
        BY <2>2, <2>3, <2>5, <3>1 DEF SoundList
    <2>. QED
      BY <2>1, <2>2, <2>3, <2>4, <2>5 DEF SoundList
  <1>. QED
    BY <1>1, <1>2

LEMMA AssigneeSound ==
  ASSUME NEW list \in Seq(Users), SoundList(list), NEW e \in Employees
  PROVE  SoundList(WithAssignee(list, e))
  <1>1. e \in Users \cup {NoOne} /\ ManagerOf[e] \in Users \cup {NoOne}
    BY RolesAssumption DEF Users
  <1> DEFINE l == AddIfAbsent(list, e)
  <1>2. l \in Seq(Users) /\ SoundList(l)
    BY <1>1, AddsOne, AddsSound
  <1> HIDE DEF l
  <1>3. SoundList(AddIfAbsent(l, ManagerOf[e]))
    BY <1>1, <1>2, AddsSound
  <1>. QED
    BY <1>3 DEF WithAssignee, l

LEMMA FirstSound ==
  ASSUME NEW u \in Users
  PROVE  SoundList(FirstWatchers(u))
  <1> DEFINE n == Cardinality(Admins)
             a == SetToSeq(Admins)
             first == <<u>> \o a
  <1>1. n \in Nat /\ ExistsBijection(1 .. n, Admins)
    BY RolesAssumption, FS_CardinalityType
  <1>2. \E f \in [1 .. n -> Admins] : IsInjective(f)
    BY <1>1 DEF ExistsBijection, Bijection, Injection
  <1>3. a \in [1 .. n -> Admins] /\ IsInjective(a)
    BY <1>2 DEF SetToSeq
  <1> HIDE DEF a
  <1>4. a \in Surjection(1 .. n, Admins)
    <2>1. a \in Injection(1 .. n, Admins)
      BY <1>3 DEF Injection
    <2>2. Cardinality(1 .. n) = n
      BY <1>1, FS_Interval
    <2>. QED
      BY <2>1, <2>2, FS_Injection, RolesAssumption
  <1>5. \A v \in Admins : \E i \in 1 .. n : a[i] = v
    BY <1>4 DEF Surjection
  <1>6. a \in Seq(Users) /\ Len(a) = n
    BY <1>1, <1>3, RolesAssumption, SeqDef DEF Users
  <1>7. /\ DOMAIN first = 1 .. n + 1 /\ Len(first) = n + 1
        /\ first[1] = u /\ \A i \in 1 .. n : first[i + 1] = a[i]
    BY <1>1, <1>6
  <1> HIDE DEF first, n
  <1>8. \A v \in Admins : IsIn(v, first)
    BY <1>1, <1>5, <1>7 DEF IsIn
  <1>9. ASSUME NEW i \in DOMAIN first, NEW j \in DOMAIN first, first[i] = first[j], i # j
        PROVE  first[i] = first[1] /\ first[1] \in Admins /\ (i = 1 \/ j = 1)
    <2>1. \A k \in 1 .. n + 1 : k # 1 =>
            k - 1 \in 1 .. n /\ first[k] = a[k - 1] /\ a[k - 1] \in Admins
      BY <1>1, <1>3, <1>7
    <2>2. i = 1 \/ j = 1
      <3>1. i # 1 /\ j # 1 => a[i - 1] = a[j - 1] /\ i - 1 \in 1 .. n /\ j - 1 \in 1 .. n
        BY <1>7, <1>9, <2>1
      <3>2. i # 1 /\ j # 1 => i - 1 = j - 1
        BY <1>3, <3>1 DEF IsInjective
      <3>. QED
        BY <1>1, <1>7, <1>9, <3>2
    <2>. QED
      BY <1>7, <1>9, <2>1, <2>2
  <1>10. SoundList(first)
    BY <1>1, <1>7, <1>8, <1>9 DEF SoundList
  <1>. QED
    BY <1>10 DEF FirstWatchers, first, a

(* Why WatchersStaySound holds: an assignment adds to the list it has read,  *)
(* which may be an old one, and was sound when it was read.                  *)
SoundLists ==
  /\ \A t \in Tickets : row[t] # NoRow => SoundList(row[t].watchers)
  /\ \A h \in Handlers : hpc[h] \in {"update", "commit"} => SoundList(tx[h].read.watchers)

LEMMA FrameSound ==
  ASSUME SoundLists,
         \A t \in Tickets : row'[t] = row[t] \/ SoundList(row'[t].watchers),
         \A g \in Handlers : hpc'[g] \in {"update", "commit"} =>
           \/ hpc[g] \in {"update", "commit"} /\ tx'[g] = tx[g]
           \/ SoundList(tx'[g].read.watchers)
  PROVE  SoundLists'
  BY DEF SoundLists

(* Every step of the handlers keeps it.                                      *)
LEMMA SoundStep ==
  ASSUME Typed, SoundLists, [TicketNext]_ticketVars
  PROVE  SoundLists'
  <1> USE DEF dbVars, historyVars
  <1>t. Store /\ Hands /\ Rows /\ \A h \in Handlers : Busy(h)
    BY TypeParts DEF Typed
  <1>1. CASE UNCHANGED ticketVars \/ Boot
    BY <1>1, FrameSound DEF ticketVars, Boot
  <1>2. CASE Crash
    BY <1>2, FrameSound DEF Crash, Stop
  <1>3. ASSUME NEW h \in Handlers, NEW t \in Tickets, CreateTicket(h, t) PROVE SoundLists'
    <2>1. PICK u \in Users :
            /\ row'[t].watchers = FirstWatchers(u)
            /\ \A k \in Tickets \ {t} : row'[k] = row[k]
      BY <1>3, <1>t DEF CreateTicket, Rows
    <2>2. SoundList(row'[t].watchers)
      BY <2>1, FirstSound
    <2>3. \A g \in Handlers : hpc'[g] \in {"update", "commit"} =>
            hpc[g] \in {"update", "commit"} /\ tx'[g] = tx[g]
      BY <1>3, <1>t DEF CreateTicket, Arrive, Step, Hands
    <2>. QED
      BY <2>1, <2>2, <2>3, FrameSound
  <1>4. ASSUME NEW h \in Handlers, NEW t \in Tickets, AssignRead(h, t) PROVE SoundLists'
    <2>1. /\ UNCHANGED row /\ tx'[h].read = row[t] /\ row[t] # NoRow
          /\ \A g \in Handlers \ {h} : hpc'[g] = hpc[g] /\ tx'[g] = tx[g]
      BY <1>4, <1>t DEF AssignRead, Step, Hands
    <2>2. SoundList(tx'[h].read.watchers)
      BY <2>1 DEF SoundLists
    <2>. QED
      BY <2>1, <2>2, FrameSound
  <1>5. ASSUME NEW h \in Handlers, AssignUpdate(h) PROVE SoundLists'
    <2>1. /\ UNCHANGED row /\ hpc[h] = "update"
          /\ hpc'[h] = "idle" \/ tx'[h] = tx[h]
          /\ \A g \in Handlers \ {h} : hpc'[g] = hpc[g] /\ tx'[g] = tx[g]
      BY <1>5, <1>t DEF AssignUpdate, Step, Hands
    <2>. QED
      BY <2>1, FrameSound
  <1>6. ASSUME NEW h \in Handlers, AssignCommit(h) PROVE SoundLists'
    <2>1. PICK t \in Tickets, e \in Employees, w \in Seq(Users) :
            /\ t = tx[h].event.ticket /\ e = tx[h].event.to /\ row[t] \in Row
            /\ w = WithAssignee(tx[h].read.watchers, e) /\ SoundList(w)
      <3>1. /\ tx[h].event.ticket \in Tickets /\ tx[h].event.to \in Employees
            /\ row[tx[h].event.ticket] \in Row /\ tx[h].read.watchers \in Seq(Users)
            /\ hpc[h] = "commit"
        BY <1>6, <1>t DEF AssignCommit, Busy, Event, Rows, Row
      <3>2. SoundList(tx[h].read.watchers)
        BY <3>1 DEF SoundLists
      <3>. QED
        BY <3>1, <3>2, AddsAssignee, AssigneeSound
    <2>2. /\ hpc'[h] \notin {"update", "commit"}
          /\ \A g \in Handlers \ {h} : hpc'[g] = hpc[g] /\ tx'[g] = tx[g]
      BY <1>6, <1>t DEF AssignCommit, Step, Hands
    <2>3. \/ UNCHANGED row
          \/ row' = [row EXCEPT ![t] = [@ EXCEPT !.assignee = e, !.team = TeamOf[e],
                                       !.watchers = w]]
      BY <1>6, <2>1 DEF AssignCommit
    <2>4. \A k \in Tickets : row'[k] = row[k] \/ SoundList(row'[k].watchers)
      <3>1. CASE UNCHANGED row
        BY <3>1
      <3>2. CASE ~UNCHANGED row
        <4>1. PICK r \in Row : r = [row[t] EXCEPT !.assignee = e, !.team = TeamOf[e],
                                                 !.watchers = w]
          BY <2>1, RowAssigned
        <4>2. /\ row'[t] = r /\ r.watchers = w
              /\ \A k \in Tickets \ {t} : row'[k] = row[k]
          BY <1>t, <2>1, <2>3, <3>2, <4>1 DEF Rows, Row
        <4>. QED
          BY <2>1, <4>2
      <3>. QED
        BY <3>1, <3>2
    <2>. QED
      BY <2>2, <2>4, FrameSound
  <1>7. ASSUME NEW h \in Handlers, Publish(h) \/ PublishFails(h) PROVE SoundLists'
    <2>1. UNCHANGED row
      BY <1>7 DEF Publish, PublishFails
    <2>2. \A g \in Handlers : hpc'[g] \in {"update", "commit"} =>
            hpc[g] \in {"update", "commit"} /\ tx'[g] = tx[g]
      BY <1>7, <1>t DEF Publish, PublishFails, Step, Stop, Hands
    <2>. QED
      BY <2>1, <2>2, FrameSound
  <1>. QED
    BY <1>1, <1>2, <1>3, <1>4, <1>5, <1>6, <1>7 DEF TicketNext, Local, Request

LEMMA SoundListsSay ==
  ASSUME Typed, SoundLists
  PROVE  WatchersStaySound
  <1> SUFFICES ASSUME NEW t \in Tickets, row[t] # NoRow
               PROVE  /\ \A u \in Admins : IsIn(u, row[t].watchers)
                      /\ \A u \in Users :
                           Occurrences(u, row[t].watchers) <=
                             IF u = row[t].watchers[1] /\ u \in Admins THEN 2 ELSE 1
    BY DEF WatchersStaySound
  <1>1. row[t].watchers \in Seq(Users) /\ SoundList(row[t].watchers)
    BY TypeParts DEF Typed, SoundLists, Rows, Row
  <1>2. \A u \in Admins : IsIn(u, row[t].watchers)
    BY <1>1 DEF SoundList
  <1>3. \A u \in Users : Occurrences(u, row[t].watchers) <=
                           IF u = row[t].watchers[1] /\ u \in Admins THEN 2 ELSE 1
    BY <1>1, SoundOccurs
  <1>. QED
    BY <1>2, <1>3

(* No assignment drops an admin from the watchers or lists anyone twice,     *)
(* whatever list it started from (CreateTicket, AssignTicket).               *)
THEOREM WatchersSound == TicketSpec => []WatchersStaySound
<1>1. TicketInit => SoundLists
  BY DEF TicketInit, SoundLists
<1>2. Typed /\ SoundLists /\ [TicketNext]_ticketVars => SoundLists'
  BY SoundStep
<1>3. Typed /\ SoundLists => WatchersStaySound
  BY SoundListsSay
<1>. QED
  BY <1>1, <1>2, <1>3, AlwaysTyped, PTL DEF TicketSpec

-----------------------------------------------------------------------------
(* What an assignment takes from a ticket.                                   *)

(* Why OnlyOverwritesLose holds: an assignment replaces the assignee it has  *)
(* read, and adds to the list it has read.                                   *)
Recalled ==
  \A h \in Handlers : hpc[h] \in {"update", "commit"} =>
    tx[h].event.was = tx[h].read.assignee

LEMMA KeepsListed ==
  ASSUME NEW list \in Seq(Users), NEW e \in Employees, NEW u, IsIn(u, list)
  PROVE  IsIn(u, WithAssignee(list, e))
  <1>1. e \in Users \cup {NoOne} /\ ManagerOf[e] \in Users \cup {NoOne}
    BY RolesAssumption DEF Users
  <1> DEFINE l == AddIfAbsent(list, e)
  <1>2. l \in Seq(Users) /\ IsIn(u, l)
    BY <1>1, AddsOne
  <1> HIDE DEF l
  <1>3. IsIn(u, AddIfAbsent(l, ManagerOf[e]))
    BY <1>1, <1>2, AddsOne
  <1>. QED
    BY <1>3 DEF WithAssignee, l

LEMMA FrameRecalled ==
  ASSUME Recalled,
         \A g \in Handlers : hpc'[g] \in {"update", "commit"} =>
           \/ hpc[g] \in {"update", "commit"} /\ tx'[g] = tx[g]
           \/ tx'[g].event.was = tx'[g].read.assignee
  PROVE  Recalled'
  BY DEF Recalled

LEMMA RecalledStep ==
  ASSUME Typed, Recalled, [TicketNext]_ticketVars
  PROVE  Recalled'
  <1>t. Hands
    BY TypeParts DEF Typed
  <1>1. CASE UNCHANGED ticketVars \/ Boot \/ Crash
    BY <1>1, FrameRecalled DEF ticketVars, Boot, Crash, Stop
  <1>2. ASSUME NEW h \in Handlers, NEW t \in Tickets, CreateTicket(h, t) PROVE Recalled'
    <2>1. /\ hpc'[h] \notin {"update", "commit"}
          /\ \A g \in Handlers \ {h} : hpc'[g] = hpc[g] /\ tx'[g] = tx[g]
      BY <1>2, <1>t DEF CreateTicket, Arrive, Step, Hands
    <2>. QED
      BY <2>1, FrameRecalled
  <1>3. ASSUME NEW h \in Handlers, NEW t \in Tickets, AssignRead(h, t) PROVE Recalled'
    <2>1. /\ tx'[h].event.was = tx'[h].read.assignee
          /\ \A g \in Handlers \ {h} : hpc'[g] = hpc[g] /\ tx'[g] = tx[g]
      BY <1>3, <1>t DEF AssignRead, Step, Hands
    <2>. QED
      BY <2>1, FrameRecalled
  <1>4. ASSUME NEW h \in Handlers, AssignUpdate(h) PROVE Recalled'
    <2>1. /\ hpc[h] = "update" /\ (hpc'[h] = "idle" \/ tx'[h] = tx[h])
          /\ \A g \in Handlers \ {h} : hpc'[g] = hpc[g] /\ tx'[g] = tx[g]
      BY <1>4, <1>t DEF AssignUpdate, Step, Hands
    <2>. QED
      BY <2>1, FrameRecalled
  <1>5. ASSUME NEW h \in Handlers, AssignCommit(h) PROVE Recalled'
    <2>1. /\ hpc'[h] \notin {"update", "commit"}
          /\ \A g \in Handlers \ {h} : hpc'[g] = hpc[g] /\ tx'[g] = tx[g]
      BY <1>5, <1>t DEF AssignCommit, Step, Hands
    <2>. QED
      BY <2>1, FrameRecalled
  <1>6. ASSUME NEW h \in Handlers, Publish(h) \/ PublishFails(h) PROVE Recalled'
    <2>1. \A g \in Handlers : hpc'[g] \in {"update", "commit"} =>
            hpc[g] \in {"update", "commit"} /\ tx'[g] = tx[g]
      BY <1>6, <1>t DEF Publish, PublishFails, Step, Stop, Hands
    <2>. QED
      BY <2>1, FrameRecalled
  <1>. QED
    BY <1>1, <1>2, <1>3, <1>4, <1>5, <1>6 DEF TicketNext, Local, Request

(* A step that makes no row of another, nor commits an assignment.           *)
LEMMA FrameLoses ==
  ASSUME NEW t \in Tickets, row'[t] = row[t] \/ row[t] = NoRow,
         \A h \in Handlers : ~(hpc[h] = "commit" /\ hpc'[h] = "publish")
  PROVE  LosesNothing(t)
  BY DEF LosesNothing

LEMMA CommitLoses ==
  ASSUME Typed, Recalled, NEW h \in Handlers, AssignCommit(h),
         NEW t \in Tickets, t \notin overwritten'
  PROVE  LosesNothing(t)
  <1>t. Hands /\ Rows /\ Busy(h)
    BY TypeParts DEF Typed
  <1>1. PICK x \in Txs, e \in Employees :
          /\ x = tx[h] /\ e = x.event.to /\ x.event.ticket \in Tickets
          /\ row[x.event.ticket] \in Row /\ x.read \in Row
          /\ x.event.was = x.read.assignee /\ hpc[h] = "commit"
    BY <1>t DEF AssignCommit, Hands, Rows, Busy, Event, Recalled
  <1>2. \A g \in Handlers \ {h} : hpc'[g] = hpc[g]
    BY <1>t DEF AssignCommit, Step, Hands
  <1>3. CASE t # x.event.ticket
    <2>1. row'[t] = row[t]
      BY <1>1, <1>3, <1>t DEF AssignCommit, Rows, historyVars
    <2>. QED
      BY <1>1, <1>2, <1>3, <2>1 DEF LosesNothing
  <1>4. CASE t = x.event.ticket /\ UNCHANGED row /\ hpc'[h] # "publish"
    BY <1>1, <1>2, <1>4 DEF LosesNothing
  <1>5. CASE t = x.event.ticket /\ ~(UNCHANGED row /\ hpc'[h] # "publish")
    <2>1. /\ row' = [row EXCEPT ![t].assignee = e, ![t].team = TeamOf[e],
                               ![t].watchers = WithAssignee(x.read.watchers, e)]
          /\ row[t] = x.read
      BY <1>1, <1>5, <1>t DEF AssignCommit, historyVars, Step, Hands
    <2>2. row'[t].watchers = WithAssignee(row[t].watchers, e)
      BY <1>1, <1>5, <1>t, <2>1 DEF Rows, Row
    <2>3. row[t].watchers \in Seq(Users)
      BY <1>1, <1>5 DEF Row
    <2>4. \A u : IsIn(u, row[t].watchers) => IsIn(u, row'[t].watchers)
      BY <2>2, <2>3, KeepsListed
    <2>5. row[t].assignee = tx[h].event.was
      BY <1>1, <2>1
    <2>. QED
      BY <1>2, <2>4, <2>5 DEF LosesNothing
  <1>. QED
    BY <1>3, <1>4, <1>5

LEMMA LosesStep ==
  ASSUME Typed, Recalled, TicketNext, NEW t \in Tickets, t \notin overwritten'
  PROVE  LosesNothing(t)
  <1> USE DEF dbVars
  <1>t. Hands /\ Rows
    BY TypeParts DEF Typed
  <1>1. CASE Boot \/ Crash
    BY <1>1, FrameLoses DEF Boot, Crash, Stop
  <1>2. ASSUME NEW h \in Handlers, NEW k \in Tickets, CreateTicket(h, k)
        PROVE  LosesNothing(t)
    <2>1. row'[t] = row[t] \/ row[t] = NoRow
      BY <1>2, <1>t DEF CreateTicket, Rows
    <2>2. hpc[h] = "idle" /\ \A g \in Handlers \ {h} : hpc'[g] = hpc[g]
      BY <1>2, <1>t DEF CreateTicket, Arrive, Step, Hands
    <2>. QED
      BY <2>1, <2>2, FrameLoses
  <1>3. ASSUME NEW h \in Handlers,
               (\E k \in Tickets : AssignRead(h, k)) \/ AssignUpdate(h)
        PROVE  LosesNothing(t)
    <2>1. /\ UNCHANGED row /\ hpc[h] # "commit"
          /\ \A g \in Handlers \ {h} : hpc'[g] = hpc[g]
      BY <1>3, <1>t DEF AssignRead, Arrive, AssignUpdate, Step, Hands
    <2>. QED
      BY <2>1, FrameLoses
  <1>4. ASSUME NEW h \in Handlers, Publish(h) \/ PublishFails(h)
        PROVE  LosesNothing(t)
    <2>1. UNCHANGED row /\ \A g \in Handlers : hpc'[g] \in {"idle", hpc[g]}
      BY <1>4, <1>t DEF Publish, PublishFails, Step, Stop, Hands
    <2>. QED
      BY <2>1, FrameLoses
  <1>. QED
    BY <1>1, <1>2, <1>3, <1>4, CommitLoses DEF TicketNext, Local, Request

(* No watcher is dropped from a ticket, and no event misnames the previous   *)
(* assignee, but by a commit that overwrites a row it has not read           *)
(* (AssignTicket).                                                           *)
THEOREM OverlapsOnlyLose == TicketSpec => OnlyOverwritesLose
<1>1. TicketInit => Recalled
  BY DEF TicketInit, Recalled
<1>2. Typed /\ Recalled /\ [TicketNext]_ticketVars => Recalled'
  BY RecalledStep
<1>3. Typed /\ Recalled /\ [TicketNext]_ticketVars =>
        [\A t \in Tickets \ overwritten' : LosesNothing(t)]_ticketVars
  BY LosesStep
<1>. QED
  BY <1>1, <1>2, <1>3, AlwaysTyped, PTL DEF TicketSpec, OnlyOverwritesLose

===============================================================================
