------------------------------ MODULE TicketData ------------------------------
(* Tickets, users and events: the table "tickets" of models/schemas and      *)
(* data.TicketEvent of data/payloads.go.                                     *)
EXTENDS Naturals, Sequences, FiniteSets, SequencesExt

CONSTANTS Tickets,
          Customers, Employees,
          Strangers,             \* names that are no user's, which a request may list
          Admins, Managers,      \* the employees with these roles
          Teams,
          TeamOf, ManagerOf,     \* the columns team_id and manager_id of employees
          NoOne                  \* the NULL of assigned_to and manager_id

ASSUME RolesAssumption ==
  /\ Customers \cap Employees = {} /\ NoOne \notin Customers \cup Employees
  /\ Strangers \cap (Customers \cup Employees) = {}
  /\ Admins \subseteq Employees /\ Managers \subseteq Employees
  /\ IsFiniteSet(Admins)
  /\ TeamOf \in [Employees -> Teams]
  /\ ManagerOf \in [Employees -> Employees \cup {NoOne}]

Users == Customers \cup Employees
Assignees == Employees \cup {NoOne}

(* The handlers only tell final statuses ("resolved", "closed") from others. *)
Statuses == {"open", "closed"}

Row == [status : Statuses, assignee : Assignees, team : Teams, watchers : Seq(Users)]
NoRow == [status |-> "none", assignee |-> NoOne]

Kinds == {"created", "assigned", "reassigned", "reminder"}

(* "was" is Ticket.AssignedTo, "to" is Changes.AssignedTo, and "listed" is   *)
(* ReminderDetails.Recipients; id stands for the ULID of the event.          *)
Event == [id : Nat, kind : Kinds, ticket : Tickets, was : Assignees, to : Assignees,
          listed : Seq(Users \cup Strangers)]

-----------------------------------------------------------------------------
(* The watchers column is a JSON list, so a user may be in it twice.         *)

IsIn(u, list) == \E i \in DOMAIN list : list[i] = u

Occurrences(u, list) == Cardinality({i \in DOMAIN list : list[i] = u})

(* Mutant: utils.Contains is not asked.                                      *)
AlwaysAdd(list, u) == IF u = NoOne THEN list ELSE Append(list, u)

(* Mutant: ManagerID.Valid is not asked.                                     *)
AddEvenNull(list, u) == IF IsIn(u, list) THEN list ELSE Append(list, u)

AddIfAbsent(list, u) ==
  IF u = NoOne \/ IsIn(u, list) THEN list ELSE Append(list, u)

(* CreateTicket: the creator and the admins, whoever the creator is.         *)
FirstWatchers(creator) == <<creator>> \o SetToSeq(Admins)

(* AssignTicket: the assignee and the manager of the assignee are added.     *)
WithAssignee(list, e) == AddIfAbsent(AddIfAbsent(list, e), ManagerOf[e])

==============================================================================
