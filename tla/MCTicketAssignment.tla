-------------------------- MODULE MCTicketAssignment --------------------------
(* A company for TLC: ann is the admin, max manages eve, and uma, who has no *)
(* manager, is in a team of her own.  cam is a customer.                     *)
EXTENDS TicketAssignment, TLC

CONSTANTS ann, max, eve, uma, sales, support

MCTeamOf == ann :> sales @@ max :> sales @@ eve :> sales @@ uma :> support

MCManagerOf == ann :> NoOne @@ max :> NoOne @@ eve :> max @@ uma :> NoOne

MCSymmetry == Permutations(Handlers)

==============================================================================
