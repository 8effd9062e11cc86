--------------------------- MODULE MCEventConsumers ---------------------------
(* A company for TLC: max is admin and manager, eve's manager too; cam is a  *)
(* customer; nobody is a recipient that does not exist.                      *)
EXTENDS EventConsumers, TLC

CONSTANTS max, eve, sales

MCTeamOf == max :> sales @@ eve :> sales

MCManagerOf == max :> NoOne @@ eve :> max

MCSymmetry == Permutations(Handlers)

==============================================================================
