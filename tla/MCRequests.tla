------------------------------ MODULE MCRequests ------------------------------
(* Two days of three time units, a URL good for two of them: a request can   *)
(* straddle midnight, and an upload the end of its hour.  A customer with a  *)
(* ticket of her own, and an employee.                                       *)
EXTENDS Requests, TLC

CONSTANTS cam, eve, customer, employee

MCRoleOf == (cam :> customer) @@ (eve :> employee)
MCCreatedBy == [k \in Tickets |-> cam]

MCTraffic == {[routes |-> {"logout", "other"}, logins |-> 2],
              [routes |-> {"logout", "generate", "confirm"}, logins |-> 1],
              [routes |-> {"assign"}, logins |-> 1]}

MCSymmetry == Permutations(Handlers)

==============================================================================
