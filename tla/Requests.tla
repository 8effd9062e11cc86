------------------------------- MODULE Requests -------------------------------
(* The routes of the HTTP server that are guarded by a session: logout, the  *)
(* uploads of module Attachments, and the routes of a ticket behind the gate *)
(* of module Permissions.  They share handlers, Redis, clock and process.    *)
EXTENDS Attachments, Permissions

CONSTANT Traffic     \* bounds: the routes, and the number of logins, that one
                     \* behaviour may use

VARIABLE traffic     \* those this behaviour uses

vars == <<sessionVars, uploadVars, gateVars, traffic>>

(* registerRoutes: the first step of each route behind authMiddleware.       *)
Routes == [logout   |-> "logoutGet", other  |-> "answer",
           generate |-> "presign",   confirm |-> "getId",
           assign   |-> "gate",      reminder |-> "gate",
           cancel_reminder |-> "gate", snooze_reminder |-> "gate"]

ASSUME TrafficAssumption ==
  Traffic \subseteq [routes : SUBSET DOMAIN Routes, logins : 0 .. MaxLogins]

Init ==
  /\ SessionInit /\ UploadInit /\ GateInit
  /\ traffic \in Traffic
  /\ traffic.routes \cap Actions = {} => granted = {}

NewRequest(h, t) ==
  \/ \E o \in traffic.routes \cap {"logout", "other"} :
       Request(h, t, o) /\ UNCHANGED <<uploadVars, gateVars>>
  \/ \E o \in traffic.routes \cap {"generate", "confirm"}, a \in Uploads :
       UploadRequest(h, t, o, a) /\ UNCHANGED gateVars
  \/ \E o \in traffic.routes \cap Actions, k \in Tickets :
       GateRequest(h, t, [ticket |-> k, action |-> o]) /\ UNCHANGED uploadVars

HandlerStep(h) ==
  \/ \E t \in held : NewRequest(h, t)
  \/ /\ SessionStep(h, Routes) /\ Settled(h) /\ Dismissed(h)
     /\ logins' <= traffic.logins
     /\ UNCHANGED <<storedVars, grantVars, keyVars>>
  \/ UploadStep(h) /\ UNCHANGED gateVars
  \/ GateStep(h) /\ UNCHANGED uploadVars

Environment ==
  \/ \E a \in Uploads : Upload(a) /\ UNCHANGED gateVars
  \/ /\ traffic.routes \cap Actions # {}
     /\ \E g \in Grants : Grant(g) \/ Revoke(g)
     /\ UNCHANGED uploadVars
  \/ SessionTick /\ UploadTick /\ GateTick
  \/ Crash /\ UploadCrash /\ GateCrash

Next ==
  /\ (\E h \in Handlers : HandlerStep(h)) \/ Environment
  /\ UNCHANGED traffic

Spec == Init /\ [][Next]_vars

SessionSteps == {"idle", "store", "unlock", "check", "measure", "renew",
                 "logoutGet", "logoutDelete"}
UploadSteps == {"presign", "setId", "setS3", "insert",
                "getId", "getS3", "update", "dropS3", "dropId"}
GateSteps == {"gate", "ownerRead", "ownerSet", "permission", "permRead", "permSet",
              "refused"}

Paths == {"logout", "other", "generate", "confirm"} \cup Actions

(* On the way to one of these routes.                                        *)
Arriving(h, routes) == pc[h] \in {"check", "measure", "renew"} /\ op[h] \in routes

(* The one type invariant of the modules of the HTTP server.                 *)
TypeOK ==
  /\ SessionTypeOK /\ UploadTypeOK /\ GateTypeOK /\ traffic \in Traffic
  /\ pc \in [Handlers -> SessionSteps \cup UploadSteps \cup GateSteps]
  /\ op \in [Handlers -> Paths \cup {"none", "login"}]
  /\ \A h \in Handlers :
       /\ tok[h] \in Tokens <=> pc[h] # "idle"
       /\ pc[h] \in {"check", "measure", "renew"} => op[h] \in Paths
       /\ att[h] \in Uploads <=>
            pc[h] \in UploadSteps \/ Arriving(h, {"generate", "confirm"})
       /\ wish[h] \in Wishes <=> pc[h] \in GateSteps \/ Arriving(h, Actions)

===============================================================================
