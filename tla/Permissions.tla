----------------------------- MODULE Permissions -----------------------------
(* Permissions: rbacMiddleware, the gate of the routes of a ticket, and the  *)
(* two caches it reads through: who created a ticket, which never changes    *)
(* (cache/redis.go), and whether a role may do something, which an operator  *)
(* changes in SQL at any time.                                               *)
(* A definition whose comment begins with "Mutant" is a faulty variant of    *)
(* the one after it; the specification does not use it.                      *)
EXTENDS Sessions

CONSTANTS Actions,           \* of the routes: "assign", "reminder", ...
          Roles, RoleOf,     \* the role of each user
          CustomerRole,      \* the role whose id is "customer"
          Tickets, CreatedBy,
          NoWish,            \* no ticket asked for
          CacheLife,         \* ten minutes
          MaxChanges         \* bound: changes to the table of permissions

Grants == [role : Roles, action : Actions]
Wishes == [ticket : Tickets, action : Actions]

ASSUME GateAssumption ==
  /\ Actions \subseteq {"assign", "reminder", "cancel_reminder", "snooze_reminder"}
  /\ RoleOf \in [Users -> Roles] /\ CreatedBy \in [Tickets -> Users]
  /\ NoWish \notin Wishes
  /\ CacheLife \in Nat \ {0} /\ MaxChanges \in Nat

VARIABLES
  granted,           \* role_permissions, joined with permissions
  permKey, permYes,  \* the keys "permission:...", and those that say "1"
  ownerKey,          \* the keys "ticket:owner:..."
  wish, has,         \* per handler: what is asked for; what HasPermission said
  changes,           \* the counter its bound applies to
  lacked,            \* history: the handlers whose request was not allowed when
                     \* it reached the gate, or at some time since
  unread,            \* history: those for which GetTicketOwner failed
  heldTo,            \* history: the time after a grant was last revoked, or 0
  late               \* history: grants revoked between the read and the caching

grantVars == <<granted, changes, heldTo>>
keyVars == <<permKey, permYes, late, ownerKey>>
gateVars == <<grantVars, keyVars, wish, has, lacked, unread>>

GateInit ==
  /\ granted \in SUBSET Grants /\ changes = 0
  /\ permKey = NoKeys(Grants) /\ permYes = {} /\ ownerKey = NoKeys(Tickets)
  /\ wish = [h \in Handlers |-> NoWish] /\ has = [h \in Handlers |-> FALSE]
  /\ lacked = {} /\ unread = {}
  /\ heldTo = [g \in Grants |-> 0] /\ late = {}

-----------------------------------------------------------------------------
Role(h) == RoleOf[tok[h].user]
Needed(h) == [role |-> Role(h), action |-> wish[h].action]
Owns(h) == CreatedBy[wish[h].ticket] = tok[h].user

(* What the tables say of user u and wish w.                                 *)
Allowed(u, w) ==
  /\ [role |-> RoleOf[u], action |-> w.action] \in granted
  /\ RoleOf[u] = CustomerRole => CreatedBy[w.ticket] = u

(* The steps of the gate leave the session and the table alone.              *)
GateRest == UNCHANGED <<now, session, lockVars, logins, requests, historyVars,
                        grantVars>>

(* With its answer, a handler is done with its wish.                         *)
Dismissed(h) ==
  IF pc'[h] = "idle"
  THEN /\ wish' = [wish EXCEPT ![h] = NoWish] /\ has' = [has EXCEPT ![h] = FALSE]
       /\ lacked' = lacked \ {h} /\ unread' = unread \ {h}
  ELSE UNCHANGED <<wish, has, lacked, unread>>

(* "in" is c.Next(): the handlers of the routes are modelled elsewhere.      *)
Proceed(h, step) ==
  (IF step = "in" THEN Answer(h) ELSE Goto(h, step)) /\ Dismissed(h)

Leave(h) == Answer(h) /\ Dismissed(h)

-----------------------------------------------------------------------------
GateRequest(h, t, w) ==
  /\ Request(h, t, w.action)
  /\ wish' = [wish EXCEPT ![h] = w]
  /\ lacked' = IF Allowed(t.user, w) THEN lacked ELSE lacked \cup {h}
  /\ UNCHANGED <<grantVars, keyVars, has, unread>>

(* err != nil || ticketOwner != userIDStr: an error is answered as a wrong   *)
(* owner is.                                                                 *)
OwnerUnknown(h) ==
  /\ Fault /\ Goto(h, "refused")
  /\ unread' = unread \cup {h} /\ UNCHANGED <<wish, has, lacked>>

(* A customer's ticket: GetTicketOwner reads the key, and without one asks   *)
(* the database.                                                             *)
GetOwner(h) ==
  /\ pc[h] = "gate" /\ Role(h) = CustomerRole
  /\ \/ /\ Reliable
        /\ Proceed(h, IF ~Found(ownerKey, wish[h].ticket) THEN "ownerRead"
                      ELSE IF Owns(h) THEN "permission" ELSE "refused")
     \/ OwnerUnknown(h)
  /\ GateRest /\ UNCHANGED keyVars

ReadOwner(h) ==
  /\ pc[h] = "ownerRead"
  /\ \/ Reliable /\ Proceed(h, "ownerSet")
     \/ OwnerUnknown(h)
  /\ GateRest /\ UNCHANGED keyVars

(* SetTicketOwner for 24 hours; its error is ignored.                        *)
SetOwner(h) ==
  /\ pc[h] = "ownerSet"
  /\ LET goesOn == Proceed(h, IF Owns(h) THEN "permission" ELSE "refused")
     IN  Call(ownerKey' = SetEx(ownerKey, wish[h].ticket, now + DayLength),
              UNCHANGED ownerKey, goesOn, goesOn)
  /\ GateRest /\ UNCHANGED <<permKey, permYes, late>>

CachedYes(h) == Found(permKey, Needed(h)) /\ Needed(h) \in permYes

(* Mutant: a cached "0" refuses.                                             *)
BelieveCache(h) ==
  IF CachedYes(h) THEN "in" ELSE IF Found(permKey, Needed(h)) THEN "refused" ELSE "permRead"

(* err == nil && cachedPermission: a cached "0" is not believed.             *)
AskCache(h) == IF CachedYes(h) THEN "in" ELSE "permRead"

AtPermission(h) == pc[h] = "permission" \/ (pc[h] = "gate" /\ Role(h) # CustomerRole)

(* Mutant: a hit gives the key another ten minutes.                          *)
GetPermissionRenewing(h) ==
  /\ AtPermission(h)
  /\ Reliable /\ Proceed(h, AskCache(h))
  /\ permKey' = IF CachedYes(h) THEN SetEx(permKey, Needed(h), now + CacheLife)
                ELSE permKey
  /\ GateRest /\ UNCHANGED <<permYes, late, ownerKey>>

(* After a failing GetBool the table is asked.                               *)
GetPermission(h) ==
  /\ AtPermission(h)
  /\ \/ Reliable /\ Proceed(h, AskCache(h))
     \/ Fault /\ Proceed(h, "permRead")
  /\ GateRest /\ UNCHANGED keyVars

(* This error is answered with 500, and not as a refusal.                    *)
HasPermission(h) ==
  /\ pc[h] = "permRead"
  /\ \/ /\ Reliable /\ Goto(h, "permSet")
        /\ has' = [has EXCEPT ![h] = Needed(h) \in granted]
        /\ UNCHANGED <<wish, lacked, unread>>
     \/ Fault /\ Leave(h)
  /\ GateRest /\ UNCHANGED keyVars

(* SetBool of what the table said, for ten minutes; its error is ignored.    *)
SetPermission(h) ==
  /\ pc[h] = "permSet"
  /\ LET g == Needed(h)
         goesOn == Proceed(h, IF has[h] THEN "in" ELSE "refused")
     IN  Call(/\ permKey' = SetEx(permKey, g, now + CacheLife)
              /\ permYes' = IF has[h] THEN permYes \cup {g} ELSE permYes \ {g}
              /\ late' = IF has[h] /\ g \notin granted THEN late \cup {g}
                         ELSE late \ {g},
              UNCHANGED <<permKey, permYes, late>>, goesOn, goesOn)
  /\ GateRest /\ UNCHANGED ownerKey

(* The 403 is written.                                                       *)
Refuse(h) ==
  /\ pc[h] = "refused" /\ Leave(h)
  /\ Reliable /\ GateRest /\ UNCHANGED keyVars

GateStep(h) ==
  \/ GetOwner(h) \/ ReadOwner(h) \/ SetOwner(h)
  \/ GetPermission(h) \/ HasPermission(h) \/ SetPermission(h) \/ Refuse(h)

-----------------------------------------------------------------------------
(* The operator, in SQL.                                                     *)

Grant(g) ==
  /\ g \notin granted /\ changes < MaxChanges /\ changes' = changes + 1
  /\ granted' = granted \cup {g} /\ late' = late \ {g}
  /\ UNCHANGED <<sessionVars, permKey, permYes, ownerKey, wish, has, lacked, unread,
                 heldTo>>

Revoke(g) ==
  /\ g \in granted /\ changes < MaxChanges /\ changes' = changes + 1
  /\ granted' = granted \ {g}
  /\ heldTo' = [heldTo EXCEPT ![g] = now + 1]
  /\ lacked' = lacked \cup {h \in Handlers : wish[h] # NoWish /\ Needed(h) = g}
  /\ UNCHANGED <<sessionVars, keyVars, wish, has, unread>>

GateTick ==
  /\ permKey' = Expire(permKey, now') /\ ownerKey' = Expire(ownerKey, now')
  /\ permYes' = {g \in permYes : Found(permKey', g)}
  /\ late' = late \cap permYes'
  /\ UNCHANGED <<grantVars, wish, has, lacked, unread>>

GateCrash ==
  /\ wish' = [h \in Handlers |-> NoWish] /\ has' = [h \in Handlers |-> FALSE]
  /\ lacked' = {} /\ unread' = {} /\ UNCHANGED <<grantVars, keyVars>>

-----------------------------------------------------------------------------
(* Properties.                                                               *)

GateTypeOK ==
  /\ granted \subseteq Grants /\ permKey \in [Grants -> Nat] /\ permYes \subseteq Grants
  /\ ownerKey \in [Tickets -> Nat] /\ wish \in [Handlers -> Wishes \cup {NoWish}]
  /\ has \in [Handlers -> BOOLEAN] /\ changes \in 0 .. MaxChanges
  /\ lacked \subseteq Handlers /\ unread \subseteq Handlers /\ heldTo \in [Grants -> Nat] /\ late \subseteq permYes

(* A permission that was revoked is forgotten ten minutes later, however     *)
(* often it is used in the meantime: a cached "1" that the table does not    *)
(* bear out any more dies within the life of a key since the revocation,     *)
(* unless the request that wrote it had read the table before (rbacMiddle-   *)
(* ware, SetBool).                                                           *)
RevokedIsForgotten ==
  \A g \in permYes \ granted :
    g \notin late => permKey[g] < heldTo[g] + CacheLife

(* A permission that was granted counts at once: a request gets a 403 only   *)
(* if the tables did not allow it at some time while it was under way, or if *)
(* its own lookup of the ticket's owner failed.  What other requests left in *)
(* a cache, a refusal or the traces of a failing call, refuses nobody, and   *)
(* neither does a failing GetBool, SetBool or SetTicketOwner (rbacMiddle-    *)
(* ware).                                                                    *)
RefusedForAReason ==
  \A h \in Handlers : pc[h] = "refused" => h \in lacked \cup unread

==============================================================================
