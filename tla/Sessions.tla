------------------------------- MODULE Sessions -------------------------------
(* Sessions: login and logout of handlers/auth.go, and authMiddleware, which *)
(* every protected request goes through.  A session is a Redis key named     *)
(* after the signature of a JWT; the expiry in the JWT itself is not read.   *)
(* The modules that model what a protected request does extend this one.     *)
(*                                                                           *)
(* The JWT is deterministic and dates its issue in seconds, so a token is a  *)
(* user and a time: two logins within a second give the same one.            *)
(*                                                                           *)
(* A login holds a Redis mutex of its user, which expires by itself, whether *)
(* or not the login is over.                                                 *)
(* A definition whose comment begins with "Mutant" is a faulty variant of    *)
(* the one after it; the specification does not use it.                      *)
EXTENDS RedisCache

CONSTANTS Users,
          Employees,     \* the users whose login lasts EmployeeDays
          Handlers,      \* the goroutines that serve requests
          NoToken,       \* no token in a handler's hand
          NoHandler,     \* nobody holds a mutex
          DayLength,     \* time units in a day
          EmployeeDays,  \* 7 in the code
          LockLife,      \* redis.lockExpiry
          MaxTime,       \* bound: the clock
          MaxLogins, MaxRequests,  \* bounds: logins, and protected requests
          MaxFaults      \* bound: failing calls and ends of the process

Times == 0 .. MaxTime
Tokens == [user : Users, issued : Times]

ASSUME SessionAssumption ==
  /\ Employees \subseteq Users
  /\ DayLength \in Nat \ {0, 1} /\ EmployeeDays \in Nat
  /\ LockLife \in Nat \ {0} /\ NoToken \notin Tokens
  /\ NoHandler \notin Handlers
  /\ MaxTime \in Nat /\ MaxLogins \in Nat /\ MaxRequests \in Nat /\ MaxFaults \in Nat

VARIABLES
  now,              \* the clock of all machines
  session,          \* the keys "jwt_sig:...", by token
  pc,               \* where each handler is
  tok,              \* the token of its request
  op,               \* the route of its request
  ttl,              \* the time to live it has computed
  mutex, mutexBy,   \* per user: when the login mutex expires, whose value it has
  until,            \* per handler: how long its mutex is good (Mutex.until)
  held,             \* the tokens that clients hold
  logins, requests, faults,  \* the counters the bounds apply to
  out,              \* history: tokens logged out, and not logged in since
  raced             \* history: those of out whose last logout overtook a renewal

counters == <<logins, requests, faults>>
historyVars == <<held, out, raced>>
lockVars == <<mutex, mutexBy, until>>
sessionVars == <<now, session, pc, tok, op, ttl, lockVars, counters, historyVars>>

-----------------------------------------------------------------------------
(* utils/utils.go.  The last time unit of a day begins at its 23:59:59.      *)

EndOfDay(t) == (t \div DayLength) * DayLength + DayLength - 1

ExpiryOf(u, t) ==
  IF u \in Employees THEN EndOfDay(t + EmployeeDays * DayLength) ELSE EndOfDay(t)

(* Mutant: a renewal is good for one time unit.                              *)
SlidingLife(t) == 1

(* Mutant: off by one, and below 0 in the last time unit of a day.           *)
OneLess(t) == EndOfDay(t) - t - 1

(* time.Until(utils.GetEndOfDayTime()).                                      *)
TimeLeft(t) == EndOfDay(t) - t

-----------------------------------------------------------------------------
SessionInit ==
  /\ now = 0 /\ session = NoKeys(Tokens)
  /\ pc = [h \in Handlers |-> "idle"] /\ tok = [h \in Handlers |-> NoToken]
  /\ op = [h \in Handlers |-> "none"] /\ ttl = [h \in Handlers |-> 0]
  /\ mutex = NoKeys(Users) /\ mutexBy = [u \in Users |-> NoHandler]
  /\ until = [h \in Handlers |-> 0]
  /\ held = {} /\ out = {} /\ raced = {}
  /\ logins = 0 /\ requests = 0 /\ faults = 0

(* The handler answers, and is free for another request.                     *)
Answer(h) ==
  /\ pc' = [pc EXCEPT ![h] = "idle"] /\ tok' = [tok EXCEPT ![h] = NoToken]
  /\ op' = [op EXCEPT ![h] = "none"] /\ ttl' = [ttl EXCEPT ![h] = 0]

Goto(h, step) == pc' = [pc EXCEPT ![h] = step] /\ UNCHANGED <<tok, op, ttl>>

(* Into the route, where what authMiddleware computed is not used any more.  *)
(* What a route does that is not modelled is no step: the handler answers.   *)
Enter(h, step) ==
  IF step = "answer" THEN Answer(h)
  ELSE /\ pc' = [pc EXCEPT ![h] = step] /\ UNCHANGED tok
       /\ op' = [op EXCEPT ![h] = "none"] /\ ttl' = [ttl EXCEPT ![h] = 0]

Reliable == UNCHANGED faults
Fault == faults < MaxFaults /\ faults' = faults + 1

(* A call that changes Redis or the database goes well and the handler goes  *)
(* on; or an error comes back, though the change may have been made.  What   *)
(* the request does then is "onError".                                       *)
Call(effect, noEffect, goesOn, onError) ==
  \/ Reliable /\ effect /\ goesOn
  \/ Fault /\ (effect \/ noEffect) /\ onError

-----------------------------------------------------------------------------
(* EmployeeLogin, CustomerLogin: the password is right; a refused login      *)
(* changes nothing.  LockContext tries again while another login has the     *)
(* mutex, and gives up after a while.                                        *)

Login(h, u) ==
  /\ pc[h] = "idle" /\ mutex[u] = Absent
  /\ logins < MaxLogins /\ logins' = logins + 1
  /\ \/ /\ Reliable
        /\ mutex' = SetEx(mutex, u, now + LockLife)
        /\ mutexBy' = [mutexBy EXCEPT ![u] = h]
        /\ until' = [until EXCEPT ![h] = now + LockLife]
        /\ pc' = [pc EXCEPT ![h] = "store"]
        /\ tok' = [tok EXCEPT ![h] = [user |-> u, issued |-> now]]
        /\ op' = [op EXCEPT ![h] = "login"]
        /\ ttl' = [ttl EXCEPT ![h] = ExpiryOf(u, now) - now]
     \/ /\ Fault
        /\ UNCHANGED <<pc, tok, op, ttl, until>>
        /\ \/ UNCHANGED <<mutex, mutexBy>>
           \/ /\ mutex' = SetEx(mutex, u, now + LockLife)
              /\ mutexBy' = [mutexBy EXCEPT ![u] = h]
  /\ UNCHANGED <<now, session, requests, historyVars>>

(* createAuthToken.  SETEX refuses a time to live of 0: in the last second   *)
(* of a day a customer cannot log in.                                        *)
StoreToken(h) ==
  /\ pc[h] = "store"
  /\ IF ttl[h] = 0
     THEN UNCHANGED <<session, historyVars, faults>>
     ELSE Call(/\ session' = SetEx(session, tok[h], now + ttl[h])
               /\ out' = out \ {tok[h]} /\ raced' = raced \ {tok[h]},
               UNCHANGED <<session, out, raced>>,
               held' = held \cup {tok[h]},
               UNCHANGED held)
  /\ pc' = [pc EXCEPT ![h] = "unlock"] /\ ttl' = [ttl EXCEPT ![h] = 0]
  /\ UNCHANGED <<now, tok, op, lockVars, logins, requests>>

(* Mutant: whatever value the mutex has.                                     *)
HasValue(h, u) == mutex[u] # Absent

(* redsync deletes the key of a mutex only if it has the value it wrote.     *)
HasMyValue(h, u) == mutexBy[u] = h

(* The deferred UnlockContext, whose error nobody looks at.                  *)
Unlock(h) ==
  /\ pc[h] = "unlock"
  /\ LET u == tok[h].user
         Release == /\ mutex' = Del(mutex, u)
                    /\ mutexBy' = [mutexBy EXCEPT ![u] = NoHandler]
     IN  IF HasMyValue(h, u)
         THEN Call(Release, UNCHANGED <<mutex, mutexBy>>, TRUE, TRUE)
         ELSE Reliable /\ UNCHANGED <<mutex, mutexBy>>
  /\ until' = [until EXCEPT ![h] = 0]
  /\ Answer(h)
  /\ UNCHANGED <<now, session, logins, requests, historyVars>>

-----------------------------------------------------------------------------
(* authMiddleware: read the key, verify the JWT, write the key again so that *)
(* it lasts to the end of the day.  Start[o] is the first step of route o.   *)

Request(h, t, o) ==
  /\ pc[h] = "idle" /\ requests < MaxRequests /\ t \in held
  /\ requests' = requests + 1
  /\ pc' = [pc EXCEPT ![h] = "check"] /\ tok' = [tok EXCEPT ![h] = t]
  /\ op' = [op EXCEPT ![h] = o]
  /\ UNCHANGED <<now, session, ttl, lockVars, logins, faults, historyVars>>

(* A failing Get is answered as a missing key is.                            *)
Check(h) ==
  /\ pc[h] = "check"
  /\ \/ Found(session, tok[h]) /\ Reliable /\ Goto(h, "measure")
     \/ ~Found(session, tok[h]) /\ Reliable /\ Answer(h)
     \/ Fault /\ Answer(h)
  /\ UNCHANGED <<now, session, lockVars, logins, requests, historyVars>>

Measure(h) ==
  /\ pc[h] = "measure"
  /\ ttl' = [ttl EXCEPT ![h] = TimeLeft(now)]
  /\ pc' = [pc EXCEPT ![h] = "renew"]
  /\ UNCHANGED <<now, session, tok, op, lockVars, counters, historyVars>>

(* If the key cannot be written the request ends: Abort skips the route.     *)
Renew(h, Start) ==
  /\ pc[h] = "renew"
  /\ IF ttl[h] = 0
     THEN UNCHANGED <<session, faults>> /\ Answer(h)
     ELSE Call(session' = SetEx(session, tok[h], now + ttl[h]),
               UNCHANGED session,
               Enter(h, Start[op[h]]),
               Answer(h))
  /\ UNCHANGED <<now, lockVars, logins, requests, historyVars>>

-----------------------------------------------------------------------------
(* Logout, itself behind authMiddleware.                                     *)

LogoutGet(h) ==
  /\ pc[h] = "logoutGet"
  /\ \/ Found(session, tok[h]) /\ Reliable /\ Goto(h, "logoutDelete")
     \/ ~Found(session, tok[h]) /\ Reliable /\ Answer(h)
     \/ Fault /\ Answer(h)
  /\ UNCHANGED <<now, session, lockVars, logins, requests, historyVars>>

(* The requests that have found the key of t and are to write it again.      *)
Renewing(t) == {h \in Handlers : tok[h] = t /\ pc[h] \in {"measure", "renew"}}

LogoutDelete(h) ==
  /\ pc[h] = "logoutDelete"
  /\ Call(/\ session' = Del(session, tok[h])
          /\ out' = out \cup {tok[h]}
          /\ raced' = IF Renewing(tok[h]) = {} THEN raced \ {tok[h]}
                      ELSE raced \cup {tok[h]},
          UNCHANGED <<session, out, raced>>,
          Answer(h),
          Answer(h))
  /\ UNCHANGED <<now, held, lockVars, logins, requests>>

-----------------------------------------------------------------------------
(* The steps of this module.  Requests are made by the modules that have     *)
(* the routes.                                                               *)

SessionStep(h, Start) ==
  \/ \E u \in Users : Login(h, u)
  \/ StoreToken(h) \/ Unlock(h)
  \/ Check(h) \/ Measure(h) \/ Renew(h, Start)
  \/ LogoutGet(h) \/ LogoutDelete(h)

(* The end of the process: the requests are gone, Redis is not.              *)
Crash ==
  /\ Fault
  /\ until' = [h \in Handlers |-> 0] /\ UNCHANGED <<mutex, mutexBy>>
  /\ pc' = [h \in Handlers |-> "idle"] /\ tok' = [h \in Handlers |-> NoToken]
  /\ op' = [h \in Handlers |-> "none"] /\ ttl' = [h \in Handlers |-> 0]
  /\ UNCHANGED <<now, session, logins, requests, historyVars>>

SessionTick ==
  /\ now < MaxTime
  /\ now' = now + 1
  /\ session' = Expire(session, now')
  /\ mutex' = Expire(mutex, now')
  /\ mutexBy' = [u \in Users |-> IF Found(mutex', u) THEN mutexBy[u] ELSE NoHandler]
  /\ UNCHANGED <<pc, tok, op, ttl, until, counters, historyVars>>

-----------------------------------------------------------------------------
(* Properties.                                                               *)

SessionTypeOK ==
  /\ now \in Times /\ session \in [Tokens -> Nat]
  /\ tok \in [Handlers -> Tokens \cup {NoToken}] /\ ttl \in [Handlers -> Nat]
  /\ mutex \in [Users -> Nat] /\ mutexBy \in [Users -> Handlers \cup {NoHandler}]
  /\ until \in [Handlers -> Nat]
  /\ held \subseteq Tokens /\ raced \subseteq out /\ out \subseteq Tokens
  /\ logins \in 0 .. MaxLogins /\ requests \in 0 .. MaxRequests
  /\ faults \in 0 .. MaxFaults

(* Two logins of one user are under way at once only if the mutex of one of  *)
(* them has expired: a login holds its mutex for as long as it is good, even *)
(* when another that overstayed gives back its own (EmployeeLogin,           *)
(* CustomerLogin: "handling parallel requests from same user").              *)
AloneInLogin ==
  \A h \in Handlers :
    (pc[h] \in {"store", "unlock"} /\ now < until[h]) => mutexBy[tok[h].user] = h

(* Whoever has logged in, and not out, stays logged in to the end of that    *)
(* day, however many requests renew the key in the meantime and in whatever  *)
(* order their writes arrive: createAuthToken, authMiddleware.               *)
OpenUntilEndOfDay ==
  \A t \in held \ out : now < EndOfDay(t.issued) => session[t] > now

(* A token that was logged out stays out, unless a request that had already  *)
(* found the key was to write it again when Logout deleted it.  Nothing else *)
(* brings a session back, and a second logout ends one that came back so.    *)
LoggedOutStaysOut ==
  \A t \in out \ raced : session[t] = Absent

==============================================================================
