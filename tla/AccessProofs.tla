----------------------------- MODULE AccessProofs -----------------------------
(* Machine-checked: what modules Sessions, Permissions and Attachments say   *)
(* of who may use a route and of the keys of an upload, for the whole server.*)
EXTENDS RequestsProofs

-----------------------------------------------------------------------------
(* Logging out.                                                              *)

(* Why LoggedOutStaysOut holds: whoever is about to write the key of a token *)
(* that is logged out had found it before.                                   *)
LogoutsRaced ==
  /\ LoggedOutStaysOut
  /\ \A h \in Handlers :
       pc[h] \in {"measure", "renew"} /\ tok[h] \in out => tok[h] \in raced

(* No session is written, and nobody has found one.                          *)
LEMMA FrameLogout ==
  ASSUME TypeOK, LogoutsRaced, UNCHANGED <<out, raced>>,
         \A t \in Tokens : session'[t] = session[t] \/ session'[t] = Absent
                             \/ (t \in out => t \in raced),
         \A h \in Handlers : pc'[h] \in {"measure", "renew"} =>
           pc[h] \in {"measure", "renew"} /\ tok'[h] = tok[h]
  PROVE  LogoutsRaced'
  <1>1. out \subseteq Tokens
    BY DEF TypeOK, SessionTypeOK
  <1>. QED
    BY <1>1 DEF LogoutsRaced, LoggedOutStaysOut

(* A token that was logged out stays out until its user logs in again,       *)
(* unless a request that had found its key before the last logout deleted it *)
(* writes the key again (authMiddleware, Logout).                            *)
THEOREM LogoutHolds == Spec => []LoggedOutStaysOut
<1>1. Init => LogoutsRaced
  BY DEF Init, SessionInit, LogoutsRaced, LoggedOutStaysOut
<1>2. TypeOK /\ LogoutsRaced /\ [Next]_vars => LogoutsRaced'
  <2> SUFFICES ASSUME TypeOK, LogoutsRaced, [Next]_vars PROVE LogoutsRaced'
    OBVIOUS
  <2> USE DEF counters, historyVars, lockVars
  <2>t. /\ Control /\ now \in Times /\ held \subseteq Tokens /\ out \subseteq Tokens
        /\ raced \subseteq out /\ session \in [Tokens -> Nat]
    BY TypeParts DEF SessionStore
  <2>1. ASSUME NEW h \in Handlers, HandlerStep(h) PROVE LogoutsRaced'
    <3>1. CASE \E t \in held : NewRequest(h, t)
      <4>1. Moves(h) /\ pc'[h] = "check"
        BY <2>t, <3>1, RequestControlled
      <4>2. UNCHANGED <<session, out, raced>>
        BY <3>1 DEF NewRequest, UploadRequest, GateRequest, Request
      <4>. QED
        BY <4>1, <4>2, FrameLogout DEF Moves
    <3>2. CASE \/ UploadStep(h) /\ UNCHANGED gateVars
               \/ GateStep(h) /\ UNCHANGED uploadVars
      BY <2>t, <3>2, RouteStep, FrameLogout DEF Moves, UploadSteps, GateSteps
    <3>3. CASE SessionStep(h, Routes) /\ Settled(h) /\ Dismissed(h)
      <4>m. /\ Moves(h) /\ pc \in [Handlers -> Steps]
            /\ tok \in [Handlers -> Tokens \cup {NoToken}]
        BY <2>t, <3>3, SessionControlled DEF Control
      <4>a. Answer(h) => pc'[h] = "idle"
        BY <4>m DEF Answer
      <4>1. CASE (\E u \in Users : Login(h, u)) \/ Unlock(h) \/ LogoutGet(h)
        <5>1. pc'[h] \notin {"measure", "renew"} /\ UNCHANGED <<session, out, raced>>
          BY <4>m, <4>a, <4>1 DEF Login, Unlock, LogoutGet, Goto
        <5>. QED
          BY <4>m, <5>1, FrameLogout DEF Moves
      <4>2. CASE Check(h)
        <5>1. UNCHANGED <<session, out, raced>>
          BY <4>2 DEF Check
        <5>2. CASE pc'[h] # "measure"
          BY <4>m, <4>a, <4>2, <5>1, <5>2, FrameLogout DEF Check, Goto, Moves
        <5>3. CASE pc'[h] = "measure"
          <6>1. tok' = tok /\ session[tok[h]] # Absent
            BY <4>a, <4>2, <5>3 DEF Check, Goto, Found
          <6>2. tok[h] \in out => tok[h] \in raced
            BY <6>1 DEF LogoutsRaced, LoggedOutStaysOut
          <6>. QED
            BY <4>m, <5>1, <6>1, <6>2 DEF LogoutsRaced, LoggedOutStaysOut, Moves
        <5>. QED
          BY <5>2, <5>3
      <4>3. CASE Measure(h)
        BY <4>m, <4>3, FrameLogout DEF Measure, Moves
      <4>4. CASE Renew(h, Routes)
        <5>1. /\ pc[h] = "renew" /\ UNCHANGED <<out, raced>>
              /\ session' \in {session, SetEx(session, tok[h], now + ttl[h])}
          BY <4>4 DEF Renew, Call
        <5>2. tok[h] \in out => tok[h] \in raced
          BY <5>1 DEF LogoutsRaced
        <5>3. \A t \in Tokens : session'[t] = session[t] \/ (t \in out => t \in raced)
          BY <2>t, <5>1, <5>2 DEF SetEx
        <5>4. pc'[h] \notin {"measure", "renew"}
          BY <2>t, <4>4, RenewGoesTo
        <5>. QED
          BY <4>m, <5>1, <5>3, <5>4, FrameLogout DEF Moves
      <4>5. CASE StoreToken(h)
        <5>1. /\ pc[h] = "store" /\ pc'[h] = "unlock" /\ tok' = tok
              /\ \/ UNCHANGED <<session, out, raced>>
                 \/ /\ session' = SetEx(session, tok[h], now + ttl[h])
                    /\ out' = out \ {tok[h]} /\ raced' = raced \ {tok[h]}
          BY <4>m, <4>5 DEF StoreToken, Call
        <5>2. \A t \in Tokens : t # tok[h] =>
                /\ session'[t] = session[t]
                /\ t \in out' <=> t \in out
                /\ t \in raced' <=> t \in raced
          BY <2>t, <5>1 DEF SetEx
        <5>3. \/ UNCHANGED <<session, out, raced>>
              \/ tok[h] \notin out'
          BY <5>1
        <5>. QED
          BY <2>t, <4>m, <5>1, <5>2, <5>3 DEF LogoutsRaced, LoggedOutStaysOut, Moves
      <4>6. CASE LogoutDelete(h)
        <5>1. /\ pc[h] = "logoutDelete" /\ pc'[h] = "idle"
              /\ \/ UNCHANGED <<session, out, raced>>
                 \/ /\ session' = Del(session, tok[h]) /\ out' = out \cup {tok[h]}
                    /\ raced' = IF Renewing(tok[h]) = {} THEN raced \ {tok[h]}
                                ELSE raced \cup {tok[h]}
          BY <4>m, <4>a, <4>6 DEF LogoutDelete, Call
        <5>2. CASE UNCHANGED <<session, out, raced>>
          BY <4>m, <5>1, <5>2, FrameLogout DEF Moves
        <5>3. CASE ~UNCHANGED <<session, out, raced>>
          <6>1. \A t \in Tokens : session'[t] = IF t = tok[h] THEN Absent ELSE session[t]
            BY <2>t, <5>1, <5>3 DEF Del
          <6>2. ASSUME NEW t \in out' \ raced' PROVE session'[t] = Absent
            <7>1. tok[h] \in Tokens
              BY <2>t, <5>1, HandsHold
            <7>2. t \in out \/ t = tok[h]
              BY <5>1, <5>3, <6>2
            <7>3. t = tok[h] \/ t \in out \ raced
              BY <5>1, <5>3, <6>2, <7>2
            <7>. QED
              BY <2>t, <6>1, <7>1, <7>3 DEF LogoutsRaced, LoggedOutStaysOut
          <6>3. ASSUME NEW g \in Handlers, pc'[g] \in {"measure", "renew"}, tok'[g] \in out'
                PROVE  tok'[g] \in raced'
            <7>1. g # h /\ pc[g] \in {"measure", "renew"} /\ tok'[g] = tok[g]
              BY <4>m, <5>1, <6>3 DEF Moves
            <7>2. CASE tok[g] = tok[h]
              BY <5>1, <5>3, <7>1, <7>2 DEF Renewing
            <7>3. CASE tok[g] # tok[h]
              BY <5>1, <5>3, <6>3, <7>1, <7>3 DEF LogoutsRaced
            <7>. QED
              BY <7>2, <7>3
          <6>. QED
            BY <6>2, <6>3 DEF LogoutsRaced, LoggedOutStaysOut
        <5>. QED
          BY <5>2, <5>3
      <4>. QED
        BY <3>3, <4>1, <4>2, <4>3, <4>4, <4>5, <4>6 DEF SessionStep
    <3>. QED
      BY <2>1, <3>1, <3>2, <3>3 DEF HandlerStep
  <2>2. CASE SessionTick
    <3>1. \A t \in Tokens : session'[t] = session[t] \/ session'[t] = Absent
      BY <2>2, <2>t DEF SessionTick, Expire
    <3>. QED
      BY <2>2, <3>1, FrameLogout DEF SessionTick
  <2>3. CASE Crash
    BY <2>3, FrameLogout DEF Crash
  <2>4. CASE UNCHANGED sessionVars
    BY <2>4, FrameLogout DEF sessionVars
  <2>5. CASE Environment
    BY <2>2, <2>3, <2>4, <2>5 DEF Environment, Upload, Grant, Revoke
  <2>. QED
    BY <2>1, <2>4, <2>5 DEF Next, vars
<1>3. LogoutsRaced => LoggedOutStaysOut
  BY DEF LogoutsRaced
<1>. QED
  BY <1>1, <1>2, <1>3, TypeCorrect, PTL DEF Spec

-----------------------------------------------------------------------------
(* The mutex of a login.                                                     *)

(* Why AloneInLogin holds: the key of a mutex expires when its holder knows. *)
MutexHeld ==
  \A h \in Handlers :
    pc[h] \in {"store", "unlock"} /\ now < until[h] =>
      mutexBy[tok[h].user] = h /\ mutex[tok[h].user] = until[h]

(* Nobody logs in or takes a mutex.                                          *)
LEMMA FrameMutex ==
  ASSUME MutexHeld, UNCHANGED <<now, lockVars>>,
         \A h \in Handlers : pc'[h] \in {"store", "unlock"} =>
           pc[h] \in {"store", "unlock"} /\ tok'[h] = tok[h]
  PROVE  MutexHeld'
  BY DEF MutexHeld, lockVars

(* A login holds its mutex for as long as it is good: only one that has      *)
(* overstayed its mutex may have company (EmployeeLogin, CustomerLogin).     *)
THEOREM LoginsAlone == Spec => []AloneInLogin
<1>1. Init => MutexHeld
  BY DEF Init, SessionInit, MutexHeld
<1>2. TypeOK /\ MutexHeld /\ [Next]_vars => MutexHeld'
  <2> SUFFICES ASSUME TypeOK, MutexHeld, [Next]_vars PROVE MutexHeld'
    OBVIOUS
  <2> USE DEF counters, historyVars
  <2>t. /\ Control /\ now \in Times /\ now \in Nat /\ held \subseteq Tokens
        /\ mutex \in [Users -> Nat]
        /\ mutexBy \in [Users -> Handlers \cup {NoHandler}]
        /\ until \in [Handlers -> Nat]
    BY TypeParts DEF SessionStore, Times
  <2>h. \A g \in Handlers : pc[g] # "idle" => tok[g].user \in Users
    BY <2>t, HandsHold
  <2>1. ASSUME NEW h \in Handlers, HandlerStep(h) PROVE MutexHeld'
    <3>1. CASE \E t \in held : NewRequest(h, t)
      <4>1. Moves(h) /\ pc'[h] = "check"
        BY <2>t, <3>1, RequestControlled
      <4>2. UNCHANGED <<now, lockVars>>
        BY <3>1 DEF NewRequest, UploadRequest, GateRequest, Request
      <4>. QED
        BY <4>1, <4>2, FrameMutex DEF Moves
    <3>2. CASE \/ UploadStep(h) /\ UNCHANGED gateVars
               \/ GateStep(h) /\ UNCHANGED uploadVars
      BY <2>t, <3>2, RouteStep, FrameMutex DEF Moves, UploadSteps, GateSteps
    <3>3. CASE SessionStep(h, Routes) /\ Settled(h) /\ Dismissed(h)
      <4>m. /\ Moves(h) /\ pc \in [Handlers -> Steps]
            /\ tok \in [Handlers -> Tokens \cup {NoToken}]
        BY <2>t, <3>3, SessionControlled DEF Control
      <4>a. Answer(h) => pc'[h] = "idle"
        BY <4>m DEF Answer
      <4>1. CASE \E u \in Users : Login(h, u)
        <5> PICK u \in Users : Login(h, u)
          BY <4>1
        <5>1. /\ pc[h] = "idle" /\ mutex[u] = Absent /\ now' = now
              /\ \/ /\ mutex' = SetEx(mutex, u, now + LockLife)
                    /\ mutexBy' = [mutexBy EXCEPT ![u] = h]
                 \/ UNCHANGED <<mutex, mutexBy>>
          BY DEF Login
        <5>2. ASSUME NEW g \in Handlers \ {h}, pc'[g] \in {"store", "unlock"},
                     now < until'[g]
              PROVE  mutexBy'[tok'[g].user] = g /\ mutex'[tok'[g].user] = until'[g]
          <6>1. pc[g] \in {"store", "unlock"} /\ tok'[g] = tok[g] /\ until'[g] = until[g]
            BY <2>t, <4>m, <5>2 DEF Moves, Login
          <6>2. /\ mutexBy[tok[g].user] = g /\ mutex[tok[g].user] = until[g]
                /\ tok[g].user \in Users
            BY <2>h, <5>2, <6>1 DEF MutexHeld
          <6>3. tok[g].user # u
            BY <2>t, <5>1, <5>2, <6>1, <6>2 DEF Absent
          <6>. QED
            BY <2>t, <5>1, <6>1, <6>2, <6>3 DEF SetEx
        <5>3. ASSUME pc'[h] \in {"store", "unlock"}
              PROVE  mutexBy'[tok'[h].user] = h /\ mutex'[tok'[h].user] = until'[h]
          <6>1. /\ mutex' = SetEx(mutex, u, now + LockLife)
                /\ mutexBy' = [mutexBy EXCEPT ![u] = h]
                /\ until' = [until EXCEPT ![h] = now + LockLife]
                /\ tok' = [tok EXCEPT ![h] = [user |-> u, issued |-> now]]
            BY <5>1, <5>3 DEF Login
          <6>. QED
            BY <2>t, <4>m, <6>1 DEF SetEx
        <5>. QED
          BY <5>1, <5>2, <5>3 DEF MutexHeld
      <4>2. CASE StoreToken(h)
        BY <4>m, <4>2, FrameMutex DEF StoreToken, Moves
      <4>3. CASE Unlock(h)
        <5> DEFINE u == tok[h].user
        <5>1. /\ pc[h] = "unlock" /\ pc'[h] = "idle" /\ now' = now
              /\ until' = [until EXCEPT ![h] = 0]
              /\ \/ /\ HasMyValue(h, u)
                    /\ mutex' = Del(mutex, u)
                    /\ mutexBy' = [mutexBy EXCEPT ![u] = NoHandler]
                 \/ UNCHANGED <<mutex, mutexBy>>
          BY <4>a, <4>3 DEF Unlock, Call
        <5>2. ASSUME NEW g \in Handlers, pc'[g] \in {"store", "unlock"}, now < until'[g]
              PROVE  mutexBy'[tok'[g].user] = g /\ mutex'[tok'[g].user] = until'[g]
          <6>1. /\ g # h /\ pc[g] \in {"store", "unlock"} /\ tok'[g] = tok[g]
                /\ until'[g] = until[g]
            BY <2>t, <4>m, <5>1, <5>2 DEF Moves
          <6>2. mutexBy[tok[g].user] = g /\ mutex[tok[g].user] = until[g]
            BY <5>2, <6>1 DEF MutexHeld
          <6>3. HasMyValue(h, u) => tok[g].user # u
            BY <6>1, <6>2 DEF HasMyValue
          <6>4. tok[g].user \in Users
            BY <2>h, <6>1
          <6>5. mutexBy'[tok[g].user] = g /\ mutex'[tok[g].user] = mutex[tok[g].user]
            BY <2>t, <5>1, <6>2, <6>3, <6>4 DEF Del
          <6>. QED
            BY <6>1, <6>2, <6>5
        <5>. QED
          BY <5>1, <5>2 DEF MutexHeld
      <4>4. CASE Renew(h, Routes)
        <5>1. pc[h] = "renew" /\ UNCHANGED <<now, lockVars>>
          BY <4>4 DEF Renew
        <5>2. pc'[h] \notin {"store", "unlock"}
          BY <2>t, <4>4, RenewGoesTo
        <5>. QED
          BY <4>m, <5>1, <5>2, FrameMutex DEF Moves
      <4>5. CASE Check(h) \/ Measure(h) \/ LogoutGet(h) \/ LogoutDelete(h)
        <5>1. pc'[h] \notin {"store", "unlock"} /\ UNCHANGED <<now, lockVars>>
          BY <4>m, <4>a, <4>5 DEF Check, Measure, LogoutGet, LogoutDelete, Goto, Call
        <5>. QED
          BY <4>m, <5>1, FrameMutex DEF Moves
      <4>. QED
        BY <3>3, <4>1, <4>2, <4>3, <4>4, <4>5 DEF SessionStep
    <3>. QED
      BY <2>1, <3>1, <3>2, <3>3 DEF HandlerStep
  <2>2. CASE SessionTick
    <3>1. /\ now' = now + 1 /\ UNCHANGED <<pc, tok, until>>
          /\ mutex' = Expire(mutex, now')
          /\ mutexBy' = [u \in Users |-> IF Found(mutex', u) THEN mutexBy[u] ELSE NoHandler]
      BY <2>2 DEF SessionTick
    <3>2. ASSUME NEW h \in Handlers, pc[h] \in {"store", "unlock"}, now' < until[h]
          PROVE  mutexBy'[tok[h].user] = h /\ mutex'[tok[h].user] = until[h]
      <4>1. /\ mutexBy[tok[h].user] = h /\ mutex[tok[h].user] = until[h]
            /\ tok[h].user \in Users
        BY <2>t, <2>h, <3>1, <3>2 DEF MutexHeld
      <4>2. mutex'[tok[h].user] = until[h] /\ until[h] # Absent
        BY <2>t, <3>1, <3>2, <4>1 DEF Expire, Absent
      <4>. QED
        BY <3>1, <4>1, <4>2 DEF Found
    <3>. QED
      BY <3>1, <3>2 DEF MutexHeld
  <2>3. CASE Crash
    BY <2>3 DEF Crash, MutexHeld
  <2>4. CASE UNCHANGED sessionVars
    BY <2>4, FrameMutex DEF sessionVars
  <2>5. CASE Environment
    BY <2>2, <2>3, <2>4, <2>5 DEF Environment, Upload, Grant, Revoke
  <2>. QED
    BY <2>1, <2>4, <2>5 DEF Next, vars
<1>3. MutexHeld => AloneInLogin
  BY DEF MutexHeld, AloneInLogin
<1>. QED
  BY <1>1, <1>2, <1>3, TypeCorrect, PTL DEF Spec

-----------------------------------------------------------------------------
(* Staying logged in.                                                        *)

(* Why OpenUntilEndOfDay holds: whatever is written under the key of a token *)
(* lasts to the end of the day of its issue at least.                        *)
LongEnough(h) ==
  /\ pc[h] # "idle" => tok[h].issued <= now
  /\ pc[h] \in {"store", "renew"} => EndOfDay(tok[h].issued) <= now + ttl[h]

DayOpen ==
  /\ \A t \in held : t.issued <= now
  /\ \A t \in held \ out : \/ EndOfDay(t.issued) <= session[t]
                           \/ EndOfDay(t.issued) <= now
  /\ \A h \in Handlers : LongEnough(h)

LEMMA FrameDay ==
  ASSUME DayOpen, NEW h \in Handlers, Moves(h), now' = now,
         \A g \in Handlers \ {h} : ttl'[g] = ttl[g],
         \A t \in held' : t \in held \/ t.issued <= now,
         \A t \in held' \ out' : \/ t \in held \ out /\ session'[t] = session[t]
                                 \/ EndOfDay(t.issued) <= session'[t],
         LongEnough(h)'
  PROVE  DayOpen'
  <1>1. \A g \in Handlers \ {h} : LongEnough(g)'
    BY DEF DayOpen, LongEnough, Moves
  <1>2. /\ \A t \in held' : t.issued <= now
        /\ \A t \in held' \ out' : \/ EndOfDay(t.issued) <= session'[t]
                                \/ EndOfDay(t.issued) <= now
    BY DEF DayOpen
  <1>. QED
    BY <1>1, <1>2 DEF DayOpen

LEMMA AnswersLongEnough ==
  ASSUME NEW h \in Handlers, Control, Answer(h)
  PROVE  LongEnough(h)' /\ \A g \in Handlers \ {h} : ttl'[g] = ttl[g]
  BY DEF LongEnough, Answer, Control

(* Whoever has logged in, and not out, is logged in to the end of that day,  *)
(* whatever requests renew the key (createAuthToken, authMiddleware).        *)
THEOREM StaysLoggedIn == Spec => []OpenUntilEndOfDay
<1>1. Init => DayOpen
  BY DEF Init, SessionInit, DayOpen, LongEnough
<1>2. TypeOK /\ DayOpen /\ [Next]_vars => DayOpen'
  <2> SUFFICES ASSUME TypeOK, DayOpen, [Next]_vars PROVE DayOpen'
    OBVIOUS
  <2> USE DEF counters, historyVars
  <2>t. /\ Control /\ now \in Times /\ now \in Nat /\ held \subseteq Tokens
        /\ session \in [Tokens -> Nat] /\ ttl \in [Handlers -> Nat]
    BY TypeParts DEF SessionStore, Times
  <2>h. /\ pc \in [Handlers -> Steps]
        /\ tok \in [Handlers -> Tokens \cup {NoToken}]
        /\ \A g \in Handlers : pc[g] # "idle" =>
             tok[g] \in Tokens /\ tok[g].issued \in Nat
    BY <2>t, HandsHold DEF Control, Times
  <2>1. ASSUME NEW h \in Handlers, HandlerStep(h) PROVE DayOpen'
    <3>1. CASE \E t \in held : NewRequest(h, t)
      <4> PICK t \in held : NewRequest(h, t)
        BY <3>1
      <4>1. Moves(h) /\ pc'[h] = "check"
        BY <2>t, <3>1, RequestControlled
      <4>2. UNCHANGED <<now, session, ttl, held, out>> /\ tok'[h] = t
        BY <2>h DEF NewRequest, UploadRequest, GateRequest, Request
      <4>3. LongEnough(h)'
        BY <4>1, <4>2 DEF LongEnough, DayOpen
      <4>. QED
        BY <4>1, <4>2, <4>3, FrameDay
    <3>2. CASE \/ UploadStep(h) /\ UNCHANGED gateVars
               \/ GateStep(h) /\ UNCHANGED uploadVars
      <4>1. /\ Moves(h) /\ UNCHANGED <<now, session, held, out>>
            /\ pc[h] # "idle" /\ pc'[h] \notin {"store", "renew"}
            /\ Answer(h) \/ UNCHANGED <<tok, op, ttl>>
        BY <2>t, <3>2, RouteStep, UploadControlled, GateControlled
        DEF UploadSteps, GateSteps
      <4>2. LongEnough(h)' /\ \A g \in Handlers \ {h} : ttl'[g] = ttl[g]
        BY <2>t, <4>1, AnswersLongEnough DEF LongEnough, DayOpen
      <4>. QED
        BY <4>1, <4>2, FrameDay
    <3>3. CASE SessionStep(h, Routes) /\ Settled(h) /\ Dismissed(h)
      <4>m. Moves(h)
        BY <2>t, <3>3, SessionControlled
      <4>1. CASE \E u \in Users : Login(h, u)
        <5> PICK u \in Users : Login(h, u)
          BY <4>1
        <5>1. /\ UNCHANGED <<now, session, held, out>> /\ pc[h] = "idle"
              /\ \/ /\ tok'[h] = [user |-> u, issued |-> now]
                    /\ ttl' = [ttl EXCEPT ![h] = ExpiryOf(u, now) - now]
                 \/ UNCHANGED <<pc, tok, ttl>>
          BY <2>h DEF Login
        <5>2. ExpiryOf(u, now) \in Nat /\ EndOfDay(now) <= ExpiryOf(u, now)
              /\ EndOfDay(now) \in Nat
          BY <2>t, ExpiryIsLater, DaysEnd
        <5>3. /\ LongEnough(h)' /\ \A g \in Handlers \ {h} : ttl'[g] = ttl[g]
          BY <2>t, <5>1, <5>2 DEF LongEnough
        <5>. QED
          BY <4>m, <5>1, <5>3, FrameDay
      <4>2. CASE StoreToken(h)
        <5>1. /\ pc[h] = "store" /\ pc'[h] = "unlock" /\ UNCHANGED <<now, tok>>
              /\ ttl' = [ttl EXCEPT ![h] = 0] /\ held' \subseteq held \cup {tok[h]}
              /\ \/ UNCHANGED <<session, held, out>>
                 \/ /\ session' = SetEx(session, tok[h], now + ttl[h])
                    /\ out' = out \ {tok[h]}
          BY <2>h, <4>2 DEF StoreToken, Call
        <5>2. /\ tok[h] \in Tokens /\ tok[h].issued <= now
              /\ EndOfDay(tok[h].issued) <= now + ttl[h]
          BY <2>h, <5>1 DEF DayOpen, LongEnough
        <5>3. \A t \in held' \ out' : \/ t \in held \ out /\ session'[t] = session[t]
                                      \/ EndOfDay(t.issued) <= session'[t]
          <6>1. CASE UNCHANGED <<session, held, out>>
            BY <6>1
          <6>2. CASE session' = SetEx(session, tok[h], now + ttl[h])
                     /\ out' = out \ {tok[h]}
            BY <2>t, <5>1, <5>2, <6>2 DEF SetEx
          <6>. QED
            BY <5>1, <6>1, <6>2
        <5>4. LongEnough(h)' /\ \A g \in Handlers \ {h} : ttl'[g] = ttl[g]
          BY <2>t, <5>1, <5>2 DEF LongEnough
        <5>. QED
          BY <4>m, <5>1, <5>2, <5>3, <5>4, FrameDay
      <4>3. CASE Measure(h)
        <5>1. /\ pc[h] = "measure" /\ UNCHANGED <<now, session, tok, held, out>>
              /\ ttl' = [ttl EXCEPT ![h] = EndOfDay(now) - now]
          BY <4>3 DEF Measure, TimeLeft
        <5>2. tok[h].issued \in Nat /\ tok[h].issued <= now
          BY <2>h, <5>1 DEF DayOpen, LongEnough
        <5>3. /\ EndOfDay(now) \in Nat /\ EndOfDay(tok[h].issued) \in Nat
              /\ EndOfDay(tok[h].issued) <= EndOfDay(now)
          BY <2>t, <5>2, DaysEnd
        <5>4. LongEnough(h)' /\ \A g \in Handlers \ {h} : ttl'[g] = ttl[g]
          BY <2>t, <5>1, <5>2, <5>3 DEF LongEnough
        <5>. QED
          BY <4>m, <5>1, <5>4, FrameDay
      <4>4. CASE Renew(h, Routes)
        <5>1. /\ pc[h] = "renew" /\ UNCHANGED <<now, held, out>>
              /\ session' \in {session, SetEx(session, tok[h], now + ttl[h])}
          BY <4>4 DEF Renew, Call
        <5>2. /\ tok[h] \in Tokens /\ EndOfDay(tok[h].issued) <= now + ttl[h]
              /\ tok[h].issued <= now
          BY <2>h, <5>1 DEF DayOpen, LongEnough
        <5>3. \A t \in held' \ out' : \/ t \in held \ out /\ session'[t] = session[t]
                                      \/ EndOfDay(t.issued) <= session'[t]
          BY <2>t, <5>1, <5>2 DEF SetEx
        <5>4. LongEnough(h)' /\ \A g \in Handlers \ {h} : ttl'[g] = ttl[g]
          <6>1. CASE Answer(h)
            BY <2>t, <6>1, AnswersLongEnough
          <6>2. CASE ~Answer(h)
            <7>1. tok' = tok /\ ttl' = [ttl EXCEPT ![h] = 0]
              BY <4>4, <6>2 DEF Renew, Call, Enter
            <7>2. pc'[h] \notin {"store", "renew"}
              BY <2>t, <4>4, RenewGoesTo
            <7>. QED
              BY <2>t, <5>1, <5>2, <7>1, <7>2 DEF LongEnough
          <6>. QED
            BY <6>1, <6>2
        <5>. QED
          BY <4>m, <5>1, <5>3, <5>4, FrameDay
      <4>5. CASE Unlock(h) \/ Check(h) \/ LogoutGet(h)
        <5>1. /\ UNCHANGED <<now, session, held, out>> /\ pc[h] # "idle"
              /\ \/ Answer(h)
                 \/ UNCHANGED <<tok, ttl>> /\ pc'[h] \in {"measure", "logoutDelete"}
          BY <2>h, <4>5 DEF Unlock, Check, LogoutGet, Goto
        <5>2. LongEnough(h)' /\ \A g \in Handlers \ {h} : ttl'[g] = ttl[g]
          BY <2>t, <5>1, AnswersLongEnough DEF LongEnough, DayOpen
        <5>. QED
          BY <4>m, <5>1, <5>2, FrameDay
      <4>6. CASE LogoutDelete(h)
        <5>1. /\ UNCHANGED <<now, held>> /\ Answer(h)
              /\ \/ UNCHANGED <<session, out>>
                 \/ session' = Del(session, tok[h]) /\ out' = out \cup {tok[h]}
          BY <4>6 DEF LogoutDelete, Call
        <5>2. \A t \in held' \ out' : t \in held \ out /\ session'[t] = session[t]
          BY <2>t, <5>1 DEF Del
        <5>. QED
          BY <2>t, <4>m, <5>1, <5>2, AnswersLongEnough, FrameDay
      <4>. QED
        BY <3>3, <4>1, <4>2, <4>3, <4>4, <4>5, <4>6 DEF SessionStep
    <3>. QED
      BY <2>1, <3>1, <3>2, <3>3 DEF HandlerStep
  <2>2. CASE SessionTick
    <3>1. /\ now' = now + 1 /\ UNCHANGED <<pc, tok, ttl, held, out>>
          /\ session' = Expire(session, now')
      BY <2>2 DEF SessionTick
    <3>2. \A t \in held : t.issued \in Nat /\ t.issued <= now /\ EndOfDay(t.issued) \in Nat
      BY <2>t, DaysEnd DEF Tokens, Times, DayOpen
    <3>3. \A h \in Handlers : pc[h] # "idle" =>
            tok[h].issued \in Nat /\ EndOfDay(tok[h].issued) \in Nat
      BY <2>h, DaysEnd
    <3>4. \A t \in held \ out : \/ EndOfDay(t.issued) <= session'[t]
                              \/ EndOfDay(t.issued) <= now'
      BY <2>t, <3>1, <3>2 DEF DayOpen, Expire
    <3>5. \A h \in Handlers : LongEnough(h)'
      BY <2>t, <3>1, <3>3 DEF DayOpen, LongEnough
    <3>. QED
      BY <2>t, <3>1, <3>2, <3>4, <3>5 DEF DayOpen
  <2>3. CASE Crash
    BY <2>3 DEF Crash, DayOpen, LongEnough
  <2>4. CASE UNCHANGED sessionVars
    BY <2>4 DEF sessionVars, DayOpen, LongEnough
  <2>5. CASE Environment
    BY <2>2, <2>3, <2>4, <2>5 DEF Environment, Upload, Grant, Revoke
  <2>. QED
    BY <2>1, <2>4, <2>5 DEF Next, vars
<1>3. TypeOK /\ DayOpen => OpenUntilEndOfDay
  <2> SUFFICES ASSUME TypeOK, DayOpen, NEW t \in held \ out, now < EndOfDay(t.issued)
               PROVE  session[t] > now
    BY DEF OpenUntilEndOfDay
  <2>t. t \in Tokens /\ session \in [Tokens -> Nat] /\ now \in Nat
    BY TypeParts DEF SessionStore, Times
  <2>1. session[t] \in Nat /\ t.issued \in Nat
    <3>1. t.issued \in Times
      BY <2>t DEF Tokens
    <3>. QED
      BY <2>t, <3>1 DEF Times
  <2>2. EndOfDay(t.issued) \in Nat
    BY <2>1, DaysEnd
  <2>. QED
    BY <2>t, <2>1, <2>2 DEF DayOpen
<1>. QED
  BY <1>1, <1>2, <1>3, TypeCorrect, PTL DEF Spec

-----------------------------------------------------------------------------
(* The gate.                                                                 *)

(* Only the gate writes a permission to the cache, and no handler grants one.*)
LEMMA GateWrites ==
  ASSUME NEW h \in Handlers, HandlerStep(h)
  PROVE  /\ UNCHANGED <<now, grantVars>>
         /\ SetPermission(h) \/ UNCHANGED <<permKey, permYes, late>>
  <1>1. CASE \E t \in held : NewRequest(h, t)
    BY <1>1 DEF NewRequest, UploadRequest, GateRequest, Request, gateVars, keyVars
  <1>2. CASE SessionStep(h, Routes) /\ UNCHANGED <<storedVars, grantVars, keyVars>>
    BY <1>2 DEF SessionStep, Login, StoreToken, Unlock, Check, Measure, Renew,
                LogoutGet, LogoutDelete, keyVars
  <1>3. CASE UploadStep(h) /\ UNCHANGED gateVars
    BY <1>3 DEF UploadStep, Presign, SetIdKey, SetS3Key, Insert, GetIdKey, GetS3Key,
                UpdateRow, DropS3Key, DropIdKey, Rest, gateVars, keyVars
  <1>4. CASE GateStep(h)
    BY <1>4 DEF GateStep, GetOwner, ReadOwner, SetOwner, GetPermission, HasPermission,
                SetPermission, Refuse, GateRest, keyVars
  <1>. QED
    BY <1>1, <1>2, <1>3, <1>4 DEF HandlerStep

-----------------------------------------------------------------------------
(* Forgetting.                                                               *)

(* Why RevokedIsForgotten holds: no key lives for longer than CacheLife from *)
(* now on, and a use of a permission does not prolong it.                    *)
Cached ==
  /\ RevokedIsForgotten
  /\ \A g \in permYes : permKey[g] <= now + CacheLife

(* A cached permission that was revoked is forgotten ten minutes later,      *)
(* however often it is used (rbacMiddleware, SetBool).                       *)
THEOREM Forgets == Spec => []RevokedIsForgotten
<1>1. Init => Cached
  BY DEF Init, GateInit, Cached, RevokedIsForgotten
<1>2. TypeOK /\ Cached /\ [Next]_vars => Cached'
  <2> SUFFICES ASSUME TypeOK, Cached, [Next]_vars PROVE Cached'
    OBVIOUS
  <2>t. /\ Control /\ now \in Nat /\ CacheLife \in Nat
        /\ granted \subseteq Grants /\ permKey \in [Grants -> Nat]
        /\ permYes \subseteq Grants /\ late \subseteq permYes
        /\ heldTo \in [Grants -> Nat]
    BY TypeParts, GateAssumption DEF SessionStore, GateStore, Times
  <2>1. ASSUME NEW h \in Handlers, HandlerStep(h) PROVE Cached'
    <3>1. UNCHANGED <<now, granted, heldTo>>
      BY <2>1, GateWrites DEF grantVars
    <3>2. CASE UNCHANGED <<permKey, permYes, late>>
      BY <3>1, <3>2 DEF Cached, RevokedIsForgotten
    <3>3. CASE SetPermission(h) /\ ~UNCHANGED <<permKey, permYes, late>>
      <4>1. PICK g \in Grants :
              /\ permKey' = SetEx(permKey, g, now + CacheLife)
              /\ permYes' = IF has[h] THEN permYes \cup {g} ELSE permYes \ {g}
              /\ late' = IF has[h] /\ g \notin granted THEN late \cup {g} ELSE late \ {g}
        <5>1. Needed(h) \in Grants
          BY <2>t, <3>3, HandsHold DEF SetPermission, GateSteps
        <5>. QED
          BY <3>3, <5>1 DEF SetPermission, Call
      <4>2. permKey'[g] = now + CacheLife
            /\ \A f \in Grants \ {g} : permKey'[f] = permKey[f]
        BY <2>t, <4>1 DEF SetEx
      <4>3. /\ \A f \in permYes' \ {g} : f \in permYes /\ (f \in late' <=> f \in late)
            /\ g \in permYes' => g \in granted \/ g \in late'
        BY <2>t, <4>1
      <4>4. permYes' \subseteq Grants
        BY <2>t, <4>1
      <4>. QED
        BY <2>t, <3>1, <4>2, <4>3, <4>4 DEF Cached, RevokedIsForgotten
    <3>. QED
      BY <2>1, <3>2, <3>3, GateWrites
  <2>2. CASE \E g \in Grants : Grant(g)
    <3> PICK g \in Grants : Grant(g)
      BY <2>2
    <3>1. /\ UNCHANGED <<now, permKey, permYes, heldTo>>
          /\ granted' = granted \cup {g} /\ late' = late \ {g}
      BY DEF Grant, sessionVars
    <3>. QED
      BY <3>1 DEF Cached, RevokedIsForgotten
  <2>3. CASE \E g \in Grants : Revoke(g)
    <3> PICK g \in Grants : Revoke(g)
      BY <2>3
    <3>1. /\ UNCHANGED <<now, permKey, permYes, late>> /\ granted' = granted \ {g}
          /\ heldTo' = [heldTo EXCEPT ![g] = now + 1]
      BY DEF Revoke, sessionVars, keyVars
    <3>2. \A f \in Grants : heldTo'[f] = IF f = g THEN now + 1 ELSE heldTo[f]
      BY <2>t, <3>1
    <3>3. ASSUME NEW f \in permYes \ granted', f \notin late
          PROVE  permKey[f] < heldTo'[f] + CacheLife
      BY <2>t, <3>1, <3>2, <3>3 DEF Cached, RevokedIsForgotten
    <3>. QED
      BY <3>1, <3>3 DEF Cached, RevokedIsForgotten
  <2>4. CASE SessionTick /\ GateTick
    <3>1. /\ now' = now + 1 /\ permKey' = Expire(permKey, now')
          /\ permYes' = {g \in permYes : Found(permKey', g)}
          /\ late' = late \cap permYes' /\ UNCHANGED <<granted, heldTo>>
      BY <2>4 DEF SessionTick, GateTick, grantVars
    <3>2. \A g \in permYes' : g \in permYes /\ permKey'[g] = permKey[g]
      BY <2>t, <3>1 DEF Expire, Found
    <3>3. \A g \in permYes' : permKey'[g] <= now' + CacheLife
      BY <2>t, <3>1, <3>2 DEF Cached
    <3>4. \A g \in permYes' \ granted' :
            g \notin late' => permKey'[g] < heldTo'[g] + CacheLife
      BY <3>1, <3>2 DEF Cached, RevokedIsForgotten
    <3>. QED
      BY <3>3, <3>4 DEF Cached, RevokedIsForgotten
  <2>5. CASE UNCHANGED <<now, gateVars>>
    BY <2>5 DEF gateVars, grantVars, keyVars, Cached, RevokedIsForgotten
  <2>6. CASE Environment
    <3>1. CASE Crash /\ GateCrash
      BY <3>1 DEF Crash, GateCrash, grantVars, keyVars, Cached, RevokedIsForgotten
    <3>. QED
      BY <2>2, <2>3, <2>4, <2>5, <2>6, <3>1 DEF Environment, Upload, sessionVars
  <2>. QED
    BY <2>1, <2>5, <2>6 DEF Next, vars, sessionVars
<1>3. Cached => RevokedIsForgotten
  BY DEF Cached
<1>. QED
  BY <1>1, <1>2, <1>3, TypeCorrect, PTL DEF Spec

-----------------------------------------------------------------------------
(* Refusing.                                                                 *)

(* Why RefusedForAReason holds: a request that was allowed since it reached  *)
(* the gate finds nothing, in the tables or in a cache, that speaks against  *)
(* it, and is turned away by its own failing lookup of the owner alone.      *)
Reasons(h) ==
  /\ wish[h] # NoWish /\ h \notin lacked => Allowed(tok[h].user, wish[h])
  /\ pc[h] = "permSet" /\ ~has[h] => h \in lacked
  /\ pc[h] = "refused" => h \in lacked \/ h \in unread
  /\ pc[h] \in {"ownerRead", "ownerSet"} => Role(h) = CustomerRole

LEMMA FrameReasons ==
  ASSUME \A g \in Handlers : Reasons(g), NEW h \in Handlers, Moves(h),
         UNCHANGED granted,
         \A g \in Handlers \ {h} : /\ g \in lacked' <=> g \in lacked
                                   /\ g \in unread' <=> g \in unread
                                   /\ has'[g] = has[g],
         Reasons(h)'
  PROVE  \A g \in Handlers : Reasons(g)'
<1>1. ASSUME NEW g \in Handlers, g # h PROVE Reasons(g)'
  <2>0. g \in Handlers \ {h}
    BY <1>1
  <2>1. pc'[g] = pc[g] /\ tok'[g] = tok[g] /\ wish'[g] = wish[g]
    BY <2>0 DEF Moves
  <2>2. /\ g \in lacked' <=> g \in lacked
        /\ g \in unread' <=> g \in unread
        /\ has'[g] = has[g]
    BY <2>0
  <2>3. Reasons(g)
    OBVIOUS
  <2>. QED
    BY <2>1, <2>2, <2>3 DEF Reasons, Allowed, Role
<1>. QED
  BY <1>1

(* A handler that is not at the gate any more needs no reason.               *)
LEMMA AtEase ==
  ASSUME Control, NEW h \in Handlers, wish'[h] = NoWish,
         pc'[h] \notin GateSteps
  PROVE  Reasons(h)'
  BY DEF Reasons, GateSteps

(* What is said of a request whose wish, user and reasons stay.              *)
LEMMA KeepsReasons ==
  ASSUME NEW h \in Handlers, Reasons(h), UNCHANGED granted,
         wish'[h] = wish[h], tok'[h] = tok[h], h \in lacked' <=> h \in lacked,
         pc'[h] = "permSet" /\ ~has'[h] => h \in lacked,
         pc'[h] = "refused" => h \in lacked \/ h \in unread',
         pc'[h] \in {"ownerRead", "ownerSet"} => Role(h) = CustomerRole
  PROVE  Reasons(h)'
  BY DEF Reasons, Allowed, Role

(* A request is refused only if the tables did not allow it while it was     *)
(* under way, or if its own lookup of the ticket's owner failed; nothing     *)
(* that other requests left in a cache refuses it (rbacMiddleware).          *)
THEOREM RefusesForAReason == Spec => []RefusedForAReason
<1> DEFINE Good == \A h \in Handlers : Reasons(h)
<1>1. Init => Good
  BY DEF Init, SessionInit, GateInit, Reasons
<1>2. TypeOK /\ Good /\ [Next]_vars => Good'
  <2> SUFFICES ASSUME TypeOK, \A h \in Handlers : Reasons(h), [Next]_vars
               PROVE  \A h \in Handlers : Reasons(h)'
    OBVIOUS
  <2>t. /\ Control /\ now \in Times /\ held \subseteq Tokens
        /\ has \in [Handlers -> BOOLEAN] /\ lacked \subseteq Handlers
        /\ granted \subseteq Grants
    BY TypeParts DEF SessionStore, GateStore
  <2>h. /\ pc \in [Handlers -> Steps] /\ tok \in [Handlers -> Tokens \cup {NoToken}]
        /\ wish \in [Handlers -> Wishes \cup {NoWish}]
    BY <2>t DEF Control
  <2>1. ASSUME NEW h \in Handlers, HandlerStep(h) PROVE \A g \in Handlers : Reasons(g)'
    <3>0. UNCHANGED granted
      BY <2>1, GateWrites DEF grantVars
    <3>d. ASSUME Dismissed(h)
          PROVE  /\ \A g \in Handlers \ {h} : /\ g \in lacked' <=> g \in lacked
                                              /\ g \in unread' <=> g \in unread
                                              /\ has'[g] = has[g]
                 /\ pc'[h] = "idle" => wish'[h] = NoWish
                 /\ pc'[h] # "idle" => UNCHANGED <<wish, has, lacked, unread>>
      BY <2>t, <2>h, <3>d DEF Dismissed
    <3>1. CASE \E t \in held : NewRequest(h, t)
      <4> PICK t \in held : NewRequest(h, t)
        BY <3>1
      <4>1. Moves(h) /\ pc'[h] = "check" /\ pc[h] = "idle" /\ tok'[h] = t
        BY <2>t, <2>h, <3>1, RequestControlled
        DEF NewRequest, UploadRequest, GateRequest, Request
      <4>2. wish[h] = NoWish
        BY <2>t, <2>h, <4>1 DEF Control, Hands, GateSteps, Arriving
      <4>3. CASE UNCHANGED gateVars
        BY <3>0, <4>1, <4>2, <4>3, AtEase, FrameReasons DEF gateVars, GateSteps, Reasons
      <4>4. CASE \E w \in Wishes : GateRequest(h, t, w)
        <5> PICK w \in Wishes : GateRequest(h, t, w)
          BY <4>4
        <5>1. /\ wish'[h] = w /\ has' = has /\ unread' = unread
              /\ lacked' = IF Allowed(t.user, w) THEN lacked ELSE lacked \cup {h}
          BY <2>h DEF GateRequest
        <5>2. Reasons(h)'
          BY <3>0, <4>1, <5>1 DEF Reasons, Allowed
        <5>. QED
          BY <3>0, <4>1, <5>1, <5>2, FrameReasons
      <4>. QED
        BY <4>3, <4>4 DEF NewRequest, Wishes
    <3>2. CASE SessionStep(h, Routes) /\ Settled(h) /\ Dismissed(h)
      <4>1. Moves(h) /\ pc'[h] \notin {"permSet", "refused", "ownerRead", "ownerSet"}
        BY <2>t, <3>2, SessionControlled, SessionGoesTo DEF SessionSteps
      <4>2. CASE wish'[h] = NoWish
        BY <3>d, <3>0, <3>2, <4>1, <4>2, FrameReasons DEF Reasons
      <4>3. CASE wish'[h] # NoWish
        <5>1. UNCHANGED <<wish, has, lacked, unread>> /\ pc'[h] # "idle"
          BY <3>d, <3>2, <4>3
        <5>2. pc[h] # "idle" /\ ~Answer(h)
          BY <2>t, <2>h, <4>3, <5>1 DEF Control, Hands, GateSteps, Arriving, Answer
        <5>3. tok' = tok
          BY <2>t, <3>2, <5>2, SessionGoesTo
        <5>4. Reasons(h)'
          BY <3>0, <4>1, <5>1, <5>3, KeepsReasons
        <5>. QED
          BY <3>0, <4>1, <5>1, <5>4, FrameReasons
      <4>. QED
        BY <4>2, <4>3
    <3>3. CASE UploadStep(h) /\ UNCHANGED gateVars
      <4>1. Moves(h) /\ pc[h] \in UploadSteps /\ pc'[h] \in UploadSteps \cup {"idle"}
        BY <2>t, <3>3, UploadControlled
      <4>2. wish'[h] = NoWish /\ pc'[h] \notin GateSteps
        BY <2>t, <2>h, <3>3, <4>1
        DEF Control, Hands, UploadSteps, GateSteps, Arriving, gateVars
      <4>3. Reasons(h)'
        BY <2>t, <4>2, AtEase
      <4>. QED
        BY <3>0, <3>3, <4>1, <4>3, FrameReasons DEF gateVars
    <3>4. CASE GateStep(h) /\ UNCHANGED uploadVars
      <4>1. /\ Moves(h) /\ pc[h] \in GateSteps /\ pc'[h] \in GateSteps \cup {"idle"}
            /\ Answer(h) \/ UNCHANGED <<tok, op, ttl>>
        BY <2>t, <3>4, GateControlled, RouteStep
      <4>2. wish[h] # NoWish
        BY <2>t, <4>1, GateAssumption DEF Control, Hands
      <4>3. CASE HasPermission(h) /\ pc'[h] = "permSet"
        <5>1. /\ pc[h] = "permRead" /\ pc'[h] = "permSet" /\ tok' = tok
              /\ has' = [has EXCEPT ![h] = Needed(h) \in granted]
              /\ UNCHANGED <<wish, lacked, unread>>
          BY <2>h, <4>3 DEF HasPermission, Leave, Answer, Goto
        <5>2. Needed(h) \notin granted => h \in lacked
          BY <4>2 DEF Reasons, Allowed, Needed, Role
        <5>3. has'[h] = (Needed(h) \in granted)
          BY <2>t, <5>1
        <5>4. Reasons(h)'
          BY <3>0, <5>1, <5>2, <5>3, KeepsReasons
        <5>. QED
          BY <2>t, <3>0, <4>1, <5>1, <5>4, FrameReasons
      <4>4. CASE Dismissed(h) /\ pc'[h] # "permSet" /\ ~OwnerUnknown(h)
        <5>1. CASE pc'[h] = "idle"
          BY <2>t, <3>0, <3>d, <4>1, <4>4, <5>1, AtEase, FrameReasons DEF GateSteps
        <5>2. CASE pc'[h] # "idle"
          <6>1. UNCHANGED <<tok, wish, has, lacked, unread>>
            BY <2>h, <3>d, <4>1, <4>4, <5>2 DEF Answer
          <6>2. ~Answer(h) /\ Goto(h, pc'[h])
            BY <2>h, <3>4, <4>4, <5>2
            DEF Answer, GateStep, GetOwner, ReadOwner, SetOwner, GetPermission,
                HasPermission, SetPermission, Refuse, Call, Proceed, Leave, Goto
          <6>3. /\ pc'[h] \in {"ownerRead", "ownerSet"} => Role(h) = CustomerRole
                /\ pc'[h] = "refused" =>
                     \/ Role(h) = CustomerRole /\ ~Owns(h)
                     \/ pc[h] = "permSet" /\ ~has[h]
            <7>1. CASE GetOwner(h)
              BY <2>h, <4>4, <6>2, <7>1 DEF GetOwner, Proceed, Leave, Goto
            <7>2. CASE ReadOwner(h) \/ SetOwner(h)
              BY <2>h, <4>4, <6>2, <7>2 DEF ReadOwner, SetOwner, Call, Proceed, Leave, Goto, Reasons
            <7>3. CASE GetPermission(h)
              BY <2>h, <6>2, <7>3 DEF GetPermission, AskCache, Proceed, Goto
            <7>4. CASE HasPermission(h)
              BY <2>h, <4>4, <6>2, <7>4 DEF HasPermission, Leave, Goto
            <7>5. CASE SetPermission(h)
              BY <2>h, <6>2, <7>5 DEF SetPermission, Call, Proceed, Goto
            <7>6. CASE Refuse(h)
              BY <6>2, <7>6 DEF Refuse, Leave
            <7>. QED
              BY <3>4, <7>1, <7>2, <7>3, <7>4, <7>5, <7>6 DEF GateStep
          <6>4. pc'[h] = "refused" => h \in lacked
            BY <4>2, <6>3 DEF Reasons, Allowed, Role, Owns
          <6>5. Reasons(h)'
            BY <3>0, <4>4, <6>1, <6>3, <6>4, KeepsReasons
          <6>. QED
            BY <3>0, <4>1, <6>1, <6>5, FrameReasons
        <5>. QED
          BY <5>1, <5>2
      <4>8. CASE OwnerUnknown(h)
        <5>1. /\ pc'[h] = "refused" /\ UNCHANGED <<tok, wish, has, lacked>>
              /\ unread' = unread \cup {h}
          BY <2>h, <4>8 DEF OwnerUnknown, Goto
        <5>2. Reasons(h)'
          BY <3>0, <5>1, KeepsReasons
        <5>. QED
          BY <3>0, <4>1, <5>1, <5>2, FrameReasons
      <4>5. HasPermission(h) => Leave(h) \/ pc'[h] = "permSet"
        BY <2>h DEF HasPermission, Goto
      <4>6. Leave(h) => Dismissed(h) /\ pc'[h] # "permSet"
        BY <2>h DEF Leave, Answer
      <4>7. HasPermission(h) \/ (Dismissed(h) /\ pc'[h] # "permSet")
              \/ OwnerUnknown(h)
        BY <2>h, <3>4, <4>6
        DEF GateStep, GetOwner, ReadOwner, SetOwner, GetPermission, SetPermission,
            Refuse, AskCache, Call, Proceed, Answer, Goto
      <4>. QED
        BY <4>3, <4>4, <4>5, <4>6, <4>7, <4>8
    <3>. QED
      BY <2>1, <3>1, <3>2, <3>3, <3>4 DEF HandlerStep
  <2>2. CASE \E g \in Grants : Grant(g)
    <3> PICK g \in Grants : Grant(g)
      BY <2>2
    <3>. QED
      BY DEF Grant, sessionVars, Reasons, Allowed, Role
  <2>3. CASE \E g \in Grants : Revoke(g)
    <3> PICK g \in Grants : Revoke(g)
      BY <2>3
    <3>1. /\ UNCHANGED <<pc, tok, wish, has, unread>> /\ granted' = granted \ {g}
          /\ lacked' = lacked \cup {h \in Handlers : wish[h] # NoWish /\ Needed(h) = g}
      BY DEF Revoke, sessionVars
    <3>. QED
      BY <3>1 DEF Reasons, Allowed, Role, Needed
  <2>4. CASE SessionTick /\ GateTick
    BY <2>4 DEF SessionTick, GateTick, grantVars, Reasons, Allowed, Role
  <2>5. CASE UNCHANGED <<sessionVars, gateVars>>
    BY <2>5 DEF sessionVars, gateVars, grantVars, Reasons, Allowed, Role
  <2>6. CASE Crash /\ GateCrash
    BY <2>6 DEF Crash, GateCrash, Reasons
  <2>7. CASE Environment
    BY <2>2, <2>3, <2>4, <2>5, <2>6, <2>7 DEF Environment, Upload
  <2>. QED
    BY <2>1, <2>5, <2>7 DEF Next, vars
<1>3. Good => RefusedForAReason
  BY DEF Reasons, RefusedForAReason
<1>. QED
  BY <1>1, <1>2, <1>3, TypeCorrect, PTL DEF Spec

-----------------------------------------------------------------------------
(* Uploads.                                                                  *)

(* Two kinds of request have an attachment in their hands, from the start.   *)
Generating(h) ==
  pc[h] \in {"presign", "setId", "setS3", "insert"} \/ Arriving(h, {"generate"})

Confirming(h) ==
  \/ pc[h] \in {"getId", "getS3", "update", "dropS3", "dropId"}
  \/ Arriving(h, {"confirm"})

(* What a handler can rely on.  The id of a new attachment is known to       *)
(* nobody else; one that is being confirmed was given to a client.           *)
Task(h) ==
  /\ Generating(h) => att[h] \notin told
  /\ Confirming(h) => att[h] \in told
  /\ pc[h] \in {"setId", "setS3", "insert"} => urlUntil[att[h]] > 0
  /\ pc[h] \in {"setS3", "insert"} /\ now < urlUntil[att[h]]
       => idKey[att[h]] >= urlUntil[att[h]]
  /\ pc[h] = "insert" /\ now < urlUntil[att[h]] => s3Key[att[h]] >= urlUntil[att[h]]
  /\ pc[h] \in {"dropS3", "dropId"} => file[att[h]] = "stored"

(* What holds of an upload: its keys outlive its URL.                        *)
Sound(a) ==
  /\ urlUntil[a] <= now + Hour
  /\ a \in told => urlUntil[a] > 0
  /\ a \in told /\ file[a] # "stored" /\ now < urlUntil[a]
       => idKey[a] >= urlUntil[a] /\ s3Key[a] >= urlUntil[a]
  /\ a \in confirmed => a \in told /\ file[a] = "stored"

(* No two handlers generate the same attachment.                             *)
Alone ==
  \A g, h \in Handlers : g # h /\ Generating(g) /\ Generating(h) => att[g] # att[h]

Orderly ==
  /\ Alone
  /\ \A h \in Handlers : Task(h)
  /\ \A a \in Uploads : Sound(a)

-----------------------------------------------------------------------------
(* The kind of a request never changes.                                      *)
LEMMA SameKind ==
  ASSUME Control, NEW h \in Handlers, SessionStep(h, Routes) \/ GateStep(h), Control'
  PROVE  /\ Generating(h)' => Generating(h)
         /\ Confirming(h)' => Confirming(h)
         /\ pc'[h] \notin {"setId", "setS3", "insert", "dropS3", "dropId"}
  <1>c. pc \in [Handlers -> Steps] /\ op \in [Handlers -> Paths \cup {"none", "login"}]
    BY DEF Control
  <1>a. CASE Answer(h)
    BY <1>c, <1>a DEF Answer, Generating, Confirming, Arriving
  <1>1. CASE Renew(h, Routes) /\ ~Answer(h)
    <2>1. /\ pc[h] = "renew" /\ op[h] \in Paths /\ pc'[h] = Routes[op[h]]
      BY <1>c, <1>1 DEF Renew, Call, Enter, Control, Hands
    <2>2. \A o \in {"logout", "other", "generate", "confirm", "assign",
                    "reminder", "cancel_reminder", "snooze_reminder"} :
            /\ Routes[o] \in {"answer", "logoutGet", "presign", "getId", "gate"}
            /\ Routes[o] = "presign" => o = "generate"
            /\ Routes[o] = "getId" => o = "confirm"
      BY DEF Routes
    <2>3. /\ pc'[h] \in {"answer", "logoutGet", "presign", "getId", "gate"}
          /\ pc'[h] = "presign" => op[h] = "generate"
          /\ pc'[h] = "getId" => op[h] = "confirm"
      BY <2>1, <2>2, GateAssumption DEF Paths
    <2>. QED
      BY <2>1, <2>3 DEF Generating, Confirming, Arriving
  <1>2. CASE (\E u \in Users : Login(h, u)) \/ StoreToken(h) \/ Unlock(h)
             \/ LogoutGet(h) \/ LogoutDelete(h)
    BY <1>c, <1>a, <1>2
    DEF Login, StoreToken, Unlock, LogoutGet, LogoutDelete, Call, Goto,
        Generating, Confirming, Arriving
  <1>3. CASE Check(h) \/ Measure(h)
    BY <1>c, <1>a, <1>3 DEF Check, Measure, Goto, Generating, Confirming, Arriving
  <1>4. CASE GateStep(h)
    <2>1. pc'[h] \in GateSteps \cup {"idle"}
      BY <1>c, <1>4
      DEF GateStep, GetOwner, ReadOwner, SetOwner, GetPermission, HasPermission,
          SetPermission, Refuse, Call, Proceed, Leave, OwnerUnknown, AskCache, Answer,
          Goto, GateSteps
    <2>. QED
      BY <2>1 DEF GateSteps, Generating, Confirming, Arriving
  <1>. QED
    BY <1>a, <1>1, <1>2, <1>3, <1>4 DEF SessionStep

(* A handler that leaves the uploads alone, and starts on none.              *)
LEMMA LeavesUploads ==
  ASSUME Orderly, NEW h \in Handlers, Moves(h), UNCHANGED <<now, storedVars>>,
         Generating(h)' => Generating(h) /\ att'[h] = att[h],
         Confirming(h)' => Confirming(h) /\ att'[h] = att[h],
         pc'[h] \notin {"setId", "setS3", "insert", "dropS3", "dropId"}
  PROVE  Orderly'
  <1>1. \A g \in Handlers \ {h} : Task(g)' /\ (Generating(g)' => Generating(g))
    BY DEF Orderly, Task, Generating, Confirming, Arriving, Moves, storedVars
  <1>2. Task(h)'
    BY DEF Orderly, Task, storedVars
  <1>3. Alone'
    BY <1>1 DEF Orderly, Alone, Moves
  <1>4. \A a \in Uploads : Sound(a)'
    BY DEF Orderly, Sound, storedVars
  <1>. QED
    BY <1>1, <1>2, <1>3, <1>4 DEF Orderly

(* A handler that changes what is stored of its own attachment.              *)
LEMMA ChangesOne ==
  ASSUME Orderly, TypeOK, NEW h \in Handlers, Moves(h), NEW a \in Uploads, a = att[h],
         UNCHANGED now,
         told' = told \/ (Generating(h) /\ told' = told \cup {a}),
         Confirming(h) => file'[a] \in {file[a], "stored"},
         Generating(h) \/ Confirming(h),
         \A b \in Uploads \ {a} :
           /\ urlUntil'[b] = urlUntil[b] /\ idKey'[b] = idKey[b]
           /\ s3Key'[b] = s3Key[b] /\ file'[b] = file[b]
           /\ b \in confirmed' => b \in confirmed,
         Generating(h)' => Generating(h) /\ att'[h] = a,
         Task(h)', Sound(a)'
  PROVE  Orderly'
  <1>t. Control
    BY TypeParts
  <1>1. ASSUME NEW g \in Handlers \ {h} PROVE Task(g)'
    <2>1. /\ UNCHANGED now /\ pc'[g] = pc[g] /\ att'[g] = att[g]
          /\ Generating(g)' = Generating(g) /\ Confirming(g)' = Confirming(g)
      BY DEF Moves, Generating, Confirming, Arriving
    <2>2. Task(g) /\ Task(h)
      BY DEF Orderly
    <2>3. CASE Generating(g)
      <3>1. att[g] \notin told /\ att[g] \in Uploads /\ att[g] # a /\ ~Confirming(g)
        <4>1. pc[g] \in UploadSteps \/ Arriving(g, {"generate", "confirm"})
          BY <2>3 DEF Generating, UploadSteps, Arriving
        <4>2. att[g] \in Uploads /\ att[g] \notin told
          BY <1>t, <2>2, <2>3, <4>1 DEF Control, Hands, Task
        <4>3. ~Confirming(g)
          BY <1>t, <2>2, <4>2 DEF Task
        <4>4. att[g] # a
          BY <1>t, <2>2, <2>3, <4>2 DEF Orderly, Alone, Task
        <4>. QED
          BY <4>2, <4>3, <4>4
      <3>. QED
        BY <2>1, <2>2, <2>3, <3>1 DEF Task, Confirming
    <2>4. CASE Confirming(g) /\ ~Generating(g)
      <3>1. att[g] \in told /\ att[g] \in told' /\ att[g] \in Uploads
        <4>1. pc[g] \in UploadSteps \/ Arriving(g, {"generate", "confirm"})
          BY <2>4 DEF Confirming, UploadSteps, Arriving
        <4>. QED
          BY <1>t, <2>2, <2>4, <4>1 DEF Control, Hands, Task
      <3>2. file[att[g]] = "stored" => file'[att[g]] = "stored"
        <4>1. att[g] = a => Confirming(h)
          BY <1>t, <2>2, <3>1 DEF Task
        <4>. QED
          BY <3>1, <4>1
      <3>. QED
        BY <2>1, <2>2, <2>4, <3>1, <3>2 DEF Task, Generating
    <2>5. CASE ~Confirming(g) /\ ~Generating(g)
      BY <2>1, <2>5 DEF Task, Confirming, Generating
    <2>. QED
      BY <2>3, <2>4, <2>5
  <1>2. ASSUME NEW b \in Uploads \ {a} PROVE Sound(b)'
    BY <1>2 DEF Orderly, Sound
  <1>3. Alone'
    <2>1. \A g \in Handlers \ {h} : Generating(g)' = Generating(g) /\ att'[g] = att[g]
      BY DEF Moves, Generating, Arriving
    <2>. QED
      BY <2>1 DEF Orderly, Alone
  <1>. QED
    BY <1>1, <1>2, <1>3 DEF Orderly

-----------------------------------------------------------------------------
(* The steps of the two handlers.                                            *)
LEMMA UploadStepOrderly ==
  ASSUME Orderly, TypeOK, NEW h \in Handlers, UploadStep(h), UNCHANGED gateVars
  PROVE  Orderly'
  <1>t. /\ Control /\ now \in Nat /\ object \subseteq told /\ Hour \in Nat \ {0}
        /\ urlUntil \in [Uploads -> Nat] /\ file \in [Uploads -> {"none", "empty", "stored"}]
        /\ idKey \in [Uploads -> Nat] /\ s3Key \in [Uploads -> Nat]
    BY TypeParts, UploadAssumption DEF SessionStore, UploadStore, Times
  <1>m. Moves(h) /\ pc[h] \in UploadSteps /\ UNCHANGED now
    BY <1>t, UploadControlled
    DEF UploadStep, Presign, SetIdKey, SetS3Key, Insert, GetIdKey, GetS3Key,
        UpdateRow, DropS3Key, DropIdKey, Rest
  <1>a. PICK a \in Uploads : a = att[h]
    BY <1>t, <1>m, HandsHold
  <1>o. Task(h) /\ Sound(a)
    BY DEF Orderly
  <1>p. pc \in [Handlers -> Steps] /\ (Answer(h) => pc'[h] = "idle")
    BY <1>t DEF Control, Answer
  <1>f. ASSUME NEW step, GoOn(h, step) PROVE pc'[h] = step /\ att'[h] = a
    BY <1>a, <1>p, <1>f DEF GoOn, Goto
  <1>i. ASSUME pc'[h] = "idle" PROVE Task(h)' /\ ~Generating(h)'
    BY <1>i DEF Task, Generating, Confirming, Arriving
  <1>1. CASE Presign(h)
    <2>1. /\ pc[h] = "presign" /\ pc'[h] = "setId" /\ att'[h] = a
          /\ urlUntil' = [urlUntil EXCEPT ![a] = now + Hour]
          /\ UNCHANGED <<idKey, s3Key, file, object, told, confirmed>>
      BY <1>1, <1>a, <1>f DEF Presign
    <2>2. Generating(h) /\ Generating(h)' /\ ~Confirming(h) /\ ~Confirming(h)'
      BY <2>1 DEF Generating, Confirming, Arriving
    <2>3. a \notin told /\ urlUntil'[a] = now + Hour /\ a \notin confirmed
      BY <1>t, <1>a, <1>o, <2>1, <2>2 DEF Task, Sound
    <2>4. Task(h)' /\ Sound(a)'
      BY <1>t, <1>m, <2>1, <2>2, <2>3 DEF Task, Sound
    <2>. QED
      BY <1>t, <1>m, <1>a, <2>1, <2>2, <2>4, ChangesOne
  <1>2. CASE SetIdKey(h)
    <2>1. /\ pc[h] = "setId" /\ UNCHANGED <<urlUntil, s3Key, file, object, told, confirmed>>
          /\ \/ /\ pc'[h] = "setS3" /\ att'[h] = a
                /\ idKey' = SetEx(idKey, a, now + KeyLife)
             \/ pc'[h] = "idle" /\ idKey' \in {idKey, SetEx(idKey, a, now + KeyLife)}
      BY <1>2, <1>a, <1>f, <1>p DEF SetIdKey, Call, Finish
    <2>2. Generating(h) /\ ~Confirming(h) /\ a \notin told /\ urlUntil[a] > 0
          /\ urlUntil[a] <= now + Hour /\ a \notin confirmed
      BY <1>t, <1>a, <1>o, <2>1 DEF Generating, Confirming, Arriving, Task, Sound
    <2>3. \A b \in Uploads \ {a} : idKey'[b] = idKey[b]
      BY <1>t, <2>1 DEF SetEx
    <2>4. Sound(a)'
      BY <1>m, <2>1, <2>2 DEF Sound
    <2>5. Task(h)' /\ (Generating(h)' => att'[h] = a)
      <3>1. CASE pc'[h] = "idle"
        BY <1>i, <3>1
      <3>2. CASE pc'[h] = "setS3"
        <4>1. idKey'[a] = now + Hour /\ att'[h] = a
          BY <1>t, <2>1, <3>2 DEF SetEx, KeyLife
        <4>. QED
          BY <1>t, <1>m, <2>1, <2>2, <3>2, <4>1 DEF Task, Generating, Confirming, Arriving
      <3>. QED
        BY <2>1, <3>1, <3>2
    <2>. QED
      BY <1>t, <1>m, <1>a, <2>1, <2>2, <2>3, <2>4, <2>5, ChangesOne
  <1>3. CASE SetS3Key(h)
    <2>1. /\ pc[h] = "setS3" /\ UNCHANGED <<urlUntil, idKey, file, object, told, confirmed>>
          /\ \/ /\ pc'[h] = "insert" /\ att'[h] = a
                /\ s3Key' = SetEx(s3Key, a, now + KeyLife)
             \/ pc'[h] = "idle" /\ s3Key' \in {s3Key, SetEx(s3Key, a, now + KeyLife)}
      BY <1>3, <1>a, <1>f, <1>p DEF SetS3Key, Call, Finish
    <2>2. Generating(h) /\ ~Confirming(h) /\ a \notin told /\ urlUntil[a] > 0
          /\ urlUntil[a] <= now + Hour /\ a \notin confirmed
          /\ (now < urlUntil[a] => idKey[a] >= urlUntil[a])
      BY <1>t, <1>a, <1>o, <2>1 DEF Generating, Confirming, Arriving, Task, Sound
    <2>3. \A b \in Uploads \ {a} : s3Key'[b] = s3Key[b]
      BY <1>t, <2>1 DEF SetEx
    <2>4. Sound(a)'
      BY <1>m, <2>1, <2>2 DEF Sound
    <2>5. Task(h)' /\ (Generating(h)' => att'[h] = a)
      <3>1. CASE pc'[h] = "idle"
        BY <1>i, <3>1
      <3>2. CASE pc'[h] = "insert"
        <4>1. s3Key'[a] = now + Hour /\ att'[h] = a
          BY <1>t, <2>1, <3>2 DEF SetEx, KeyLife
        <4>. QED
          BY <1>t, <1>m, <2>1, <2>2, <3>2, <4>1 DEF Task, Generating, Confirming, Arriving
      <3>. QED
        BY <2>1, <3>1, <3>2
    <2>. QED
      BY <1>t, <1>m, <1>a, <2>1, <2>2, <2>3, <2>4, <2>5, ChangesOne
  <1>4. CASE Insert(h)
    <2>1. /\ pc[h] = "insert" /\ UNCHANGED <<urlUntil, idKey, s3Key, object, confirmed>>
          /\ pc'[h] = "idle"
          /\ \/ file' = [file EXCEPT ![a] = "empty"] /\ told' = told \cup {a}
             \/ file' \in {file, [file EXCEPT ![a] = "empty"]} /\ told' = told
      BY <1>4, <1>a, <1>p DEF Insert, Call, Finish
    <2>2. Generating(h) /\ ~Confirming(h) /\ a \notin told /\ urlUntil[a] > 0
          /\ urlUntil[a] <= now + Hour /\ a \notin confirmed
          /\ (now < urlUntil[a] => idKey[a] >= urlUntil[a] /\ s3Key[a] >= urlUntil[a])
      BY <1>t, <1>a, <1>o, <2>1 DEF Generating, Confirming, Arriving, Task, Sound
    <2>3. \A b \in Uploads \ {a} : file'[b] = file[b]
      BY <1>t, <2>1
    <2>4. Sound(a)'
      BY <1>m, <2>1, <2>2 DEF Sound
    <2>. QED
      BY <1>t, <1>m, <1>a, <1>i, <2>1, <2>2, <2>3, <2>4, ChangesOne
  <1>5. CASE GetIdKey(h) \/ GetS3Key(h)
    <2>1. /\ pc[h] \in {"getId", "getS3"} /\ UNCHANGED storedVars
          /\ pc'[h] = "idle" \/ (pc'[h] \in {"getS3", "update"} /\ att'[h] = a)
      BY <1>5, <1>a, <1>f, <1>p DEF GetIdKey, GetS3Key, Finish
    <2>. QED
      BY <1>m, <1>a, <2>1, LeavesUploads DEF Orderly, Generating, Confirming, Arriving
  <1>6. CASE UpdateRow(h)
    <2>1. /\ pc[h] = "update" /\ UNCHANGED <<urlUntil, idKey, s3Key, object, told, confirmed>>
          /\ \/ /\ pc'[h] = "dropS3" /\ att'[h] = a
                /\ file' = [file EXCEPT ![a] = "stored"]
             \/ pc'[h] = "idle" /\ file' \in {file, [file EXCEPT ![a] = "stored"]}
      BY <1>6, <1>a, <1>f, <1>p DEF UpdateRow, UpdateFailed, Call, Finish
    <2>2. Confirming(h) /\ ~Generating(h) /\ ~Generating(h)' /\ a \in told
      BY <1>a, <1>o, <2>1 DEF Generating, Confirming, Arriving, Task
    <2>3. /\ \A b \in Uploads \ {a} : file'[b] = file[b]
          /\ file'[a] \in {file[a], "stored"}
          /\ pc'[h] = "dropS3" => file'[a] = "stored"
      BY <1>t, <2>1
    <2>4. Sound(a)'
      BY <1>m, <1>o, <2>1, <2>2, <2>3 DEF Sound
    <2>5. Task(h)'
      BY <1>i, <2>1, <2>2, <2>3 DEF Task, Generating, Confirming, Arriving
    <2>. QED
      BY <1>t, <1>m, <1>a, <2>1, <2>2, <2>3, <2>4, <2>5, ChangesOne
  <1>7. CASE DropS3Key(h)
    <2>1. /\ pc[h] = "dropS3" /\ UNCHANGED <<urlUntil, idKey, file, object, told, confirmed>>
          /\ pc'[h] = "dropId" /\ att'[h] = a
          /\ s3Key' \in {s3Key, Del(s3Key, a)}
      BY <1>7, <1>a, <1>f DEF DropS3Key, Call
    <2>2. /\ Confirming(h) /\ ~Generating(h) /\ ~Generating(h)' /\ a \in told
          /\ file[a] = "stored"
      BY <1>a, <1>o, <2>1 DEF Generating, Confirming, Arriving, Task
    <2>3. \A b \in Uploads \ {a} : s3Key'[b] = s3Key[b]
      BY <1>t, <2>1 DEF Del
    <2>4. Task(h)' /\ Sound(a)'
      BY <1>m, <1>o, <2>1, <2>2 DEF Task, Sound, Generating, Confirming, Arriving
    <2>. QED
      BY <1>t, <1>m, <1>a, <2>1, <2>2, <2>3, <2>4, ChangesOne
  <1>8. CASE DropIdKey(h)
    <2>1. /\ pc[h] = "dropId" /\ UNCHANGED <<urlUntil, s3Key, file, object, told>>
          /\ pc'[h] = "idle" /\ idKey' \in {idKey, Del(idKey, a)}
          /\ confirmed' = confirmed \cup {a}
      BY <1>8, <1>a, <1>p DEF DropIdKey, Call, Finish
    <2>2. Confirming(h) /\ ~Generating(h) /\ a \in told /\ file[a] = "stored"
      BY <1>a, <1>o, <2>1 DEF Generating, Confirming, Arriving, Task
    <2>3. \A b \in Uploads \ {a} : idKey'[b] = idKey[b]
      BY <1>t, <2>1 DEF Del
    <2>4. Task(h)' /\ Sound(a)' /\ ~Generating(h)'
      BY <1>i, <1>m, <1>o, <2>1, <2>2 DEF Sound
    <2>. QED
      BY <1>t, <1>m, <1>a, <2>1, <2>2, <2>3, <2>4, ChangesOne
  <1>. QED
    BY <1>1, <1>2, <1>3, <1>4, <1>5, <1>6, <1>7, <1>8 DEF UploadStep

-----------------------------------------------------------------------------
(* A new request, for an attachment nobody has in hand or one a client knows.*)
LEMMA RequestOrderly ==
  ASSUME Orderly, TypeOK, NEW h \in Handlers, NEW t \in held, NewRequest(h, t)
  PROVE  Orderly'
  <1>t. Control /\ held \subseteq Tokens /\ GateAssumption
    BY TypeParts, GateAssumption DEF SessionStore
  <1>1. /\ Moves(h) /\ pc'[h] = "check" /\ pc[h] = "idle"
        /\ UNCHANGED <<now, storedVars>>
    BY <1>t, RequestControlled
    DEF NewRequest, UploadRequest, GateRequest, Request, uploadVars
  <1>p. att \in [Handlers -> Uploads \cup {Nobody}] /\ op \in [Handlers -> Paths \cup {"none", "login"}]
    BY <1>t DEF Control
  <1>2. CASE \E o \in {"logout", "other"} \cup Actions : Request(h, t, o)
    <2>1. op'[h] \notin {"generate", "confirm"}
      BY <1>t, <1>p, <1>2 DEF Request, GateAssumption
    <2>. QED
      BY <1>1, <2>1, LeavesUploads DEF Generating, Confirming, Arriving
  <1>3. CASE \E a \in Uploads : UploadRequest(h, t, "confirm", a)
    <2> PICK a \in Uploads : UploadRequest(h, t, "confirm", a)
      BY <1>3
    <2>1. op'[h] = "confirm" /\ att'[h] = a /\ a \in told
      BY <1>p DEF UploadRequest, Request
    <2>2. Task(h)' /\ ~Generating(h)'
      BY <1>1, <2>1 DEF Task, Generating, Confirming, Arriving, storedVars
    <2>3. \A g \in Handlers \ {h} : Task(g)' /\ (Generating(g)' => Generating(g))
      BY <1>1 DEF Orderly, Task, Generating, Confirming, Arriving, Moves, storedVars
    <2>4. Alone'
      BY <1>1, <2>2, <2>3 DEF Orderly, Alone, Moves
    <2>. QED
      BY <1>1, <2>2, <2>3, <2>4 DEF Orderly, Sound, storedVars
  <1>4. CASE \E a \in Uploads : UploadRequest(h, t, "generate", a)
    <2> PICK a \in Uploads : UploadRequest(h, t, "generate", a)
      BY <1>4
    <2>1. /\ op'[h] = "generate" /\ att'[h] = a /\ urlUntil[a] = 0
          /\ \A g \in Handlers : att[g] # a
      BY <1>p DEF UploadRequest, Request, Fresh
    <2>2. a \notin told
      BY <2>1 DEF Orderly, Sound
    <2>3. Task(h)'
      BY <1>1, <2>1, <2>2 DEF Task, Generating, Confirming, Arriving, storedVars
    <2>4. \A g \in Handlers \ {h} : Task(g)' /\ (Generating(g)' => Generating(g))
      BY <1>1 DEF Orderly, Task, Generating, Confirming, Arriving, Moves, storedVars
    <2>5. Alone'
      BY <1>1, <2>1, <2>4 DEF Orderly, Alone, Moves
    <2>. QED
      BY <1>1, <2>3, <2>4, <2>5 DEF Orderly, Sound, storedVars
  <1>. QED
    BY <1>2, <1>3, <1>4 DEF NewRequest, GateRequest

(* Time passes, and takes away keys.                                         *)
LEMMA TickOrderly ==
  ASSUME Orderly, TypeOK, SessionTick, UploadTick
  PROVE  Orderly'
  <1>t. /\ now \in Nat /\ Hour \in Nat /\ urlUntil \in [Uploads -> Nat] /\ Control
        /\ idKey \in [Uploads -> Nat] /\ s3Key \in [Uploads -> Nat]
    BY TypeParts, UploadAssumption DEF SessionStore, UploadStore, Times
  <1>1. /\ now' = now + 1 /\ UNCHANGED <<pc, op, att, urlUntil, file, object, told, confirmed>>
        /\ idKey' = Expire(idKey, now') /\ s3Key' = Expire(s3Key, now')
    BY DEF SessionTick, UploadTick
  <1>2. ASSUME NEW a \in Uploads, now' < urlUntil[a]
        PROVE  /\ idKey[a] >= urlUntil[a] => idKey'[a] = idKey[a]
               /\ s3Key[a] >= urlUntil[a] => s3Key'[a] = s3Key[a]
    BY <1>t, <1>1, <1>2 DEF Expire
  <1>3. ASSUME NEW a \in Uploads PROVE Sound(a)'
    BY <1>t, <1>1, <1>2 DEF Orderly, Sound
  <1>4. ASSUME NEW h \in Handlers PROVE Task(h)'
    <2>1. pc[h] \in {"setS3", "insert"} => att[h] \in Uploads
      BY <1>t, HandsHold DEF UploadSteps
    <2>2. ASSUME pc[h] \in {"setS3", "insert"}, now' < urlUntil[att[h]]
          PROVE  /\ idKey'[att[h]] >= urlUntil[att[h]]
                 /\ pc[h] = "insert" => s3Key'[att[h]] >= urlUntil[att[h]]
      BY <1>t, <1>1, <1>2, <2>1, <2>2 DEF Orderly, Task
    <2>. QED
      BY <1>1, <2>2 DEF Orderly, Task, Generating, Confirming, Arriving
  <1>5. Alone'
    BY <1>1 DEF Orderly, Alone, Generating, Arriving
  <1>. QED
    BY <1>3, <1>4, <1>5 DEF Orderly

-----------------------------------------------------------------------------
LEMMA AlwaysOrderly == Spec => []Orderly
<1>1. Init => Orderly
  BY UploadAssumption
  DEF Init, SessionInit, UploadInit, Orderly, Alone, Task, Sound,
      Generating, Confirming, Arriving
<1>2. TypeOK /\ Orderly /\ [Next]_vars => Orderly'
  <2> SUFFICES ASSUME TypeOK, Orderly, [Next]_vars PROVE Orderly'
    OBVIOUS
  <2>t. Control /\ now \in Times /\ held \subseteq Tokens
    BY TypeParts DEF SessionStore
  <2>c. Control'
    BY <2>t, StepControlled
  <2>1. ASSUME NEW h \in Handlers, HandlerStep(h) PROVE Orderly'
    <3>1. CASE \E t \in held : NewRequest(h, t)
      BY <3>1, RequestOrderly
    <3>2. CASE UploadStep(h) /\ UNCHANGED gateVars
      BY <3>2, UploadStepOrderly
    <3>3. CASE SessionStep(h, Routes) /\ Settled(h) /\ Dismissed(h)
               /\ UNCHANGED storedVars
      <4>1. Moves(h) /\ UNCHANGED now
        BY <2>t, <3>3, SessionControlled
        DEF SessionStep, Login, StoreToken, Unlock, Check, Measure, Renew,
            LogoutGet, LogoutDelete, counters
      <4>2. pc'[h] = "idle" \/ att' = att
        BY <2>t, <3>3, SettledControlled
      <4>3. pc'[h] = "idle" => ~Generating(h)' /\ ~Confirming(h)'
        BY DEF Generating, Confirming, Arriving
      <4>. QED
        BY <2>t, <2>c, <3>3, <4>1, <4>2, <4>3, SameKind, LeavesUploads
    <3>4. CASE GateStep(h) /\ UNCHANGED uploadVars
      <4>1. Moves(h) /\ UNCHANGED <<now, att, storedVars>>
        BY <2>t, <3>4, RouteStep DEF uploadVars
      <4>. QED
        BY <2>t, <2>c, <3>4, <4>1, SameKind, LeavesUploads
    <3>. QED
      BY <2>1, <3>1, <3>2, <3>3, <3>4 DEF HandlerStep
  <2>2. CASE \E a \in Uploads : Upload(a)
    <3> PICK a \in Uploads : Upload(a)
      BY <2>2
    <3>1. /\ object' = object \cup {a}
          /\ UNCHANGED <<now, pc, op, att, urlUntil, idKey, s3Key, file, told, confirmed>>
      BY DEF Upload, sessionVars
    <3>. QED
      BY <3>1 DEF Orderly, Alone, Task, Sound, Generating, Confirming, Arriving
  <2>3. CASE SessionTick /\ UploadTick
    BY <2>3, TickOrderly
  <2>4. CASE Crash /\ UploadCrash
    BY <2>4
    DEF Crash, UploadCrash, storedVars, Orderly, Alone, Task, Sound,
        Generating, Confirming, Arriving
  <2>5. CASE UNCHANGED <<sessionVars, uploadVars>>
    BY <2>5
    DEF sessionVars, uploadVars, storedVars, Orderly, Alone, Task, Sound,
        Generating, Confirming, Arriving
  <2>6. CASE Environment
    BY <2>2, <2>3, <2>4, <2>5, <2>6 DEF Environment, Grant, Revoke
  <2>. QED
    BY <2>1, <2>5, <2>6 DEF Next, vars
<1>. QED
  BY <1>1, <1>2, TypeCorrect, PTL DEF Spec

(* What ConfirmS3Upload asks for is there as long as the URL is good         *)
(* (GeneratePresignedUploadURL).                                             *)
THEOREM StaysConfirmable == Spec => []ConfirmableWhileUploadable
<1>1. TypeOK /\ Orderly => ConfirmableWhileUploadable
  <2> SUFFICES ASSUME TypeOK, Orderly, NEW a \in told,
                      file[a] # "stored", now < urlUntil[a]
               PROVE  idKey[a] > now /\ s3Key[a] > now
    BY DEF ConfirmableWhileUploadable
  <2>1. /\ now \in Nat /\ a \in Uploads /\ urlUntil[a] \in Nat
        /\ idKey[a] \in Nat /\ s3Key[a] \in Nat
    BY TypeParts DEF SessionStore, UploadStore, Times
  <2>. QED
    BY <2>1 DEF Orderly, Sound
<1>. QED
  BY <1>1, TypeCorrect, AlwaysOrderly, PTL

(* Once a client was answered "File uploaded successfully", the row of the   *)
(* attachment names the file (ConfirmS3Upload).                              *)
THEOREM SuccessIsNamed == Spec => []SuccessMeansNamed
<1>1. TypeOK /\ Orderly => SuccessMeansNamed
  BY TypeParts DEF UploadStore, Orderly, Sound, SuccessMeansNamed
<1>. QED
  BY <1>1, TypeCorrect, AlwaysOrderly, PTL

===============================================================================
