---------------------------- MODULE RequestsProofs ----------------------------
(* Machine-checked theorems about the HTTP server of module Requests, for    *)
(* every set of users, tickets, uploads and handlers, and every bound.       *)
EXTENDS Requests, Integers, TLAPS

-----------------------------------------------------------------------------
(* The arithmetic of days.                                                   *)

(* A day ends in its last time unit, and later times have later ends of day. *)
LEMMA DaysEnd ==
  ASSUME NEW t \in Nat
  PROVE  /\ EndOfDay(t) \in Nat /\ t <= EndOfDay(t)
         /\ \A u \in Nat : t <= u => EndOfDay(t) <= EndOfDay(u)
  <1> DEFINE D == DayLength
  <1>d. D \in Nat /\ D > 1
    BY SessionAssumption
  <1> HIDE DEF D
  <1>1. /\ t \div D \in Nat /\ (t \div D) * D <= t
        /\ t < (t \div D) * D + D
    BY <1>d
  <1>2. (t \div D) * D \in Nat
    BY <1>1, <1>d
  <1>3. EndOfDay(t) = (t \div D) * D + D - 1
    BY DEF EndOfDay, D
  <1>4. ASSUME NEW u \in Nat, t <= u
        PROVE  EndOfDay(t) <= EndOfDay(u)
    <2>1. u \div D \in Nat /\ t \div D <= u \div D
      BY <1>4, <1>d
    <2>2. (t \div D) * D <= (u \div D) * D /\ (u \div D) * D \in Nat
      BY <1>1, <1>d, <2>1
    <2>3. EndOfDay(u) = (u \div D) * D + D - 1
      BY DEF EndOfDay, D
    <2>. QED
      BY <1>2, <1>3, <1>d, <2>2, <2>3
  <1>. QED
    BY <1>1, <1>2, <1>3, <1>4, <1>d

(* What is stored under the key of a session lasts to the end of a day.      *)
LEMMA ExpiryIsLater ==
  ASSUME NEW u, NEW t \in Nat
  PROVE  ExpiryOf(u, t) \in Nat /\ EndOfDay(t) <= ExpiryOf(u, t)
  <1>1. EmployeeDays * DayLength \in Nat
    BY SessionAssumption
  <1>2. /\ t + EmployeeDays * DayLength \in Nat
        /\ t <= t + EmployeeDays * DayLength
    BY <1>1
  <1>3. /\ EndOfDay(t + EmployeeDays * DayLength) \in Nat
        /\ EndOfDay(t) <= EndOfDay(t + EmployeeDays * DayLength)
    BY <1>2, DaysEnd
  <1>. QED
    BY <1>3, DaysEnd DEF ExpiryOf

-----------------------------------------------------------------------------
(* Type correctness.                                                         *)

Steps == SessionSteps \cup UploadSteps \cup GateSteps

(* What handler h holds fits where it is.                                    *)
Hands(h) ==
  /\ tok[h] \in Tokens <=> pc[h] # "idle"
  /\ pc[h] \in {"check", "measure", "renew"} => op[h] \in Paths
  /\ att[h] \in Uploads <=>
       pc[h] \in UploadSteps \/ Arriving(h, {"generate", "confirm"})
  /\ wish[h] \in Wishes <=> pc[h] \in GateSteps \/ Arriving(h, Actions)

Control ==
  /\ pc \in [Handlers -> Steps]
  /\ op \in [Handlers -> Paths \cup {"none", "login"}]
  /\ tok \in [Handlers -> Tokens \cup {NoToken}]
  /\ att \in [Handlers -> Uploads \cup {Nobody}]
  /\ wish \in [Handlers -> Wishes \cup {NoWish}]
  /\ \A h \in Handlers : Hands(h)

(* Only handler h moves.                                                     *)
Moves(h) ==
  \A g \in Handlers \ {h} :
    /\ pc'[g] = pc[g] /\ op'[g] = op[g] /\ tok'[g] = tok[g]
    /\ att'[g] = att[g] /\ wish'[g] = wish[g]

LEMMA MovesControlled ==
  ASSUME Control, NEW h \in Handlers, Moves(h),
         pc' \in [Handlers -> Steps],
         op' \in [Handlers -> Paths \cup {"none", "login"}],
         tok' \in [Handlers -> Tokens \cup {NoToken}],
         att' \in [Handlers -> Uploads \cup {Nobody}],
         wish' \in [Handlers -> Wishes \cup {NoWish}],
         Hands(h)'
  PROVE  Control'
  <1>1. ASSUME NEW g \in Handlers \ {h} PROVE Hands(g)'
    BY <1>1 DEF Control, Hands, Moves, Arriving
  <1>. QED
    BY <1>1 DEF Control

(* A handler that answers holds nothing.                                     *)
LEMMA AnswerControlled ==
  ASSUME Control, NEW h \in Handlers, Answer(h),
         att' = [att EXCEPT ![h] = Nobody], wish' = [wish EXCEPT ![h] = NoWish]
  PROVE  Control' /\ Moves(h)
  <1>1. Hands(h)'
    BY SessionAssumption, UploadAssumption, GateAssumption
    DEF Control, Hands, Answer, Arriving, UploadSteps, GateSteps
  <1>2. /\ pc' \in [Handlers -> Steps]
        /\ op' \in [Handlers -> Paths \cup {"none", "login"}]
        /\ tok' \in [Handlers -> Tokens \cup {NoToken}]
        /\ att' \in [Handlers -> Uploads \cup {Nobody}]
        /\ wish' \in [Handlers -> Wishes \cup {NoWish}]
    BY DEF Control, Answer, Steps, SessionSteps
  <1>3. Moves(h)
    BY DEF Control, Moves, Answer
  <1>. QED
    BY <1>1, <1>2, <1>3, MovesControlled

(* A handler that goes from one step of its route to another keeps what it   *)
(* holds.                                                                    *)
LEMMA GotoControlled ==
  ASSUME Control, NEW h \in Handlers, NEW step,
         pc' = [pc EXCEPT ![h] = step], UNCHANGED <<tok, op, att, wish>>,
         \/ pc[h] \in {"check", "measure", "renew"} /\ step \in {"check", "measure", "renew"}
         \/ pc[h] \in UploadSteps /\ step \in UploadSteps
         \/ pc[h] \in GateSteps /\ step \in GateSteps
         \/ pc[h] \in {"store", "unlock", "logoutGet", "logoutDelete"}
              /\ step \in {"store", "unlock", "logoutGet", "logoutDelete"}
  PROVE  Control' /\ Moves(h)
  <1>1. step \in Steps
    BY DEF Steps, SessionSteps
  <1>2. pc' \in [Handlers -> Steps] /\ pc'[h] = step
    BY <1>1 DEF Control
  <1>3. Hands(h)'
    BY <1>2
    DEF Control, Hands, Arriving, Steps, SessionSteps, UploadSteps, GateSteps
  <1>4. Moves(h)
    BY DEF Control, Moves
  <1>. QED
    BY <1>2, <1>3, <1>4, MovesControlled DEF Control

(* What Settled and Dismissed come to.                                       *)
LEMMA SettledControlled ==
  ASSUME Control, NEW h \in Handlers
  PROVE  /\ Settled(h) => att' = IF pc'[h] = "idle" THEN [att EXCEPT ![h] = Nobody]
                                 ELSE att
         /\ Dismissed(h) => wish' = IF pc'[h] = "idle" THEN [wish EXCEPT ![h] = NoWish]
                                    ELSE wish
         /\ pc[h] \in UploadSteps => wish = [wish EXCEPT ![h] = NoWish]
         /\ pc[h] \in GateSteps => att = [att EXCEPT ![h] = Nobody]
         /\ Answer(h) => pc'[h] = "idle"
         /\ \A step : Goto(h, step) => pc'[h] = step
  <1>1. Settled(h) => att' = IF pc'[h] = "idle" THEN [att EXCEPT ![h] = Nobody] ELSE att
    BY DEF Settled, Control
  <1>2. Dismissed(h) => wish' = IF pc'[h] = "idle" THEN [wish EXCEPT ![h] = NoWish]
                                ELSE wish
    BY DEF Dismissed, Control
  <1>3. pc[h] \in UploadSteps => wish[h] = NoWish
    BY DEF Control, Hands, Arriving, UploadSteps, GateSteps
  <1>4. pc[h] \in GateSteps => att[h] = Nobody
    BY DEF Control, Hands, Arriving, UploadSteps, GateSteps
  <1>5. /\ pc[h] \in UploadSteps => wish = [wish EXCEPT ![h] = NoWish]
        /\ pc[h] \in GateSteps => att = [att EXCEPT ![h] = Nobody]
    BY <1>3, <1>4 DEF Control
  <1>6. Answer(h) => pc'[h] = "idle"
    BY DEF Answer, Control
  <1>7. \A step : Goto(h, step) => pc'[h] = step
    BY DEF Goto, Control
  <1>. QED
    BY <1>1, <1>2, <1>5, <1>6, <1>7

(* A request is taken by an idle handler.                                    *)
LEMMA RequestControlled ==
  ASSUME Control, NEW h \in Handlers, NEW t \in Tokens, NewRequest(h, t)
  PROVE  /\ Control' /\ Moves(h) /\ pc[h] = "idle" /\ pc'[h] = "check" /\ tok'[h] = t
         /\ op'[h] \in Paths
  <1>1. PICK o \in Paths : Request(h, t, o)
          /\ \/ o \in {"logout", "other"} /\ UNCHANGED <<att, wish>>
             \/ /\ o \in {"generate", "confirm"} /\ UNCHANGED wish
                /\ \E a \in Uploads : att' = [att EXCEPT ![h] = a]
             \/ /\ o \in Actions /\ UNCHANGED att
                /\ \E w \in Wishes : wish' = [wish EXCEPT ![h] = w]
    <2>1. CASE \E o \in traffic.routes \cap {"logout", "other"} :
                 Request(h, t, o) /\ UNCHANGED <<uploadVars, gateVars>>
      BY <2>1 DEF uploadVars, gateVars, Paths
    <2>2. CASE \E o \in traffic.routes \cap {"generate", "confirm"}, a \in Uploads :
                 UploadRequest(h, t, o, a) /\ UNCHANGED gateVars
      BY <2>2 DEF UploadRequest, gateVars, Paths
    <2>3. CASE \E o \in traffic.routes \cap Actions, k \in Tickets :
                 GateRequest(h, t, [ticket |-> k, action |-> o]) /\ UNCHANGED uploadVars
      <3>1. PICK o \in Actions, k \in Tickets :
              GateRequest(h, t, [ticket |-> k, action |-> o]) /\ UNCHANGED uploadVars
        BY <2>3
      <3>2. [ticket |-> k, action |-> o] \in Wishes
        BY DEF Wishes
      <3>3. o \in Paths
        BY DEF Paths
      <3>. QED
        BY <3>1, <3>2, <3>3 DEF GateRequest, uploadVars
    <2>. QED
      BY <2>1, <2>2, <2>3 DEF NewRequest
  <1>2. /\ pc[h] = "idle" /\ pc' = [pc EXCEPT ![h] = "check"]
        /\ tok' = [tok EXCEPT ![h] = t] /\ op' = [op EXCEPT ![h] = o]
    BY <1>1 DEF Request
  <1>3. att[h] \notin Uploads /\ wish[h] \notin Wishes
    BY <1>2 DEF Control, Hands, Arriving, UploadSteps, GateSteps
  <1>4. Hands(h)'
    BY <1>1, <1>2, <1>3, GateAssumption DEF Control, Hands, Arriving, UploadSteps, GateSteps
  <1>5. Moves(h)
    BY <1>1, <1>2 DEF Control, Moves
  <1>6. /\ pc' \in [Handlers -> Steps]
        /\ op' \in [Handlers -> Paths \cup {"none", "login"}]
        /\ tok' \in [Handlers -> Tokens \cup {NoToken}]
        /\ att' \in [Handlers -> Uploads \cup {Nobody}]
        /\ wish' \in [Handlers -> Wishes \cup {NoWish}]
    BY <1>1, <1>2 DEF Control, Steps, SessionSteps
  <1>. QED
    BY <1>2, <1>4, <1>5, <1>6, MovesControlled DEF Control

(* The steps of module Sessions.                                             *)
LEMMA SessionControlled ==
  ASSUME Control, now \in Times, NEW h \in Handlers,
         SessionStep(h, Routes), Settled(h), Dismissed(h)
  PROVE  Control' /\ Moves(h)
  <1>s. /\ pc[h] \in {"check", "measure", "renew"} => op[h] \in Paths
        /\ pc \in [Handlers -> Steps]
    BY DEF Control, Hands
  <1>a. CASE Answer(h)
    BY <1>a, SettledControlled, AnswerControlled
  <1>g. ASSUME NEW step, pc' = [pc EXCEPT ![h] = step], UNCHANGED <<tok, op>>,
               \/ pc[h] \in {"check", "measure", "renew"} /\ step \in {"measure", "renew"}
               \/ pc[h] \in {"store", "logoutGet"} /\ step \in {"unlock", "logoutDelete"}
        PROVE  Control' /\ Moves(h)
    <2>1. pc'[h] = step
      BY <1>g, <1>s
    <2>2. UNCHANGED <<att, wish>>
      BY <1>g, <2>1, SettledControlled
    <2>. QED
      BY <1>g, <2>2, GotoControlled
  <1>1. ASSUME NEW u \in Users, Login(h, u) PROVE Control' /\ Moves(h)
    <2>1. CASE UNCHANGED <<pc, tok, op>>
      <3>1. pc'[h] = "idle" /\ att[h] \notin Uploads /\ wish[h] \notin Wishes
        BY <1>1, <2>1 DEF Login, Control, Hands, Arriving, UploadSteps, GateSteps
      <3>2. att[h] = Nobody /\ wish[h] = NoWish
        BY <3>1 DEF Control
      <3>3. UNCHANGED <<att, wish>>
        BY <3>1, <3>2, SettledControlled DEF Control
      <3>4. Hands(h)'
        BY <2>1, <3>3 DEF Control, Hands, Arriving
      <3>. QED
        BY <2>1, <3>3, <3>4, MovesControlled DEF Control, Moves
    <2>2. CASE /\ pc' = [pc EXCEPT ![h] = "store"]
               /\ tok' = [tok EXCEPT ![h] = [user |-> u, issued |-> now]]
               /\ op' = [op EXCEPT ![h] = "login"]
      <3>1. pc[h] = "idle" /\ pc'[h] = "store"
        BY <1>1, <2>2, <1>s DEF Login
      <3>2. UNCHANGED <<att, wish>>
        BY <3>1, SettledControlled
      <3>3. [user |-> u, issued |-> now] \in Tokens
        BY DEF Tokens
      <3>4. Hands(h)'
        BY <2>2, <3>1, <3>2, <3>3 DEF Control, Hands, Arriving, UploadSteps, GateSteps
      <3>5. Moves(h)
        BY <2>2, <3>2 DEF Control, Moves
      <3>6. /\ pc' \in [Handlers -> Steps]
            /\ op' \in [Handlers -> Paths \cup {"none", "login"}]
            /\ tok' \in [Handlers -> Tokens \cup {NoToken}]
        BY <2>2, <3>3 DEF Control, Steps, SessionSteps
      <3>. QED
        BY <3>2, <3>4, <3>5, <3>6, MovesControlled DEF Control
    <2>. QED
      BY <1>1, <2>1, <2>2 DEF Login
  <1>2. CASE StoreToken(h)
    BY <1>2, <1>g DEF StoreToken
  <1>3. CASE Unlock(h) \/ LogoutDelete(h)
    BY <1>3, <1>a DEF Unlock, LogoutDelete, Call
  <1>4. CASE Check(h)
    BY <1>4, <1>a, <1>g DEF Check, Goto
  <1>5. CASE Measure(h)
    BY <1>5, <1>g DEF Measure
  <1>6. CASE LogoutGet(h)
    BY <1>6, <1>a, <1>g DEF LogoutGet, Goto
  <1>7. CASE Renew(h, Routes)
    <2>1. pc[h] = "renew" /\ (Answer(h) \/ Enter(h, Routes[op[h]]))
      BY <1>7 DEF Renew, Call
    <2>2. CASE ~Answer(h)
      <3> DEFINE step == Routes[op[h]]
      <3>1. /\ op[h] \in Paths /\ step # "answer"
            /\ op' = [op EXCEPT ![h] = "none"]
            /\ pc' = [pc EXCEPT ![h] = step] /\ UNCHANGED tok
        BY <2>1, <2>2, <1>s DEF Enter
      <3>2. \/ op[h] = "logout" /\ step = "logoutGet"
            \/ op[h] \in {"generate", "confirm"} /\ step \in {"presign", "getId"}
            \/ op[h] \in Actions /\ step = "gate"
        <4>1. /\ Routes["logout"] = "logoutGet" /\ Routes["other"] = "answer"
              /\ Routes["generate"] = "presign" /\ Routes["confirm"] = "getId"
          BY DEF Routes
        <4>2. \A o \in {"assign", "reminder", "cancel_reminder", "snooze_reminder"} :
                Routes[o] = "gate"
          BY DEF Routes
        <4>3. \A o \in Actions : Routes[o] = "gate"
          BY <4>2, GateAssumption
        <4>. QED
          BY <3>1, <4>1, <4>3 DEF Paths
      <3>3. pc'[h] = step /\ step \in Steps /\ step # "idle"
        BY <3>1, <3>2, <1>s DEF Steps, SessionSteps, UploadSteps, GateSteps
      <3>. HIDE DEF step
      <3>4. UNCHANGED <<att, wish>>
        BY <3>3, SettledControlled
      <3>5. Hands(h)'
        BY <2>1, <3>1, <3>2, <3>3, <3>4, GateAssumption
        DEF Control, Hands, Arriving, UploadSteps, GateSteps
      <3>6. Moves(h)
        BY <3>1, <3>4 DEF Control, Moves
      <3>7. /\ pc' \in [Handlers -> Steps]
            /\ op' \in [Handlers -> Paths \cup {"none", "login"}]
        BY <3>1, <3>3 DEF Control
      <3>. QED
        BY <3>1, <3>4, <3>5, <3>6, <3>7, MovesControlled DEF Control
    <2>. QED
      BY <1>a, <2>2
  <1>. QED
    BY <1>1, <1>2, <1>3, <1>4, <1>5, <1>6, <1>7 DEF SessionStep

(* The steps of module Attachments.                                          *)
LEMMA UploadControlled ==
  ASSUME Control, NEW h \in Handlers, UploadStep(h), UNCHANGED gateVars
  PROVE  /\ Control' /\ Moves(h)
         /\ pc[h] \in UploadSteps /\ pc'[h] \in UploadSteps \cup {"idle"}
  <1>1. /\ pc[h] \in UploadSteps
        /\ \/ Answer(h) /\ Settled(h)
           \/ \E step \in UploadSteps : Goto(h, step) /\ UNCHANGED att
    BY DEF UploadStep, Presign, SetIdKey, SetS3Key, Insert, GetIdKey, GetS3Key,
           UpdateRow, UpdateFailed, DropS3Key, DropIdKey, Call, Finish, GoOn, UploadSteps
  <1>2. UNCHANGED wish
    BY DEF gateVars
  <1>3. CASE Answer(h) /\ Settled(h)
    BY <1>1, <1>2, <1>3, SettledControlled, AnswerControlled
  <1>4. ASSUME NEW step \in UploadSteps, Goto(h, step), UNCHANGED att
        PROVE  Control' /\ Moves(h)
    BY <1>1, <1>2, <1>4, GotoControlled DEF Goto
  <1>5. pc'[h] \in UploadSteps \cup {"idle"}
    BY <1>1, SettledControlled
  <1>. QED
    BY <1>1, <1>3, <1>4, <1>5

(* The steps of module Permissions.                                          *)
LEMMA GateControlled ==
  ASSUME Control, NEW h \in Handlers, GateStep(h), UNCHANGED uploadVars
  PROVE  /\ Control' /\ Moves(h)
         /\ pc[h] \in GateSteps /\ pc'[h] \in GateSteps \cup {"idle"}
  <1>1. /\ pc[h] \in GateSteps
        /\ \/ Answer(h) /\ Dismissed(h)
           \/ \E step \in GateSteps : Goto(h, step) /\ (Dismissed(h) \/ UNCHANGED wish)
    BY DEF GateStep, GetOwner, ReadOwner, SetOwner, GetPermission, HasPermission,
           SetPermission, Refuse, Call, Proceed, Leave, AtPermission, AskCache,
           OwnerUnknown, GateSteps
  <1>2. UNCHANGED att
    BY DEF uploadVars
  <1>3. CASE Answer(h) /\ Dismissed(h)
    BY <1>1, <1>2, <1>3, SettledControlled, AnswerControlled
  <1>4. ASSUME NEW step \in GateSteps, Goto(h, step), Dismissed(h) \/ UNCHANGED wish
        PROVE  Control' /\ Moves(h)
    <2>1. pc'[h] # "idle"
      BY <1>4, SettledControlled DEF GateSteps
    <2>2. UNCHANGED wish
      BY <1>4, <2>1, SettledControlled
    <2>. QED
      BY <1>1, <1>2, <1>4, <2>2, GotoControlled DEF Goto
  <1>5. pc'[h] \in GateSteps \cup {"idle"}
    BY <1>1, SettledControlled
  <1>. QED
    BY <1>1, <1>3, <1>4, <1>5

(* All handlers become idle.                                                 *)
LEMMA AllIdle ==
  ASSUME pc' = [h \in Handlers |-> "idle"], op' = [h \in Handlers |-> "none"],
         tok' = [h \in Handlers |-> NoToken], att' = [h \in Handlers |-> Nobody],
         wish' = [h \in Handlers |-> NoWish]
  PROVE  Control'
  <1>1. \A h \in Handlers : Hands(h)'
    BY SessionAssumption, UploadAssumption, GateAssumption
    DEF Hands, Arriving, UploadSteps, GateSteps
  <1>. QED
    BY <1>1 DEF Control, Steps, SessionSteps

LEMMA StepControlled ==
  ASSUME Control, now \in Times, held \subseteq Tokens, [Next]_vars
  PROVE  /\ Control'
         /\ \/ UNCHANGED <<pc, op, tok, att, wish>>
            \/ pc' = [h \in Handlers |-> "idle"]
            \/ \E h \in Handlers : Moves(h)
  <1> USE DEF sessionVars, uploadVars, storedVars, gateVars, counters, historyVars,
              lockVars, keyVars, grantVars
  <1>1. ASSUME NEW h \in Handlers, HandlerStep(h) PROVE Control' /\ Moves(h)
    <2>1. CASE \E t \in held : NewRequest(h, t)
      BY <2>1, RequestControlled
    <2>2. CASE SessionStep(h, Routes) /\ Settled(h) /\ Dismissed(h)
      BY <2>2, SessionControlled
    <2>3. CASE UploadStep(h) /\ UNCHANGED gateVars
      BY <2>3, UploadControlled
    <2>4. CASE GateStep(h) /\ UNCHANGED uploadVars
      BY <2>4, GateControlled
    <2>. QED
      BY <1>1, <2>1, <2>2, <2>3, <2>4 DEF HandlerStep
  <1>2. CASE UNCHANGED <<pc, op, tok, att, wish>>
    BY <1>2 DEF Control, Hands, Arriving
  <1>3. CASE Crash /\ UploadCrash /\ GateCrash
    BY <1>3, AllIdle DEF Crash, UploadCrash, GateCrash
  <1>4. CASE Environment
    BY <1>2, <1>3, <1>4
    DEF Environment, Upload, Grant, Revoke, SessionTick, UploadTick, GateTick, Crash
  <1>5. CASE UNCHANGED vars
    BY <1>2, <1>5 DEF vars
  <1>. QED
    BY <1>1, <1>4, <1>5 DEF Next

(* The types of what is not in a handler's hands, by module.                 *)
SessionStore ==
  /\ now \in Times /\ session \in [Tokens -> Nat] /\ ttl \in [Handlers -> Nat]
  /\ mutex \in [Users -> Nat] /\ mutexBy \in [Users -> Handlers \cup {NoHandler}]
  /\ until \in [Handlers -> Nat]
  /\ held \subseteq Tokens /\ raced \subseteq out /\ out \subseteq Tokens
  /\ logins \in 0 .. MaxLogins /\ requests \in 0 .. MaxRequests
  /\ faults \in 0 .. MaxFaults

UploadStore ==
  /\ urlUntil \in [Uploads -> Nat]
  /\ idKey \in [Uploads -> Nat] /\ s3Key \in [Uploads -> Nat]
  /\ file \in [Uploads -> {"none", "empty", "stored"}]
  /\ object \subseteq told /\ told \subseteq Uploads /\ confirmed \subseteq Uploads

GateStore ==
  /\ granted \subseteq Grants /\ permKey \in [Grants -> Nat] /\ permYes \subseteq Grants
  /\ ownerKey \in [Tickets -> Nat] /\ has \in [Handlers -> BOOLEAN]
  /\ changes \in 0 .. MaxChanges /\ lacked \subseteq Handlers /\ unread \subseteq Handlers
  /\ heldTo \in [Grants -> Nat] /\ late \subseteq permYes

LEMMA TypeParts ==
  TypeOK <=> Control /\ SessionStore /\ UploadStore /\ GateStore /\ traffic \in Traffic
  BY DEF TypeOK, SessionTypeOK, UploadTypeOK, GateTypeOK, Control, Hands, Steps,
         SessionStore, UploadStore, GateStore

(* A handler that holds an attachment, or a wish, holds a good one.          *)
LEMMA HandsHold ==
  ASSUME Control, NEW h \in Handlers
  PROVE  /\ pc[h] # "idle" => tok[h] \in Tokens /\ tok[h].user \in Users
                                /\ tok[h].issued \in Times
         /\ pc[h] \in UploadSteps => att[h] \in Uploads
         /\ pc[h] \in GateSteps =>
              wish[h] \in Wishes /\ wish[h].ticket \in Tickets /\ Needed(h) \in Grants
  <1>1. /\ pc[h] # "idle" => tok[h] \in Tokens
        /\ pc[h] \in UploadSteps => att[h] \in Uploads
        /\ pc[h] \in GateSteps => wish[h] \in Wishes /\ pc[h] # "idle"
    BY DEF Control, Hands, GateSteps
  <1>2. pc[h] # "idle" => tok[h].user \in Users /\ tok[h].issued \in Times
    BY <1>1 DEF Tokens
  <1>3. pc[h] \in GateSteps => wish[h].ticket \in Tickets /\ wish[h].action \in Actions
    BY <1>1 DEF Wishes
  <1>4. pc[h] \in GateSteps => Needed(h) \in Grants
    BY <1>1, <1>2, <1>3, GateAssumption DEF Needed, Role, Grants
  <1>. QED
    BY <1>1, <1>2, <1>3, <1>4

(* What expires, or is written, are times.                                   *)
LEMMA KeyTypes ==
  ASSUME NEW K, NEW keys \in [K -> Nat]
  PROVE  /\ \A t \in Nat : Expire(keys, t) \in [K -> Nat]
         /\ \A k : Del(keys, k) \in [K -> Nat]
         /\ \A k : \A t \in Nat : SetEx(keys, k, t) \in [K -> Nat]
  BY DEF Expire, SetEx, Del, Absent

LEMMA FaultTypes ==
  ASSUME faults \in 0 .. MaxFaults, Reliable \/ Fault
  PROVE  faults' \in 0 .. MaxFaults
  BY SessionAssumption DEF Reliable, Fault

LEMMA SessionStored ==
  ASSUME TypeOK, [Next]_vars
  PROVE  SessionStore'
  <1> USE DEF counters, historyVars, lockVars
  <1>t. Control /\ SessionStore /\ now \in Nat /\ 0 \in Times
    BY TypeParts, SessionAssumption DEF SessionStore, Times
  <1>k. /\ \A t \in Nat : /\ Expire(session, t) \in [Tokens -> Nat]
                          /\ Expire(mutex, t) \in [Users -> Nat]
        /\ \A k : \A t \in Nat : /\ SetEx(session, k, t) \in [Tokens -> Nat]
                                 /\ SetEx(mutex, k, t) \in [Users -> Nat]
        /\ \A k : /\ Del(session, k) \in [Tokens -> Nat]
                  /\ Del(mutex, k) \in [Users -> Nat]
    <2>1. session \in [Tokens -> Nat] /\ mutex \in [Users -> Nat]
      BY <1>t DEF SessionStore
    <2>. QED
      BY <2>1, KeyTypes
  (* The steps that may call, and leave the rest of the session alone.       *)
  <1>r. ASSUME Reliable \/ Fault, UNCHANGED <<now, session, lockVars, logins, requests, historyVars>>,
               ttl' \in [Handlers -> Nat]
        PROVE  SessionStore'
    BY <1>r, <1>t, FaultTypes DEF SessionStore
  <1>1. ASSUME NEW h \in Handlers, HandlerStep(h) PROVE SessionStore'
    <2>a. Answer(h) => ttl' \in [Handlers -> Nat]
      BY <1>t DEF Answer, SessionStore
    <2>g. \A step : Goto(h, step) => ttl' \in [Handlers -> Nat]
      BY <1>t DEF Goto, SessionStore
    <2>1. CASE \E t \in held : NewRequest(h, t)
      <3>1. /\ UNCHANGED <<now, session, ttl, lockVars, logins, faults, historyVars>>
            /\ requests' = requests + 1 /\ requests < MaxRequests
        BY <2>1 DEF NewRequest, UploadRequest, GateRequest, Request
      <3>. QED
        BY <1>t, <3>1, SessionAssumption DEF SessionStore
    <2>2. CASE UploadStep(h) \/ GateStep(h)
      <3>1. /\ Rest /\ (Reliable \/ Fault)
            /\ Answer(h) \/ (\E step : Goto(h, step))
        BY <2>2
        DEF UploadStep, Presign, SetIdKey, SetS3Key, Insert, GetIdKey, GetS3Key,
            UpdateRow, UpdateFailed, DropS3Key, DropIdKey, Call, Finish, GoOn,
            GateStep, GetOwner, ReadOwner, SetOwner, GetPermission, HasPermission,
            SetPermission, Refuse, Proceed, Leave, OwnerUnknown, GateRest, Rest
      <3>. QED
        BY <1>r, <2>a, <2>g, <3>1 DEF Rest
    <2>3. ASSUME NEW u \in Users, Login(h, u) PROVE SessionStore'
      <3>1. /\ UNCHANGED <<now, session, requests, historyVars>>
            /\ logins < MaxLogins /\ logins' = logins + 1 /\ (Reliable \/ Fault)
            /\ \/ UNCHANGED <<ttl, until>>
               \/ /\ until' = [until EXCEPT ![h] = now + LockLife]
                  /\ ttl' = [ttl EXCEPT ![h] = ExpiryOf(u, now) - now]
            /\ \/ UNCHANGED <<mutex, mutexBy>>
               \/ /\ mutex' = SetEx(mutex, u, now + LockLife)
                  /\ mutexBy' = [mutexBy EXCEPT ![u] = h]
        BY <2>3 DEF Login
      <3>2. now + LockLife \in Nat /\ ExpiryOf(u, now) - now \in Nat
        <4>1. /\ EndOfDay(now) \in Nat /\ now <= EndOfDay(now)
              /\ ExpiryOf(u, now) \in Nat /\ EndOfDay(now) <= ExpiryOf(u, now)
          BY <1>t, DaysEnd, ExpiryIsLater
        <4>. QED
          BY <1>t, <4>1, SessionAssumption
      <3>3. mutex' \in [Users -> Nat] /\ mutexBy' \in [Users -> Handlers \cup {NoHandler}]
        <4>1. mutexBy \in [Users -> Handlers \cup {NoHandler}] /\ mutex \in [Users -> Nat]
          BY <1>t DEF SessionStore
        <4>2. mutex' \in [Users -> Nat]
          BY <3>1, <3>2, <4>1, <1>k
        <4>3. mutexBy' \in [Users -> Handlers \cup {NoHandler}]
          BY <3>1, <4>1
        <4>. QED
          BY <4>2, <4>3
      <3>4. ttl' \in [Handlers -> Nat] /\ until' \in [Handlers -> Nat]
        BY <1>t, <3>1, <3>2 DEF SessionStore
      <3>5. logins' \in 0 .. MaxLogins /\ faults' \in 0 .. MaxFaults
        BY <1>t, <3>1, FaultTypes, SessionAssumption DEF SessionStore
      <3>. QED
        BY <1>t, <3>1, <3>3, <3>4, <3>5 DEF SessionStore
    <2>4. CASE StoreToken(h)
      <3>1. /\ UNCHANGED <<now, lockVars, logins, requests>>
            /\ ttl' = [ttl EXCEPT ![h] = 0] /\ pc[h] = "store"
            /\ faults' = faults \/ Fault
            /\ session' \in {session, SetEx(session, tok[h], now + ttl[h])}
            /\ held' \in {held, held \cup {tok[h]}}
            /\ \/ UNCHANGED <<out, raced>>
               \/ out' = out \ {tok[h]} /\ raced' = raced \ {tok[h]}
        BY <2>4 DEF StoreToken, Call, Reliable
      <3>2. tok[h] \in Tokens /\ now + ttl[h] \in Nat
        BY <1>t, <3>1, HandsHold DEF SessionStore
      <3>3. session' \in [Tokens -> Nat]
        BY <1>t, <3>1, <3>2, <1>k DEF SessionStore
      <3>4. faults' \in 0 .. MaxFaults
        BY <1>t, <3>1, FaultTypes DEF SessionStore
      <3>. QED
        BY <1>t, <3>1, <3>2, <3>3, <3>4 DEF SessionStore
    <2>5. CASE Unlock(h)
      <3>1. /\ UNCHANGED <<now, session, logins, requests, historyVars>>
            /\ Answer(h) /\ until' = [until EXCEPT ![h] = 0] /\ (Reliable \/ Fault)
            /\ \/ UNCHANGED <<mutex, mutexBy>>
               \/ /\ mutex' = Del(mutex, tok[h].user)
                  /\ mutexBy' = [mutexBy EXCEPT ![tok[h].user] = NoHandler]
        BY <2>5 DEF Unlock, Call
      <3>2. mutex' \in [Users -> Nat] /\ mutexBy' \in [Users -> Handlers \cup {NoHandler}]
        <4>1. mutexBy \in [Users -> Handlers \cup {NoHandler}] /\ mutex \in [Users -> Nat]
          BY <1>t DEF SessionStore
        <4>2. mutex' \in [Users -> Nat]
          BY <3>1, <4>1, <1>k
        <4>3. mutexBy' \in [Users -> Handlers \cup {NoHandler}]
          BY <3>1, <4>1
        <4>. QED
          BY <4>2, <4>3
      <3>3. faults' \in 0 .. MaxFaults
        BY <1>t, <3>1, FaultTypes DEF SessionStore
      <3>. QED
        BY <1>t, <2>a, <3>1, <3>2, <3>3 DEF SessionStore
    <2>6. CASE Check(h) \/ LogoutGet(h)
      BY <1>r, <2>a, <2>g, <2>6 DEF Check, LogoutGet
    <2>7. CASE Measure(h)
      <3>1. TimeLeft(now) \in Nat
        BY <1>t, DaysEnd DEF TimeLeft
      <3>. QED
        BY <1>t, <2>7, <3>1 DEF Measure, SessionStore
    <2>8. CASE Renew(h, Routes)
      <3>1. /\ UNCHANGED <<now, lockVars, logins, requests, historyVars>>
            /\ faults' = faults \/ Fault
            /\ ttl' = [ttl EXCEPT ![h] = 0] /\ pc[h] = "renew"
            /\ session' \in {session, SetEx(session, tok[h], now + ttl[h])}
        BY <2>8 DEF Renew, Call, Reliable, Answer, Enter
      <3>2. now + ttl[h] \in Nat
        BY <1>t DEF SessionStore
      <3>3. session' \in [Tokens -> Nat]
        BY <1>t, <3>1, <3>2, <1>k DEF SessionStore
      <3>4. faults' \in 0 .. MaxFaults
        BY <1>t, <3>1, FaultTypes DEF SessionStore
      <3>. QED
        BY <1>t, <3>1, <3>3, <3>4 DEF SessionStore
    <2>9. CASE LogoutDelete(h)
      <3>1. /\ UNCHANGED <<now, held, lockVars, logins, requests>>
            /\ Answer(h) /\ (Reliable \/ Fault) /\ pc[h] = "logoutDelete"
            /\ \/ UNCHANGED <<session, out, raced>>
               \/ /\ session' = Del(session, tok[h]) /\ out' = out \cup {tok[h]}
                  /\ raced' \in {raced \ {tok[h]}, raced \cup {tok[h]}}
        BY <2>9 DEF LogoutDelete, Call
      <3>2. tok[h] \in Tokens
        BY <1>t, <3>1, HandsHold
      <3>3. session' \in [Tokens -> Nat]
        BY <1>t, <3>1, <1>k DEF SessionStore
      <3>4. faults' \in 0 .. MaxFaults
        BY <1>t, <3>1, FaultTypes DEF SessionStore
      <3>. QED
        BY <1>t, <2>a, <3>1, <3>2, <3>3, <3>4 DEF SessionStore
    <2>. QED
      BY <1>1, <2>1, <2>2, <2>3, <2>4, <2>5, <2>6, <2>7, <2>8, <2>9
      DEF HandlerStep, SessionStep
  <1>2. CASE SessionTick
    <2>1. now' \in Times /\ now' \in Nat
      BY <1>2, <1>t, SessionAssumption DEF SessionTick, Times
    <2>2. session' \in [Tokens -> Nat] /\ mutex' \in [Users -> Nat]
      BY <1>2, <1>t, <2>1, KeyTypes DEF SessionTick, SessionStore
    <2>. QED
      BY <1>2, <1>t, <2>1, <2>2 DEF SessionTick, SessionStore
  <1>3. CASE Crash
    BY <1>3, <1>t, FaultTypes DEF Crash, SessionStore
  <1>4. CASE UNCHANGED sessionVars
    BY <1>4, <1>t DEF sessionVars, SessionStore
  <1>5. CASE Environment
    BY <1>2, <1>3, <1>4, <1>5 DEF Environment, Upload, Grant, Revoke
  <1>. QED
    BY <1>1, <1>4, <1>5 DEF Next, vars

LEMMA UploadStored ==
  ASSUME TypeOK, [Next]_vars
  PROVE  UploadStore'
  <1>t. Control /\ UploadStore /\ now \in Nat
    BY TypeParts DEF SessionStore, Times
  <1>k. /\ \A t \in Nat : /\ Expire(idKey, t) \in [Uploads -> Nat]
                          /\ Expire(s3Key, t) \in [Uploads -> Nat]
        /\ \A k : \A t \in Nat : /\ SetEx(idKey, k, t) \in [Uploads -> Nat]
                                 /\ SetEx(s3Key, k, t) \in [Uploads -> Nat]
        /\ \A k : /\ Del(idKey, k) \in [Uploads -> Nat]
                  /\ Del(s3Key, k) \in [Uploads -> Nat]
    <2>1. idKey \in [Uploads -> Nat] /\ s3Key \in [Uploads -> Nat]
      BY <1>t DEF UploadStore
    <2>. QED
      BY <2>1, KeyTypes
  <1>u. CASE UNCHANGED storedVars
    BY <1>t, <1>u DEF storedVars, UploadStore
  <1>1. ASSUME NEW h \in Handlers, UploadStep(h) PROVE UploadStore'
    <2>1. pc[h] \in UploadSteps /\ att[h] \in Uploads
      <3>1. pc[h] \in UploadSteps
        BY <1>1 DEF UploadStep, Presign, SetIdKey, SetS3Key, Insert, GetIdKey, GetS3Key,
                    UpdateRow, DropS3Key, DropIdKey, UploadSteps
      <3>. QED
        BY <1>t, <3>1, HandsHold
    <2>2. now + Hour \in Nat /\ now + KeyLife \in Nat
      BY <1>t, UploadAssumption DEF KeyLife
    <2>3. CASE Presign(h)
      BY <1>t, <2>2, <2>3 DEF Presign, UploadStore
    <2>4. CASE SetIdKey(h) \/ DropIdKey(h)
      <3>1. idKey' \in [Uploads -> Nat]
        <4>1. \/ idKey' = idKey \/ idKey' = Del(idKey, att[h])
              \/ idKey' = SetEx(idKey, att[h], now + KeyLife)
          BY <2>4 DEF SetIdKey, DropIdKey, Call
        <4>. QED
          BY <1>t, <1>k, <2>2, <4>1 DEF UploadStore
      <3>2. UNCHANGED <<urlUntil, s3Key, file, object, told>>
            /\ confirmed' \in {confirmed, confirmed \cup {att[h]}}
        BY <2>4 DEF SetIdKey, DropIdKey
      <3>. QED
        BY <1>t, <2>1, <3>1, <3>2 DEF UploadStore
    <2>5. CASE SetS3Key(h) \/ DropS3Key(h)
      <3>1. s3Key' \in [Uploads -> Nat]
        <4>1. \/ s3Key' = s3Key \/ s3Key' = Del(s3Key, att[h])
              \/ s3Key' = SetEx(s3Key, att[h], now + KeyLife)
          BY <2>5 DEF SetS3Key, DropS3Key, Call
        <4>. QED
          BY <1>t, <1>k, <2>2, <4>1 DEF UploadStore
      <3>2. UNCHANGED <<urlUntil, idKey, file, object, told, confirmed>>
        BY <2>5 DEF SetS3Key, DropS3Key
      <3>. QED
        BY <1>t, <3>1, <3>2 DEF UploadStore
    <2>6. CASE Insert(h) \/ UpdateRow(h)
      <3>1. /\ UNCHANGED <<urlUntil, idKey, s3Key, object, confirmed>>
            /\ told' \in {told, told \cup {att[h]}}
            /\ \/ file' = file
               \/ \E f \in {"empty", "stored"} : file' = [file EXCEPT ![att[h]] = f]
        BY <2>6 DEF Insert, UpdateRow, Call
      <3>. QED
        BY <1>t, <2>1, <3>1 DEF UploadStore
    <2>7. CASE GetIdKey(h) \/ GetS3Key(h)
      BY <1>u, <2>7 DEF GetIdKey, GetS3Key
    <2>. QED
      BY <1>1, <2>3, <2>4, <2>5, <2>6, <2>7 DEF UploadStep
  <1>2. ASSUME NEW h \in Handlers, HandlerStep(h), ~UploadStep(h) PROVE UploadStore'
    BY <1>2, <1>u
    DEF HandlerStep, NewRequest, UploadRequest, uploadVars, storedVars
  <1>3. ASSUME NEW a \in Uploads, Upload(a) PROVE UploadStore'
    BY <1>3, <1>t DEF Upload, UploadStore
  <1>4. CASE SessionTick /\ UploadTick
    <2>1. now' \in Nat
      BY <1>4, <1>t DEF SessionTick
    <2>. QED
      BY <1>4, <1>t, <1>k, <2>1 DEF UploadTick, UploadStore
  <1>5. CASE Environment
    BY <1>3, <1>4, <1>5, <1>u DEF Environment, UploadCrash, uploadVars
  <1>. QED
    BY <1>1, <1>2, <1>5, <1>u DEF Next, vars, uploadVars

LEMMA GateStored ==
  ASSUME TypeOK, [Next]_vars
  PROVE  GateStore'
  <1> USE DEF keyVars, grantVars
  <1>t. /\ Control /\ GateStore /\ now \in Nat /\ Control'
        /\ now + DayLength \in Nat /\ now + CacheLife \in Nat
    <2>1. Control /\ GateStore /\ SessionStore
      BY TypeParts
    <2>. QED
      BY <2>1, StepControlled, SessionAssumption, GateAssumption DEF SessionStore, Times
  <1>k. /\ \A t \in Nat : /\ Expire(permKey, t) \in [Grants -> Nat]
                          /\ Expire(ownerKey, t) \in [Tickets -> Nat]
        /\ \A k : \A t \in Nat : /\ SetEx(permKey, k, t) \in [Grants -> Nat]
                                 /\ SetEx(ownerKey, k, t) \in [Tickets -> Nat]
    <2>1. permKey \in [Grants -> Nat] /\ ownerKey \in [Tickets -> Nat]
      BY <1>t DEF GateStore
    <2>. QED
      BY <2>1, KeyTypes
  <1>u. CASE UNCHANGED <<grantVars, keyVars, has, lacked, unread>>
    BY <1>t, <1>u DEF GateStore
  (* Handlers that reach the gate, leave it, or are refused at it.           *)
  <1>h. ASSUME UNCHANGED <<grantVars, keyVars>>, NEW h \in Handlers,
               \/ UNCHANGED has \/ \E b \in BOOLEAN : has' = [has EXCEPT ![h] = b],
               lacked' \in {lacked, lacked \cup {h}, lacked \ {h}},
               unread' \in {unread, unread \cup {h}, unread \ {h}}
        PROVE  GateStore'
    BY <1>t, <1>h DEF GateStore
  <1>1. ASSUME NEW h \in Handlers, GateStep(h) PROVE GateStore'
    <2>1. pc[h] \in GateSteps /\ Needed(h) \in Grants
      <3>1. pc[h] \in GateSteps
        BY <1>1 DEF GateStep, GetOwner, ReadOwner, SetOwner, GetPermission,
                    HasPermission, SetPermission, Refuse, AtPermission, GateSteps
      <3>. QED
        BY <1>t, <3>1, HandsHold
    <2>2. /\ UNCHANGED grantVars /\ lacked' \in {lacked, lacked \ {h}}
          /\ unread' \in {unread, unread \cup {h}, unread \ {h}}
          /\ \/ UNCHANGED has \/ \E b \in BOOLEAN : has' = [has EXCEPT ![h] = b]
      <3>1. /\ UNCHANGED grantVars
            /\ \/ Dismissed(h)
               \/ /\ UNCHANGED lacked /\ unread' \in {unread, unread \cup {h}}
                  /\ has' = has \/ has' = [has EXCEPT ![h] = Needed(h) \in granted]
        BY <1>1 DEF GateStep, GetOwner, ReadOwner, SetOwner, GetPermission,
                    HasPermission, SetPermission, Refuse, Leave, Proceed, GateRest,
                    OwnerUnknown, Call
      <3>2. (Needed(h) \in granted) \in BOOLEAN
        OBVIOUS
      <3>. QED
        BY <3>1, <3>2 DEF Dismissed
    <2>3. CASE UNCHANGED keyVars
      BY <1>h, <2>2, <2>3
    <2>4. CASE SetOwner(h)
      <3>1. UNCHANGED <<permKey, permYes, late>>
            /\ ownerKey' \in {ownerKey, SetEx(ownerKey, wish[h].ticket, now + DayLength)}
        BY <2>4 DEF SetOwner, Call
      <3>2. ownerKey' \in [Tickets -> Nat]
        BY <1>t, <1>k, <3>1 DEF GateStore
      <3>. QED
        BY <1>t, <2>2, <3>1, <3>2 DEF GateStore
    <2>5. CASE SetPermission(h)
      <3>1. /\ UNCHANGED ownerKey
            /\ \/ UNCHANGED <<permKey, permYes, late>>
               \/ /\ permKey' = SetEx(permKey, Needed(h), now + CacheLife)
                  /\ \/ /\ permYes' = permYes \cup {Needed(h)}
                        /\ late' \in {late \cup {Needed(h)}, late \ {Needed(h)}}
                     \/ permYes' = permYes \ {Needed(h)} /\ late' = late \ {Needed(h)}
        BY <2>5 DEF SetPermission, Call
      <3>2. permKey' \in [Grants -> Nat]
        BY <1>t, <1>k, <3>1 DEF GateStore
      <3>3. permYes' \subseteq Grants /\ late' \subseteq permYes'
        BY <1>t, <2>1, <3>1 DEF GateStore
      <3>. QED
        BY <1>t, <2>2, <3>1, <3>2, <3>3 DEF GateStore
    <2>. QED
      BY <1>1, <2>3, <2>4, <2>5
      DEF GateStep, GetOwner, ReadOwner, GetPermission, HasPermission, Refuse
  <1>2. ASSUME NEW h \in Handlers, HandlerStep(h), ~GateStep(h) PROVE GateStore'
    <2>1. CASE \E t \in held : NewRequest(h, t)
      <3>1. /\ UNCHANGED <<grantVars, keyVars, has>>
            /\ lacked' \in {lacked, lacked \cup {h}} /\ UNCHANGED unread
        BY <2>1 DEF NewRequest, gateVars, GateRequest
      <3>. QED
        BY <1>h, <3>1
    <2>2. CASE Dismissed(h) /\ UNCHANGED <<grantVars, keyVars>>
      BY <1>h, <2>2 DEF Dismissed
    <2>3. CASE UNCHANGED gateVars
      BY <1>u, <2>3 DEF gateVars
    <2>. QED
      BY <1>2, <2>1, <2>2, <2>3 DEF HandlerStep
  <1>3. ASSUME NEW g \in Grants, Grant(g) \/ Revoke(g) PROVE GateStore'
    <2>1. /\ UNCHANGED <<permKey, permYes, ownerKey, has, unread>>
          /\ changes < MaxChanges /\ changes' = changes + 1
          /\ granted' \in {granted \cup {g}, granted \ {g}}
          /\ late' \subseteq late
          /\ heldTo' = heldTo \/ heldTo' = [heldTo EXCEPT ![g] = now + 1]
          /\ lacked' \subseteq lacked \cup Handlers
      BY <1>3 DEF Grant, Revoke
    <2>2. heldTo' \in [Grants -> Nat] /\ changes' \in 0 .. MaxChanges
      BY <1>t, <2>1, GateAssumption DEF GateStore
    <2>. QED
      BY <1>t, <2>1, <2>2 DEF GateStore
  <1>4. CASE SessionTick /\ GateTick
    <2>1. now' \in Nat
      BY <1>4, <1>t DEF SessionTick
    <2>. QED
      BY <1>4, <1>t, <1>k, <2>1 DEF GateTick, GateStore
  <1>5. CASE GateCrash
    BY <1>t, <1>5 DEF GateCrash, GateStore
  <1>6. CASE Environment
    BY <1>3, <1>4, <1>5, <1>6, <1>u DEF Environment, gateVars
  <1>. QED
    BY <1>1, <1>2, <1>6, <1>u DEF Next, vars, gateVars

(* Every state of the HTTP server is well typed: the keys last for a while   *)
(* that is not negative, and a handler holds the token, the attachment or    *)
(* the wish that the step it is at needs.                                    *)
THEOREM TypeCorrect == Spec => []TypeOK
<1>1. Init => TypeOK
  <2> SUFFICES ASSUME Init PROVE TypeOK
    OBVIOUS
  <2>1. \A h \in Handlers : Hands(h)
    BY SessionAssumption, UploadAssumption, GateAssumption
    DEF Init, SessionInit, UploadInit, GateInit, Hands, Arriving, UploadSteps, GateSteps
  <2>2. Control
    BY <2>1 DEF Init, SessionInit, UploadInit, GateInit, Control, Steps, SessionSteps
  <2>3. SessionStore
    BY SessionAssumption
    DEF Init, SessionInit, SessionStore, NoKeys, Absent, Times
  <2>4. UploadStore /\ GateStore
    BY GateAssumption
    DEF Init, UploadInit, GateInit, UploadStore, GateStore, NoKeys, Absent
  <2>. QED
    BY <2>2, <2>3, <2>4, TypeParts DEF Init
<1>2. TypeOK /\ [Next]_vars => TypeOK'
  <2> SUFFICES ASSUME TypeOK, [Next]_vars PROVE TypeOK'
    OBVIOUS
  <2>1. Control'
    BY TypeParts, StepControlled DEF SessionStore
  <2>2. SessionStore' /\ UploadStore' /\ GateStore'
    BY SessionStored, UploadStored, GateStored
  <2>3. traffic' \in Traffic
    BY DEF Next, vars, TypeOK
  <2>. QED
    BY <2>1, <2>2, <2>3
    DEF TypeOK, SessionTypeOK, UploadTypeOK, GateTypeOK, Control, Hands, Steps,
        SessionStore, UploadStore, GateStore
<1>. QED
  BY <1>1, <1>2, PTL DEF Spec

-----------------------------------------------------------------------------
(* What a step of one module leaves to the others.                           *)

(* A step of a route leaves the session alone, and is not on its way to one. *)
LEMMA RouteStep ==
  ASSUME Control, NEW h \in Handlers,
         \/ UploadStep(h) /\ UNCHANGED gateVars
         \/ GateStep(h) /\ UNCHANGED uploadVars
  PROVE  /\ Moves(h) /\ pc'[h] \in UploadSteps \cup GateSteps \cup {"idle"}
         /\ UNCHANGED <<now, session, lockVars, historyVars>>
         /\ Answer(h) \/ UNCHANGED <<tok, op, ttl>>
  <1>1. Moves(h) /\ pc'[h] \in UploadSteps \cup GateSteps \cup {"idle"}
    BY UploadControlled, GateControlled
  <1>2. UNCHANGED <<now, session, lockVars, historyVars>>
    BY DEF UploadStep, Presign, SetIdKey, SetS3Key, Insert, GetIdKey, GetS3Key,
           UpdateRow, DropS3Key, DropIdKey, Rest, GateStep, GetOwner, ReadOwner,
           SetOwner, GetPermission, HasPermission, SetPermission, Refuse, GateRest
  <1>3. Answer(h) \/ UNCHANGED <<tok, op, ttl>>
    BY DEF UploadStep, Presign, SetIdKey, SetS3Key, Insert, GetIdKey, GetS3Key,
           UpdateRow, UpdateFailed, DropS3Key, DropIdKey, Call, Finish, GoOn, Goto,
           GateStep, GetOwner, ReadOwner, SetOwner, GetPermission, HasPermission,
           SetPermission, Refuse, Proceed, Leave, OwnerUnknown
  <1>. QED
    BY <1>1, <1>2, <1>3

(* Once the key of its session is written, a request starts on its route.    *)
LEMMA RenewGoesTo ==
  ASSUME Control, NEW h \in Handlers, Renew(h, Routes)
  PROVE  pc'[h] \in {"idle", "logoutGet", "presign", "getId", "gate"}
  <1>1. CASE Answer(h)
    BY <1>1 DEF Answer, Control
  <1>2. ASSUME ~Answer(h)
        PROVE  pc'[h] \in {"logoutGet", "presign", "getId", "gate"}
    <2>1. /\ Routes[op[h]] # "answer" /\ op[h] \in Paths
          /\ pc' = [pc EXCEPT ![h] = Routes[op[h]]]
      BY <1>2 DEF Renew, Call, Enter, Control, Hands
    <2>2. \A o \in {"logout", "other", "generate", "confirm", "assign",
                    "reminder", "cancel_reminder", "snooze_reminder"} :
            Routes[o] \in {"answer", "logoutGet", "presign", "getId", "gate"}
      BY DEF Routes
    <2>3. Routes[op[h]] \in {"logoutGet", "presign", "getId", "gate"}
      BY <2>1, <2>2, GateAssumption DEF Paths
    <2>. QED
      BY <2>1, <2>3 DEF Control
  <1>. QED
    BY <1>1, <1>2

(* A step of module Sessions takes a request no further than to its route.   *)
LEMMA SessionGoesTo ==
  ASSUME Control, NEW h \in Handlers, SessionStep(h, Routes)
  PROVE  /\ pc'[h] \in SessionSteps \cup {"presign", "getId", "gate"}
         /\ pc[h] = "idle" \/ Answer(h) \/ tok' = tok
  <1>1. pc \in [Handlers -> Steps] /\ (Answer(h) => pc'[h] = "idle")
    BY DEF Control, Answer
  <1>2. CASE \E u \in Users : Login(h, u)
    BY <1>1, <1>2 DEF Login, SessionSteps
  <1>3. CASE Renew(h, Routes)
    BY <1>3, RenewGoesTo DEF Renew, Call, Enter, SessionSteps
  <1>4. CASE \/ StoreToken(h) \/ Unlock(h) \/ Check(h) \/ Measure(h)
             \/ LogoutGet(h) \/ LogoutDelete(h)
    BY <1>1, <1>4
    DEF StoreToken, Unlock, Check, Measure, LogoutGet, LogoutDelete, Goto, Call, SessionSteps
  <1>. QED
    BY <1>2, <1>3, <1>4 DEF SessionStep

===============================================================================
