---------------------------- MODULE SessionsProofs ----------------------------
(***************************************************************************)
(* Proofs about Sessions for any number of handlers and sessions, either    *)
(* store, and any number of failing calls and restarts.  A token belongs to *)
(* one call's pair, hence to one session for good; while a logout is under  *)
(* way its session keeps the token it carries, unless a refresh that the    *)
(* logout's property allows for has replaced it.                            *)
(***************************************************************************)
EXTENDS Sessions, TLAPS

\* Which steps an operation takes, and what its record holds at them.
Shape(c) ==
  /\ calls[c].pc = "idle" => calls[c] = Idle
  /\ calls[c].pc = "find" => calls[c].op # "login" /\ calls[c].session = None
  /\ calls[c].pc = "issue" => calls[c].op # "logout"
  /\ calls[c].pc = "create" => calls[c].op = "login"
  /\ calls[c].pc = "rotate" => calls[c].op = "refresh"
  /\ calls[c].pc = "revoke" => calls[c].op = "logout"
  /\ calls[c].pc \in {"find", "issue"} => calls[c].pair = 0
  /\ calls[c].pc \in {"create", "rotate"} => calls[c].pair # 0
  /\ calls[c].pc = "ok" /\ calls[c].op # "logout" => calls[c].pair # 0
  /\ calls[c].op = "login" => calls[c].began = None

ShapeOK == \A c \in Calls : Shape(c)

\* A refresh token is drawn once.
PairsOK ==
  /\ \A c \in Calls : calls[c].pair <= issued
  /\ \A c, d \in Calls : calls[c].pair = calls[d].pair /\ calls[c].pair # 0 => c = d

\* The call that drew a token, for a session.
Drew(d, token, s) == token # 0 /\ calls[d].pair = token /\ calls[d].session = s

\* Rows hold tokens drawn for their session; a refresh or logout carries a token
\* that a call has been answered with.
OwnersOK ==
  /\ \A s \in SessionIds : sessions[s].token # 0 => \E d \in Calls : Drew(d, sessions[s].token, s)
  /\ \A c \in Calls : calls[c].began # None => \E d \in Calls : Drew(d, calls[c].token, calls[c].began)
  /\ \A c \in Calls : calls[c].op # "login" =>
       \E d \in Calls : /\ calls[d].pc = "ok" /\ calls[d].op # "logout"
                        /\ calls[d].pair = calls[c].token /\ calls[d].pair # 0

\* The session of a login under way is nobody else's.
FreshOK ==
  \A c \in Calls : calls[c].op = "login" /\ calls[c].pc \in {"issue", "create"} =>
    /\ sessions[calls[c].session] = Absent
    /\ \A d \in Calls : /\ calls[d].began # calls[c].session
                        /\ calls[d].session = calls[c].session => d = c

\* A refresh whose token was no good when it came in finds nothing.
RefreshOK ==
  \A c \in Calls : calls[c].op = "refresh" /\ calls[c].began = None =>
    /\ calls[c].pc = "find" => Active(calls[c].token, calls[c].now) = {}
    /\ calls[c].pc \notin {"issue", "rotate", "ok"}

Ended(s) == sessions[s] = Absent \/ sessions[s].revoked

\* The refreshes that a logout does not answer for.
Rival(c, d) ==
  /\ calls[d].op = "refresh" /\ calls[d].session = calls[c].began
  /\ (d \in calls[c].rivals \/ calls[d].token = calls[c].token)

Rivalled(c) == \E d \in Calls : Rival(c, d)

\* The session of a logout before it is looked up: it is as it was, or it has
\* ended, or such a refresh is or was at it.
LogoutFinds ==
  \A c \in Calls : calls[c].op = "logout" /\ calls[c].began # None /\ calls[c].pc = "find" =>
    \/ Rivalled(c)
    \/ /\ \A d \in Calls : calls[d].op = "refresh" /\ calls[d].session = calls[c].began => ~UnderWay(d)
       /\ \/ Ended(calls[c].began)
          \/ /\ sessions[calls[c].began].token = calls[c].token
             /\ sessions[calls[c].began].expires > calls[c].now

\* A logout revokes the session whose token it carried.
LogoutRevokes ==
  \A c \in Calls : calls[c].op = "logout" /\ calls[c].began # None /\ calls[c].pc = "revoke" =>
    calls[c].session = calls[c].began

IInv == /\ TypeOK /\ ShapeOK /\ PairsOK /\ OwnersOK /\ FreshOK /\ RefreshOK
        /\ LogoutFinds /\ LogoutRevokes /\ LogoutEnds

-----------------------------------------------------------------------------
LEMMA Constants ==
  /\ RefreshTTL \in Nat /\ RefreshTTL # 0
  /\ None \notin SessionIds
  /\ MaxTime \in Nat /\ MaxOutages \in Nat
BY RefreshTTLAssumption, NoneAssumption, BoundsAssumption
   DEF RefreshTTLAssumption, NoneAssumption, BoundsAssumption

LEMMA InitIInv == Init => IInv
<1> SUFFICES ASSUME Init PROVE IInv
  OBVIOUS
<1>1. Idle \in Call
  BY DEF Idle, Call
<1>2. TypeOK
  BY <1>1, Constants DEF Init, TypeOK, Absent, Idle
<1>3. ShapeOK /\ PairsOK /\ OwnersOK /\ FreshOK
  BY DEF Init, ShapeOK, Shape, PairsOK, OwnersOK, FreshOK, Idle, Absent
<1>4. RefreshOK /\ LogoutFinds /\ LogoutRevokes /\ LogoutEnds
  BY DEF Init, RefreshOK, LogoutFinds, LogoutRevokes, LogoutEnds, Idle
<1> QED
  BY <1>2, <1>3, <1>4 DEF IInv

-----------------------------------------------------------------------------
\* What a step does.

LEMMA ActiveSession ==
  ASSUME TypeOK, NEW token \in Nat, NEW at \in Nat, NEW s \in Active(token, at)
  PROVE  /\ s \in SessionIds /\ sessions[s].token = token /\ ~sessions[s].revoked
         /\ sessions[s].expires > at /\ sessions[s] # Absent
<1>1. s \in SessionIds /\ sessions[s].token = token /\ ~sessions[s].revoked
      /\ sessions[s].expires > at
  BY DEF Active
<1>2. sessions[s] # Absent
  BY <1>1 DEF Absent
<1> QED
  BY <1>1, <1>2

\* A write of a handler: what it may do to the row, and that the handler is done.
LEMMA WriteEffect ==
  ASSUME TypeOK, NEW c \in Calls, NEW s \in SessionIds, NEW row, NEW possible \in BOOLEAN,
         Writes(c, s, row, possible)
  PROVE  /\ \/ calls' = [calls EXCEPT ![c].pc = "ok"] /\ possible
               /\ sessions' = [sessions EXCEPT ![s] = row]
            \/ calls' = [calls EXCEPT ![c].pc = "failed"]
         /\ \/ sessions' = sessions
            \/ possible /\ sessions' = [sessions EXCEPT ![s] = row]
         /\ outages' \in 0 .. MaxOutages
BY Constants DEF Writes, Moves, TypeOK

\* The handlers that write.
Writer(c) == calls[c].pc \in {"create", "rotate", "revoke"}

\* What a step makes of the sessions: a writer changes its own, a restart may
\* lose them all.
SessionStep(s) ==
  \/ sessions'[s] = sessions[s]
  \/ sessions'[s] = Absent /\ \A c \in Calls : calls'[c].pc \in {"idle", "ok", "failed"}
  \/ \E c \in Calls :
       /\ Writer(c) /\ calls[c].session = s /\ sessions'[s] \in Row
       /\ \E pc \in {"ok", "failed"} : calls' = [calls EXCEPT ![c].pc = pc]
       /\ calls[c].pc = "create" =>
            sessions'[s] = [token |-> calls[c].pair, expires |-> calls[c].expires, revoked |-> FALSE]
       /\ calls[c].pc = "rotate" => /\ sessions[s] # Absent /\ sessions'[s].token = calls[c].pair
                                    /\ sessions'[s].revoked = sessions[s].revoked
       /\ calls[c].pc = "revoke" => /\ sessions[s] # Absent /\ sessions'[s].revoked
                                    /\ sessions'[s].token = sessions[s].token

\* What a step makes of a handler that has begun.
CallStep(c) ==
  /\ calls[c].pc # "idle" =>
       /\ calls'[c].pc # "idle"
       /\ calls'[c].op = calls[c].op /\ calls'[c].token = calls[c].token
       /\ calls'[c].now = calls[c].now /\ calls'[c].began = calls[c].began
       /\ calls'[c].rivals = calls[c].rivals
       /\ calls[c].pc # "find" => calls'[c].session = calls[c].session
       /\ calls[c].pc # "issue" => calls'[c].pair = calls[c].pair
  /\ calls[c].pc \in {"ok", "failed"} => calls'[c] = calls[c]
  /\ calls[c].blind => calls'[c].blind

\* The step is one of a handler, of the process or of the clock.
HandlerStep(c) ==
  \/ \E s \in SessionIds : BeginLogin(c, s)
  \/ \E op \in {"refresh", "logout"}, token \in HandedOut : Begin(c, op, token)
  \/ Find(c) \/ FindFails(c) \/ IssuePair(c)
  \/ CreateSession(c) \/ RotateSession(c) \/ RevokeSession(c)

LEMMA NextIsOneOf ==
  ASSUME Next PROVE (\E c \in Calls : HandlerStep(c)) \/ Restart \/ Tick
BY DEF Next, HandlerStep

\* A token that is handed out is the pair of an answered login or refresh.
LEMMA HandedOutToken ==
  ASSUME TypeOK, ShapeOK, NEW token \in HandedOut
  PROVE  /\ token \in Nat \ {0}
         /\ \E d \in Calls : /\ calls[d].pc = "ok" /\ calls[d].op # "logout"
                             /\ calls[d].pair = token
<1>1. PICK d \in Calls : calls[d].op # "logout" /\ calls[d].pc = "ok" /\ calls[d].pair = token
  BY DEF HandedOut
<1>2. calls[d] \in Call
  BY DEF TypeOK
<1>3. calls[d].pair \in Nat /\ calls[d].pair # 0
  BY <1>1, <1>2 DEF ShapeOK, Shape, Call
<1> QED
  BY <1>1, <1>3

\* The record a request begins with.
LEMMA BeginEffect ==
  ASSUME TypeOK, ShapeOK, NEW c \in Calls, NEW op \in {"refresh", "logout"},
         NEW token \in HandedOut, Begin(c, op, token)
  PROVE  /\ calls[c] = Idle
         /\ \A d \in Calls \ {c} : calls'[d] = calls[d]
         /\ calls'[c] \in Call
         /\ calls'[c].pc = "find" /\ calls'[c].op = op /\ calls'[c].token = token
         /\ calls'[c].now = now /\ calls'[c].session = None /\ calls'[c].pair = 0
         /\ calls'[c].rivals = {d \in Calls : op = "logout" /\ calls[d].op = "refresh" /\ UnderWay(d)}
         /\ \/ Live(token) = {} /\ calls'[c].began = None
            \/ calls'[c].began \in Live(token)
         /\ calls' \in [Calls -> Call]
<1> DEFINE Set == IF Live(token) = {} THEN {None} ELSE Live(token)
           riv == {d \in Calls : op = "logout" /\ calls[d].op = "refresh" /\ UnderWay(d)}
           rec(s) == [Idle EXCEPT !.pc = "find", !.op = op, !.token = token, !.now = now,
                                  !.began = s, !.rivals = riv]
<1>1. PICK s \in Set : calls' = [calls EXCEPT ![c] = rec(s)]
  BY Zenon DEF Begin
<1>2. calls[c] = Idle
  BY DEF Begin, ShapeOK, Shape
<1>3. calls'[c] = rec(s) /\ \A d \in Calls \ {c} : calls'[d] = calls[d]
  BY <1>1 DEF TypeOK
<1>4. s \in SessionIds \cup {None} /\ (s \in Live(token) \/ (Live(token) = {} /\ s = None))
  BY DEF Live
<1>5. token \in Nat /\ now \in Nat
  BY HandedOutToken, Constants DEF TypeOK
<1>6. /\ rec(s).pc = "find" /\ rec(s).op = op /\ rec(s).token = token /\ rec(s).now = now
      /\ rec(s).session = None /\ rec(s).pair = 0 /\ rec(s).rivals = riv /\ rec(s).began = s
  BY DEF Idle
<1>7. riv \in SUBSET Calls
  OBVIOUS
<1>8. rec(s) \in Call
  <2> HIDE DEF riv
  <2> QED
    BY <1>4, <1>5, <1>7 DEF Idle, Call
<1>9. calls' \in [Calls -> Call]
  BY <1>1, <1>8 DEF TypeOK
<1> HIDE DEF rec, riv
<1> QED
  BY <1>2, <1>3, <1>4, <1>6, <1>8, <1>9 DEF riv

LEMMA CallSteps ==
  ASSUME TypeOK, ShapeOK, Next, NEW c \in Calls
  PROVE  CallStep(c)
<1>1. ASSUME NEW d \in Calls, HandlerStep(d) PROVE CallStep(c)
  <2>1. CASE \E s \in SessionIds : BeginLogin(d, s)
    BY <2>1 DEF BeginLogin, CallStep, TypeOK, Call
  <2>2. CASE \E op \in {"refresh", "logout"}, token \in HandedOut : Begin(d, op, token)
    <3>1. calls[d] = Idle /\ (c # d => calls'[c] = calls[c])
      BY <2>2, BeginEffect
    <3> QED
      BY <3>1 DEF CallStep, Idle
  <2>3. CASE Find(d)
    <3>1. \/ \E s \in SessionIds, pc \in {"issue", "revoke"} :
               calls' = [calls EXCEPT ![d].pc = pc, ![d].session = s]
          \/ \E pc \in {"ok", "failed"} : calls' = [calls EXCEPT ![d].pc = pc]
      BY <2>3 DEF Find, Moves, Active
    <3> QED
      BY <2>3, <3>1 DEF Find, CallStep, TypeOK, Call
  <2>4. CASE FindFails(d) \/ IssuePair(d)
    BY <2>4 DEF FindFails, IssuePair, CallStep, TypeOK, Call
  <2>5. CASE CreateSession(d) \/ RotateSession(d) \/ RevokeSession(d)
    <3>1. calls[d].pc \in {"create", "rotate", "revoke"}
          /\ \E pc \in {"ok", "failed"} : calls' = [calls EXCEPT ![d].pc = pc]
      BY <2>5 DEF CreateSession, RotateSession, RevokeSession, Writes, Moves
    <3> QED
      BY <3>1 DEF CallStep, TypeOK, Call
  <2> QED
    BY <1>1, <2>1, <2>2, <2>3, <2>4, <2>5 DEF HandlerStep
<1>2. CASE Restart
  BY <1>2 DEF Restart, CallStep, TypeOK, Call
<1>3. CASE Tick
  BY <1>3 DEF Tick, CallStep
<1> QED
  BY <1>1, <1>2, <1>3, NextIsOneOf

LEMMA RowWritten ==
  ASSUME TypeOK, ShapeOK, NEW c \in Calls, Writer(c)
  PROVE  /\ calls[c].session \in SessionIds
         /\ calls[c].pc = "create" =>
              [token |-> calls[c].pair, expires |-> calls[c].expires, revoked |-> FALSE] \in Row
         /\ sessions[calls[c].session] # Absent =>
              /\ sessions[calls[c].session] \in Row
              /\ Revoked(calls[c].session) \in Row
              /\ calls[c].pc = "rotate" =>
                   Rotated(calls[c].session, calls[c].pair, calls[c].expires) \in Row
<1>1. calls[c] \in Call /\ calls[c].session # None
  BY DEF TypeOK, Writer
<1>2. calls[c].session \in SessionIds
  BY <1>1 DEF Call
<1>3. calls[c].pc \in {"create", "rotate"} => calls[c].pair \in Nat \ {0}
  BY <1>1 DEF ShapeOK, Shape, Call
<1>4. calls[c].expires \in Nat
  BY <1>1 DEF Call
<1>5. sessions[calls[c].session] # Absent => sessions[calls[c].session] \in Row
  BY <1>2 DEF TypeOK
<1> QED
  BY <1>2, <1>3, <1>4, <1>5 DEF Row, Revoked, Rotated

LEMMA SessionSteps ==
  ASSUME TypeOK, ShapeOK, Next, NEW s \in SessionIds
  PROVE  SessionStep(s)
<1>1. ASSUME NEW c \in Calls, HandlerStep(c) PROVE SessionStep(s)
  <2> DEFINE t == calls[c].session
  <2>1. CASE CreateSession(c)
    <3> DEFINE row == [token |-> calls[c].pair, expires |-> calls[c].expires, revoked |-> FALSE]
    <3>1. calls[c].pc = "create" /\ Writes(c, t, row, TRUE) /\ Writer(c)
      BY <2>1 DEF CreateSession, Writer
    <3>2. t \in SessionIds /\ row \in Row
      BY <3>1, RowWritten
    <3>3. /\ \E pc \in {"ok", "failed"} : calls' = [calls EXCEPT ![c].pc = pc]
          /\ sessions' = sessions \/ sessions' = [sessions EXCEPT ![t] = row]
      BY <3>1 DEF Writes, Moves
    <3>4. \/ sessions' = sessions
          \/ sessions'[t] = row /\ \A u \in SessionIds \ {t} : sessions'[u] = sessions[u]
      <4> HIDE DEF row
      <4> QED BY <3>2, <3>3 DEF TypeOK
    <3> QED
      BY <3>1, <3>2, <3>3, <3>4 DEF SessionStep
  <2>2. CASE RotateSession(c)
    <3> DEFINE row == Rotated(t, calls[c].pair, calls[c].expires)
    <3>1. calls[c].pc = "rotate" /\ Writes(c, t, row, Updatable(t)) /\ Writer(c)
      BY <2>2 DEF RotateSession, Writer
    <3>2. t \in SessionIds /\ (sessions[t] # Absent => row \in Row /\ sessions[t] \in Row)
      BY <3>1, RowWritten
    <3>3. /\ \E pc \in {"ok", "failed"} : calls' = [calls EXCEPT ![c].pc = pc]
          /\ sessions' = sessions \/ (Updatable(t) /\ sessions' = [sessions EXCEPT ![t] = row])
      BY <3>1 DEF Writes, Moves
    <3>4. sessions[t] # Absent => row.token = calls[c].pair /\ row.revoked = sessions[t].revoked
      BY <3>2 DEF Rotated, Row
    <3>5. \/ sessions' = sessions
          \/ /\ sessions'[t] = row /\ sessions[t] # Absent
             /\ \A u \in SessionIds \ {t} : sessions'[u] = sessions[u]
      <4> HIDE DEF row
      <4> QED BY <3>2, <3>3 DEF TypeOK, Updatable
    <3> HIDE DEF row
    <3> QED
      BY <3>1, <3>2, <3>3, <3>4, <3>5 DEF SessionStep
  <2>3. CASE RevokeSession(c)
    <3> DEFINE row == Revoked(t)
    <3>1. calls[c].pc = "revoke" /\ Writes(c, t, row, Updatable(t)) /\ Writer(c)
      BY <2>3 DEF RevokeSession, Writer
    <3>2. t \in SessionIds /\ (sessions[t] # Absent => row \in Row /\ sessions[t] \in Row)
      BY <3>1, RowWritten
    <3>3. /\ \E pc \in {"ok", "failed"} : calls' = [calls EXCEPT ![c].pc = pc]
          /\ sessions' = sessions \/ (Updatable(t) /\ sessions' = [sessions EXCEPT ![t] = row])
      BY <3>1 DEF Writes, Moves
    <3>4. sessions[t] # Absent => row.revoked /\ row.token = sessions[t].token
      BY <3>2 DEF Revoked, Row
    <3>5. \/ sessions' = sessions
          \/ /\ sessions'[t] = row /\ sessions[t] # Absent
             /\ \A u \in SessionIds \ {t} : sessions'[u] = sessions[u]
      <4> HIDE DEF row
      <4> QED BY <3>2, <3>3 DEF TypeOK, Updatable
    <3> HIDE DEF row
    <3> QED
      BY <3>1, <3>2, <3>3, <3>4, <3>5 DEF SessionStep
  <2>4. CASE ~CreateSession(c) /\ ~RotateSession(c) /\ ~RevokeSession(c)
    BY <1>1, <2>4 DEF HandlerStep, SessionStep, BeginLogin, Begin, Find, FindFails, IssuePair
  <2> QED
    BY <2>1, <2>2, <2>3, <2>4
<1>2. CASE Restart
  BY <1>2 DEF Restart, SessionStep, TypeOK
<1>3. CASE Tick
  BY <1>3 DEF Tick, SessionStep
<1> QED
  BY <1>1, <1>2, <1>3, NextIsOneOf

-----------------------------------------------------------------------------
\* The invariant is inductive.

LEMMA CallsTyped ==
  ASSUME TypeOK, ShapeOK, Next PROVE calls' \in [Calls -> Call]
<1>1. ASSUME NEW c \in Calls, HandlerStep(c) PROVE calls' \in [Calls -> Call]
  <2>1. CASE \E op \in {"refresh", "logout"}, token \in HandedOut : Begin(c, op, token)
    BY <2>1, BeginEffect
  <2>2. CASE \E s \in SessionIds : BeginLogin(c, s)
    BY <2>2 DEF BeginLogin, TypeOK, Call
  <2>3. CASE Find(c)
    <3>1. \/ \E s \in SessionIds, pc \in {"issue", "revoke"} :
               calls' = [calls EXCEPT ![c].pc = pc, ![c].session = s]
          \/ \E pc \in {"ok", "failed"} : calls' = [calls EXCEPT ![c].pc = pc]
      BY <2>3 DEF Find, Moves, Active
    <3> QED
      BY <3>1 DEF TypeOK, Call
  <2>4. CASE FindFails(c)
    <3> DEFINE pc == IF calls[c].op = "refresh" THEN "failed" ELSE "ok"
    <3>1. calls' = [calls EXCEPT ![c].pc = pc, ![c].blind = TRUE] /\ pc \in {"ok", "failed"}
      BY <2>4 DEF FindFails
    <3> HIDE DEF pc
    <3>2. [calls[c] EXCEPT !.pc = pc, !.blind = TRUE] \in Call
      BY <3>1 DEF TypeOK, Call
    <3>3. calls' = [calls EXCEPT ![c] = [calls[c] EXCEPT !.pc = pc, !.blind = TRUE]]
      BY <3>1 DEF TypeOK
    <3> QED
      BY <3>2, <3>3 DEF TypeOK
  <2>5. CASE IssuePair(c)
    <3>1. issued + 1 \in Nat /\ now + RefreshTTL \in Nat
      BY Constants DEF TypeOK
    <3> DEFINE pc == IF calls[c].op = "login" THEN "create" ELSE "rotate"
               pair == issued + 1
               expires == now + RefreshTTL
    <3>2. calls' = [calls EXCEPT ![c].pc = pc, ![c].pair = pair, ![c].expires = expires]
          /\ pc \in {"create", "rotate"}
      BY <2>5 DEF IssuePair
    <3> HIDE DEF pc, pair, expires
    <3>3. pair \in Nat /\ expires \in Nat
      BY <3>1 DEF pair, expires
    <3>4. [calls[c] EXCEPT !.pc = pc, !.pair = pair, !.expires = expires] \in Call
      BY <3>2, <3>3 DEF TypeOK, Call
    <3>5. calls' = [calls EXCEPT ![c] = [calls[c] EXCEPT !.pc = pc, !.pair = pair, !.expires = expires]]
      BY <3>2 DEF TypeOK
    <3> QED
      BY <3>4, <3>5 DEF TypeOK
  <2>6. CASE CreateSession(c) \/ RotateSession(c) \/ RevokeSession(c)
    <3>1. \E pc \in {"ok", "failed"} : calls' = [calls EXCEPT ![c].pc = pc]
      BY <2>6 DEF CreateSession, RotateSession, RevokeSession, Writes, Moves
    <3> QED
      BY <3>1 DEF TypeOK, Call
  <2> QED
    BY <1>1, <2>1, <2>2, <2>3, <2>4, <2>5, <2>6 DEF HandlerStep
<1>2. CASE Restart
  BY <1>2 DEF Restart, TypeOK, Call
<1>3. CASE Tick
  BY <1>3 DEF Tick, TypeOK
<1> QED
  BY <1>1, <1>2, <1>3, NextIsOneOf

LEMMA IssuedGrows ==
  ASSUME TypeOK, Next
  PROVE  issued' \in Nat /\ issued <= issued' /\ store' = store
<1>1. issued' \in {issued, issued + 1} /\ store' = store
  BY DEF Next, BeginLogin, Begin, Find, FindFails, IssuePair, CreateSession,
         RotateSession, RevokeSession, Restart, Tick
<1>2. issued \in Nat
  BY DEF TypeOK
<1> QED
  BY <1>1, <1>2

LEMMA SessionsFunction ==
  ASSUME TypeOK, Next
  PROVE  sessions' = [s \in SessionIds |-> sessions'[s]]
BY DEF Next, TypeOK, BeginLogin, Begin, Find, FindFails, IssuePair, CreateSession,
       RotateSession, RevokeSession, Restart, Tick, Writes

LEMMA CountersTyped ==
  ASSUME TypeOK, Next
  PROVE  now' \in 0 .. MaxTime /\ outages' \in 0 .. MaxOutages
<1>1. /\ now' = now \/ (now < MaxTime /\ now' = now + 1)
      /\ outages' = outages \/ (outages < MaxOutages /\ outages' = outages + 1)
  BY DEF Next, BeginLogin, Begin, Find, FindFails, IssuePair, CreateSession,
         RotateSession, RevokeSession, Restart, Tick, Writes
<1>2. now \in 0 .. MaxTime /\ outages \in 0 .. MaxOutages
  BY DEF TypeOK
<1> QED
  BY <1>1, <1>2, Constants

\* A handler at a step of a session works for one.
LEMMA SessionNamed ==
  ASSUME TypeOK, ShapeOK, Next, NEW c \in Calls,
         calls'[c].pc \in {"issue", "create", "rotate", "revoke"}
  PROVE  calls'[c].session # None
<1>1. CASE calls'[c] = calls[c]
  BY <1>1 DEF TypeOK
<1>2. CASE calls'[c] # calls[c]
  <2>1. ASSUME NEW d \in Calls, HandlerStep(d) PROVE calls'[c].session # None
    <3>1. CASE \E op \in {"refresh", "logout"}, token \in HandedOut : Begin(d, op, token)
      BY <1>2, <3>1, BeginEffect
    <3>2. CASE \E s \in SessionIds : BeginLogin(d, s)
      BY <1>2, <3>2, Constants DEF BeginLogin, TypeOK, Call
    <3>3. CASE Find(d)
      <4>1. \/ \E s \in SessionIds, pc \in {"issue", "revoke"} :
                 calls' = [calls EXCEPT ![d].pc = pc, ![d].session = s]
            \/ \E pc \in {"ok", "failed"} : calls' = [calls EXCEPT ![d].pc = pc]
        BY <3>3 DEF Find, Moves, Active
      <4> QED
        BY <1>2, <4>1, Constants DEF TypeOK, Call
    <3>4. CASE FindFails(d) \/ IssuePair(d)
      BY <1>2, <3>4 DEF FindFails, IssuePair, TypeOK, Call
    <3>5. CASE CreateSession(d) \/ RotateSession(d) \/ RevokeSession(d)
      <4>1. \E pc \in {"ok", "failed"} : calls' = [calls EXCEPT ![d].pc = pc]
        BY <3>5 DEF CreateSession, RotateSession, RevokeSession, Writes, Moves
      <4> QED
        BY <1>2, <4>1 DEF TypeOK, Call
    <3> QED
      BY <2>1, <3>1, <3>2, <3>3, <3>4, <3>5 DEF HandlerStep
  <2>2. CASE Restart
    BY <1>2, <2>2 DEF Restart, TypeOK, Call
  <2>3. CASE Tick
    BY <1>2, <2>3 DEF Tick
  <2> QED
    BY <2>1, <2>2, <2>3, NextIsOneOf
<1> QED
  BY <1>1, <1>2

LEMMA TypeStep == ASSUME TypeOK, ShapeOK, PairsOK, Next PROVE TypeOK'
<1>1. ASSUME NEW s \in SessionIds
      PROVE  sessions'[s] \in Row \cup {Absent} /\ sessions'[s].token <= issued'
  <2>1. SessionStep(s)
    BY SessionSteps
  <2>2. sessions[s].token \in Nat /\ sessions[s].token <= issued
    BY DEF TypeOK, Row, Absent
  <2>3. issued \in Nat /\ issued' \in Nat /\ issued <= issued'
    BY IssuedGrows DEF TypeOK
  <2>4. CASE sessions'[s] = sessions[s]
    BY <2>2, <2>3, <2>4 DEF TypeOK
  <2>5. CASE sessions'[s] = Absent
    BY <2>3, <2>5 DEF Absent
  <2>6. ASSUME NEW c \in Calls, Writer(c), sessions'[s] \in Row,
               sessions'[s].token \in {calls[c].pair, sessions[s].token}
        PROVE  sessions'[s] \in Row \cup {Absent} /\ sessions'[s].token <= issued'
    <3>1. calls[c].pair \in Nat /\ calls[c].pair <= issued
      BY DEF TypeOK, Call, PairsOK
    <3> QED
      BY <2>2, <2>3, <2>6, <3>1
  <2>7. ASSUME NEW c \in Calls, Writer(c), sessions'[s] \in Row,
               calls[c].pc = "create" =>
                 sessions'[s] = [token |-> calls[c].pair, expires |-> calls[c].expires, revoked |-> FALSE],
               calls[c].pc = "rotate" => sessions'[s].token = calls[c].pair,
               calls[c].pc = "revoke" => sessions'[s].token = sessions[s].token
        PROVE  sessions'[s].token \in {calls[c].pair, sessions[s].token}
    BY <2>7 DEF Writer
  <2> QED
    BY <2>1, <2>4, <2>5, <2>6, <2>7 DEF SessionStep
<1>2. sessions' \in [SessionIds -> Row \cup {Absent}]
  BY <1>1, SessionsFunction
<1>3. store' \in {"memory", "postgres"} /\ issued' \in Nat
  BY IssuedGrows DEF TypeOK
<1> QED
  BY <1>1, <1>2, <1>3, CallsTyped, CountersTyped, SessionNamed DEF TypeOK

-----------------------------------------------------------------------------
\* The steps by what they make of the handler that takes them.

Others(c) == \A d \in Calls \ {c} : calls'[d] = calls[d]

Quiet == sessions' = sessions /\ issued' = issued

LoginStep(c) ==
  /\ calls[c] = Idle /\ Others(c) /\ Quiet
  /\ calls'[c].session \in SessionIds /\ sessions[calls'[c].session] = Absent
  /\ \A d \in Calls : calls[d].session # calls'[c].session
  /\ calls'[c].pc = "issue" /\ calls'[c].op = "login" /\ calls'[c].pair = 0
  /\ calls'[c].began = None /\ calls'[c].token = 0

BeginStep(c) ==
  /\ calls[c] = Idle /\ Others(c) /\ Quiet
  /\ calls'[c].pc = "find" /\ calls'[c].op # "login" /\ calls'[c].session = None
  /\ calls'[c].pair = 0 /\ calls'[c].now = now
  /\ calls'[c].token \in HandedOut
  /\ calls'[c].op = "logout" =>
       calls'[c].rivals = {d \in Calls : calls[d].op = "refresh" /\ UnderWay(d)}
  /\ \/ Live(calls'[c].token) = {} /\ calls'[c].began = None
     \/ calls'[c].began \in Live(calls'[c].token)

\* What a handler under way keeps of its request.
Keeps(c) ==
  /\ calls'[c].op = calls[c].op /\ calls'[c].token = calls[c].token
  /\ calls'[c].now = calls[c].now /\ calls'[c].began = calls[c].began
  /\ calls'[c].rivals = calls[c].rivals

FindStep(c) ==
  /\ calls[c].pc = "find" /\ Others(c) /\ Quiet /\ Keeps(c)
  /\ calls'[c].pair = calls[c].pair
  /\ \/ /\ calls'[c].session \in Active(calls[c].token, calls[c].now)
        /\ calls'[c].pc = IF calls[c].op = "refresh" THEN "issue" ELSE "revoke"
     \/ /\ calls'[c].session = calls[c].session
        /\ calls'[c].pc = IF calls[c].op = "refresh" THEN "failed" ELSE "ok"
        /\ calls'[c].blind \/ Active(calls[c].token, calls[c].now) = {}

IssueStep(c) ==
  /\ calls[c].pc = "issue" /\ Others(c) /\ sessions' = sessions /\ Keeps(c)
  /\ calls'[c].pc = IF calls[c].op = "login" THEN "create" ELSE "rotate"
  /\ calls'[c].session = calls[c].session
  /\ issued' = issued + 1 /\ calls'[c].pair = issued + 1

WriteStep(c) ==
  /\ Writer(c) /\ Others(c) /\ Keeps(c) /\ issued' = issued
  /\ calls'[c].pc \in {"ok", "failed"}
  /\ calls'[c].session = calls[c].session /\ calls'[c].pair = calls[c].pair
  /\ calls[c].pc = "revoke" /\ calls'[c].pc = "ok" => sessions'[calls[c].session].revoked
  /\ calls[c].pc = "rotate" /\ calls'[c].pc = "ok" => sessions'[calls[c].session].token = calls[c].pair

RestartStep ==
  /\ issued' = issued
  /\ sessions' = sessions \/ \A s \in SessionIds : sessions'[s] = Absent
  /\ \A c \in Calls :
       \/ calls[c].pc \in {"idle", "ok"} /\ calls'[c] = calls[c]
       \/ /\ calls[c].pc \notin {"idle", "ok"} /\ Keeps(c) /\ calls'[c].pc = "failed"
          /\ calls'[c].session = calls[c].session /\ calls'[c].pair = calls[c].pair

TickStep == calls' = calls /\ Quiet

LEMMA FindEffect ==
  ASSUME TypeOK, NEW c \in Calls, Find(c) \/ FindFails(c) PROVE FindStep(c)
<1>1. CASE Find(c)
  <2> DEFINE next == IF calls[c].op = "refresh" THEN "issue" ELSE "revoke"
             giveUp == IF calls[c].op = "refresh" THEN "failed" ELSE "ok"
  <2>1. /\ calls[c].pc = "find" /\ Quiet
        /\ \/ \E s \in Active(calls[c].token, calls[c].now) :
                 calls' = [calls EXCEPT ![c].pc = next, ![c].session = s]
           \/ /\ Active(calls[c].token, calls[c].now) = {}
              /\ calls' = [calls EXCEPT ![c].pc = giveUp]
    BY <1>1 DEF Find, Moves, Quiet
  <2> HIDE DEF next, giveUp
  <2>2. CASE \E s \in Active(calls[c].token, calls[c].now) :
               calls' = [calls EXCEPT ![c].pc = next, ![c].session = s]
    <3>1. PICK s \in Active(calls[c].token, calls[c].now) :
                 calls' = [calls EXCEPT ![c].pc = next, ![c].session = s]
      BY <2>2, Zenon
    <3>2. Others(c) /\ Keeps(c) /\ calls'[c].pair = calls[c].pair /\ calls'[c].session = s
          /\ calls'[c].pc = next
      BY <3>1 DEF TypeOK, Call, Others, Keeps
    <3> QED
      BY <2>1, <3>2 DEF FindStep, next
  <2>3. CASE /\ Active(calls[c].token, calls[c].now) = {}
             /\ calls' = [calls EXCEPT ![c].pc = giveUp]
    <3>1. Others(c) /\ Keeps(c) /\ calls'[c].pair = calls[c].pair
          /\ calls'[c].session = calls[c].session /\ calls'[c].pc = giveUp
      BY <2>3 DEF TypeOK, Call, Others, Keeps
    <3> QED
      BY <2>1, <2>3, <3>1 DEF FindStep, giveUp
  <2> QED
    BY <2>1, <2>2, <2>3
<1>2. CASE FindFails(c)
  <2> DEFINE pc == IF calls[c].op = "refresh" THEN "failed" ELSE "ok"
  <2>1. calls[c].pc = "find" /\ Quiet /\ calls' = [calls EXCEPT ![c].pc = pc, ![c].blind = TRUE]
    BY <1>2 DEF FindFails, Quiet
  <2> HIDE DEF pc
  <2>2. Others(c) /\ Keeps(c) /\ calls'[c].pair = calls[c].pair /\ calls'[c].blind
        /\ calls'[c].session = calls[c].session /\ calls'[c].pc = pc
    BY <2>1 DEF TypeOK, Call, Others, Keeps
  <2> QED
    BY <2>1, <2>2 DEF FindStep, pc
<1> QED
  BY <1>1, <1>2

LEMMA IssueEffect ==
  ASSUME TypeOK, NEW c \in Calls, IssuePair(c) PROVE IssueStep(c)
<1> DEFINE pc == IF calls[c].op = "login" THEN "create" ELSE "rotate"
           expires == now + RefreshTTL
<1>1. /\ calls[c].pc = "issue" /\ sessions' = sessions /\ issued' = issued + 1
      /\ calls' = [calls EXCEPT ![c].pc = pc, ![c].pair = issued + 1, ![c].expires = expires]
  BY DEF IssuePair
<1> HIDE DEF pc, expires
<1>2. Others(c) /\ Keeps(c) /\ calls'[c].pair = issued + 1
      /\ calls'[c].session = calls[c].session /\ calls'[c].pc = pc
  BY <1>1 DEF TypeOK, Call, Others, Keeps
<1> QED
  BY <1>1, <1>2 DEF IssueStep, pc

LEMMA WriterEffect ==
  ASSUME TypeOK, ShapeOK, NEW c \in Calls,
         CreateSession(c) \/ RotateSession(c) \/ RevokeSession(c)
  PROVE  WriteStep(c)
<1>1. Writer(c) /\ issued' = issued
  BY DEF CreateSession, RotateSession, RevokeSession, Writer
<1>2. \E pc \in {"ok", "failed"} : calls' = [calls EXCEPT ![c].pc = pc]
  BY DEF CreateSession, RotateSession, RevokeSession, Writes, Moves
<1>3. Others(c) /\ Keeps(c) /\ calls'[c].pair = calls[c].pair
      /\ calls'[c].session = calls[c].session /\ calls'[c].pc \in {"ok", "failed"}
  BY <1>2 DEF TypeOK, Call, Others, Keeps
<1>4. ASSUME calls[c].pc = "revoke", calls'[c].pc = "ok" PROVE sessions'[calls[c].session].revoked
  <2> DEFINE t == calls[c].session
             row == Revoked(t)
  <2>1. Writes(c, t, row, Updatable(t))
    BY <1>4 DEF CreateSession, RotateSession, RevokeSession
  <2>2. calls' # [calls EXCEPT ![c].pc = "failed"]
    BY <1>4 DEF TypeOK, Call
  <2>3. Updatable(t) /\ sessions' = [sessions EXCEPT ![t] = row]
    BY <2>1, <2>2 DEF Writes, Moves
  <2>4. t \in SessionIds /\ sessions[t] \in Row
    BY <1>1, <2>3, RowWritten DEF Updatable
  <2>5. row.revoked
    BY <2>4 DEF Revoked, Row
  <2> HIDE DEF row
  <2> QED
    BY <2>3, <2>4, <2>5 DEF TypeOK
<1>5. ASSUME calls[c].pc = "rotate", calls'[c].pc = "ok"
      PROVE  sessions'[calls[c].session].token = calls[c].pair
  <2> DEFINE t == calls[c].session
             row == Rotated(t, calls[c].pair, calls[c].expires)
  <2>1. Writes(c, t, row, Updatable(t))
    BY <1>5 DEF CreateSession, RotateSession, RevokeSession
  <2>2. calls' # [calls EXCEPT ![c].pc = "failed"]
    BY <1>5 DEF TypeOK, Call
  <2>3. Updatable(t) /\ sessions' = [sessions EXCEPT ![t] = row]
    BY <2>1, <2>2 DEF Writes, Moves
  <2>4. t \in SessionIds /\ sessions[t] \in Row
    BY <1>1, <2>3, RowWritten DEF Updatable
  <2>5. row.token = calls[c].pair
    BY <2>4 DEF Rotated, Row
  <2> HIDE DEF row
  <2> QED
    BY <2>3, <2>4, <2>5 DEF TypeOK
<1> QED
  BY <1>1, <1>3, <1>4, <1>5 DEF WriteStep

LEMMA Steps ==
  ASSUME TypeOK, ShapeOK, Next
  PROVE  \/ \E c \in Calls : \/ LoginStep(c) \/ BeginStep(c) \/ FindStep(c)
                             \/ IssueStep(c) \/ WriteStep(c)
         \/ RestartStep \/ TickStep
<1>1. ASSUME NEW c \in Calls, HandlerStep(c)
      PROVE  LoginStep(c) \/ BeginStep(c) \/ FindStep(c) \/ IssueStep(c) \/ WriteStep(c)
  <2>1. ASSUME NEW s \in SessionIds, BeginLogin(c, s) PROVE LoginStep(c)
    <3>1. calls[c] = Idle /\ sessions[s] = Absent /\ (\A d \in Calls : calls[d].session # s) /\ Quiet
          /\ calls' = [calls EXCEPT ![c].pc = "issue", ![c].session = s]
      BY <2>1 DEF BeginLogin, ShapeOK, Shape, Quiet
    <3>2. Others(c) /\ calls'[c] = [Idle EXCEPT !.pc = "issue", !.session = s]
      BY <3>1 DEF TypeOK, Others
    <3>3. /\ calls'[c].pc = "issue" /\ calls'[c].session = s /\ calls'[c].op = "login"
          /\ calls'[c].pair = 0 /\ calls'[c].began = None /\ calls'[c].token = 0
      BY <3>2 DEF Idle
    <3> QED
      BY <3>1, <3>2, <3>3 DEF LoginStep
  <2>2. ASSUME NEW op \in {"refresh", "logout"}, NEW token \in HandedOut, Begin(c, op, token)
        PROVE  BeginStep(c)
    <3>1. Quiet
      BY <2>2 DEF Begin, Quiet
    <3> QED
      BY <2>2, <3>1, BeginEffect DEF BeginStep, Others
  <2> QED
    BY <1>1, <2>1, <2>2, FindEffect, IssueEffect, WriterEffect DEF HandlerStep
<1>2. CASE Restart
  BY <1>2 DEF Restart, RestartStep, TypeOK, Call, Keeps
<1>3. CASE Tick
  BY <1>3 DEF Tick, TickStep, Quiet
<1> QED
  BY <1>1, <1>2, <1>3, NextIsOneOf

\* Each call as a set of facts the rest of the proof needs of its type.
LEMMA Typed ==
  ASSUME TypeOK, NEW c \in Calls
  PROVE  /\ calls[c].pc \in {"idle", "find", "issue", "create", "rotate", "revoke", "ok", "failed"}
         /\ calls[c].op \in {"login", "refresh", "logout"}
         /\ calls[c].token \in Nat /\ calls[c].now \in Nat /\ calls[c].pair \in Nat
         /\ calls[c].session \in SessionIds \cup {None}
         /\ calls[c].began \in SessionIds \cup {None}
BY DEF TypeOK, Call

LEMMA IdleFields ==
  /\ Idle.pc = "idle" /\ Idle.op = "login" /\ Idle.pair = 0 /\ Idle.session = None
  /\ Idle.began = None /\ Idle.token = 0
BY DEF Idle

LEMMA ShapeStep == ASSUME TypeOK, ShapeOK, Next PROVE ShapeOK'
<1>1. SUFFICES ASSUME NEW c \in Calls PROVE Shape(c)'
  BY DEF ShapeOK
<1>2. Shape(c)
  BY DEF ShapeOK
<1>3. issued \in Nat
  BY DEF TypeOK
<1>4. ASSUME NEW d \in Calls,
             LoginStep(d) \/ BeginStep(d) \/ FindStep(d) \/ IssueStep(d) \/ WriteStep(d)
      PROVE  Shape(c)'
  <2>1. CASE c # d
    BY <1>2, <1>4, <2>1
       DEF Shape, LoginStep, BeginStep, FindStep, IssueStep, WriteStep, Others
  <2>2. CASE c = d
    BY <1>2, <1>3, <1>4, <2>2, Typed
       DEF Shape, LoginStep, BeginStep, FindStep, IssueStep, WriteStep, Keeps, Writer
  <2> QED
    BY <2>1, <2>2
<1>5. CASE RestartStep
  BY <1>2, <1>5 DEF Shape, RestartStep, Keeps
<1>6. CASE TickStep
  BY <1>2, <1>6 DEF Shape, TickStep
<1> QED
  BY <1>4, <1>5, <1>6, Steps

LEMMA PairsStep == ASSUME TypeOK, ShapeOK, PairsOK, Next PROVE PairsOK'
<1>1. \A c \in Calls : calls[c].pair \in Nat /\ calls[c].pair <= issued /\ issued \in Nat
  BY Typed DEF PairsOK, TypeOK
<1>2. ASSUME NEW c \in Calls,
             LoginStep(c) \/ BeginStep(c) \/ FindStep(c) \/ WriteStep(c)
      PROVE  PairsOK'
  <2>1. /\ issued' = issued
        /\ \A d \in Calls : calls'[d].pair = calls[d].pair
    BY <1>2, IdleFields DEF LoginStep, BeginStep, FindStep, WriteStep, Others, Quiet
  <2> QED
    BY <2>1 DEF PairsOK
<1>3. ASSUME NEW c \in Calls, IssueStep(c) PROVE PairsOK'
  <2>1. /\ issued' = issued + 1 /\ calls'[c].pair = issued + 1
        /\ \A d \in Calls \ {c} : calls'[d].pair = calls[d].pair
    BY <1>3 DEF IssueStep, Others
  <2> QED
    BY <1>1, <2>1 DEF PairsOK
<1>4. CASE RestartStep \/ TickStep
  <2>1. /\ issued' = issued
        /\ \A d \in Calls : calls'[d].pair = calls[d].pair
    BY <1>4 DEF RestartStep, TickStep, Quiet
  <2> QED
    BY <2>1 DEF PairsOK
<1> QED
  BY <1>2, <1>3, <1>4, Steps

\* What a call drew it has drawn for good.
LEMMA DrewStays ==
  ASSUME TypeOK, ShapeOK, Next, NEW d \in Calls, NEW token, NEW s, Drew(d, token, s), s # None
  PROVE  Drew(d, token, s)'
<1>1. calls[d].pc \notin {"idle", "find", "issue"}
  BY IdleFields DEF Drew, ShapeOK, Shape
<1> QED
  BY <1>1, CallSteps DEF CallStep, Drew

LEMMA Begun ==
  ASSUME TypeOK, ShapeOK, Next, NEW c \in Calls, calls[c].pc = "idle"
  PROVE  calls'[c] = calls[c] \/ LoginStep(c) \/ BeginStep(c)
BY Steps DEF Others, LoginStep, BeginStep, FindStep, IssueStep, WriteStep, Writer,
             RestartStep, TickStep

LEMMA OwnersStep == ASSUME TypeOK, ShapeOK, OwnersOK, Next PROVE OwnersOK'
<1>1. ASSUME NEW s \in SessionIds, sessions'[s].token # 0
      PROVE  \E d \in Calls : calls'[d].pair = sessions'[s].token /\ calls'[d].session = s
  <2>1. s # None
    BY Constants
  <2>2. ASSUME sessions'[s].token = sessions[s].token
        PROVE  \E d \in Calls : calls'[d].pair = sessions'[s].token /\ calls'[d].session = s
    <3>1. PICK d \in Calls : Drew(d, sessions[s].token, s)
      BY <1>1, <2>2 DEF OwnersOK
    <3>2. calls[d].pc \notin {"idle", "find", "issue"}
      BY <2>1, <3>1, IdleFields DEF Drew, ShapeOK, Shape
    <3> QED
      BY <2>2, <3>1, <3>2, CallSteps DEF CallStep, Drew
  <2>3. ASSUME NEW c \in Calls, calls[c].session = s, calls[c].pc \in {"create", "rotate"},
               sessions'[s].token = calls[c].pair
        PROVE  \E d \in Calls : calls'[d].pair = sessions'[s].token /\ calls'[d].session = s
    <3>1. calls'[c].pair = calls[c].pair /\ calls'[c].session = s
      BY <2>3, CallSteps DEF CallStep
    <3> QED
      BY <2>3, <3>1
  <2>4. sessions'[s] # Absent
    BY <1>1 DEF Absent
  <2>5. SessionStep(s)
    BY SessionSteps
  <2>6. CASE sessions'[s] = sessions[s]
    BY <2>2, <2>6
  <2>7. ASSUME NEW c \in Calls, Writer(c), calls[c].session = s,
               calls[c].pc = "create" =>
                 sessions'[s] = [token |-> calls[c].pair, expires |-> calls[c].expires, revoked |-> FALSE],
               calls[c].pc = "rotate" => sessions'[s].token = calls[c].pair,
               calls[c].pc = "revoke" => sessions'[s].token = sessions[s].token
        PROVE  \E d \in Calls : calls'[d].pair = sessions'[s].token /\ calls'[d].session = s
    <3>1. CASE calls[c].pc = "revoke"
      BY <2>2, <2>7, <3>1
    <3>2. CASE calls[c].pc \in {"create", "rotate"}
      <4>1. sessions'[s].token = calls[c].pair
        BY <2>7, <3>2
      <4> QED
        BY <2>3, <2>7, <3>2, <4>1
    <3> QED
      BY <2>7, <3>1, <3>2 DEF Writer
  <2> QED
    BY <2>4, <2>5, <2>6, <2>7 DEF SessionStep
<1>2. ASSUME NEW c \in Calls, calls'[c].began # None
      PROVE  \E d \in Calls : /\ calls'[c].token # 0 /\ calls'[d].pair = calls'[c].token
                             /\ calls'[d].session = calls'[c].began
  <2>1. \E d \in Calls : Drew(d, calls'[c].token, calls'[c].began)
    <3>1. CASE calls[c].pc # "idle"
      <4>1. calls'[c].began = calls[c].began /\ calls'[c].token = calls[c].token
        BY <3>1, CallSteps DEF CallStep
      <4> QED
        BY <1>2, <4>1 DEF OwnersOK
    <3>2. CASE calls[c].pc = "idle"
      <4>1. BeginStep(c)
        BY <1>2, <3>2, Begun, IdleFields DEF LoginStep, ShapeOK, Shape
      <4>2. calls'[c].token # 0
        BY <4>1, HandedOutToken DEF BeginStep
      <4>3. calls'[c].began \in SessionIds /\ sessions[calls'[c].began].token = calls'[c].token
        BY <1>2, <4>1 DEF BeginStep, Live
      <4> QED
        BY <4>2, <4>3 DEF OwnersOK
    <3> QED
      BY <3>1, <3>2
  <2>2. PICK d \in Calls : Drew(d, calls'[c].token, calls'[c].began)
    BY <2>1
  <2>3. calls[d].pc \notin {"idle", "find", "issue"}
    BY <1>2, <2>2, IdleFields DEF Drew, ShapeOK, Shape
  <2> QED
    BY <2>2, <2>3, CallSteps DEF CallStep, Drew
<1>3. ASSUME NEW c \in Calls, calls'[c].op # "login"
      PROVE  \E d \in Calls : /\ calls'[d].pc = "ok" /\ calls'[d].op # "logout"
                             /\ calls'[d].pair = calls'[c].token /\ calls'[d].pair # 0
  <2>1. PICK d \in Calls : /\ calls[d].pc = "ok" /\ calls[d].op # "logout"
                          /\ calls[d].pair = calls'[c].token /\ calls[d].pair # 0
    <3>1. CASE calls[c].pc # "idle"
      <4>1. calls'[c].op = calls[c].op /\ calls'[c].token = calls[c].token
        BY <3>1, CallSteps DEF CallStep
      <4> QED
        BY <1>3, <4>1 DEF OwnersOK
    <3>2. CASE calls[c].pc = "idle"
      <4>1. BeginStep(c)
        BY <1>3, <3>2, Begun, IdleFields DEF LoginStep, ShapeOK, Shape
      <4>2. calls'[c].token \in HandedOut
        BY <4>1 DEF BeginStep
      <4> QED
        BY <4>2, HandedOutToken
    <3> QED
      BY <3>1, <3>2
  <2>2. calls'[d] = calls[d]
    BY <2>1, CallSteps DEF CallStep
  <2> QED
    BY <2>1, <2>2
<1> QED
  BY <1>1, <1>2, <1>3 DEF OwnersOK, Drew

\* The session that a request carries the token of has been drawn for, so no
\* login under way is about to create it.
LEMMA BeganHasCall ==
  ASSUME OwnersOK, NEW c \in Calls, calls[c].began # None
  PROVE  \E d \in Calls : calls[d].session = calls[c].began
BY DEF OwnersOK, Drew

LEMMA FreshStep == ASSUME TypeOK, ShapeOK, OwnersOK, FreshOK, Next PROVE FreshOK'
<1> SUFFICES ASSUME NEW c \in Calls, calls'[c].op = "login", calls'[c].pc \in {"issue", "create"}
             PROVE  /\ sessions'[calls'[c].session] = Absent
                    /\ \A d \in Calls : /\ calls'[d].began # calls'[c].session
                                        /\ calls'[d].session = calls'[c].session => d = c
  BY DEF FreshOK
<1>1. CASE calls[c].pc = "idle"
  <2>1. LoginStep(c)
    BY <1>1, Begun, IdleFields DEF BeginStep, ShapeOK, Shape
  <2>2. ASSUME NEW d \in Calls PROVE calls'[d].began # calls'[c].session
    BY <2>1, BeganHasCall, Constants DEF LoginStep, Others
  <2>3. sessions'[calls'[c].session] = Absent
        /\ \A d \in Calls : calls'[d].session = calls'[c].session => d = c
    BY <2>1 DEF LoginStep, Others, Quiet
  <2> QED
    BY <2>2, <2>3
<1>2. CASE calls[c].pc # "idle"
  <2> DEFINE s == calls[c].session
  <2>1. calls[c].op = "login" /\ calls[c].pc \in {"issue", "create"} /\ calls'[c].session = s
    <3>1. calls[c].op = "login" /\ calls[c].pc # "find" /\ calls'[c].session = s
      BY <1>2, CallSteps DEF CallStep, ShapeOK, Shape
    <3>2. calls[c].pc \notin {"rotate", "revoke", "ok", "failed"}
      BY <3>1, CallSteps DEF CallStep, ShapeOK, Shape
    <3> QED
      BY <1>2, <3>1, <3>2, Typed
  <2>2. /\ sessions[s] = Absent
        /\ \A d \in Calls : calls[d].began # s /\ (calls[d].session = s => d = c)
    BY <2>1 DEF FreshOK
  <2>3. s \in SessionIds
    BY <2>1, Typed DEF TypeOK
  <2>4. sessions'[s] = Absent
    <3>1. SessionStep(s)
      BY <2>3, SessionSteps
    <3>2. ASSUME NEW w \in Calls, calls[w].session = s,
                 \E pc \in {"ok", "failed"} : calls' = [calls EXCEPT ![w].pc = pc]
          PROVE  FALSE
      <4>1. w = c
        BY <2>2, <3>2
      <4> QED
        BY <3>2, <4>1 DEF TypeOK, Call
    <3> QED
      BY <2>2, <3>1, <3>2 DEF SessionStep
  <2>5. ASSUME NEW d \in Calls PROVE calls'[d].began # s
    <3>1. CASE calls[d].pc # "idle"
      BY <2>2, <3>1, CallSteps DEF CallStep
    <3>2. CASE calls'[d] = calls[d]
      BY <2>2, <3>2
    <3>3. CASE LoginStep(d)
      BY <2>3, <3>3, Constants DEF LoginStep
    <3>4. CASE BeginStep(d)
      <4>1. calls'[d].token \in Nat \ {0}
        BY <3>4, HandedOutToken DEF BeginStep
      <4> QED
        BY <2>2, <2>3, <3>4, <4>1, Constants DEF BeginStep, Live, Absent
    <3> QED
      BY <3>1, <3>2, <3>3, <3>4, Begun
  <2>6. ASSUME NEW d \in Calls, calls'[d].session = s PROVE d = c
    <3>1. CASE calls[d].session = s
      BY <2>2, <3>1
    <3>2. CASE calls[d].session # s
      <4>1. calls[d].pc \in {"idle", "find"} /\ calls'[d] # calls[d]
        BY <2>6, <3>2, CallSteps DEF CallStep
      <4>2. CASE LoginStep(d)
        BY <2>6, <4>2 DEF LoginStep
      <4>3. CASE BeginStep(d)
        BY <2>3, <2>6, <4>3, Constants DEF BeginStep
      <4>4. CASE FindStep(d)
        <5>1. s \in Active(calls[d].token, calls[d].now)
          BY <2>6, <3>2, <4>4 DEF FindStep
        <5> QED
          BY <2>2, <5>1, ActiveSession, Typed
      <4>5. CASE RestartStep \/ TickStep
        BY <2>6, <3>2, <4>5 DEF RestartStep, TickStep
      <4>6. \A e \in Calls : LoginStep(e) \/ BeginStep(e) \/ FindStep(e) => e = d
        BY <4>1 DEF LoginStep, BeginStep, FindStep, Others
      <4>7. \A e \in Calls : ~IssueStep(e) /\ ~WriteStep(e)
        BY <4>1 DEF IssueStep, WriteStep, Writer, Others
      <4> QED
        BY <4>2, <4>3, <4>4, <4>5, <4>6, <4>7, Steps
    <3> QED
      BY <3>1, <3>2
  <2> QED
    BY <2>1, <2>4, <2>5, <2>6
<1> QED
  BY <1>1, <1>2

\* No step gives a session the token a request carries: it was drawn before.
LEMMA HeldTokenRows ==
  ASSUME TypeOK, ShapeOK, PairsOK, OwnersOK, Next, NEW c \in Calls, calls[c].op # "login",
         NEW s \in SessionIds, sessions'[s].token = calls[c].token, ~sessions'[s].revoked
  PROVE  sessions'[s] = sessions[s]
<1>1. PICK d \in Calls : calls[d].pc = "ok" /\ calls[d].pair = calls[c].token /\ calls[d].pair # 0
  BY DEF OwnersOK
<1>2. sessions'[s] # Absent
  BY <1>1 DEF Absent
<1>3. SessionStep(s)
  BY SessionSteps
<1>4. ASSUME NEW w \in Calls, Writer(w),
             calls[w].pc = "create" =>
               sessions'[s] = [token |-> calls[w].pair, expires |-> calls[w].expires, revoked |-> FALSE],
             calls[w].pc = "rotate" => sessions'[s].token = calls[w].pair,
             calls[w].pc = "revoke" => sessions'[s].revoked
      PROVE  FALSE
  <2>1. calls[w].pc \in {"create", "rotate"}
    BY <1>4 DEF Writer
  <2>2. calls[w].pair = calls[d].pair
    BY <1>1, <1>4, <2>1
  <2>3. w = d
    BY <1>1, <2>2 DEF PairsOK
  <2> QED
    BY <1>1, <2>1, <2>3
<1> QED
  BY <1>2, <1>3, <1>4 DEF SessionStep

\* How a handler that has begun came to the step it is at.
LEMMA FoundBy ==
  ASSUME TypeOK, ShapeOK, Next, NEW c \in Calls, calls[c].pc = "find"
  PROVE  calls'[c] = calls[c] \/ FindStep(c) \/ calls'[c].pc = "failed"
BY Steps, IdleFields DEF Others, LoginStep, BeginStep, FindStep, IssueStep, WriteStep, Writer,
             RestartStep, TickStep

LEMMA RefreshStep ==
  ASSUME TypeOK, ShapeOK, PairsOK, OwnersOK, RefreshOK, Next PROVE RefreshOK'
<1> SUFFICES ASSUME NEW c \in Calls, calls'[c].op = "refresh", calls'[c].began = None
             PROVE  /\ calls'[c].pc = "find" =>
                         ~ \E s \in SessionIds :
                             /\ sessions'[s].token = calls'[c].token /\ ~sessions'[s].revoked
                             /\ sessions'[s].expires > calls'[c].now
                    /\ calls'[c].pc \notin {"issue", "rotate", "ok"}
  BY DEF RefreshOK, Active
<1>1. CASE calls[c].pc = "idle"
  <2>1. BeginStep(c)
    BY <1>1, Begun, IdleFields DEF LoginStep, ShapeOK, Shape
  <2>2. calls'[c].pc = "find" /\ calls'[c].now = now /\ sessions' = sessions
    BY <2>1 DEF BeginStep, Quiet
  <2>3. Live(calls'[c].token) = {}
    BY <2>1, Constants DEF BeginStep, Live
  <2>4. \A s \in SessionIds : sessions[s].expires \in Nat
    BY DEF TypeOK, Row, Absent
  <2>5. now \in Nat
    BY Constants DEF TypeOK
  <2> QED
    BY <2>2, <2>3, <2>4, <2>5 DEF Live
<1>2. CASE calls[c].pc # "idle"
  <2>1. /\ calls[c].op = "refresh" /\ calls[c].began = None
        /\ calls'[c].token = calls[c].token /\ calls'[c].now = calls[c].now
    BY <1>2, CallSteps DEF CallStep
  <2>2. /\ calls[c].pc = "find" => Active(calls[c].token, calls[c].now) = {}
        /\ calls[c].pc \notin {"issue", "rotate", "ok", "create", "revoke"}
    BY <2>1 DEF RefreshOK, ShapeOK, Shape
  <2>3. CASE calls[c].pc = "failed"
    BY <2>3, CallSteps DEF CallStep
  <2>4. CASE calls[c].pc = "find"
    <3>1. calls'[c].pc \notin {"issue", "rotate", "ok"}
      BY <2>1, <2>2, <2>4, FoundBy DEF FindStep
    <3>2. ASSUME NEW s \in SessionIds,
                 sessions'[s].token = calls'[c].token, ~sessions'[s].revoked,
                 sessions'[s].expires > calls'[c].now
          PROVE  FALSE
      <4>1. sessions'[s] = sessions[s]
        BY <2>1, <3>2, HeldTokenRows
      <4>2. s \in Active(calls[c].token, calls[c].now)
        BY <2>1, <3>2, <4>1 DEF Active
      <4> QED
        BY <2>2, <2>4, <4>2
    <3> QED
      BY <3>1, <3>2
  <2> QED
    BY <1>2, <2>2, <2>3, <2>4, Typed
<1> QED
  BY <1>1, <1>2

\* A refresh that a logout does not answer for stays one.
LEMMA RivalStays ==
  ASSUME TypeOK, ShapeOK, Next, NEW c \in Calls, calls[c].pc # "idle", calls[c].began # None,
         Rivalled(c)
  PROVE  Rivalled(c)'
<1>1. PICK d \in Calls : Rival(c, d)
  BY DEF Rivalled
<1>2. calls[d].pc # "idle" /\ calls[d].pc # "find"
  BY <1>1, IdleFields DEF Rival, ShapeOK, Shape
<1>3. /\ calls'[d].op = calls[d].op /\ calls'[d].session = calls[d].session
      /\ calls'[d].token = calls[d].token
      /\ calls'[c].began = calls[c].began /\ calls'[c].rivals = calls[c].rivals
      /\ calls'[c].token = calls[c].token
  BY <1>2, CallSteps DEF CallStep
<1> QED
  BY <1>1, <1>3 DEF Rival, Rivalled

\* No login writes a session that a request has begun with.
LEMMA BeganWriter ==
  ASSUME ShapeOK, FreshOK, NEW c \in Calls, NEW w \in Calls, Writer(w),
         calls[w].session = calls[c].began
  PROVE  calls[w].pc # "create"
BY DEF FreshOK, ShapeOK, Shape

LEMMA EndedStays ==
  ASSUME TypeOK, ShapeOK, FreshOK, Next, NEW c \in Calls,
         calls[c].began \in SessionIds, Ended(calls[c].began)
  PROVE  sessions'[calls[c].began] = Absent \/ sessions'[calls[c].began].revoked
<1> DEFINE s == calls[c].began
<1>1. SessionStep(s)
  BY SessionSteps
<1>2. ASSUME NEW w \in Calls, Writer(w), calls[w].session = s,
             calls[w].pc = "rotate" => /\ sessions[s] # Absent
                                       /\ sessions'[s].revoked = sessions[s].revoked,
             calls[w].pc = "revoke" => sessions'[s].revoked
      PROVE  sessions'[s].revoked
  <2>1. calls[w].pc # "create"
    BY <1>2, BeganWriter
  <2> QED
    BY <1>2, <2>1 DEF Writer, Ended
<1> QED
  BY <1>1, <1>2 DEF SessionStep, Ended

LEMMA LogoutFindsStep ==
  ASSUME TypeOK, ShapeOK, OwnersOK, FreshOK, LogoutFinds, Next PROVE LogoutFinds'
<1> SUFFICES ASSUME NEW c \in Calls, calls'[c].op = "logout", calls'[c].began # None,
                    calls'[c].pc = "find", ~Rivalled(c)'
             PROVE  /\ \A d \in Calls : calls'[d].op = "refresh" /\ calls'[d].session = calls'[c].began
                                          => ~UnderWay(d)'
                    /\ \/ sessions'[calls'[c].began] = Absent
                       \/ sessions'[calls'[c].began].revoked
                       \/ /\ sessions'[calls'[c].began].token = calls'[c].token
                          /\ sessions'[calls'[c].began].expires > calls'[c].now
  BY DEF LogoutFinds, Ended
<1> DEFINE s == calls'[c].began
<1>1. CASE calls[c].pc = "idle"
  <2>1. BeginStep(c)
    BY <1>1, Begun, IdleFields DEF LoginStep, ShapeOK, Shape
  <2>2. s \in Live(calls'[c].token) /\ sessions' = sessions /\ calls'[c].now = now
    BY <2>1 DEF BeginStep, Quiet
  <2>3. now \in Nat /\ \A t \in SessionIds : sessions[t].expires \in Nat
    BY Constants DEF TypeOK, Row, Absent
  <2>4. sessions'[s].token = calls'[c].token /\ sessions'[s].expires > calls'[c].now
    BY <2>2, <2>3 DEF Live
  <2>5. ASSUME NEW d \in Calls, calls'[d].op = "refresh", calls'[d].session = s, UnderWay(d)'
        PROVE  FALSE
    <3>1. calls'[d] = calls[d]
      BY <2>1, <2>5 DEF BeginStep, Others
    <3>2. d \in calls'[c].rivals
      BY <2>1, <2>5, <3>1 DEF BeginStep, UnderWay
    <3> QED
      BY <2>5, <3>2 DEF Rivalled, Rival
  <2> QED
    BY <2>4, <2>5
<1>2. CASE calls[c].pc # "idle"
  <2>1. calls'[c] = calls[c]
    <3>1. calls[c].pc = "find"
      <4>1. ASSUME NEW d \in Calls,
                   LoginStep(d) \/ BeginStep(d) \/ FindStep(d) \/ IssueStep(d) \/ WriteStep(d)
            PROVE  calls[c].pc = "find"
        <5>1. c # d
          BY <1>2, <4>1, IdleFields DEF LoginStep, BeginStep, FindStep, IssueStep, WriteStep
        <5> QED
          BY <4>1, <5>1 DEF Others, LoginStep, BeginStep, FindStep, IssueStep, WriteStep
      <4>2. RestartStep \/ TickStep => calls[c].pc = "find"
        BY DEF RestartStep, TickStep
      <4> QED
        BY <4>1, <4>2, Steps
    <3> QED
      BY <3>1, FoundBy DEF FindStep
  <2>2. s \in SessionIds /\ s = calls[c].began
    BY <2>1, Typed
  <2>3. ~Rivalled(c)
    BY <1>2, <2>1, RivalStays
  <2>4. /\ \A d \in Calls : calls[d].op = "refresh" /\ calls[d].session = s => ~UnderWay(d)
        /\ \/ Ended(s)
           \/ /\ sessions[s].token = calls[c].token
              /\ sessions[s].expires > calls[c].now
    BY <2>1, <2>3 DEF LogoutFinds
  <2>5. ASSUME NEW d \in Calls, calls'[d].op = "refresh", calls'[d].session = s, UnderWay(d)'
        PROVE  FALSE
    <3>1. CASE calls[d].pc = "idle"
      BY <2>2, <2>5, <3>1, Begun, IdleFields, Constants DEF LoginStep, BeginStep, ShapeOK, Shape
    <3>2. CASE calls[d].pc = "find"
      <4>1. FindStep(d) \/ calls'[d] = calls[d]
        BY <2>5, <3>2, FoundBy DEF UnderWay
      <4>2. calls[d].session = None
        BY <3>2 DEF ShapeOK, Shape
      <4>3. FindStep(d) /\ s \in Active(calls[d].token, calls[d].now)
        BY <2>2, <2>5, <4>1, <4>2, Constants DEF FindStep
      <4>4. sessions[s].token = calls[d].token /\ ~Ended(s)
        BY <4>3, ActiveSession, Typed DEF Ended
      <4>5. calls'[d].token = calls'[c].token
        BY <2>1, <2>4, <4>3, <4>4 DEF FindStep, Keeps
      <4> QED
        BY <2>5, <4>5 DEF Rivalled, Rival
    <3>3. CASE calls[d].pc \notin {"idle", "find"}
      <4>1. calls[d].op = "refresh" /\ calls[d].session = s /\ UnderWay(d)
        BY <2>5, <3>3, CallSteps DEF CallStep, UnderWay
      <4> QED
        BY <2>4, <4>1
    <3> QED
      BY <3>1, <3>2, <3>3
  <2>6. \/ sessions'[s] = sessions[s]
        \/ sessions'[s] = Absent \/ sessions'[s].revoked
    <3>1. SessionStep(s)
      BY <2>2, SessionSteps
    <3>2. ASSUME NEW w \in Calls, Writer(w), calls[w].session = s,
                 calls[w].pc = "revoke" => sessions'[s].revoked
          PROVE  sessions'[s].revoked
      <4>1. calls[w].pc # "create"
        BY <2>2, <3>2, BeganWriter
      <4>2. calls[w].pc # "rotate"
        BY <2>4, <3>2 DEF UnderWay, ShapeOK, Shape
      <4> QED
        BY <3>2, <4>1, <4>2 DEF Writer
    <3> QED
      BY <3>1, <3>2 DEF SessionStep
  <2>7. Ended(s) => sessions'[s] = Absent \/ sessions'[s].revoked
    BY <2>2, EndedStays
  <2> QED
    BY <2>1, <2>4, <2>5, <2>6, <2>7
<1> QED
  BY <1>1, <1>2

LEMMA LogoutRevokesStep ==
  ASSUME TypeOK, ShapeOK, PairsOK, OwnersOK, LogoutRevokes, Next PROVE LogoutRevokes'
<1> SUFFICES ASSUME NEW c \in Calls, calls'[c].op = "logout", calls'[c].began # None,
                    calls'[c].pc = "revoke"
             PROVE  calls'[c].session = calls'[c].began
  BY DEF LogoutRevokes
<1>1. calls[c].pc # "idle"
  BY Begun, IdleFields DEF LoginStep, BeginStep, ShapeOK, Shape
<1>2. calls[c].op = "logout" /\ calls'[c].began = calls[c].began /\ calls'[c].token = calls[c].token
  BY <1>1, CallSteps DEF CallStep
<1>3. calls[c].pc \notin {"issue", "create", "rotate", "ok", "failed"}
  BY <1>2, CallSteps DEF CallStep, ShapeOK, Shape
<1>4. CASE calls[c].pc = "find"
  <2>1. FindStep(c) \/ calls'[c] = calls[c]
    BY <1>4, FoundBy
  <2>2. calls'[c].session \in Active(calls[c].token, calls[c].now)
    BY <1>2, <1>4, <2>1 DEF FindStep
  <2>3. sessions[calls'[c].session].token = calls[c].token /\ calls'[c].session \in SessionIds
    BY <2>2, ActiveSession, Typed
  <2>4. calls[c].token # 0 /\ calls[c].token \in Nat
    BY <1>2, Typed DEF OwnersOK
  <2>5. PICK d \in Calls : Drew(d, calls[c].token, calls'[c].session)
    BY <2>3, <2>4 DEF OwnersOK
  <2>6. PICK e \in Calls : Drew(e, calls[c].token, calls[c].began)
    BY <1>2 DEF OwnersOK
  <2>7. d = e
    BY <2>5, <2>6 DEF Drew, PairsOK
  <2> QED
    BY <1>2, <2>5, <2>6, <2>7 DEF Drew
<1>5. CASE calls[c].pc = "revoke"
  BY <1>2, <1>5, CallSteps DEF CallStep, LogoutRevokes
<1> QED
  BY <1>1, <1>3, <1>4, <1>5, Typed

LEMMA LogoutEndsStep ==
  ASSUME TypeOK, ShapeOK, OwnersOK, FreshOK, LogoutFinds, LogoutRevokes, LogoutEnds, Next
  PROVE  LogoutEnds'
<1> SUFFICES ASSUME NEW c \in Calls, calls'[c].op = "logout", calls'[c].pc = "ok",
                    calls'[c].began # None, ~calls'[c].blind, ~Rivalled(c)'
             PROVE  \/ sessions'[calls'[c].began] = Absent
                    \/ sessions'[calls'[c].began].revoked
  BY DEF LogoutEnds, Rivalled, Rival
<1> DEFINE s == calls'[c].began
<1>1. calls[c].pc # "idle"
  BY Begun, IdleFields DEF LoginStep, BeginStep, ShapeOK, Shape
<1>2. /\ calls[c].op = "logout" /\ s = calls[c].began /\ calls'[c].token = calls[c].token
      /\ ~calls[c].blind
  BY <1>1, CallSteps DEF CallStep
<1>3. s \in SessionIds /\ ~Rivalled(c)
  BY <1>1, <1>2, RivalStays, Typed
<1>4. calls[c].pc \notin {"issue", "create", "rotate", "failed"}
  BY <1>2, CallSteps DEF CallStep, ShapeOK, Shape
<1>5. CASE calls[c].pc = "ok"
  <2>1. Ended(s)
    BY <1>2, <1>3, <1>5 DEF LogoutEnds, Rivalled, Rival, Ended
  <2> QED
    BY <1>2, <1>3, <2>1, EndedStays
<1>6. CASE calls[c].pc = "find"
  <2>1. FindStep(c)
    BY <1>6, FoundBy
  <2>2. Active(calls[c].token, calls[c].now) = {} /\ sessions' = sessions
    BY <1>2, <2>1 DEF FindStep, Quiet
  <2>3. \/ Ended(s)
        \/ sessions[s].token = calls[c].token /\ sessions[s].expires > calls[c].now
    BY <1>2, <1>3, <1>6 DEF LogoutFinds
  <2>4. Ended(s)
    BY <1>3, <2>2, <2>3 DEF Active, Ended
  <2> QED
    BY <2>2, <2>4 DEF Ended
<1>7. CASE calls[c].pc = "revoke"
  <2>1. calls[c].session = s
    BY <1>2, <1>7 DEF LogoutRevokes
  <2>2. WriteStep(c)
    <3>1. \A d \in Calls \ {c} : ~LoginStep(d) /\ ~BeginStep(d) /\ ~FindStep(d)
                               /\ ~IssueStep(d) /\ ~WriteStep(d)
      BY <1>7 DEF LoginStep, BeginStep, FindStep, IssueStep, WriteStep, Others
    <3>2. ~LoginStep(c) /\ ~BeginStep(c) /\ ~FindStep(c) /\ ~IssueStep(c)
      BY <1>7, IdleFields DEF LoginStep, BeginStep, FindStep, IssueStep
    <3>3. ~RestartStep /\ ~TickStep
      BY <1>7 DEF RestartStep, TickStep
    <3> QED
      BY <3>1, <3>2, <3>3, Steps
  <2> QED
    BY <1>7, <2>1, <2>2 DEF WriteStep
<1> QED
  BY <1>1, <1>4, <1>5, <1>6, <1>7, Typed

LEMMA NextIInv == IInv /\ [Next]_vars => IInv'
<1> SUFFICES ASSUME IInv, [Next]_vars PROVE IInv'
  OBVIOUS
<1>1. CASE Next
  BY <1>1, TypeStep, ShapeStep, PairsStep, OwnersStep, FreshStep, RefreshStep, LogoutFindsStep,
     LogoutRevokesStep, LogoutEndsStep DEF IInv
<1>2. CASE UNCHANGED vars
  BY <1>2 DEF vars, IInv, TypeOK, ShapeOK, Shape, PairsOK, OwnersOK, Drew, FreshOK, RefreshOK,
              Active, LogoutFinds, Rivalled, Rival, Ended, UnderWay, LogoutRevokes, LogoutEnds
<1> QED
  BY <1>1, <1>2

LEMMA Inductive == Spec => []IInv
BY InitIInv, NextIInv, PTL DEF Spec

-----------------------------------------------------------------------------
\* Types, for the tables, the tokens and the requests (Session, RefreshInput,
\* LogoutInput).
THEOREM TypeCorrect == Spec => []TypeOK
<1>1. IInv => TypeOK
  BY DEF IInv
<1> QED
  BY <1>1, Inductive, PTL

\* A refresh that is answered carried, when it came in, the current token of a
\* session that was alive (Refresh, FindActiveSessionByRefreshHash).
THEOREM RefreshesAreLive == Spec => []OnlyLiveTokensRefresh
<1>1. IInv => OnlyLiveTokensRefresh
  BY DEF IInv, RefreshOK, OnlyLiveTokensRefresh
<1> QED
  BY <1>1, Inductive, PTL

\* A logout that is answered has ended its session, unless the store could not
\* be asked or a refresh ran at the same time (Logout).
THEOREM LogoutsEnd == Spec => []LogoutEnds
<1>1. IInv => LogoutEnds
  BY DEF IInv
<1> QED
  BY <1>1, Inductive, PTL

\* No step brings a session back that was logged out (RotateSession).
THEOREM LoggedOutStays == Spec => LoggedOutForGood
<1>1. IInv /\ [Next]_vars =>
        [\A s \in SessionIds : sessions[s].revoked => sessions'[s].revoked \/ sessions'[s] = Absent]_vars
  <2> SUFFICES ASSUME IInv, Next, NEW s \in SessionIds, sessions[s].revoked
               PROVE  sessions'[s].revoked \/ sessions'[s] = Absent
    OBVIOUS
  <2>1. SessionStep(s)
    BY SessionSteps DEF IInv
  <2>2. ASSUME NEW c \in Calls, Writer(c), calls[c].session = s,
               calls[c].pc = "rotate" => sessions'[s].revoked = sessions[s].revoked,
               calls[c].pc = "revoke" => sessions'[s].revoked
        PROVE  sessions'[s].revoked
    <3>1. calls[c].pc # "create"
      BY <2>2 DEF IInv, ShapeOK, Shape, FreshOK, Absent
    <3> QED
      BY <2>2, <3>1 DEF Writer
  <2> QED
    BY <2>1, <2>2 DEF SessionStep
<1> QED
  BY <1>1, Inductive, PTL DEF Spec, LoggedOutForGood
-----------------------------------------------------------------------------
\* Sessions_once shows that overlapping refreshes may exchange one token twice:
\* what holds is that nothing which comes after an exchange can use it.

\* A refresh works on the session its token was good for when it came in.
RefreshNames ==
  \A c \in Calls : calls[c].op = "refresh" /\ calls[c].pc \in {"issue", "rotate", "ok"} =>
    calls[c].session = calls[c].began

\* No session accepts a token that has been exchanged: not the one it was
\* exchanged at, and no other (RotateSession).
ExchangedTokensAreDead ==
  \A c \in Calls : calls[c].op = "refresh" /\ calls[c].pc = "ok" =>
    \A s \in SessionIds : sessions[s].token # calls[c].token

\* A token is drawn for one session.
LEMMA OneOwner ==
  ASSUME TypeOK, PairsOK, OwnersOK, NEW c \in Calls, calls[c].op # "login", calls[c].began # None,
         NEW s \in SessionIds, sessions[s].token = calls[c].token
  PROVE  s = calls[c].began
<1>1. calls[c].token # 0
  BY DEF OwnersOK
<1>2. PICK d \in Calls : Drew(d, calls[c].token, s)
  BY <1>1 DEF OwnersOK
<1>3. PICK e \in Calls : Drew(e, calls[c].token, calls[c].began)
  BY DEF OwnersOK
<1>4. d = e
  BY <1>2, <1>3 DEF Drew, PairsOK
<1> QED
  BY <1>2, <1>3, <1>4 DEF Drew

LEMMA RefreshNamesStep ==
  ASSUME IInv, RefreshNames, Next PROVE RefreshNames'
<1> SUFFICES ASSUME NEW c \in Calls, calls'[c].op = "refresh",
                    calls'[c].pc \in {"issue", "rotate", "ok"}
             PROVE  calls'[c].session = calls'[c].began
  BY DEF RefreshNames
<1> USE DEF IInv
<1>1. calls[c].pc # "idle"
  BY Begun, IdleFields DEF LoginStep, BeginStep, ShapeOK, Shape
<1>2. calls[c].op = "refresh" /\ calls'[c].began = calls[c].began
  BY <1>1, CallSteps DEF CallStep
<1>3. CASE calls[c].pc = "find"
  <2>1. FindStep(c)
    BY <1>3, FoundBy
  <2>2. calls'[c].session \in Active(calls[c].token, calls[c].now)
    BY <1>2, <2>1 DEF FindStep
  <2>3. sessions[calls'[c].session].token = calls[c].token /\ calls'[c].session \in SessionIds
    BY <2>2, ActiveSession, Typed
  <2>4. calls[c].began # None
    BY <1>2, <1>3, <2>2 DEF RefreshOK
  <2> QED
    BY <1>2, <2>3, <2>4, OneOwner
<1>4. CASE calls[c].pc # "find"
  <2>1. calls'[c].session = calls[c].session /\ (calls[c].pc = "failed" => calls'[c] = calls[c])
    BY <1>1, <1>4, CallSteps DEF CallStep
  <2>2. calls[c].pc \notin {"create", "revoke", "failed"}
    BY <1>2, <2>1 DEF ShapeOK, Shape
  <2>3. calls[c].pc \in {"issue", "rotate", "ok"}
    BY <1>1, <1>4, <2>2, Typed
  <2> QED
    BY <1>2, <2>1, <2>3 DEF RefreshNames
<1> QED
  BY <1>3, <1>4

\* A row has the token of a request that has begun only if it had it before.
LEMMA TokenWasThere ==
  ASSUME TypeOK, ShapeOK, PairsOK, OwnersOK, Next, NEW c \in Calls, calls[c].op # "login",
         NEW s \in SessionIds, sessions'[s].token = calls[c].token
  PROVE  sessions[s].token = calls[c].token
<1>1. PICK d \in Calls : calls[d].pc = "ok" /\ calls[d].pair = calls[c].token /\ calls[d].pair # 0
  BY DEF OwnersOK
<1>2. sessions'[s] # Absent
  BY <1>1 DEF Absent
<1>3. SessionStep(s)
  BY SessionSteps
<1>4. ASSUME NEW w \in Calls, Writer(w),
             calls[w].pc = "create" =>
               sessions'[s] = [token |-> calls[w].pair, expires |-> calls[w].expires, revoked |-> FALSE],
             calls[w].pc = "rotate" => sessions'[s].token = calls[w].pair,
             calls[w].pc = "revoke" => sessions'[s].token = sessions[s].token
      PROVE  sessions[s].token = calls[c].token
  <2>1. CASE calls[w].pc \in {"create", "rotate"}
    <3>1. calls[w].pair = calls[d].pair
      BY <1>1, <1>4, <2>1
    <3> QED
      BY <1>1, <2>1, <3>1 DEF PairsOK
  <2>2. CASE calls[w].pc = "revoke"
    BY <1>4, <2>2
  <2> QED
    BY <1>4, <2>1, <2>2 DEF Writer
<1> QED
  BY <1>2, <1>3, <1>4 DEF SessionStep

\* A refresh is answered by the step that writes its session.
LEMMA AnsweredByWrite ==
  ASSUME TypeOK, ShapeOK, Next, NEW c \in Calls, calls[c].pc # "ok",
         calls'[c].op = "refresh", calls'[c].pc = "ok"
  PROVE  calls[c].pc = "rotate" /\ WriteStep(c)
<1>1. calls[c].pc # "idle"
  BY Begun, IdleFields DEF LoginStep, BeginStep, ShapeOK, Shape
<1>2. calls[c].op = "refresh"
  BY <1>1, CallSteps DEF CallStep
<1>3. calls[c].pc \notin {"create", "revoke"}
  BY <1>2 DEF ShapeOK, Shape
<1>4. \A d \in Calls \ {c} : ~LoginStep(d) /\ ~BeginStep(d) /\ ~FindStep(d)
                            /\ ~IssueStep(d) /\ ~WriteStep(d)
  BY DEF LoginStep, BeginStep, FindStep, IssueStep, WriteStep, Others
<1>5. ~LoginStep(c) /\ ~BeginStep(c) /\ ~FindStep(c) /\ ~IssueStep(c)
  BY <1>1, <1>2, IdleFields DEF LoginStep, BeginStep, FindStep, IssueStep
<1>6. ~RestartStep /\ ~TickStep
  BY DEF RestartStep, TickStep
<1>7. WriteStep(c)
  BY <1>4, <1>5, <1>6, Steps
<1> QED
  BY <1>3, <1>7 DEF WriteStep, Writer

LEMMA ExchangedStep ==
  ASSUME IInv, RefreshNames, ExchangedTokensAreDead, Next PROVE ExchangedTokensAreDead'
<1> SUFFICES ASSUME NEW c \in Calls, calls'[c].op = "refresh", calls'[c].pc = "ok",
                    NEW s \in SessionIds, sessions'[s].token = calls'[c].token
             PROVE  FALSE
  BY DEF ExchangedTokensAreDead
<1> USE DEF IInv
<1>1. calls[c].pc # "idle"
  BY Begun, IdleFields DEF LoginStep, BeginStep, ShapeOK, Shape
<1>2. calls[c].op = "refresh" /\ calls'[c].token = calls[c].token
  BY <1>1, CallSteps DEF CallStep
<1>3. sessions[s].token = calls[c].token
  BY <1>2, TokenWasThere
<1>4. calls[c].pc # "ok"
  BY <1>2, <1>3 DEF ExchangedTokensAreDead
<1>5. calls[c].pc = "rotate" /\ WriteStep(c)
  BY <1>4, AnsweredByWrite
<1>6. s = calls[c].session
  BY <1>2, <1>3, <1>5, OneOwner DEF RefreshOK, RefreshNames
<1>7. sessions'[s].token = calls[c].pair
  BY <1>5, <1>6 DEF WriteStep
<1>8. PICK d \in Calls : calls[d].pc = "ok" /\ calls[d].pair = calls[c].token /\ calls[d].pair # 0
  BY <1>2 DEF OwnersOK
<1>9. c = d
  BY <1>2, <1>7, <1>8 DEF PairsOK
<1> QED
  BY <1>5, <1>8, <1>9

\* A token that was exchanged is dead: a refresh with it that comes in after the
\* answer finds no session, so that only refreshes that overlap can both be
\* answered with a pair (Refresh, RotateSession).
THEOREM ExchangedTokensDie == Spec => []ExchangedTokensAreDead
<1>1. Init => RefreshNames /\ ExchangedTokensAreDead
  BY IdleFields DEF Init, RefreshNames, ExchangedTokensAreDead
<1>2. IInv /\ RefreshNames /\ ExchangedTokensAreDead /\ [Next]_vars
        => (RefreshNames /\ ExchangedTokensAreDead)'
  <2> SUFFICES ASSUME IInv, RefreshNames, ExchangedTokensAreDead, [Next]_vars
               PROVE  (RefreshNames /\ ExchangedTokensAreDead)'
    OBVIOUS
  <2>1. CASE Next
    BY <2>1, RefreshNamesStep, ExchangedStep
  <2>2. CASE UNCHANGED vars
    BY <2>2 DEF vars, RefreshNames, ExchangedTokensAreDead
  <2> QED
    BY <2>1, <2>2
<1> QED
  BY <1>1, <1>2, Inductive, PTL DEF Spec
-----------------------------------------------------------------------------
\* A session may live on with a token that no client holds: what that takes.

\* The token of a session was written by a call that is done.
TokensAreWritten ==
  \A s \in SessionIds : sessions[s].token # 0 =>
    \E d \in Calls : Drew(d, sessions[s].token, s) /\ calls[d].pc \in {"ok", "failed"}

\* A logout draws no token.
LogoutsDrawNothing == \A c \in Calls : calls[c].op = "logout" => calls[c].pair = 0

\* A session whose current token no answer carried is one that a login or a
\* refresh wrote without being able to answer.
OrphansHaveLostAnswers ==
  \A s \in SessionIds : sessions[s] # Absent /\ sessions[s].token \notin HandedOut =>
    \E d \in Calls : /\ calls[d].op # "logout" /\ calls[d].pc = "failed"
                     /\ calls[d].session = s /\ calls[d].pair = sessions[s].token

LEMMA TokensAreWrittenStep ==
  ASSUME IInv, TokensAreWritten, Next PROVE TokensAreWritten'
<1> USE DEF IInv
<1> SUFFICES ASSUME NEW s \in SessionIds, sessions'[s].token # 0
             PROVE  \E d \in Calls : /\ calls'[d].pair = sessions'[s].token
                                     /\ calls'[d].session = s
                                     /\ calls'[d].pc \in {"ok", "failed"}
  BY DEF TokensAreWritten, Drew
<1>1. ASSUME sessions'[s].token = sessions[s].token
      PROVE  \E d \in Calls : /\ calls'[d].pair = sessions'[s].token
                              /\ calls'[d].session = s
                              /\ calls'[d].pc \in {"ok", "failed"}
  <2>1. PICK d \in Calls : Drew(d, sessions[s].token, s) /\ calls[d].pc \in {"ok", "failed"}
    BY <1>1 DEF TokensAreWritten
  <2>2. calls'[d] = calls[d]
    BY <2>1, CallSteps DEF CallStep
  <2> QED
    BY <1>1, <2>1, <2>2 DEF Drew
<1>2. sessions'[s] # Absent
  BY DEF Absent
<1>3. ASSUME NEW c \in Calls, Writer(c), calls[c].session = s,
             \E pc \in {"ok", "failed"} : calls' = [calls EXCEPT ![c].pc = pc],
             calls[c].pc = "create" =>
               sessions'[s] = [token |-> calls[c].pair, expires |-> calls[c].expires, revoked |-> FALSE],
             calls[c].pc = "rotate" => sessions'[s].token = calls[c].pair,
             calls[c].pc = "revoke" => sessions'[s].token = sessions[s].token
      PROVE  \E d \in Calls : /\ calls'[d].pair = sessions'[s].token
                              /\ calls'[d].session = s
                              /\ calls'[d].pc \in {"ok", "failed"}
  <2>1. CASE calls[c].pc = "revoke"
    BY <1>1, <1>3, <2>1
  <2>2. CASE calls[c].pc \in {"create", "rotate"}
    <3>1. sessions'[s].token = calls[c].pair
      BY <1>3, <2>2
    <3>2. calls'[c].pair = calls[c].pair /\ calls'[c].session = s /\ calls'[c].pc \in {"ok", "failed"}
      BY <1>3 DEF TypeOK, Call
    <3> QED
      BY <3>1, <3>2
  <2> QED
    BY <1>3, <2>1, <2>2 DEF Writer
<1> QED
  BY <1>1, <1>2, <1>3, SessionSteps DEF SessionStep

LEMMA LogoutsDrawNothingStep ==
  ASSUME IInv, LogoutsDrawNothing, Next PROVE LogoutsDrawNothing'
<1> USE DEF IInv
<1> SUFFICES ASSUME NEW c \in Calls, calls'[c].op = "logout" PROVE calls'[c].pair = 0
  BY DEF LogoutsDrawNothing
<1>1. CASE calls[c].pc = "idle"
  BY <1>1, Begun, IdleFields DEF LoginStep, BeginStep, ShapeOK, Shape
<1>2. CASE calls[c].pc # "idle"
  <2>1. calls[c].op = "logout" /\ (calls[c].pc # "issue" => calls'[c].pair = calls[c].pair)
    BY <1>2, CallSteps DEF CallStep
  <2>2. calls[c].pc # "issue"
    BY <2>1 DEF ShapeOK, Shape
  <2> QED
    BY <2>1, <2>2 DEF LogoutsDrawNothing
<1> QED
  BY <1>1, <1>2

\* Only an answer that is lost orphans a session: as long as logins and refreshes
\* that wrote a session can answer, some client holds its token, whatever they
\* overlap with (IssueDevLogin, Refresh).
THEOREM OrphansAreLostAnswers == Spec => []OrphansHaveLostAnswers
<1>1. Init => TokensAreWritten /\ LogoutsDrawNothing
  BY DEF Init, TokensAreWritten, LogoutsDrawNothing, Absent, Idle
<1>2. IInv /\ TokensAreWritten /\ LogoutsDrawNothing /\ [Next]_vars
        => (TokensAreWritten /\ LogoutsDrawNothing)'
  <2> SUFFICES ASSUME IInv, TokensAreWritten, LogoutsDrawNothing, [Next]_vars
               PROVE  (TokensAreWritten /\ LogoutsDrawNothing)'
    OBVIOUS
  <2>1. CASE Next
    BY <2>1, TokensAreWrittenStep, LogoutsDrawNothingStep
  <2>2. CASE UNCHANGED vars
    BY <2>2 DEF vars, TokensAreWritten, Drew, LogoutsDrawNothing
  <2> QED
    BY <2>1, <2>2
<1>3. IInv /\ TokensAreWritten /\ LogoutsDrawNothing => OrphansHaveLostAnswers
  <2> SUFFICES ASSUME IInv, TokensAreWritten, LogoutsDrawNothing, NEW s \in SessionIds,
                      sessions[s] # Absent, sessions[s].token \notin HandedOut
               PROVE  \E d \in Calls : /\ calls[d].op # "logout" /\ calls[d].pc = "failed"
                                       /\ calls[d].session = s /\ calls[d].pair = sessions[s].token
    BY DEF OrphansHaveLostAnswers
  <2>1. sessions[s].token # 0
    BY DEF IInv, TypeOK, Row
  <2>2. PICK d \in Calls : Drew(d, sessions[s].token, s) /\ calls[d].pc \in {"ok", "failed"}
    BY <2>1 DEF TokensAreWritten
  <2>3. calls[d].op # "logout"
    BY <2>2 DEF LogoutsDrawNothing, Drew
  <2>4. calls[d].pc # "ok"
    BY <2>2, <2>3 DEF HandedOut, Drew
  <2> QED
    BY <2>2, <2>3, <2>4 DEF Drew
<1> QED
  BY <1>1, <1>2, <1>3, Inductive, PTL DEF Spec
===============================================================================
