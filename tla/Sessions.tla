-------------------------------- MODULE Sessions --------------------------------
(***************************************************************************)
(* The sessions of internal/identity: IssueDevLogin, Refresh and Logout      *)
(* over a Store, one step per read of the clock and call of the store.       *)
(* Nothing is held between a handler's steps.  A refresh token is a number   *)
(* (HashRefreshToken keeps different tokens apart), a session is that of one *)
(* user.                                                                    *)
(***************************************************************************)
EXTENDS Naturals

CONSTANTS
  Calls,       \* handlers, one request each
  SessionIds,  \* uuids of sessions
  None,        \* no session
  RefreshTTL,  \* TokenManagerConfig.RefreshTTL
  MaxTime,     \* bound on the clock
  MaxOutages   \* bound on failing calls of the store and on restarts

RefreshTTLAssumption == RefreshTTL \in Nat \ {0}
NoneAssumption == None \notin SessionIds
BoundsAssumption == MaxTime \in Nat /\ MaxOutages \in Nat
ASSUME RefreshTTLAssumption
ASSUME NoneAssumption
ASSUME BoundsAssumption

VARIABLES
  store,     \* which Store main.go configured: "memory" or "postgres"
  sessions,  \* session id -> its row, or Absent
  issued,    \* the refresh tokens so far are 1 .. issued
  now,       \* time.Now
  outages,   \* failing calls of the store and restarts so far
  calls      \* handler -> its request

vars == <<store, sessions, issued, now, outages, calls>>

Row == [token: Nat \ {0}, expires: Nat, revoked: BOOLEAN]
Absent == [token |-> 0, expires |-> 0, revoked |-> FALSE]

\* "began" is the session whose live token the request carried when it came in,
\* "rivals" the refreshes that were under way when a logout came in, "blind" whether the store
\* failed to look the token up.
Call == [pc: {"idle", "find", "issue", "create", "rotate", "revoke", "ok", "failed"},
         op: {"login", "refresh", "logout"}, token: Nat, now: Nat,
         session: SessionIds \cup {None}, pair: Nat, expires: Nat,
         began: SessionIds \cup {None}, rivals: SUBSET Calls, blind: BOOLEAN]

Idle == [pc |-> "idle", op |-> "login", token |-> 0, now |-> 0, session |-> None,
         pair |-> 0, expires |-> 0, began |-> None, rivals |-> {}, blind |-> FALSE]

TypeOK ==
  /\ store \in {"memory", "postgres"}
  /\ sessions \in [SessionIds -> Row \cup {Absent}]
  /\ issued \in Nat /\ now \in 0 .. MaxTime /\ outages \in 0 .. MaxOutages
  /\ calls \in [Calls -> Call]
  /\ \A s \in SessionIds : sessions[s].token <= issued
  /\ \A c \in Calls : calls[c].pc \in {"issue", "create", "rotate", "revoke"} => calls[c].session # None

Init ==
  /\ store \in {"memory", "postgres"}
  /\ sessions = [s \in SessionIds |-> Absent]
  /\ issued = 0 /\ now = 0 /\ outages = 0
  /\ calls = [c \in Calls |-> Idle]

-----------------------------------------------------------------------------
\* The store.

\* Broken variant: expiry and revocation are not looked at.
ActiveByHash(token, at) == {s \in SessionIds : sessions[s].token = token}

\* FindActiveSessionByRefreshHash: the sessions an active one of which it returns.
Active(token, at) ==
  {s \in SessionIds : sessions[s].token = token /\ ~sessions[s].revoked /\ sessions[s].expires > at}

\* UPDATE ... WHERE revoked_at IS NULL; the memory store only asks whether the
\* session exists.
Updatable(s) == sessions[s] # Absent /\ (store = "postgres" => ~sessions[s].revoked)

\* Broken variant: the session is replaced as a whole, revocation included.
Replaced(s, token, expires) == [token |-> token, expires |-> expires, revoked |-> FALSE]

\* RotateSession keeps a revocation.
Rotated(s, token, expires) == [sessions[s] EXCEPT !.token = token, !.expires = expires]

\* Broken variant: the row is changed and not put back.
RevokedCopy(s) == sessions[s]

Revoked(s) == [sessions[s] EXCEPT !.revoked = TRUE]

Moves(c, pc) == calls' = [calls EXCEPT ![c].pc = pc]

\* A write that succeeds, finds no row, or fails with or without its effect.
Writes(c, s, row, possible) ==
  \/ /\ possible
     /\ sessions' = [sessions EXCEPT ![s] = row]
     /\ Moves(c, "ok") /\ UNCHANGED outages
  \/ ~possible /\ Moves(c, "failed") /\ UNCHANGED <<sessions, outages>>
  \/ /\ store = "postgres" /\ outages < MaxOutages /\ outages' = outages + 1
     /\ Moves(c, "failed")
     /\ \/ possible /\ sessions' = [sessions EXCEPT ![s] = row]
        \/ UNCHANGED sessions

-----------------------------------------------------------------------------
\* The service.

\* The tokens clients hold: those of the answers that were sent.
HandedOut == {calls[c].pair : c \in {d \in Calls : calls[d].op # "logout" /\ calls[d].pc = "ok"}}

\* IssueDevLogin: the user is upserted and a fresh session id drawn.
BeginLogin(c, s) ==
  /\ calls[c].pc = "idle"
  /\ sessions[s] = Absent /\ \A d \in Calls : calls[d].session # s
  /\ calls' = [calls EXCEPT ![c].pc = "issue", ![c].session = s]
  /\ UNCHANGED <<store, sessions, issued, now, outages>>

\* The sessions a token is good for.
Live(token) ==
  {s \in SessionIds : sessions[s].token = token /\ ~sessions[s].revoked /\ now < sessions[s].expires}

UnderWay(c) == calls[c].pc \notin {"idle", "ok", "failed"}

\* Refresh and Logout up to the store: the clock is read.
Begin(c, op, token) ==
  /\ calls[c].pc = "idle"
  /\ \E s \in (IF Live(token) = {} THEN {None} ELSE Live(token)) :
       calls' = [calls EXCEPT ![c] =
         [Idle EXCEPT !.pc = "find", !.op = op, !.token = token, !.now = now, !.began = s,
                      !.rivals = {d \in Calls : op = "logout" /\ calls[d].op = "refresh" /\ UnderWay(d)}]]
  /\ UNCHANGED <<store, sessions, issued, now, outages>>

\* Broken variant: the error is dropped and the empty session used.
FindUnchecked(c) ==
  LET call == calls[c]
      found == Active(call.token, call.now)
      next == IF call.op = "refresh" THEN "issue" ELSE "revoke"
  IN /\ call.pc = "find"
     /\ \/ \E s \in found : calls' = [calls EXCEPT ![c].pc = next, ![c].session = s]
        \/ found = {} /\ Moves(c, next)
     /\ UNCHANGED <<store, sessions, issued, now, outages>>

\* The session is found, or it is not; a logout then answers that all is well.
Find(c) ==
  LET call == calls[c]
      found == Active(call.token, call.now)
      next == IF call.op = "refresh" THEN "issue" ELSE "revoke"
      giveUp == IF call.op = "refresh" THEN "failed" ELSE "ok"
  IN /\ call.pc = "find"
     /\ \/ \E s \in found : calls' = [calls EXCEPT ![c].pc = next, ![c].session = s]
        \/ found = {} /\ Moves(c, giveUp)
     /\ UNCHANGED <<store, sessions, issued, now, outages>>

\* An error of the store is taken for an unknown token.
FindFails(c) ==
  /\ calls[c].pc = "find" /\ store = "postgres"
  /\ outages < MaxOutages /\ outages' = outages + 1
  /\ calls' = [calls EXCEPT ![c].pc = IF calls[c].op = "refresh" THEN "failed" ELSE "ok",
                            ![c].blind = TRUE]
  /\ UNCHANGED <<store, sessions, issued, now>>

\* IssuePair draws a token and dates it by its own reading of the clock.
IssuePair(c) ==
  /\ calls[c].pc = "issue"
  /\ issued' = issued + 1
  /\ calls' = [calls EXCEPT ![c].pc = IF calls[c].op = "login" THEN "create" ELSE "rotate",
                            ![c].pair = issued + 1, ![c].expires = now + RefreshTTL]
  /\ UNCHANGED <<store, sessions, now, outages>>

CreateSession(c) ==
  LET row == [token |-> calls[c].pair, expires |-> calls[c].expires, revoked |-> FALSE]
  IN /\ calls[c].pc = "create" /\ Writes(c, calls[c].session, row, TRUE)
     /\ UNCHANGED <<store, issued, now>>

RotateSession(c) ==
  LET s == calls[c].session
  IN /\ calls[c].pc = "rotate"
     /\ Writes(c, s, Rotated(s, calls[c].pair, calls[c].expires), Updatable(s))
     /\ UNCHANGED <<store, issued, now>>

RevokeSession(c) ==
  LET s == calls[c].session
  IN /\ calls[c].pc = "revoke" /\ Writes(c, s, Revoked(s), Updatable(s))
     /\ UNCHANGED <<store, issued, now>>

\* The process dies: requests are lost, and so is a memory store.
Restart ==
  /\ outages < MaxOutages /\ outages' = outages + 1
  /\ sessions' = IF store = "memory" THEN [s \in SessionIds |-> Absent] ELSE sessions
  /\ calls' = [c \in Calls |-> IF calls[c].pc \in {"idle", "ok"} THEN calls[c]
                               ELSE [calls[c] EXCEPT !.pc = "failed"]]
  /\ UNCHANGED <<store, issued, now>>

Tick == now < MaxTime /\ now' = now + 1 /\ UNCHANGED <<store, sessions, issued, outages, calls>>

Next ==
  \/ \E c \in Calls, s \in SessionIds : BeginLogin(c, s)
  \/ \E c \in Calls, op \in {"refresh", "logout"}, token \in HandedOut : Begin(c, op, token)
  \/ \E c \in Calls : \/ Find(c)          \/ FindFails(c)     \/ IssuePair(c)
                      \/ CreateSession(c) \/ RotateSession(c) \/ RevokeSession(c)
  \/ Restart \/ Tick

Spec == Init /\ [][Next]_vars

-----------------------------------------------------------------------------
\* A refresh that is answered with a pair carried, when it came in, the current
\* token of a session that was neither expired nor logged out: a token that was
\* exchanged, revoked or has expired before gets nothing, whatever is in flight
\* (Refresh, FindActiveSessionByRefreshHash).
OnlyLiveTokensRefresh ==
  \A c \in Calls : calls[c].op = "refresh" /\ calls[c].pc = "ok" => calls[c].began # None

\* No refresh that races a logout brings the session back (RotateSession).
LoggedOutForGood ==
  [][\A s \in SessionIds : sessions[s].revoked => sessions'[s].revoked \/ sessions'[s] = Absent]_vars

\* A logout that is answered "ok" has ended the session whose token it carried,
\* unless the store could not be asked, or a refresh of the session ran at the
\* same time: in these two cases Logout answers "ok" and the session may live.
LogoutEnds ==
  \A c \in Calls :
    calls[c].op = "logout" /\ calls[c].pc = "ok" /\ calls[c].began # None =>
      \/ sessions[calls[c].began] = Absent \/ sessions[calls[c].began].revoked
      \/ calls[c].blind
      \/ \E d \in Calls : /\ calls[d].op = "refresh" /\ calls[d].session = calls[c].began
                        /\ (d \in calls[c].rivals \/ calls[d].token = calls[c].token)

\* "old refresh token should not be reusable": a token is exchanged once.
ExchangedOnce ==
  \A c, d \in Calls :
    /\ calls[c].op = "refresh" /\ calls[c].pc = "ok"
    /\ calls[d].op = "refresh" /\ calls[d].pc = "ok"
    /\ calls[c].token = calls[d].token
    => c = d
===============================================================================
