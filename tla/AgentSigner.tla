------------------------------ MODULE AgentSigner ------------------------------
(***************************************************************************)
(* The managed agent wallets of internal/hypertrader: a user registers an   *)
(* agent, activates or disables it, and any number of handlers (the signing *)
(* endpoints, and CreateOrder, CancelOrder and UpdateLeverage on their way  *)
(* to the exchange) sign with the user's latest active agent.  Sign reads   *)
(* the wallet and then takes a nonce: two store calls with nothing held     *)
(* between them, on a wall clock that may be set back.                      *)
(***************************************************************************)
EXTENDS Naturals, Sequences

CONSTANTS
  Calls,          \* handler goroutines
  Users,          \* user addresses
  Agents,         \* agent addresses randomHex can lead to
  Policies,       \* the policies users ask for
  Requests,       \* what callers want signed: [action, symbol, leverage]
  DefaultPolicy,  \* AgentSignerConfig.DefaultPolicy
  Times,          \* what the wall clock can read, in milliseconds
  MaxSignatures,  \* bound on the signatures of a behaviour
  None            \* no wallet

TimesAssumption == Times \subseteq Nat \ {0}
ASSUME TimesAssumption

VARIABLES
  wallets,     \* agent -> its row of hyper_agent_wallets, or None
  nonces,      \* agent -> last_nonce of its row of hyper_agent_nonces, 0 without one
  calls,       \* goroutine -> the signature it is making
  signatures   \* every signature made, in the order their nonces were taken

vars == <<wallets, nonces, calls, signatures>>

\* Policies.

normalizeAgentAction(action) ==
  CASE action \in {"submitOrder", "createHyperliquidOrder"}         -> "order"
    [] action \in {"cancelOrder", "cancelHyperliquidOrder"}         -> "cancel"
    [] action \in {"updateHyperliquidLeverage"}                     -> "updateLeverage"
    [] OTHER                                                        -> action

stringAllowed(values, target) ==
  \E value \in values : normalizeAgentAction(value) = normalizeAgentAction(target)

\* An empty list of actions or symbols, or leverage 0, is "not given".
mergeAgentPolicy(base, override) ==
  [actions     |-> IF override.actions # {} THEN override.actions ELSE base.actions,
   symbols     |-> IF override.symbols # {} THEN override.symbols ELSE base.symbols,
   maxLeverage |-> IF override.maxLeverage > 0 THEN override.maxLeverage
                                               ELSE base.maxLeverage]

validateAgentPolicy(policy, req) ==
  /\ req.action # ""
  /\ stringAllowed(policy.actions, req.action)
  /\ req.symbol # "" /\ policy.symbols # {} => stringAllowed(policy.symbols, req.symbol)
  /\ req.leverage > 0 /\ policy.maxLeverage > 0 => req.leverage <= policy.maxLeverage

-----------------------------------------------------------------------------
Statuses == {"pending_approval", "active", "disabled"}

\* What callers of ActivateWallet ask for.
AskedStatuses == Statuses \cup {"", "revoked"}

Idle == [pc |-> "idle"]

WalletPolicies == {mergeAgentPolicy(DefaultPolicy, p) : p \in Policies}

Wallet == [user: Users, status: Statuses, approved: Times \cup {0}, updated: Times,
           policy: WalletPolicies]

NoneAssumption == None \notin Wallet
ASSUME NoneAssumption

Signing == [pc: {"nonce"}, user: Users, agent: Agents, req: Requests]

Signature == [user: Users, agent: Agents, req: Requests, nonce: Nat]

TypeOK ==
  /\ wallets \in [Agents -> Wallet \cup {None}]
  /\ nonces \in [Agents -> Nat]
  /\ calls \in [Calls -> Signing \cup {Idle}]
  /\ signatures \in Seq(Signature)

Init ==
  /\ wallets = [a \in Agents |-> None]
  /\ nonces = [a \in Agents |-> 0]
  /\ calls = [c \in Calls |-> Idle]
  /\ signatures = <<>>

-----------------------------------------------------------------------------
\* CreateWallet: the key is random, so is the agent's address.  The approval's
\* own nonce is for the user's signature and is no agent's.
CreateWallet(u, policy, now) ==
  /\ \E a \in Agents :
       /\ wallets[a] = None
       /\ wallets' = [wallets EXCEPT ![a] =
                        [user |-> u, status |-> "pending_approval", policy |-> policy,
                         approved |-> 0, updated |-> now]]
  /\ UNCHANGED <<nonces, calls, signatures>>

\* What UpdateAgentWalletStatus makes of a row.
SetStatus(wallet, status, now) ==
  [wallet EXCEPT !.status = status, !.updated = now,
                 !.approved = IF status = "active" /\ @ = 0 THEN now ELSE @]

\* Broken variant: any status is stored.
AnyStatus(status) == TRUE

Supported(status) == status \in Statuses \cup {""}

\* No status given means active.
ActivateWallet(a, status, now) ==
  /\ wallets[a] # None /\ Supported(status)
  /\ wallets' = [wallets EXCEPT ![a] =
                   SetStatus(@, IF status = "" THEN "active" ELSE status, now)]
  /\ UNCHANGED <<nonces, calls, signatures>>

\* Broken variant: the status of the wallets is not looked at.
WalletsOf(u) == {a \in Agents : wallets[a] # None /\ wallets[a].user = u}

\* Broken variant: a wallet that was approved once signs whatever its status.
EverApproved(u) == {a \in WalletsOf(u) : wallets[a].approved # 0}

Active(u) == {a \in Agents : /\ wallets[a] # None /\ wallets[a].user = u
                             /\ wallets[a].status = "active"}

\* Sign up to its nonce: GetActiveAgentWallet, the latest active one, and the
\* policy it was read with.  A refusal changes nothing.
BeginSign(c, u, req) ==
  /\ calls[c].pc = "idle"
  /\ \E a \in Active(u) :
       /\ \A b \in Active(u) : wallets[b].updated <= wallets[a].updated
       /\ validateAgentPolicy(wallets[a].policy, req)
       /\ calls' = [calls EXCEPT ![c] = [pc |-> "nonce", user |-> u, agent |-> a, req |-> req]]
  /\ UNCHANGED <<wallets, nonces, signatures>>

\* Broken variant: the clock alone makes the nonce.
ClockNonce(last, now) == now

\* Store.NextAgentNonce, one statement or one lock.
NextNonce(last, now) == IF now <= last THEN last + 1 ELSE now

\* The rest of Sign.  The clock was read some time before the nonce is taken.
FinishSign(c, now) ==
  LET call  == calls[c]
      nonce == NextNonce(nonces[call.agent], now)
  IN /\ call.pc = "nonce" /\ Len(signatures) < MaxSignatures
     /\ nonces' = [nonces EXCEPT ![call.agent] = nonce]
     /\ signatures' = Append(signatures, [user |-> call.user, agent |-> call.agent,
                                          req |-> call.req, nonce |-> nonce])
     /\ calls' = [calls EXCEPT ![c] = Idle]
     /\ UNCHANGED wallets

\* NextAgentNonce fails.
SignFails(c) ==
  /\ calls[c].pc = "nonce"
  /\ calls' = [calls EXCEPT ![c] = Idle]
  /\ UNCHANGED <<wallets, nonces, signatures>>

\* The process dies and restarts on the same database.
Crash ==
  /\ calls' = [c \in Calls |-> Idle]
  /\ UNCHANGED <<wallets, nonces, signatures>>

Next ==
  \/ \E u \in Users, p \in Policies, now \in Times :
       CreateWallet(u, mergeAgentPolicy(DefaultPolicy, p), now)
  \/ \E a \in Agents, status \in AskedStatuses, now \in Times : ActivateWallet(a, status, now)
  \/ \E c \in Calls, u \in Users, req \in Requests : BeginSign(c, u, req)
  \/ \E c \in Calls, now \in Times : FinishSign(c, now)
  \/ \E c \in Calls : SignFails(c)
  \/ Crash

Spec == Init /\ [][Next]_vars

-----------------------------------------------------------------------------
\* Every signature was made with an agent of the user who asked, that this user
\* had approved, for a request its policy allows, although the wallet may have
\* changed between the two steps of Sign.
SignedWithApproval ==
  \A i \in 1 .. Len(signatures) :
    LET s == signatures[i]
        w == wallets[s.agent]
    IN /\ w # None /\ w.user = s.user /\ w.approved # 0
       /\ validateAgentPolicy(w.policy, s.req)

\* The nonces of an agent's signatures.
NoncesOf(a) == {signatures[i].nonce : i \in {k \in 1 .. Len(signatures) : signatures[k].agent = a}}

\* The handlers that read agent a's wallet and have not taken their nonce.
InFlight(a) == {c \in Calls : calls[c].pc = "nonce" /\ calls[c].agent = a}

\* A wallet that is disabled, or not approved yet, still signs for the handlers
\* that read it while it was active, and for no other: none joins them, and each
\* signature uses one of them up, so that it signs no more than once for each.
DisabledAgentDrains ==
  [][\A a \in Agents : wallets[a] # None /\ wallets[a].status # "active" =>
       /\ InFlight(a)' \subseteq InFlight(a)
       /\ NoncesOf(a)' # NoncesOf(a) => InFlight(a)' # InFlight(a)]_vars

Given == [a \in Agents |-> NoncesOf(a)]

Source == INSTANCE NonceSource WITH given <- Given

\* The signer implements NonceSource: the signatures of an agent carry ever
\* larger nonces, however many handlers sign at once, however the clock jumps
\* and whatever is lost in a crash (NextAgentNonce).
NoncesAreMonotonic == Source!Spec
===============================================================================
