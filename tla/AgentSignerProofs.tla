--------------------------- MODULE AgentSignerProofs ---------------------------
(***************************************************************************)
(* What the agent signer promises, for any number of handlers, users and    *)
(* agents and for every behaviour of the clock.                             *)
(***************************************************************************)
EXTENDS AgentSigner, SequenceTheorems, TLAPS

LEMMA AppendedSignature ==
  ASSUME NEW s \in Seq(Signature), NEW e \in Signature
  PROVE  /\ Append(s, e) \in Seq(Signature)
         /\ Len(Append(s, e)) = Len(s) + 1
         /\ Len(s) \in Nat
         /\ Append(s, e)[Len(s) + 1] = e
         /\ \A i \in 1 .. Len(s) : Append(s, e)[i] = s[i]
  BY AppendProperties, LenProperties

LEMMA SignatureAt ==
  ASSUME TypeOK, NEW i \in 1 .. Len(signatures)
  PROVE  /\ signatures[i].agent \in Agents /\ signatures[i].nonce \in Nat
         /\ nonces[signatures[i].agent] \in Nat
<1>1. signatures[i] \in Signature
  BY ElementOfSeq DEF TypeOK
<1> QED
  BY <1>1 DEF TypeOK, Signature

LEMMA NonceGrows ==
  ASSUME NEW last \in Nat, NEW now \in Times
  PROVE  NextNonce(last, now) \in Nat /\ last < NextNonce(last, now)
  <1>1. now \in Nat
    BY TimesAssumption DEF TimesAssumption
  <1> QED
    BY <1>1 DEF NextNonce

LEMMA SetStatusType ==
  ASSUME NEW w \in Wallet, NEW status \in Statuses, NEW now \in Times
  PROVE  /\ SetStatus(w, status, now) \in Wallet
         /\ SetStatus(w, status, now).user = w.user
         /\ SetStatus(w, status, now).policy = w.policy
         /\ w.approved # 0 => SetStatus(w, status, now).approved = w.approved
  BY DEF SetStatus, Wallet

-----------------------------------------------------------------------------
\* The nonce of an agent's row is at least that of each of its signatures.
NoncesBounded ==
  \A i \in 1 .. Len(signatures) : signatures[i].nonce <= nonces[signatures[i].agent]

\* An approval is kept, so a handler that read an active wallet still has an
\* approved one under it.
Approved(u, a, req) ==
  /\ wallets[a] # None /\ wallets[a].user = u /\ wallets[a].approved # 0
  /\ validateAgentPolicy(wallets[a].policy, req)

CallsAreApproved ==
  \A c \in Calls : calls[c].pc = "nonce" => Approved(calls[c].user, calls[c].agent, calls[c].req)

ActiveIsApproved ==
  \A a \in Agents : wallets[a] # None /\ wallets[a].status = "active" => wallets[a].approved # 0

IInv == /\ TypeOK /\ NoncesBounded
        /\ ActiveIsApproved /\ CallsAreApproved /\ SignedWithApproval

LEMMA InitIInv == Init => IInv
<1> SUFFICES ASSUME Init PROVE IInv
  OBVIOUS
<1>1. TypeOK
  BY EmptySeq DEF Init, TypeOK
<1>2. Len(signatures) = 0
  BY EmptySeq DEF Init
<1>3. NoncesBounded /\ SignedWithApproval
  BY <1>2 DEF NoncesBounded, SignedWithApproval
<1>4. ActiveIsApproved /\ CallsAreApproved
  BY DEF Init, Idle, ActiveIsApproved, CallsAreApproved
<1> QED
  BY <1>1, <1>3, <1>4 DEF IInv

\* The steps that change wallets change no approval that was given.
LEMMA WalletsKept ==
  ASSUME IInv, UNCHANGED <<nonces, calls, signatures>>,
         wallets' \in [Agents -> Wallet \cup {None}], ActiveIsApproved',
         \A a \in Agents : wallets[a] # None /\ wallets[a].approved # 0
           => /\ wallets'[a] # None /\ wallets'[a].user = wallets[a].user
              /\ wallets'[a].policy = wallets[a].policy /\ wallets'[a].approved # 0
  PROVE  IInv'
<1>1. TypeOK' /\ NoncesBounded'
  BY DEF IInv, TypeOK, NoncesBounded
<1>2. \A u, req : \A a \in Agents : Approved(u, a, req) => Approved(u, a, req)'
  BY DEF Approved
<1>3. CallsAreApproved'
  <2> SUFFICES ASSUME NEW c \in Calls, calls[c].pc = "nonce"
               PROVE  Approved(calls[c].user, calls[c].agent, calls[c].req)'
    BY DEF CallsAreApproved
  <2>1. calls[c].agent \in Agents
    BY DEF IInv, TypeOK, Signing, Idle
  <2> QED
    BY <1>2, <2>1 DEF IInv, CallsAreApproved, Approved
<1>4. SignedWithApproval'
  <2> SUFFICES ASSUME NEW i \in 1 .. Len(signatures)
               PROVE  Approved(signatures[i].user, signatures[i].agent, signatures[i].req)'
    BY DEF SignedWithApproval, Approved
  <2>1. signatures[i].agent \in Agents
    BY SignatureAt DEF IInv
  <2>2. Approved(signatures[i].user, signatures[i].agent, signatures[i].req)
    BY DEF IInv, SignedWithApproval, Approved
  <2> QED
    BY <1>2, <2>1, <2>2 DEF Approved
<1> QED
  BY <1>1, <1>3, <1>4 DEF IInv

LEMMA CreateWalletStep ==
  ASSUME IInv, NEW u \in Users, NEW policy \in WalletPolicies, NEW now \in Times,
         CreateWallet(u, policy, now)
  PROVE  IInv'
<1> DEFINE w == [user |-> u, status |-> "pending_approval", policy |-> policy,
                 approved |-> 0, updated |-> now]
<1>1. w \in Wallet
  BY DEF Wallet, Statuses
<1>2. PICK a \in Agents : wallets[a] = None /\ wallets' = [wallets EXCEPT ![a] = w]
  BY DEF CreateWallet
<1>3. w.status # "active"
  OBVIOUS
<1> HIDE DEF w
<1>4. wallets' \in [Agents -> Wallet \cup {None}]
  BY <1>1, <1>2 DEF IInv, TypeOK
<1>5. ActiveIsApproved'
  BY <1>2, <1>3 DEF IInv, TypeOK, ActiveIsApproved
<1>6. \A b \in Agents : wallets[b] # None => wallets'[b] = wallets[b]
  BY <1>2 DEF IInv, TypeOK
<1> QED
  BY <1>4, <1>5, <1>6, WalletsKept DEF CreateWallet

LEMMA ActivateWalletStep ==
  ASSUME IInv, NEW a \in Agents, NEW asked \in AskedStatuses, NEW now \in Times,
         ActivateWallet(a, asked, now)
  PROVE  IInv'
<1> DEFINE status == IF asked = "" THEN "active" ELSE asked
           w == SetStatus(wallets[a], status, now)
<1>1. status \in Statuses /\ wallets[a] \in Wallet
  BY DEF ActivateWallet, Supported, Statuses, IInv, TypeOK
<1>2. wallets' = [wallets EXCEPT ![a] = w]
  BY DEF ActivateWallet
<1>3. /\ w \in Wallet /\ w.user = wallets[a].user /\ w.policy = wallets[a].policy
      /\ wallets[a].approved # 0 => w.approved = wallets[a].approved
  BY <1>1, SetStatusType
<1>4. w # None
  BY <1>3, NoneAssumption DEF NoneAssumption
<1>5. w.status = "active" => w.approved # 0
  <2>1. now # 0
    BY TimesAssumption DEF TimesAssumption
  <2> QED
    BY <1>1, <2>1 DEF SetStatus, Wallet
<1> HIDE DEF w, status
<1>6. wallets' \in [Agents -> Wallet \cup {None}]
  BY <1>2, <1>3 DEF IInv, TypeOK
<1>7. ActiveIsApproved'
  BY <1>2, <1>5 DEF IInv, TypeOK, ActiveIsApproved
<1>8. \A b \in Agents : wallets[b] # None /\ wallets[b].approved # 0
        => /\ wallets'[b] # None /\ wallets'[b].user = wallets[b].user
           /\ wallets'[b].policy = wallets[b].policy /\ wallets'[b].approved # 0
  BY <1>2, <1>3, <1>4 DEF IInv, TypeOK
<1> QED
  BY <1>6, <1>7, <1>8, WalletsKept DEF ActivateWallet

\* Steps that change nothing but the calls.
LEMMA CallsOnly ==
  ASSUME IInv, UNCHANGED <<wallets, nonces, signatures>>,
         calls' \in [Calls -> Signing \cup {Idle}], CallsAreApproved'
  PROVE  IInv'
  BY DEF IInv, TypeOK, NoncesBounded, ActiveIsApproved, SignedWithApproval

LEMMA BeginSignStep ==
  ASSUME IInv, NEW c \in Calls, NEW u \in Users, NEW req \in Requests, BeginSign(c, u, req)
  PROVE  IInv'
<1>1. PICK a \in Active(u) :
        /\ validateAgentPolicy(wallets[a].policy, req)
        /\ calls' = [calls EXCEPT ![c] = [pc |-> "nonce", user |-> u, agent |-> a, req |-> req]]
  BY DEF BeginSign
<1>2. a \in Agents /\ Approved(u, a, req)
  BY <1>1 DEF Active, Approved, IInv, ActiveIsApproved
<1> DEFINE call == [pc |-> "nonce", user |-> u, agent |-> a, req |-> req]
<1>3. call \in Signing /\ call.user = u /\ call.agent = a /\ call.req = req
  BY <1>2 DEF Signing
<1> HIDE DEF call
<1>4. calls' = [calls EXCEPT ![c] = call]
  BY <1>1 DEF call
<1>5. calls' \in [Calls -> Signing \cup {Idle}]
  BY <1>3, <1>4 DEF IInv, TypeOK
<1>6. CallsAreApproved'
  BY <1>2, <1>3, <1>4 DEF IInv, TypeOK, CallsAreApproved, Approved, BeginSign
<1> QED
  BY <1>5, <1>6, CallsOnly DEF BeginSign

LEMMA SignFailsStep ==
  ASSUME IInv, NEW c \in Calls, SignFails(c)
  PROVE  IInv'
<1>1. calls' \in [Calls -> Signing \cup {Idle}]
  BY DEF SignFails, IInv, TypeOK
<1>2. Idle.pc # "nonce"
  BY DEF Idle
<1>3. CallsAreApproved'
  BY <1>2 DEF SignFails, IInv, TypeOK, CallsAreApproved, Approved
<1> QED
  BY <1>1, <1>3, CallsOnly DEF SignFails

LEMMA CrashStep ==
  ASSUME IInv, Crash
  PROVE  IInv'
<1>1. calls' \in [Calls -> Signing \cup {Idle}]
  BY DEF Crash
<1>2. Idle.pc # "nonce"
  BY DEF Idle
<1>3. CallsAreApproved'
  BY <1>2 DEF Crash, CallsAreApproved
<1> QED
  BY <1>1, <1>3, CallsOnly DEF Crash

-----------------------------------------------------------------------------
\* What FinishSign appends.
MadeBy(c, now) ==
  [user |-> calls[c].user, agent |-> calls[c].agent, req |-> calls[c].req,
   nonce |-> NextNonce(nonces[calls[c].agent], now)]

LEMMA FinishSignFacts ==
  ASSUME IInv, NEW c \in Calls, NEW now \in Times, FinishSign(c, now)
  PROVE  LET a == calls[c].agent
             s == MadeBy(c, now)
         IN /\ a \in Agents /\ s \in Signature
            /\ s.user = calls[c].user /\ s.agent = a /\ s.req = calls[c].req
            /\ s.nonce \in Nat /\ nonces[a] \in Nat /\ nonces[a] < s.nonce
            /\ nonces' = [nonces EXCEPT ![a] = s.nonce]
            /\ signatures' = Append(signatures, s)
            /\ calls' = [calls EXCEPT ![c] = Idle]
            /\ wallets' = wallets
<1> DEFINE a == calls[c].agent
           nonce == NextNonce(nonces[a], now)
           s == MadeBy(c, now)
<1>1. calls[c] \in Signing
  BY DEF FinishSign, IInv, TypeOK, Idle
<1>2. a \in Agents /\ nonces[a] \in Nat
  BY <1>1 DEF Signing, IInv, TypeOK
<1>3. nonce \in Nat /\ nonces[a] < nonce
  BY <1>2, NonceGrows
<1> HIDE DEF nonce
<1>4. s = [user |-> calls[c].user, agent |-> a, req |-> calls[c].req, nonce |-> nonce]
  BY DEF MadeBy, nonce
<1>5. s \in Signature
  BY <1>1, <1>3, <1>4 DEF Signature, Signing
<1>6. s.user = calls[c].user /\ s.agent = a /\ s.req = calls[c].req /\ s.nonce = nonce
  BY <1>4
<1>7. /\ nonces' = [nonces EXCEPT ![a] = nonce] /\ signatures' = Append(signatures, s)
      /\ calls' = [calls EXCEPT ![c] = Idle] /\ wallets' = wallets
  BY <1>4 DEF FinishSign, nonce
<1> QED
  BY <1>2, <1>3, <1>5, <1>6, <1>7

LEMMA FinishSignStep ==
  ASSUME IInv, NEW c \in Calls, NEW now \in Times, FinishSign(c, now)
  PROVE  IInv'
<1> DEFINE a == calls[c].agent
           s == MadeBy(c, now)
           n == Len(signatures)
<1>1. /\ a \in Agents /\ s \in Signature
      /\ s.user = calls[c].user /\ s.agent = a /\ s.req = calls[c].req
      /\ s.nonce \in Nat /\ nonces[a] \in Nat /\ nonces[a] < s.nonce
      /\ nonces' = [nonces EXCEPT ![a] = s.nonce]
      /\ signatures' = Append(signatures, s)
      /\ calls' = [calls EXCEPT ![c] = Idle]
      /\ wallets' = wallets
  BY FinishSignFacts
<1>2. calls[c].pc = "nonce"
  BY DEF FinishSign
<1>3. signatures \in Seq(Signature)
  BY DEF IInv, TypeOK
<1>4. Approved(calls[c].user, a, calls[c].req)
  BY <1>2 DEF IInv, CallsAreApproved
<1> HIDE DEF s, a
<1>5. /\ signatures' \in Seq(Signature) /\ Len(signatures') = n + 1 /\ n \in Nat
      /\ signatures'[n + 1] = s
      /\ \A i \in 1 .. n : signatures'[i] = signatures[i]
  BY <1>1, <1>3, AppendedSignature
<1>6. TypeOK'
  BY <1>1, <1>5 DEF IInv, TypeOK
<1>7. NoncesBounded'
  <2> SUFFICES ASSUME NEW i \in 1 .. Len(signatures')
               PROVE  signatures'[i].nonce <= nonces'[signatures'[i].agent]
    BY DEF NoncesBounded
  <2>1. CASE i = n + 1
    BY <2>1, <1>1, <1>5 DEF IInv, TypeOK
  <2>2. CASE i \in 1 .. n
    <3>1. /\ signatures[i].agent \in Agents /\ signatures[i].nonce \in Nat
          /\ nonces[signatures[i].agent] \in Nat
      BY <2>2, SignatureAt DEF IInv
    <3>2. signatures[i].nonce <= nonces[signatures[i].agent]
      BY <2>2 DEF IInv, NoncesBounded
    <3>3. nonces'[signatures[i].agent] \in Nat
          /\ nonces[signatures[i].agent] <= nonces'[signatures[i].agent]
      BY <3>1, <1>1 DEF IInv, TypeOK
    <3> QED
      BY <2>2, <3>1, <3>2, <3>3, <1>5
  <2> QED
    BY <2>1, <2>2, <1>5
<1>8. ActiveIsApproved'
  BY <1>1 DEF IInv, ActiveIsApproved
<1>9. CallsAreApproved'
  <2>1. Idle.pc # "nonce"
    BY DEF Idle
  <2> QED
    BY <1>1, <2>1 DEF IInv, TypeOK, CallsAreApproved, Approved
<1>10. SignedWithApproval'
  <2> SUFFICES ASSUME NEW i \in 1 .. Len(signatures')
               PROVE  Approved(signatures'[i].user, signatures'[i].agent, signatures'[i].req)
    BY <1>1 DEF SignedWithApproval, Approved
  <2>1. CASE i = n + 1
    BY <2>1, <1>1, <1>4, <1>5
  <2>2. CASE i \in 1 .. n
    BY <2>2, <1>5 DEF IInv, SignedWithApproval, Approved
  <2> QED
    BY <2>1, <2>2, <1>5
<1> QED
  BY <1>6, <1>7, <1>8, <1>9, <1>10 DEF IInv

LEMMA NextIInv == IInv /\ [Next]_vars => IInv'
<1> SUFFICES ASSUME IInv, [Next]_vars PROVE IInv'
  OBVIOUS
<1>1. ASSUME NEW u \in Users, NEW p \in Policies, NEW now \in Times,
             CreateWallet(u, mergeAgentPolicy(DefaultPolicy, p), now)
      PROVE  IInv'
  <2>1. mergeAgentPolicy(DefaultPolicy, p) \in WalletPolicies
    BY DEF WalletPolicies
  <2> QED
    BY <1>1, <2>1, CreateWalletStep
<1>2. ASSUME UNCHANGED vars PROVE IInv'
  BY <1>2 DEF vars, IInv, TypeOK, NoncesBounded, ActiveIsApproved, CallsAreApproved,
              Approved, SignedWithApproval
<1> QED
  BY <1>1, <1>2, ActivateWalletStep, BeginSignStep, FinishSignStep, SignFailsStep, CrashStep
     DEF Next

LEMMA Invariance == Spec => []IInv
  BY InitIInv, NextIInv, PTL DEF Spec

\* Every signature was made with an agent its user had approved, for a request
\* the agent's policy allows (AgentSigner.Sign), whatever happened to the wallet
\* between the two steps of Sign.
THEOREM ApprovedSignatures == Spec => []SignedWithApproval
<1>1. IInv => SignedWithApproval
  BY DEF IInv
<1> QED
  BY Invariance, <1>1, PTL

\* The variables keep their types (TypeOK), whatever is signed, lost or crashes.
THEOREM TypeCorrect == Spec => []TypeOK
<1>1. IInv => TypeOK
  BY DEF IInv
<1> QED
  BY Invariance, <1>1, PTL

-----------------------------------------------------------------------------
\* The nonces of an agent, as the signatures that carry them.
LEMMA NoncesOfElement ==
  ASSUME NEW a, NEW m
  PROVE  m \in NoncesOf(a) <=> \E i \in 1 .. Len(signatures) :
                                 signatures[i].agent = a /\ signatures[i].nonce = m
  BY Zenon DEF NoncesOf

LEMMA NoncesOfStep ==
  ASSUME NEW a, NEW m
  PROVE  (m \in NoncesOf(a))' <=> \E i \in 1 .. Len(signatures') :
                                    signatures'[i].agent = a /\ signatures'[i].nonce = m
  BY Zenon DEF NoncesOf

\* Signing with one agent leaves the nonces of the others.
LEMMA OthersKeepNonces ==
  ASSUME IInv, NEW c \in Calls, NEW now \in Times, FinishSign(c, now),
         NEW a, calls[c].agent # a
  PROVE  NoncesOf(a)' = NoncesOf(a)
<1> DEFINE k == Len(signatures)
<1>1. PICK s \in Signature : s.agent = calls[c].agent /\ signatures' = Append(signatures, s)
  BY FinishSignFacts, Zenon
<1>2. signatures \in Seq(Signature)
  BY DEF IInv, TypeOK
<1>3. /\ Len(signatures') = k + 1 /\ k \in Nat /\ signatures'[k + 1] = s
      /\ \A i \in 1 .. k : signatures'[i] = signatures[i]
  BY <1>1, <1>2, AppendedSignature
<1>4. ASSUME NEW m
      PROVE  (m \in NoncesOf(a))' <=> m \in NoncesOf(a)
  <2>1. ASSUME NEW i \in 1 .. k + 1
        PROVE  i = k + 1 \/ i \in 1 .. k
    BY <1>3
  <2>2. \A i \in 1 .. k : i \in 1 .. k + 1
    BY <1>3
  <2> QED
    BY <1>1, <1>3, <2>1, <2>2, NoncesOfElement, NoncesOfStep
<1> QED
  BY <1>4

\* What a step does to the handlers that are signing and to the signatures.
LEMMA NothingSigned ==
  ASSUME UNCHANGED signatures, NEW a
  PROVE  NoncesOf(a)' = NoncesOf(a)
  BY DEF NoncesOf

LEMMA InFlightAfter ==
  ASSUME TypeOK, NEW c \in Calls, NEW call, calls' = [calls EXCEPT ![c] = call], NEW a
  PROVE  \A d \in Calls : d \in InFlight(a)' <=> IF d = c THEN call.pc = "nonce" /\ call.agent = a
                                                          ELSE d \in InFlight(a)
<1>1. \A d \in Calls : calls'[d] = IF d = c THEN call ELSE calls[d]
  BY DEF TypeOK
<1> QED
  BY <1>1 DEF InFlight

\* A handler that ends leaves the agent it signs with, and no other.
LEMMA EndedCall ==
  ASSUME TypeOK, NEW c \in Calls, calls[c].pc = "nonce", calls' = [calls EXCEPT ![c] = Idle], NEW a
  PROVE  /\ InFlight(a)' \subseteq InFlight(a)
         /\ calls[c].agent = a => InFlight(a)' # InFlight(a)
<1>1. Idle.pc # "nonce"
  BY DEF Idle
<1>2. \A d \in Calls : d \in InFlight(a)' <=> IF d = c THEN Idle.pc = "nonce" /\ Idle.agent = a
                                                      ELSE d \in InFlight(a)
  BY InFlightAfter
<1>3. InFlight(a) \subseteq Calls /\ InFlight(a)' \subseteq Calls
  BY DEF InFlight
<1>4. c \notin InFlight(a)' /\ (calls[c].agent = a => c \in InFlight(a))
  BY <1>1, <1>2 DEF InFlight
<1> QED
  BY <1>1, <1>2, <1>3, <1>4

LEMMA DrainSteps ==
  ASSUME IInv, [Next]_vars, NEW a \in Agents, wallets[a] # None, wallets[a].status # "active"
  PROVE  /\ InFlight(a)' \subseteq InFlight(a)
         /\ NoncesOf(a)' # NoncesOf(a) => InFlight(a)' # InFlight(a)
<1>0. TypeOK
  BY DEF IInv
<1>1. CASE UNCHANGED <<calls, signatures>>
  BY <1>1, NothingSigned DEF InFlight
<1>2. ASSUME NEW c \in Calls, NEW u \in Users, NEW req \in Requests, BeginSign(c, u, req)
      PROVE  InFlight(a)' \subseteq InFlight(a) /\ UNCHANGED signatures
  <2>1. PICK b \in Active(u) :
          calls' = [calls EXCEPT ![c] = [pc |-> "nonce", user |-> u, agent |-> b, req |-> req]]
    BY <1>2 DEF BeginSign
  <2>2. b # a
    BY <2>1 DEF Active
  <2> DEFINE call == [pc |-> "nonce", user |-> u, agent |-> b, req |-> req]
  <2>3. call.agent = b
    OBVIOUS
  <2> HIDE DEF call
  <2>4. calls' = [calls EXCEPT ![c] = call]
    BY <2>1 DEF call
  <2>5. \A d \in Calls : d \in InFlight(a)' <=> IF d = c THEN call.pc = "nonce" /\ call.agent = a
                                                        ELSE d \in InFlight(a)
    BY <1>0, <2>4, InFlightAfter
  <2>6. InFlight(a)' \subseteq Calls
    BY DEF InFlight
  <2> QED
    BY <1>2, <2>2, <2>3, <2>5, <2>6 DEF BeginSign
<1>3. ASSUME NEW c \in Calls, NEW now \in Times, FinishSign(c, now)
      PROVE  /\ InFlight(a)' \subseteq InFlight(a)
             /\ NoncesOf(a)' # NoncesOf(a) => InFlight(a)' # InFlight(a)
  <2>1. calls[c].pc = "nonce" /\ calls' = [calls EXCEPT ![c] = Idle]
    BY <1>3 DEF FinishSign
  <2>2. /\ InFlight(a)' \subseteq InFlight(a)
        /\ calls[c].agent = a => InFlight(a)' # InFlight(a)
    BY <1>0, <2>1, EndedCall
  <2>3. calls[c].agent # a => NoncesOf(a)' = NoncesOf(a)
    BY <1>3, OthersKeepNonces
  <2> QED
    BY <2>2, <2>3
<1>4. ASSUME NEW c \in Calls, SignFails(c)
      PROVE  InFlight(a)' \subseteq InFlight(a) /\ UNCHANGED signatures
  BY <1>0, <1>4, EndedCall DEF SignFails
<1>5. CASE Crash
  <2>1. Idle.pc # "nonce"
    BY DEF Idle
  <2>2. InFlight(a)' = {}
    BY <1>5, <2>1 DEF Crash, InFlight
  <2> QED
    BY <1>5, <2>2, NothingSigned DEF Crash
<1>6. ASSUME NEW c \in Calls,
             (\E u \in Users, req \in Requests : BeginSign(c, u, req)) \/ SignFails(c)
      PROVE  /\ InFlight(a)' \subseteq InFlight(a)
             /\ NoncesOf(a)' # NoncesOf(a) => InFlight(a)' # InFlight(a)
  BY <1>2, <1>4, <1>6, NothingSigned
<1> QED
  BY <1>1, <1>3, <1>5, <1>6 DEF Next, vars, CreateWallet, ActivateWallet

\* A wallet that is disabled, or not approved yet, signs at most once for each
\* handler that read it while it was active, and for no other (the two store calls
\* of AgentSigner.Sign), for any number of agents and handlers.
THEOREM DisabledDrains == Spec => DisabledAgentDrains
<1>1. IInv /\ [Next]_vars =>
        [\A a \in Agents : wallets[a] # None /\ wallets[a].status # "active" =>
           /\ InFlight(a)' \subseteq InFlight(a)
           /\ NoncesOf(a)' # NoncesOf(a) => InFlight(a)' # InFlight(a)]_vars
  BY DrainSteps
<1> QED
  BY Invariance, <1>1, PTL DEF Spec, DisabledAgentDrains

-----------------------------------------------------------------------------
\* FinishSign gives one more nonce, the other steps give none.
LEMMA GivesOneNonce ==
  ASSUME IInv, NEW c \in Calls, NEW now \in Times, FinishSign(c, now)
  PROVE  Source!Next
<1> DEFINE k == Len(signatures)
<1>1. PICK a \in Agents, s \in Signature :
        /\ s.agent = a
        /\ s.nonce \in Nat /\ nonces[a] \in Nat /\ nonces[a] < s.nonce
        /\ signatures' = Append(signatures, s)
  BY FinishSignFacts, Zenon
<1>2. signatures \in Seq(Signature) /\ TypeOK /\ NoncesBounded
  BY DEF IInv, TypeOK
<1>3. /\ Len(signatures') = k + 1 /\ k \in Nat /\ signatures'[k + 1] = s
      /\ \A i \in 1 .. k : signatures'[i] = signatures[i]
  BY <1>1, <1>2, AppendedSignature
<1>4. ASSUME NEW b, NEW m
      PROVE  (m \in NoncesOf(b))' <=> m \in NoncesOf(b) \/ (b = a /\ m = s.nonce)
  <2>1. ASSUME NEW i \in 1 .. k + 1
        PROVE  i = k + 1 \/ i \in 1 .. k
    BY <1>3
  <2>2. k + 1 \in 1 .. k + 1 /\ \A i \in 1 .. k : i \in 1 .. k + 1
    BY <1>3
  <2> QED
    BY <1>1, <1>3, <2>1, <2>2, NoncesOfElement, NoncesOfStep
<1>5. \A b \in Agents : b # a => NoncesOf(b)' = NoncesOf(b)
  <2> SUFFICES ASSUME NEW b \in Agents, b # a
               PROVE  NoncesOf(b)' = NoncesOf(b)
    OBVIOUS
  <2>1. \A m : m \in NoncesOf(b)' <=> m \in NoncesOf(b)
    BY <1>4
  <2> QED
    BY <2>1
<1>6. NoncesOf(a)' = NoncesOf(a) \cup {s.nonce}
  BY <1>4
<1>7. \A m \in NoncesOf(a) : m < s.nonce
  <2> SUFFICES ASSUME NEW m \in NoncesOf(a)
               PROVE  m < s.nonce
    OBVIOUS
  <2>1. PICK i \in 1 .. k : signatures[i].agent = a /\ signatures[i].nonce = m
    BY NoncesOfElement
  <2>2. m \in Nat /\ m <= nonces[a]
    BY <2>1, <1>2, SignatureAt DEF NoncesBounded
  <2> QED
    BY <2>2, <1>1
<1>8. Given' = [Given EXCEPT ![a] = Given'[a]]
  BY <1>1, <1>5 DEF Given
<1>9. Given[a] = NoncesOf(a) /\ Given'[a] = NoncesOf(a)'
  BY <1>1 DEF Given
<1> QED
  BY <1>1, <1>6, <1>7, <1>8, <1>9 DEF Source!Next, Source!Give

LEMMA GivesNone ==
  ASSUME UNCHANGED signatures
  PROVE  UNCHANGED Given
  BY DEF Given, NoncesOf

\* The signer implements NonceSource: the nonces of an agent only ever grow
\* (Store.NextAgentNonce), for every interleaving of handlers, every clock and
\* every crash.
THEOREM NoncesMonotonic == Spec => NoncesAreMonotonic
<1>1. Init => Source!Init
  <2> SUFFICES ASSUME Init PROVE Given = [a \in Agents |-> {}]
    BY DEF Source!Init
  <2>1. Len(signatures) = 0
    BY EmptySeq DEF Init
  <2>2. ASSUME NEW a \in Agents PROVE NoncesOf(a) = {}
    BY <2>1, NoncesOfElement
  <2> QED
    BY <2>2 DEF Given
<1>2. IInv /\ [Next]_vars => [Source!Next]_Given
  <2> SUFFICES ASSUME IInv, [Next]_vars PROVE Source!Next \/ UNCHANGED Given
    OBVIOUS
  <2>1. ASSUME NEW c \in Calls, NEW now \in Times, FinishSign(c, now)
        PROVE  Source!Next
    BY <2>1, GivesOneNonce
  <2>2. CASE UNCHANGED signatures
    BY <2>2, GivesNone
  <2> QED
    BY <2>1, <2>2 DEF Next, vars, CreateWallet, ActivateWallet, BeginSign, SignFails, Crash
<1> QED
  BY <1>1, <1>2, Invariance, PTL DEF Spec, NoncesAreMonotonic, Source!Spec
===============================================================================
