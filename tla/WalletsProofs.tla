----------------------------- MODULE WalletsProofs -----------------------------
(***************************************************************************)
(* Proofs about Wallets for any number of handlers, wallets and requests,   *)
(* either store, and any number of failures.  A transaction holds every     *)
(* wallet it has written, and a row it holds carries its order, so that a   *)
(* commit shows all of a reorder at once.                                   *)
(***************************************************************************)
EXTENDS Wallets, FiniteSetTheorems, WellFoundedInduction, TLAPS

\* A transaction holds what it has written.
HoldsOK ==
  \A c \in Calls : \A k \in 1 .. calls[c].done : locks[ItemId(Request(c), k)] = c

\* A row that is held is a wallet its holder has put in order.
LocksOK ==
  \A id \in WalletIds : locks[id] # None =>
    /\ store = "postgres" /\ Exists(id) /\ latest[id].by = Request(locks[id])
    /\ \E k \in 1 .. calls[locks[id]].done : ItemId(Request(locks[id]), k) = id

\* Two versions of a wallet: the same user, chain and address.
SameWallet(row, other) ==
  row # None /\ other # None /\ row.user = other.user /\ row.key = other.key

VersionsOK == \A id \in WalletIds : latest[id] = wallets[id] \/ SameWallet(latest[id], wallets[id])

IInv == TypeOK /\ HoldsOK /\ LocksOK /\ VersionsOK /\ NotMixed

-----------------------------------------------------------------------------
LEMMA Constants ==
  /\ MaxFailures \in Nat /\ "" \in Texts /\ None \notin Texts
  /\ None \notin Requests /\ None \notin Calls /\ None \notin Row
BY WalletsAssumption, NoneAssumption DEF WalletsAssumption, RequestsAssumption, NoneAssumption

LEMMA FailureBound == MaxFailures \in Nat
BY Constants

LEMMA FailureCounted ==
  ASSUME failures \in 0 .. MaxFailures, failures < MaxFailures, failures' = failures + 1
  PROVE  failures' \in 0 .. MaxFailures
BY FailureBound

LEMMA RequestFields ==
  ASSUME NEW r \in Requests
  PROVE  /\ r.op = "create" => /\ r.user \in Users /\ r.key \in Keys /\ r.name \in Texts
                               /\ r.order \in Nat
         /\ r.op = "rename" => r.id \in WalletIds /\ r.name \in Texts
         /\ r.op = "reorder" => r.items \in Seq(WalletIds \X Nat)
         /\ r.op = "whitelist" => r.user \in Users /\ r.key \in Keys /\ r.label \in Texts
         /\ r.op = "event" => r.user \in Users /\ r.risk \in {"", "low", "high"}
<1>1. RequestType(r)
  BY WalletsAssumption DEF WalletsAssumption, RequestsAssumption
<1> QED
  BY <1>1 DEF RequestType

LEMMA Element ==
  ASSUME NEW S, NEW q \in Seq(S)
  PROVE  Len(q) \in Nat /\ \A k \in 1 .. Len(q) : q[k] \in S
OBVIOUS

LEMMA Item ==
  ASSUME NEW r \in Requests, r.op = "reorder", NEW k \in 1 .. Len(r.items)
  PROVE  ItemId(r, k) \in WalletIds /\ r.items[k][2] \in Nat
<1>0. r.items \in Seq(WalletIds \X Nat)
  BY RequestFields
<1>1. r.items[k] \in WalletIds \X Nat
  BY <1>0, Element
<1> QED
  BY <1>1 DEF ItemId

LEMMA TypedCall ==
  ASSUME TypeOK, NEW c \in Calls
  PROVE  /\ calls[c] \in [req: Requests \cup {None}, done: Nat] /\ calls[c].done \in Nat
         /\ Request(c) # None => Request(c) \in Requests
         /\ calls[c].done > 0 => Asks(c, "reorder") /\ calls[c].done <= Len(Request(c).items)
BY DEF TypeOK, Request

LEMMA IdleType == Idle \in [req: Requests \cup {None}, done: Nat] /\ Idle.done = 0 /\ Idle.req = None
BY DEF Idle

\* A set of positions has a last one.
LEMMA LastExists ==
  ASSUME NEW n \in Nat, NEW T \in SUBSET (1 .. n), T # {}
  PROVE  \E k \in T : \A j \in T : j <= k
<1> DEFINE U == {n - k : k \in T}
<1>0. \A k \in T : k \in Nat /\ n - k \in Nat
  <2> TAKE k \in T
  <2>1. k \in 1 .. n
    OBVIOUS
  <2> QED
    BY <2>1
<1>1. U \subseteq Nat /\ U # {}
  BY <1>0
<1>2. PICK x \in U : \A y \in U : ~ (<<y, x>> \in OpToRel(<, Nat))
  BY <1>1, NatLessThanWellFounded, WFMin
<1>3. \A y \in U : ~ (y < x)
  BY <1>1, <1>2 DEF OpToRel
<1>4. PICK k \in T : x = n - k
  OBVIOUS
<1>5. \A j \in T : j <= k
  <2> TAKE j \in T
  <2>1. j \in Nat /\ k \in Nat /\ ~ (n - j < n - k)
    BY <1>0, <1>3, <1>4
  <2> QED
    BY <2>1
<1> QED
  BY <1>5

\* What a reorder makes of a row.
LEMMA PlacedRow ==
  ASSUME NEW row \in Row, NEW id \in WalletIds, NEW r \in Requests, r.op = "reorder",
         NEW ns \in SUBSET (1 .. Len(r.items))
  PROVE  /\ Placed(row, id, r, ns) \in Row /\ SameWallet(Placed(row, id, r, ns), row)
         /\ (\E k \in ns : ItemId(r, k) = id) => Placed(row, id, r, ns).by = r
<1> DEFINE at == {k \in ns : ItemId(r, k) = id}
           last == CHOOSE k \in at : \A j \in at : j <= k
<1>1. row # None
  BY Constants
<1>2. CASE at = {}
  <2>1. Placed(row, id, r, ns) = row
    BY <1>2 DEF Placed
  <2> QED
    BY <1>1, <1>2, <2>1 DEF SameWallet
<1>3. CASE at # {}
  <2>1. Len(r.items) \in Nat
    <3>1. r.items \in Seq(WalletIds \X Nat)
      BY RequestFields
    <3> QED
      BY <3>1, Element
  <2>2. \E k \in at : \A j \in at : j <= k
    BY <1>3, <2>1, LastExists
  <2>3. last \in at
    BY <2>2
  <2>4. r.items[last][2] \in Nat
    BY <2>3, Item
  <2>5. Placed(row, id, r, ns) = [row EXCEPT !.order = r.items[last][2], !.by = r]
    BY <1>3 DEF Placed
  <2> HIDE DEF last, at
  <2>6. [row EXCEPT !.order = r.items[last][2], !.by = r] \in Row
        /\ [row EXCEPT !.order = r.items[last][2], !.by = r].by = r
        /\ [row EXCEPT !.order = r.items[last][2], !.by = r].user = row.user
        /\ [row EXCEPT !.order = r.items[last][2], !.by = r].key = row.key
    BY <2>4 DEF Row
  <2> QED
    BY <1>1, <2>5, <2>6, Constants DEF SameWallet
<1> QED
  BY <1>2, <1>3

LEMMA InitIInv == Init => IInv
<1> SUFFICES ASSUME Init PROVE IInv
  OBVIOUS
<1>1. TypeOK
  <2>1. /\ store \in {"memory", "postgres"} /\ wallets \in [WalletIds -> Row \cup {None}]
        /\ latest \in [WalletIds -> Row \cup {None}] /\ locks \in [WalletIds -> Calls \cup {None}]
        /\ whitelist \in [Users \X Keys -> Texts \cup {None}]
        /\ events \subseteq Users \X {"low", "high"}
    BY DEF Init
  <2>2. calls \in [Calls -> [req: Requests \cup {None}, done: Nat]]
        /\ \A c \in Calls : ~ (calls[c].done > 0)
    BY IdleType DEF Init
  <2>3. failures \in 0 .. MaxFailures
    BY FailureBound DEF Init
  <2>4. \A id \in WalletIds : locks[id] = None /\ latest[id] = wallets[id]
    BY DEF Init
  <2> QED
    BY <2>1, <2>2, <2>3, <2>4 DEF TypeOK
<1>2. HoldsOK /\ LocksOK /\ VersionsOK
  BY IdleType DEF Init, HoldsOK, LocksOK, VersionsOK
<1>3. NotMixed
  <2>1. ASSUME NEW r \in Reorders, NEW i \in WalletsOf(r) PROVE ~Exists(i)
    <3>1. i \in WalletIds
      BY <2>1, Item DEF Reorders, WalletsOf
    <3> QED
      BY <3>1 DEF Init, Exists
  <2> QED
    BY <2>1 DEF NotMixed
<1> QED
  BY <1>1, <1>2, <1>3 DEF IInv

-----------------------------------------------------------------------------
\* A handler that is done.

Free(c) == calls[c].done = 0

LEMMA EndedCalls ==
  ASSUME TypeOK, NEW C \in SUBSET Calls,
         calls' = [c \in Calls |-> IF c \in C THEN Idle ELSE calls[c]]
  PROVE  /\ calls' \in [Calls -> [req: Requests \cup {None}, done: Nat]]
         /\ \A c \in Calls : calls'[c].done > 0 => c \notin C
         /\ \A c \in Calls \ C : calls'[c] = calls[c]
         /\ \A c \in Calls : calls'[c].done > 0 =>
              Asks(c, "reorder")' /\ calls'[c].done <= Len(Request(c)'.items)
<1>1. /\ \A c \in C : calls'[c] = Idle
      /\ \A c \in Calls \ C : calls'[c] = calls[c]
  OBVIOUS
<1>2. calls' \in [Calls -> [req: Requests \cup {None}, done: Nat]]
  BY IdleType DEF TypeOK
<1>3. \A c \in Calls : calls'[c].done > 0 => c \notin C
  BY <1>1, IdleType
<1>4. ASSUME NEW c \in Calls, calls'[c].done > 0
      PROVE  Asks(c, "reorder")' /\ calls'[c].done <= Len(Request(c)'.items)
  BY <1>1, <1>3, <1>4 DEF TypeOK, Asks, Request
<1> QED
  BY <1>1, <1>2, <1>3, <1>4

LEMMA EndedCall ==
  ASSUME TypeOK, NEW c \in Calls, End(c)
  PROVE  /\ calls' \in [Calls -> [req: Requests \cup {None}, done: Nat]]
         /\ \A d \in Calls \ {c} : calls'[d] = calls[d]
         /\ \A d \in Calls : calls'[d].done > 0 =>
              Asks(d, "reorder")' /\ calls'[d].done <= Len(Request(d)'.items)
         /\ calls'[c].done = 0
         /\ calls' = [d \in Calls |-> IF d \in {c} THEN Idle ELSE calls[d]]
<1>1. calls' = [d \in Calls |-> IF d \in {c} THEN Idle ELSE calls[d]]
  BY DEF TypeOK, End
<1>2. calls'[c].done = 0
  BY <1>1, IdleType
<1>3. {c} \in SUBSET Calls
  OBVIOUS
<1> QED
  BY <1>1, <1>2, <1>3, EndedCalls

\* The rest of the state.
LEMMA RestTyped ==
  ASSUME TypeOK, UNCHANGED <<store, whitelist, events>>,
         failures' = failures \/ (failures < MaxFailures /\ failures' = failures + 1)
  PROVE  /\ store' \in {"memory", "postgres"}
         /\ whitelist' \in [Users \X Keys -> Texts \cup {None}]
         /\ events' \subseteq Users \X {"low", "high"}
         /\ failures' \in 0 .. MaxFailures
BY FailureCounted DEF TypeOK

\* A statement of its own stores a row and its handler ends.
LEMMA StoreStep ==
  ASSUME IInv, NEW c \in Calls, Free(c), NEW id \in WalletIds, NEW row \in Row,
         Store(id, row), End(c), UNCHANGED <<store, locks, whitelist, events, failures>>,
         row.by \notin Reorders \/ (Exists(id) /\ row.by = wallets[id].by)
  PROVE  IInv'
<1>0. TypeOK /\ HoldsOK /\ LocksOK /\ VersionsOK /\ NotMixed
  BY DEF IInv
<1>1. /\ wallets' = [wallets EXCEPT ![id] = row] /\ latest' = [latest EXCEPT ![id] = row]
      /\ locks[id] = None
  BY DEF Store
<1>2. /\ wallets'[id] = row /\ latest'[id] = row
      /\ \A i \in WalletIds \ {id} : wallets'[i] = wallets[i] /\ latest'[i] = latest[i]
      /\ wallets' \in [WalletIds -> Row \cup {None}] /\ latest' \in [WalletIds -> Row \cup {None}]
  BY <1>0, <1>1 DEF TypeOK
<1>3. /\ calls' \in [Calls -> [req: Requests \cup {None}, done: Nat]]
      /\ \A d \in Calls \ {c} : calls'[d] = calls[d]
      /\ \A d \in Calls : calls'[d].done > 0 =>
              Asks(d, "reorder")' /\ calls'[d].done <= Len(Request(d)'.items)
      /\ calls'[c].done = 0
  BY <1>0, EndedCall
<1>4. \A i \in WalletIds : locks[i] # None => locks[i] \in Calls /\ locks[i] # c
  BY <1>0 DEF TypeOK, Free
<1>5. TypeOK'
  <2>1. \A i \in WalletIds : IF locks'[i] = None THEN latest'[i] = wallets'[i]
                             ELSE calls'[locks'[i]].done > 0
    BY <1>0, <1>1, <1>2, <1>3, <1>4 DEF TypeOK
  <2> QED
    BY <1>0, <1>2, <1>3, <2>1 DEF TypeOK
<1>6. HoldsOK'
  BY <1>0, <1>3 DEF HoldsOK, Request, ItemId
<1>7. LocksOK'
  <2> SUFFICES ASSUME NEW i \in WalletIds, locks[i] # None
               PROVE  /\ store = "postgres" /\ wallets'[i] # None
                      /\ latest'[i].by = calls'[locks[i]].req
                      /\ \E k \in 1 .. calls'[locks[i]].done : ItemId(calls'[locks[i]].req, k) = i
    BY DEF LocksOK, Request, Exists, ItemId
  <2>1. i # id /\ calls'[locks[i]] = calls[locks[i]]
    BY <1>1, <1>3, <1>4
  <2> QED
    BY <1>0, <1>2, <2>1 DEF LocksOK, Request, Exists
<1>8. VersionsOK'
  BY <1>0, <1>2 DEF VersionsOK, SameWallet
<1>9. NotMixed'
  <2>1. ASSUME NEW r \in Reorders, NEW i \in WalletsOf(r), wallets'[i] # None, wallets'[i].by = r
        PROVE  wallets[i] # None /\ wallets[i].by = r
    <3>1. i \in WalletIds
      BY <2>1, Item DEF Reorders, WalletsOf
    <3> QED
      BY <1>2, <2>1, <3>1 DEF Exists
  <2> QED
    BY <1>0, <2>1 DEF NotMixed, Exists
<1> QED
  BY <1>5, <1>6, <1>7, <1>8, <1>9 DEF IInv

\* The wallets stay as they are and a handler without a transaction ends.
LEMMA EndStep ==
  ASSUME IInv, NEW c \in Calls, Free(c), End(c), UNCHANGED <<store, wallets, latest, locks>>,
         whitelist' \in [Users \X Keys -> Texts \cup {None}],
         events' \subseteq Users \X {"low", "high"}, failures' = failures
  PROVE  IInv'
<1>0. TypeOK /\ HoldsOK /\ LocksOK /\ VersionsOK /\ NotMixed
  BY DEF IInv
<1>1. /\ calls' \in [Calls -> [req: Requests \cup {None}, done: Nat]]
      /\ \A d \in Calls \ {c} : calls'[d] = calls[d]
      /\ \A d \in Calls : calls'[d].done > 0 =>
              Asks(d, "reorder")' /\ calls'[d].done <= Len(Request(d)'.items)
      /\ calls'[c].done = 0
  BY <1>0, EndedCall
<1>2. \A i \in WalletIds : locks[i] # None => locks[i] \in Calls /\ locks[i] # c
  BY <1>0 DEF TypeOK, Free
<1>3. TypeOK'
  <2>1. \A i \in WalletIds : IF locks'[i] = None THEN latest'[i] = wallets'[i]
                             ELSE calls'[locks'[i]].done > 0
    BY <1>0, <1>1, <1>2 DEF TypeOK
  <2> QED
    BY <1>0, <1>1, <2>1 DEF TypeOK
<1>4. HoldsOK'
  BY <1>0, <1>1 DEF HoldsOK, Request, ItemId
<1>5. LocksOK'
  <2> SUFFICES ASSUME NEW i \in WalletIds, locks[i] # None
               PROVE  /\ store = "postgres" /\ wallets[i] # None
                      /\ latest[i].by = calls'[locks[i]].req
                      /\ \E k \in 1 .. calls'[locks[i]].done : ItemId(calls'[locks[i]].req, k) = i
    BY DEF LocksOK, Request, Exists, ItemId
  <2>1. calls'[locks[i]] = calls[locks[i]]
    BY <1>1, <1>2
  <2> QED
    BY <1>0, <2>1 DEF LocksOK, Request, Exists
<1>6. VersionsOK' /\ NotMixed'
  BY <1>0 DEF VersionsOK, NotMixed, Exists
<1> QED
  BY <1>3, <1>4, <1>5, <1>6 DEF IInv

\* Handlers lose what they have not committed, and end.
LEMMA RollbackStep ==
  ASSUME IInv, NEW C \in SUBSET Calls, Rollback(C),
         calls' = [c \in Calls |-> IF c \in C THEN Idle ELSE calls[c]],
         UNCHANGED <<store, whitelist, events>>,
         failures' = failures \/ (failures < MaxFailures /\ failures' = failures + 1)
  PROVE  IInv'
<1>0. TypeOK /\ HoldsOK /\ LocksOK /\ VersionsOK /\ NotMixed
  BY DEF IInv
<1>1. /\ wallets' = wallets
      /\ \A i \in WalletIds : locks'[i] = (IF locks[i] \in C THEN None ELSE locks[i])
      /\ \A i \in WalletIds : latest'[i] = (IF locks[i] \in C THEN wallets[i] ELSE latest[i])
      /\ locks' \in [WalletIds -> Calls \cup {None}]
      /\ latest' \in [WalletIds -> Row \cup {None}]
  BY <1>0 DEF Rollback, Held, TypeOK
<1>2. /\ calls' \in [Calls -> [req: Requests \cup {None}, done: Nat]]
      /\ \A c \in Calls : calls'[c].done > 0 => c \notin C
      /\ \A c \in Calls \ C : calls'[c] = calls[c]
      /\ \A c \in Calls : calls'[c].done > 0 =>
              Asks(c, "reorder")' /\ calls'[c].done <= Len(Request(c)'.items)
  BY <1>0, EndedCalls
<1>3. \A i \in WalletIds : locks'[i] # None =>
        locks[i] # None /\ locks[i] \in Calls \ C /\ locks'[i] = locks[i] /\ latest'[i] = latest[i]
  BY <1>0, <1>1 DEF TypeOK
<1>4. \A i \in WalletIds : latest'[i] = wallets[i] \/ latest'[i] = latest[i]
  BY <1>1
<1>5. TypeOK'
  <2>1. \A i \in WalletIds : IF locks'[i] = None THEN latest'[i] = wallets'[i]
                             ELSE calls'[locks'[i]].done > 0
    BY <1>0, <1>1, <1>2, <1>3 DEF TypeOK
  <2> QED
    BY <1>0, <1>1, <1>2, <2>1, RestTyped DEF TypeOK
<1>6. HoldsOK'
  <2> SUFFICES ASSUME NEW c \in Calls, NEW k \in 1 .. calls'[c].done
               PROVE  locks'[ItemId(calls'[c].req, k)] = c
    BY DEF HoldsOK, Request, ItemId
  <2>1. c \notin C /\ calls'[c] = calls[c] /\ calls[c].done > 0
    BY <1>2
  <2>2. Request(c) \in Requests /\ Asks(c, "reorder") /\ k \in 1 .. Len(Request(c).items)
    <3>1. calls[c].done <= Len(Request(c).items) /\ Asks(c, "reorder") /\ Request(c) \in Requests
      BY <1>0, <2>1, TypedCall DEF Asks
    <3>2. Len(Request(c).items) \in Nat
      BY <3>1, RequestFields, Element DEF Asks
    <3> QED
      BY <1>0, <2>1, <3>1, <3>2, TypedCall
  <2>3. ItemId(Request(c), k) \in WalletIds
    BY <2>2, Item DEF Asks
  <2>4. locks[ItemId(Request(c), k)] = c
    BY <1>0, <2>1 DEF HoldsOK
  <2> QED
    BY <1>1, <2>1, <2>3, <2>4 DEF Request
<1>7. LocksOK'
  <2> SUFFICES ASSUME NEW i \in WalletIds, locks'[i] # None
               PROVE  /\ store = "postgres" /\ wallets[i] # None
                      /\ latest'[i].by = calls'[locks'[i]].req
                      /\ \E k \in 1 .. calls'[locks'[i]].done : ItemId(calls'[locks'[i]].req, k) = i
    BY <1>1 DEF LocksOK, Request, Exists, ItemId
  <2>1. locks'[i] = locks[i] /\ latest'[i] = latest[i] /\ calls'[locks[i]] = calls[locks[i]]
    BY <1>2, <1>3
  <2> QED
    BY <1>0, <2>1 DEF LocksOK, Request, Exists
<1>8. VersionsOK' /\ NotMixed'
  BY <1>0, <1>1, <1>4 DEF VersionsOK, NotMixed, Exists
<1> QED
  BY <1>5, <1>6, <1>7, <1>8 DEF IInv

LEMMA AbortStep ==
  ASSUME IInv, NEW c \in Calls, Rollback({c}), End(c), UNCHANGED <<store, whitelist, events>>,
         failures' = failures \/ (failures < MaxFailures /\ failures' = failures + 1)
  PROVE  IInv'
<1>1. calls' = [d \in Calls |-> IF d \in {c} THEN Idle ELSE calls[d]]
  BY EndedCall DEF IInv
<1>2. {c} \in SUBSET Calls
  OBVIOUS
<1> QED
  BY <1>1, <1>2, RollbackStep

-----------------------------------------------------------------------------
\* The steps.

LEMMA AsksFree ==
  ASSUME TypeOK, NEW c \in Calls, NEW op, Asks(c, op), op # "reorder"
  PROVE  Free(c) /\ Request(c) \in Requests /\ Request(c).op = op /\ Request(c) \notin Reorders
BY TypedCall DEF Asks, Free, Reorders

LEMMA CreateWalletStep == ASSUME IInv, NEW c \in Calls, CreateWallet(c) PROVE IInv'
<1> DEFINE r == Request(c)
<1>1. Free(c) /\ r \in Requests /\ r.op = "create" /\ r \notin Reorders
  BY AsksFree DEF IInv, CreateWallet
<1>2. NewRow(r) \in Row /\ NewRow(r).by = r
  BY <1>1, RequestFields DEF NewRow, Row
<1>3. ASSUME NEW id \in Existing(r), Store(id, Found(r, wallets[id])) PROVE IInv'
  <2>1. id \in WalletIds /\ wallets[id] \in Row /\ Exists(id)
    BY <1>3 DEF Existing, Registered, Exists, IInv, TypeOK
  <2>2. (IF r.name = "" THEN wallets[id].name ELSE r.name) \in Texts
    BY <1>1, <2>1, RequestFields DEF Row
  <2>3. /\ Found(r, wallets[id]) \in Row
        /\ Found(r, wallets[id]).by = wallets[id].by \/ Found(r, wallets[id]).by = r
    BY <1>2, <2>1, <2>2 DEF Found, Row, NewRow
  <2> HIDE DEF r
  <2> QED
    BY <1>1, <1>3, <2>1, <2>3, StoreStep DEF CreateWallet
<1>4. ASSUME NEW id \in WalletIds, Store(id, NewRow(r)) PROVE IInv'
  BY <1>1, <1>2, <1>4, StoreStep DEF CreateWallet
<1> QED
  BY <1>3, <1>4 DEF CreateWallet

LEMMA UpdateWalletNameStep == ASSUME IInv, NEW c \in Calls, UpdateWalletName(c) PROVE IInv'
<1> DEFINE r == Request(c)
<1>1. Free(c) /\ r \in Requests /\ r.op = "rename"
  BY AsksFree DEF IInv, UpdateWalletName
<1>2. r.id \in WalletIds /\ r.name \in Texts
  BY <1>1, RequestFields
<1>3. CASE Owned(r, r.id)
  <2>1. wallets[r.id] \in Row /\ Exists(r.id)
    BY <1>2, <1>3 DEF Owned, Exists, IInv, TypeOK
  <2>2. [wallets[r.id] EXCEPT !.name = r.name] \in Row
        /\ [wallets[r.id] EXCEPT !.name = r.name].by = wallets[r.id].by
    BY <1>2, <2>1 DEF Row
  <2>3. Store(r.id, [wallets[r.id] EXCEPT !.name = r.name])
    BY <1>3 DEF UpdateWalletName
  <2> QED
    BY <1>1, <1>2, <2>1, <2>2, <2>3, StoreStep DEF UpdateWalletName
<1>4. CASE ~Owned(r, r.id)
  <2>1. UNCHANGED <<store, wallets, latest, locks, whitelist, events, failures>> /\ End(c)
    BY <1>4 DEF UpdateWalletName
  <2> QED
    BY <1>1, <2>1, EndStep DEF IInv, TypeOK
<1> QED
  BY <1>3, <1>4

LEMMA AddWhitelistStep == ASSUME IInv, NEW c \in Calls, AddWhitelist(c) PROVE IInv'
<1> DEFINE r == Request(c)
<1>1. Free(c) /\ r \in Requests /\ r.op = "whitelist"
  BY AsksFree DEF IInv, AddWhitelist
<1>2. <<r.user, r.key>> \in Users \X Keys /\ r.label \in Texts
  BY <1>1, RequestFields
<1>3. whitelist' \in [Users \X Keys -> Texts \cup {None}]
  BY <1>2 DEF AddWhitelist, IInv, TypeOK
<1> QED
  BY <1>1, <1>3, EndStep DEF AddWhitelist, IInv, TypeOK

LEMMA RecordSecurityEventStep == ASSUME IInv, NEW c \in Calls, RecordSecurityEvent(c) PROVE IInv'
<1> DEFINE r == Request(c)
<1>1. Free(c) /\ r \in Requests /\ r.op = "event"
  BY AsksFree DEF IInv, RecordSecurityEvent
<1>2. r.user \in Users /\ (IF r.risk = "" THEN "low" ELSE r.risk) \in {"low", "high"}
  BY <1>1, RequestFields
<1>3. events \subseteq Users \X {"low", "high"}
      /\ events' = events \cup {<<r.user, IF r.risk = "" THEN "low" ELSE r.risk>>}
  BY DEF RecordSecurityEvent, IInv, TypeOK
<1>4. events' \subseteq Users \X {"low", "high"}
  <2> DEFINE risk == IF r.risk = "" THEN "low" ELSE r.risk
  <2>1. <<r.user, risk>> \in Users \X {"low", "high"}
    BY <1>2
  <2> QED
    BY <1>3, <2>1, Zenon
<1>5. whitelist' \in [Users \X Keys -> Texts \cup {None}]
  BY DEF RecordSecurityEvent, IInv, TypeOK
<1> QED
  BY <1>1, <1>4, <1>5, EndStep DEF RecordSecurityEvent

LEMMA RollbackSteps ==
  ASSUME IInv, NEW c \in Calls, UnknownItem(c) \/ Fails(c) \/ DeadlockAbort(c) PROVE IInv'
<1>1. Rollback({c}) /\ End(c) /\ UNCHANGED <<store, whitelist, events>>
      /\ (failures' = failures \/ (failures < MaxFailures /\ failures' = failures + 1))
  BY DEF UnknownItem, Fails, DeadlockAbort
<1> QED
  BY <1>1, AbortStep

LEMMA CrashStep == ASSUME IInv, Crash PROVE IInv'
<1>1. calls' = [c \in Calls |-> IF c \in Calls THEN Idle ELSE calls[c]]
  BY DEF Crash
<1>2. Calls \in SUBSET Calls /\ Rollback(Calls) /\ UNCHANGED <<store, whitelist, events>>
      /\ (failures' = failures \/ (failures < MaxFailures /\ failures' = failures + 1))
  BY DEF Crash
<1> QED
  BY <1>1, <1>2, RollbackStep

\* A memory store has no transactions.
LEMMA NoneInMemory ==
  ASSUME IInv, store = "memory"
  PROVE  (\A id \in WalletIds : locks[id] = None) /\ (\A c \in Calls : Free(c))
<1>1. \A id \in WalletIds : locks[id] = None
  BY DEF IInv, LocksOK
<1>2. ASSUME NEW c \in Calls, calls[c].done > 0 PROVE FALSE
  <2>1. Asks(c, "reorder") /\ Request(c) \in Requests /\ calls[c].done <= Len(Request(c).items)
        /\ calls[c].done \in Nat
    BY <1>2, TypedCall DEF IInv, Asks
  <2>2. Len(Request(c).items) \in Nat
    BY <2>1, RequestFields, Element DEF Asks
  <2>3. 1 \in 1 .. calls[c].done /\ 1 \in 1 .. Len(Request(c).items)
    BY <1>2, <2>1, <2>2
  <2>4. ItemId(Request(c), 1) \in WalletIds
    BY <2>1, <2>3, Item DEF Asks
  <2>5. locks[ItemId(Request(c), 1)] = c
    BY <2>3 DEF IInv, HoldsOK
  <2> QED
    BY <1>1, <2>4, <2>5, Constants
<1>3. \A c \in Calls : calls[c].done \in Nat
  BY TypedCall DEF IInv
<1> QED
  BY <1>1, <1>2, <1>3 DEF Free

LEMMA PlacedInMemory ==
  ASSUME TypeOK, NEW r \in Requests, r.op = "reorder", NEW id \in WalletIds
  PROVE  /\ wallets[id] = None => Placed(wallets[id], id, r, Known(r)) = None
         /\ wallets[id] # None => /\ Placed(wallets[id], id, r, Known(r)) \in Row
                                  /\ SameWallet(Placed(wallets[id], id, r, Known(r)), wallets[id])
<1>1. CASE wallets[id] = None
  <2>1. ASSUME NEW k \in Known(r), ItemId(r, k) = id PROVE FALSE
    <3>1. k \in 1 .. Len(r.items) /\ \A j \in 1 .. k : Owned(r, ItemId(r, j))
      BY DEF Known
    <3>2. Len(r.items) \in Nat
      BY RequestFields, Element
    <3>3. k \in 1 .. k
      BY <3>1, <3>2
    <3> QED
      BY <1>1, <2>1, <3>1, <3>3 DEF Owned, Exists
  <2>2. {k \in Known(r) : ItemId(r, k) = id} = {}
    BY <2>1
  <2> QED
    BY <1>1, <2>2 DEF Placed
<1>2. CASE wallets[id] # None
  <2>1. wallets[id] \in Row
    BY <1>2 DEF TypeOK
  <2>2. Known(r) \in SUBSET (1 .. Len(r.items))
    BY DEF Known
  <2> QED
    BY <1>2, <2>1, <2>2, PlacedRow
<1> QED
  BY <1>1, <1>2

LEMMA ReorderInMemoryStep == ASSUME IInv, NEW c \in Calls, ReorderInMemory(c) PROVE IInv'
<1> DEFINE r == Request(c)
<1>0. TypeOK /\ store = "memory" /\ store' = "memory" /\ locks' = locks
  BY DEF IInv, ReorderInMemory, TypeOK
<1>1. r \in Requests /\ r.op = "reorder"
  BY <1>0, TypedCall DEF ReorderInMemory, Asks
<1>2. (\A id \in WalletIds : locks[id] = None) /\ (\A d \in Calls : Free(d))
  BY <1>0, NoneInMemory
<1>3. /\ wallets' = [id \in WalletIds |-> Placed(wallets[id], id, r, Known(r))]
      /\ latest' = wallets' /\ UNCHANGED <<whitelist, events, failures>> /\ End(c)
  BY DEF ReorderInMemory
<1>4. wallets' \in [WalletIds -> Row \cup {None}]
  BY <1>0, <1>1, <1>3, PlacedInMemory
<1>5. /\ calls' \in [Calls -> [req: Requests \cup {None}, done: Nat]]
      /\ \A d \in Calls : calls'[d].done = 0
  <2>1. calls' \in [Calls -> [req: Requests \cup {None}, done: Nat]]
        /\ calls'[c].done = 0 /\ \A d \in Calls \ {c} : calls'[d] = calls[d]
    BY <1>0, <1>3, EndedCall
  <2> QED
    BY <1>2, <2>1 DEF Free
<1>6. TypeOK'
  <2>1. \A d \in Calls : ~ (calls'[d].done > 0)
    BY <1>5
  <2>2. \A id \in WalletIds : locks'[id] = None /\ latest'[id] = wallets'[id]
    BY <1>0, <1>2, <1>3
  <2> QED
    BY <1>0, <1>3, <1>4, <1>5, <2>1, <2>2 DEF TypeOK
<1>7. HoldsOK'
  BY <1>5 DEF HoldsOK
<1>8. LocksOK' /\ VersionsOK' /\ NotMixed'
  BY <1>0, <1>2, <1>3 DEF LocksOK, VersionsOK, NotMixed
<1> QED
  BY <1>6, <1>7, <1>8 DEF IInv

\* The wallet of the next item.
LEMMA NextItem ==
  ASSUME IInv, NEW c \in Calls, Updates(c)
  PROVE  /\ Request(c) \in Requests /\ Request(c).op = "reorder"
         /\ calls[c].done + 1 \in 1 .. Len(Request(c).items) /\ Len(Request(c).items) \in Nat
         /\ NextWallet(c) \in WalletIds
<1>1. Request(c) \in Requests /\ Request(c).op = "reorder" /\ calls[c].done \in Nat
      /\ calls[c].done < Len(Request(c).items)
  BY TypedCall DEF IInv, Updates, InTransaction, Asks
<1>2. Len(Request(c).items) \in Nat
  BY <1>1, RequestFields, Element
<1>3. calls[c].done + 1 \in 1 .. Len(Request(c).items)
  BY <1>1, <1>2
<1> QED
  BY <1>1, <1>2, <1>3, Item DEF NextWallet

LEMMA UpdateItemStep == ASSUME IInv, NEW c \in Calls, UpdateItem(c) PROVE IInv'
<1> DEFINE r == Request(c)
           id == NextWallet(c)
           n == calls[c].done + 1
           row == Placed(latest[id], id, r, {n})
<1>0. TypeOK /\ HoldsOK /\ LocksOK /\ VersionsOK /\ NotMixed
  BY DEF IInv
<1>1. /\ r \in Requests /\ r.op = "reorder" /\ n \in 1 .. Len(r.items) /\ id \in WalletIds
      /\ Len(r.items) \in Nat
  BY NextItem DEF UpdateItem
<1>2. Exists(id) /\ latest[id] \in Row
  <2>1. Exists(id)
    BY DEF UpdateItem, Owned
  <2>2. latest[id] # None
    BY <1>0, <1>1, <2>1 DEF VersionsOK, SameWallet, Exists
  <2> QED
    BY <1>0, <1>1, <2>1, <2>2 DEF TypeOK
<1>3. row \in Row /\ SameWallet(row, latest[id]) /\ row.by = r
  <2>1. {n} \in SUBSET (1 .. Len(r.items)) /\ ItemId(r, n) = id
    BY <1>1 DEF NextWallet
  <2> HIDE DEF n, id, r
  <2> QED
    BY <1>1, <1>2, <2>1, PlacedRow
<1>4. /\ locks' = [locks EXCEPT ![id] = c] /\ latest' = [latest EXCEPT ![id] = row]
      /\ calls' = [calls EXCEPT ![c].done = @ + 1]
      /\ UNCHANGED <<store, wallets, whitelist, events, failures>>
      /\ locks[id] \in {None, c} /\ store = "postgres"
  BY <1>0, <1>1 DEF UpdateItem, Updates, InTransaction, TypeOK
<1>5. /\ locks'[id] = c /\ latest'[id] = row
      /\ \A i \in WalletIds \ {id} : locks'[i] = locks[i] /\ latest'[i] = latest[i]
      /\ locks' \in [WalletIds -> Calls \cup {None}]
      /\ latest' \in [WalletIds -> Row \cup {None}]
  <2> HIDE DEF row, id
  <2> QED
    BY <1>0, <1>1, <1>3, <1>4 DEF TypeOK
<1>6. /\ calls' \in [Calls -> [req: Requests \cup {None}, done: Nat]]
      /\ calls'[c].done = n /\ calls'[c].req = r
      /\ \A d \in Calls \ {c} : calls'[d] = calls[d]
      /\ n \in Nat
  BY <1>0, <1>4 DEF TypeOK, Request
<1> HIDE DEF row, id, n
<1>7. TypeOK'
  <2>1. ASSUME NEW i \in WalletIds
        PROVE  IF locks'[i] = None THEN latest'[i] = wallets'[i] ELSE calls'[locks'[i]].done > 0
    <3>1. CASE i = id
      <4>1. n > 0
        BY <1>1
      <4>2. locks'[i] = c /\ c # None
        BY <1>5, <3>1, Constants
      <4> QED
        BY <1>6, <4>1, <4>2
    <3>2. CASE i # id
      <4>1. locks'[i] = locks[i] /\ latest'[i] = latest[i] /\ wallets'[i] = wallets[i]
        BY <1>4, <1>5, <3>2
      <4>2. CASE locks[i] = None
        BY <1>0, <4>1, <4>2 DEF TypeOK
      <4>3. CASE locks[i] # None
        <5>1. locks[i] \in Calls /\ calls[locks[i]].done > 0 /\ calls[locks[i]].done \in Nat
          BY <1>0, <4>3, TypedCall DEF TypeOK
        <5>2. calls'[locks[i]].done > 0
          BY <1>6, <5>1 DEF n
        <5> QED
          BY <4>1, <4>3, <5>2
      <4> QED
        BY <4>2, <4>3
    <3> QED
      BY <3>1, <3>2
  <2>2. ASSUME NEW d \in Calls, calls'[d].done > 0
        PROVE  Asks(d, "reorder")' /\ calls'[d].done <= Len(Request(d)'.items)
    <3>1. CASE d = c
      <4>0. n <= Len(r.items)
        BY <1>1
      <4>1. n <= Len(r.items) /\ r # None
        BY <1>1, <4>0, Constants, Zenon
      <4>2. calls'[d].req = r /\ calls'[d].done = n
        BY <1>6, <3>1
      <4>3. calls'[d].req # None /\ calls'[d].req.op = "reorder" /\ calls'[d].done <= Len(calls'[d].req.items)
        BY <1>1, <4>1, <4>2
      <4> QED
        BY <4>3 DEF Asks, Request
    <3>2. CASE d # c
      BY <1>0, <1>6, <2>2, <3>2 DEF TypeOK, Asks, Request
    <3> QED
      BY <3>1, <3>2
  <2> QED
    BY <1>0, <1>4, <1>5, <1>6, <2>1, <2>2 DEF TypeOK
<1>8. HoldsOK'
  <2> SUFFICES ASSUME NEW d \in Calls, NEW k \in 1 .. calls'[d].done
               PROVE  locks'[ItemId(calls'[d].req, k)] = d
    BY DEF HoldsOK, Request, ItemId
  <2>1. CASE d = c /\ k = n
    BY <1>5, <1>6, <2>1 DEF id, n, NextWallet
  <2>2. CASE d = c /\ k # n
    <3>0. calls[c].done \in Nat
      BY <1>0, TypedCall
    <3>1. k \in 1 .. calls[c].done /\ k \in 1 .. Len(r.items)
      BY <1>1, <1>6, <2>2, <3>0 DEF n
    <3>2. ItemId(r, k) \in WalletIds /\ locks[ItemId(r, k)] = c
      BY <1>0, <1>1, <3>1, Item DEF HoldsOK
    <3> QED
      BY <1>5, <1>6, <2>2, <3>2
  <2>3. CASE d # c
    <3>1. calls'[d] = calls[d] /\ k \in 1 .. calls[d].done
      BY <1>6, <2>3
    <3>2. Asks(d, "reorder") /\ Request(d) \in Requests /\ calls[d].done <= Len(Request(d).items)
          /\ calls[d].done \in Nat
      BY <1>0, <3>1, TypedCall DEF Asks
    <3>3. Len(Request(d).items) \in Nat
      BY <3>2, RequestFields, Element DEF Asks
    <3>4. k \in 1 .. Len(Request(d).items)
      BY <3>1, <3>2, <3>3
    <3>5. ItemId(Request(d), k) \in WalletIds /\ locks[ItemId(Request(d), k)] = d
      BY <1>0, <3>1, <3>2, <3>4, Item DEF HoldsOK, Asks
    <3>6. ItemId(Request(d), k) # id
      BY <1>4, <2>3, <3>5, Constants
    <3> QED
      BY <1>5, <3>1, <3>5, <3>6 DEF Request
  <2> QED
    BY <2>1, <2>2, <2>3
<1>9. LocksOK'
  <2> SUFFICES ASSUME NEW i \in WalletIds, locks'[i] # None
               PROVE  /\ wallets[i] # None
                      /\ latest'[i].by = calls'[locks'[i]].req
                      /\ \E k \in 1 .. calls'[locks'[i]].done : ItemId(calls'[locks'[i]].req, k) = i
    BY <1>4 DEF LocksOK, Request, Exists, ItemId
  <2>1. CASE i = id
    <3>1. n \in 1 .. n /\ ItemId(r, n) = id
      BY <1>1, <1>6 DEF id, n, NextWallet
    <3> QED
      BY <1>2, <1>3, <1>5, <1>6, <2>1, <3>1 DEF Exists
  <2>2. CASE i # id
    <3>1. locks'[i] = locks[i] /\ latest'[i] = latest[i] /\ locks[i] \in Calls
      BY <1>0, <1>5, <2>2 DEF TypeOK
    <3>2. /\ wallets[i] # None /\ latest[i].by = Request(locks[i])
          /\ \E k \in 1 .. calls[locks[i]].done : ItemId(Request(locks[i]), k) = i
      BY <1>0, <3>1 DEF LocksOK, Exists
    <3>3. calls'[locks[i]].req = Request(locks[i])
          /\ \A k \in 1 .. calls[locks[i]].done : k \in 1 .. calls'[locks[i]].done
      BY <1>0, <1>6, <3>1, TypedCall DEF Request, n
    <3> QED
      BY <3>1, <3>2, <3>3
  <2> QED
    BY <2>1, <2>2
<1>10. VersionsOK'
  BY <1>0, <1>1, <1>2, <1>3, <1>4, <1>5 DEF VersionsOK, SameWallet, Exists
<1>11. NotMixed'
  BY <1>0, <1>4 DEF NotMixed, Exists
<1> QED
  BY <1>7, <1>8, <1>9, <1>10, <1>11 DEF IInv

LEMMA CommitStep == ASSUME IInv, NEW c \in Calls, Commit(c) PROVE IInv'
<1> DEFINE r == Request(c)
<1>0. TypeOK /\ HoldsOK /\ LocksOK /\ VersionsOK /\ NotMixed
  BY DEF IInv
<1>1. /\ \A i \in WalletIds : wallets'[i] = (IF locks[i] = c THEN latest[i] ELSE wallets[i])
      /\ \A i \in WalletIds : locks'[i] = (IF locks[i] = c THEN None ELSE locks[i])
      /\ latest' = latest /\ UNCHANGED <<store, whitelist, events, failures>> /\ End(c)
      /\ wallets' \in [WalletIds -> Row \cup {None}]
      /\ locks' \in [WalletIds -> Calls \cup {None}]
  BY <1>0 DEF Commit, Held, TypeOK
<1>2. /\ calls' \in [Calls -> [req: Requests \cup {None}, done: Nat]]
      /\ calls'[c].done = 0 /\ (\A d \in Calls \ {c} : calls'[d] = calls[d])
      /\ \A d \in Calls : calls'[d].done > 0 =>
              Asks(d, "reorder")' /\ calls'[d].done <= Len(Request(d)'.items)
  BY <1>0, <1>1, EndedCall
<1>3. r \in Requests /\ r.op = "reorder" /\ calls[c].done = Len(r.items)
  BY <1>0, TypedCall DEF Commit, InTransaction, Asks
<1>4. \A i \in WalletIds : locks[i] = c => Exists(i) /\ latest[i].by = r
  BY <1>0, Constants DEF LocksOK
<1>5. \A i \in WalletsOf(r) : i \in WalletIds /\ locks[i] = c
  <2> TAKE i \in WalletsOf(r)
  <2>1. r.items \in Seq(WalletIds \X Nat)
    BY <1>3, RequestFields
  <2>2. PICK k \in 1 .. Len(r.items) : ItemId(r, k) = i
    BY <2>1 DEF WalletsOf
  <2> QED
    BY <1>0, <1>3, <2>2, Item DEF HoldsOK
<1>6. \A i \in WalletIds : locks'[i] # None =>
        locks'[i] = locks[i] /\ locks[i] \in Calls \ {c} /\ wallets'[i] = wallets[i]
  BY <1>0, <1>1 DEF TypeOK
<1>7. TypeOK'
  <2>1. \A i \in WalletIds : IF locks'[i] = None THEN latest'[i] = wallets'[i]
                             ELSE calls'[locks'[i]].done > 0
    BY <1>0, <1>1, <1>2, <1>6 DEF TypeOK
  <2> QED
    BY <1>0, <1>1, <1>2, <2>1 DEF TypeOK
<1>8. HoldsOK'
  <2> SUFFICES ASSUME NEW d \in Calls, NEW k \in 1 .. calls'[d].done
               PROVE  locks'[ItemId(calls'[d].req, k)] = d
    BY DEF HoldsOK, Request, ItemId
  <2>1. calls'[d] = calls[d] /\ d # c /\ calls[d].done > 0
    BY <1>2
  <2>2. Request(d) \in Requests /\ Asks(d, "reorder") /\ calls[d].done <= Len(Request(d).items)
        /\ calls[d].done \in Nat
    BY <1>0, <2>1, TypedCall DEF Asks
  <2>3. Len(Request(d).items) \in Nat
    BY <2>2, RequestFields, Element DEF Asks
  <2>4. k \in 1 .. Len(Request(d).items)
    BY <2>1, <2>2, <2>3
  <2>5. ItemId(Request(d), k) \in WalletIds /\ locks[ItemId(Request(d), k)] = d
    BY <1>0, <2>1, <2>2, <2>4, Item DEF HoldsOK, Asks
  <2> QED
    BY <1>1, <2>1, <2>5 DEF Request
<1>9. LocksOK'
  <2> SUFFICES ASSUME NEW i \in WalletIds, locks'[i] # None
               PROVE  /\ store = "postgres" /\ wallets'[i] # None
                      /\ latest[i].by = calls'[locks'[i]].req
                      /\ \E k \in 1 .. calls'[locks'[i]].done : ItemId(calls'[locks'[i]].req, k) = i
    BY <1>1 DEF LocksOK, Request, Exists, ItemId
  <2>1. locks'[i] = locks[i] /\ wallets'[i] = wallets[i] /\ calls'[locks[i]] = calls[locks[i]]
    BY <1>2, <1>6
  <2> QED
    BY <1>0, <2>1 DEF LocksOK, Request, Exists
<1>10. VersionsOK'
  BY <1>0, <1>1 DEF VersionsOK, SameWallet
<1>11. NotMixed'
  <2> SUFFICES ASSUME store = "postgres", NEW q \in Reorders, NEW s \in Reorders,
                      NEW i \in WalletsOf(q) \cap WalletsOf(s), NEW j \in WalletsOf(q) \cap WalletsOf(s),
                      wallets'[i] # None, wallets'[j] # None, wallets'[i].by = q, wallets'[j].by = s
               PROVE  q = s
    BY <1>1 DEF NotMixed, Exists
  <2>1. i \in WalletIds /\ j \in WalletIds
    BY Item DEF Reorders, WalletsOf
  <2>2. CASE locks[i] = c
    <3>1. q = r
      BY <1>1, <1>4, <2>1, <2>2
    <3>2. locks[j] = c
      BY <1>5, <3>1
    <3> QED
      BY <1>1, <1>4, <2>1, <3>1, <3>2
  <2>3. CASE locks[i] # c
    <3>1. locks[j] # c
      BY <1>1, <1>4, <1>5, <2>1, <2>3
    <3> QED
      BY <1>0, <1>1, <2>1, <2>3, <3>1 DEF NotMixed, Exists
  <2> QED
    BY <2>2, <2>3
<1> QED
  BY <1>7, <1>8, <1>9, <1>10, <1>11 DEF IInv

LEMMA AskStep == ASSUME IInv, NEW c \in Calls, NEW r \in Requests, Ask(c, r) PROVE IInv'
<1>0. TypeOK /\ HoldsOK /\ LocksOK /\ VersionsOK /\ NotMixed
  BY DEF IInv
<1>1. /\ calls' \in [Calls -> [req: Requests \cup {None}, done: Nat]]
      /\ calls[c].done = 0 /\ calls'[c].done = 0 /\ \A d \in Calls \ {c} : calls'[d] = calls[d]
  BY <1>0, IdleType DEF Ask, TypeOK
<1>2. UNCHANGED <<store, wallets, latest, locks, whitelist, events, failures>>
  BY DEF Ask
<1>3. \A i \in WalletIds : locks[i] # None => locks[i] \in Calls \ {c}
  BY <1>0, <1>1 DEF TypeOK
<1>4. TypeOK'
  <2>1. \A i \in WalletIds : IF locks'[i] = None THEN latest'[i] = wallets'[i]
                             ELSE calls'[locks'[i]].done > 0
    BY <1>0, <1>1, <1>2, <1>3 DEF TypeOK
  <2>2. \A d \in Calls : calls'[d].done > 0 =>
          Asks(d, "reorder")' /\ calls'[d].done <= Len(Request(d)'.items)
    BY <1>0, <1>1 DEF TypeOK, Asks, Request
  <2> QED
    BY <1>0, <1>1, <1>2, <2>1, <2>2 DEF TypeOK
<1>5. HoldsOK'
  BY <1>0, <1>1, <1>2 DEF HoldsOK, Request, ItemId
<1>6. LocksOK'
  <2> SUFFICES ASSUME NEW i \in WalletIds, locks[i] # None
               PROVE  /\ store = "postgres" /\ wallets[i] # None
                      /\ latest[i].by = calls'[locks[i]].req
                      /\ \E k \in 1 .. calls'[locks[i]].done : ItemId(calls'[locks[i]].req, k) = i
    BY <1>2 DEF LocksOK, Request, Exists, ItemId
  <2>1. calls'[locks[i]] = calls[locks[i]]
    BY <1>1, <1>3
  <2> QED
    BY <1>0, <2>1 DEF LocksOK, Request, Exists
<1>7. VersionsOK' /\ NotMixed'
  BY <1>0, <1>2 DEF VersionsOK, NotMixed, Exists
<1> QED
  BY <1>4, <1>5, <1>6, <1>7 DEF IInv

LEMMA NextIInv == IInv /\ [Next]_vars => IInv'
<1> SUFFICES ASSUME IInv, [Next]_vars PROVE IInv'
  OBVIOUS
<1>1. CASE Next
  <2>1. ASSUME NEW c \in Calls, Waiting(c) \/ Running(c) PROVE IInv'
    BY <2>1, CreateWalletStep, UpdateWalletNameStep, UpdateItemStep, AddWhitelistStep,
       RecordSecurityEventStep, ReorderInMemoryStep, RollbackSteps, CommitStep DEF Waiting, Running
  <2> QED
    BY <1>1, <2>1, AskStep, RollbackSteps, CrashStep DEF Next
<1>2. CASE UNCHANGED vars
  BY <1>2 DEF vars, IInv, TypeOK, HoldsOK, LocksOK, VersionsOK, NotMixed, Exists, Request, Asks
<1> QED
  BY <1>1, <1>2

LEMMA Inductive == Spec => []IInv
BY InitIInv, NextIInv, PTL DEF Spec

-----------------------------------------------------------------------------
\* Types, and that a row is locked exactly as long as its transaction runs
\* (UpdateWalletOrder).
THEOREM TypeCorrect == Spec => []TypeOK
<1>1. IInv => TypeOK
  BY DEF IInv
<1> QED
  BY <1>1, Inductive, PTL

\* No reader sees a mix of two reorders of the same wallets, for any number of
\* transactions that overlap, wait, deadlock, fail and crash (UpdateWalletOrder).
THEOREM ReordersNotMixed == Spec => []NotMixed
<1>1. IInv => NotMixed
  BY DEF IInv
<1> QED
  BY <1>1, Inductive, PTL

-----------------------------------------------------------------------------
\* Wallets implements OrderPlacement.

KeepsWallet(id) == wallets'[id] = wallets[id] \/ SameWallet(wallets'[id], wallets[id])

Slots == Users \X Keys

PlacedNow == [k \in Slots |-> Registered(k[1], k[2])]

LEMMA InitPromise == Init => Promise!Init
BY DEF Init, Promise!Init, Registered, Exists

\* A create of a user's first wallet at an address.
NewWallet(c, id) ==
  LET r == Request(c) IN
  /\ r.user \in Users /\ r.key \in Keys /\ Existing(r) = {} /\ ~Exists(id)
  /\ wallets'[id] # None /\ wallets'[id].user = r.user /\ wallets'[id].key = r.key
  /\ \A i \in WalletIds \ {id} : wallets'[i] = wallets[i]

LEMMA IdentitySteps ==
  ASSUME IInv, Next
  PROVE  \/ \A id \in WalletIds : KeepsWallet(id)
         \/ \E c \in Calls, id \in WalletIds : NewWallet(c, id)
<1>0. TypeOK
  BY DEF IInv
<1>1. ASSUME NEW c \in Calls, CreateWallet(c)
      PROVE  \/ \A id \in WalletIds : KeepsWallet(id)
             \/ \E id \in WalletIds : NewWallet(c, id)
  <2> DEFINE r == Request(c)
  <2>1. r \in Requests /\ r.op = "create"
    BY <1>0, <1>1, AsksFree DEF CreateWallet
  <2>2. r.user \in Users /\ r.key \in Keys
    BY <2>1, RequestFields
  <2>3. ASSUME NEW id \in Existing(r), Store(id, Found(r, wallets[id]))
        PROVE  \A i \in WalletIds : KeepsWallet(i)
    <3>1. id \in WalletIds /\ wallets[id] \in Row /\ wallets[id] # None
          /\ wallets[id].user = r.user /\ wallets[id].key = r.key
      BY <1>0, <2>3 DEF Existing, Registered, Exists, TypeOK
    <3>2. /\ Found(r, wallets[id]).user = wallets[id].user
          /\ Found(r, wallets[id]).key = wallets[id].key
      BY <3>1 DEF Found, NewRow
    <3>3. Found(r, wallets[id]) # None
      <4>1. (IF r.name = "" THEN wallets[id].name ELSE r.name) \in Texts
        BY <2>1, <3>1, RequestFields DEF Row
      <4>2. Found(r, wallets[id]) \in Row
        BY <2>1, <2>2, <3>1, <4>1, RequestFields DEF Found, Row, NewRow
      <4> QED
        BY <4>2, Constants
    <3>4. wallets' = [wallets EXCEPT ![id] = Found(r, wallets[id])]
      BY <2>3 DEF Store
    <3> QED
      BY <1>0, <3>1, <3>2, <3>3, <3>4 DEF KeepsWallet, SameWallet, TypeOK
  <2>4. ASSUME NEW id \in WalletIds, Existing(r) = {}, ~Exists(id), Store(id, NewRow(r))
        PROVE  NewWallet(c, id)
    <3>1. wallets' = [wallets EXCEPT ![id] = NewRow(r)]
      BY <2>4 DEF Store
    <3>2. wallets'[id] = NewRow(r) /\ \A i \in WalletIds \ {id} : wallets'[i] = wallets[i]
      BY <1>0, <3>1 DEF TypeOK
    <3>3. NewRow(r).user = r.user /\ NewRow(r).key = r.key /\ NewRow(r) \in Row
      BY <2>1, <2>2, RequestFields DEF NewRow, Row
    <3> QED
      BY <2>2, <2>4, <3>2, <3>3, Constants DEF NewWallet
  <2> QED
    BY <1>1, <2>3, <2>4 DEF CreateWallet
<1>2. ASSUME NEW c \in Calls, UpdateWalletName(c) PROVE \A id \in WalletIds : KeepsWallet(id)
  <2> DEFINE r == Request(c)
  <2>1. r \in Requests /\ r.op = "rename"
    BY <1>0, <1>2, AsksFree DEF UpdateWalletName
  <2>2. r.id \in WalletIds /\ r.name \in Texts
    BY <2>1, RequestFields
  <2>3. CASE Owned(r, r.id)
    <3>1. wallets[r.id] \in Row /\ wallets[r.id] # None
      BY <1>0, <2>2, <2>3 DEF Owned, Exists, TypeOK
    <3>2. [wallets[r.id] EXCEPT !.name = r.name] \in Row
          /\ [wallets[r.id] EXCEPT !.name = r.name].user = wallets[r.id].user
          /\ [wallets[r.id] EXCEPT !.name = r.name].key = wallets[r.id].key
      BY <2>2, <3>1 DEF Row
    <3>3. wallets' = [wallets EXCEPT ![r.id] = [wallets[r.id] EXCEPT !.name = r.name]]
      BY <1>2, <2>3 DEF UpdateWalletName, Store
    <3> QED
      BY <1>0, <2>2, <3>1, <3>2, <3>3, Constants DEF KeepsWallet, SameWallet, TypeOK
  <2>4. CASE ~Owned(r, r.id)
    BY <1>2, <2>4 DEF UpdateWalletName, KeepsWallet
  <2> QED
    BY <2>3, <2>4
<1>3. ASSUME NEW c \in Calls, ReorderInMemory(c) PROVE \A id \in WalletIds : KeepsWallet(id)
  <2>1. Request(c) \in Requests /\ Request(c).op = "reorder"
    BY <1>0, <1>3, TypedCall DEF ReorderInMemory, Asks
  <2>2. \A id \in WalletIds : wallets'[id] = Placed(wallets[id], id, Request(c), Known(Request(c)))
    BY <1>3 DEF ReorderInMemory
  <2> QED
    BY <1>0, <2>1, <2>2, PlacedInMemory DEF KeepsWallet
<1>4. ASSUME NEW c \in Calls, Commit(c) PROVE \A id \in WalletIds : KeepsWallet(id)
  <2>1. \A id \in WalletIds : wallets'[id] \in {wallets[id], latest[id]}
    BY <1>4 DEF Commit
  <2> QED
    BY <2>1 DEF IInv, VersionsOK, KeepsWallet
<1>5. wallets' = wallets => \A id \in WalletIds : KeepsWallet(id)
  BY DEF KeepsWallet
<1>6. \/ wallets' = wallets
      \/ \E c \in Calls : \/ CreateWallet(c) \/ UpdateWalletName(c) \/ ReorderInMemory(c)
                          \/ Commit(c)
  BY DEF Next, Waiting, Running, Ask, UpdateItem, AddWhitelist, RecordSecurityEvent, UnknownItem,
         Fails, Crash, DeadlockAbort, Rollback
<1> QED
  BY <1>1, <1>2, <1>3, <1>4, <1>5, <1>6

LEMMA StepPromise == IInv /\ [Next]_vars => [Promise!Next]_PlacedNow
<1> SUFFICES ASSUME IInv, [Next]_vars PROVE Promise!Next \/ PlacedNow' = PlacedNow
  OBVIOUS
<1>1. CASE UNCHANGED vars
  BY <1>1 DEF vars, PlacedNow, Registered, Exists
<1>2. CASE \A id \in WalletIds : KeepsWallet(id)
  <2>1. \A user \in Users, key \in Keys : Registered(user, key)' = Registered(user, key)
    BY <1>2 DEF KeepsWallet, SameWallet, Registered, Exists
  <2>2. \A k \in Slots : Registered(k[1], k[2])' = Registered(k[1], k[2])
    BY <2>1 DEF Slots
  <2> QED
    BY <2>2 DEF PlacedNow
<1>3. ASSUME NEW c \in Calls, NEW id \in WalletIds, NewWallet(c, id) PROVE Promise!Next
  <2> DEFINE slot == <<Request(c).user, Request(c).key>>
  <2>1. slot \in Slots /\ PlacedNow[slot] = {}
    BY <1>3 DEF NewWallet, Slots, PlacedNow, Existing
  <2>2. ASSUME NEW k \in Slots
        PROVE  Registered(k[1], k[2])' = IF k = slot THEN {id} ELSE Registered(k[1], k[2])
    <3>1. k = <<k[1], k[2]>>
      BY DEF Slots
    <3>2. CASE k = slot
      <4>1. Registered(k[1], k[2]) = {} /\ k[1] = Request(c).user /\ k[2] = Request(c).key
        BY <1>3, <3>2 DEF NewWallet, Existing
      <4> QED
        BY <1>3, <3>2, <4>1 DEF NewWallet, Registered, Exists
    <3>3. CASE k # slot
      <4>1. k[1] # Request(c).user \/ k[2] # Request(c).key
        BY <3>1, <3>3
      <4> QED
        BY <1>3, <3>3, <4>1 DEF NewWallet, Registered, Exists
    <3> QED
      BY <3>2, <3>3
  <2>3. PlacedNow' = [PlacedNow EXCEPT ![slot] = {id}]
    BY <2>2 DEF PlacedNow
  <2> QED
    BY <2>1, <2>3 DEF Promise!Next, Promise!Place, PlacedNow, Slots
<1> QED
  BY <1>1, <1>2, <1>3, IdentitySteps

\* A user keeps one wallet per chain and address, whatever is repeated, renamed,
\* reordered or lost: each step registers a wallet where there was none, or
\* changes none of that (CreateWallet implements OrderPlacement).
THEOREM WalletsRegisterOnce == Spec => RegistersOnce
<1>1. Spec => []IInv
  BY Inductive
<1>2. IInv /\ [Next]_vars => [Promise!Next]_PlacedNow
  BY StepPromise
<1> QED
  BY <1>1, <1>2, InitPromise, PTL DEF Spec, RegistersOnce, Promise!Spec, PlacedNow, Slots
-----------------------------------------------------------------------------
\* Waiting comes to an end: what RequestsEnd needs of every state.

\* A transaction that its next statement, or its commit, does not keep waiting.
CanGo(d) ==
  /\ InTransaction(d)
  /\ \/ calls[d].done = Len(Request(d).items)
     \/ Updates(d) /\ (~Owned(Request(d), NextWallet(d)) \/ locks[NextWallet(d)] \in {None, d})

\* Handlers that wait for none outside.
Closed(S) == \A d \in S, e \in Calls : WaitsFor(d, e) => e \in S

\* Whoever holds a row, and whomever that one waits for in turn: one of them can
\* go on, or the deadlock detector finds a circle to break.
WaitingEnds ==
  \A id \in WalletIds : locks[id] # None =>
    \A S \in SUBSET Calls : locks[id] \in S /\ Closed(S) =>
      \E d \in S : CanGo(d) \/ Deadlocked(d)

\* Handlers that wait for each other: a smallest set of them is a circle.
LEMMA Circle ==
  ASSUME IsFiniteSet(Calls), NEW T \in SUBSET Calls, T # {},
         \A d \in T : \E e \in T : WaitsFor(d, e)
  PROVE  \E d \in T : Deadlocked(d)
<1> DEFINE Good(M) == M # {} /\ \A d \in M : \E e \in M : WaitsFor(d, e)
           Sizes == {Cardinality(M) : M \in {N \in SUBSET T : Good(N)}}
<1>1. \A M \in SUBSET T : IsFiniteSet(M) /\ Cardinality(M) \in Nat
  BY FS_Subset, FS_CardinalityType
<1>2. Sizes \subseteq Nat /\ Sizes # {}
  <2>1. T \in {N \in SUBSET T : Good(N)}
    OBVIOUS
  <2> HIDE DEF Good
  <2> QED
    BY <1>1, <2>1
<1>3. PICK n \in Sizes : \A m \in Sizes : ~ (<<m, n>> \in OpToRel(<, Nat))
  <2> HIDE DEF Sizes
  <2> QED
    BY <1>2, NatLessThanWellFounded, WFMin
<1>4. PICK M \in SUBSET T : Good(M) /\ n = Cardinality(M)
  <2> HIDE DEF Good
  <2> QED
    BY <1>3
<1>5. ASSUME NEW N \in SUBSET M, Good(N) PROVE N = M
  <2>1. Cardinality(N) \in Sizes /\ Cardinality(N) \in Nat /\ n \in Nat
    <3> HIDE DEF Good
    <3> QED
      BY <1>1, <1>2, <1>4, <1>5
  <2>2. ~ (Cardinality(N) < Cardinality(M))
    BY <1>3, <1>4, <2>1 DEF OpToRel
  <2> QED
    BY <1>1, <1>4, <2>1, <2>2, FS_Subset
<1> DEFINE Waited == {d \in M : \E g \in M : WaitsFor(g, d)}
<1>6. Waited \in SUBSET M /\ Good(Waited)
  BY <1>4
<1>7. \A d \in M : \E e, f \in M : WaitsFor(d, e) /\ WaitsFor(f, d)
  <2>1. Waited = M
    <3> HIDE DEF Good
    <3> QED
      BY <1>5, <1>6
  <2> QED
    BY <1>4, <2>1
<1>8. PICK d \in M : TRUE
  BY <1>4
<1> QED
  BY <1>7, <1>8 DEF Deadlocked

\* The holder of a row is in a transaction, which can go on or waits for another.
LEMMA HolderGoesOrWaits ==
  ASSUME IInv, NEW id \in WalletIds, locks[id] # None
  PROVE  /\ locks[id] \in Calls
         /\ CanGo(locks[id]) \/ \E e \in Calls : WaitsFor(locks[id], e)
<1> DEFINE d == locks[id]
<1>1. d \in Calls /\ store = "postgres" /\ calls[d].done > 0
  BY DEF IInv, TypeOK, LocksOK
<1> HIDE DEF d
<1>2. /\ Asks(d, "reorder") /\ calls[d].done <= Len(Request(d).items) /\ calls[d].done \in Nat
      /\ Request(d) \in Requests
  BY <1>1, TypedCall DEF IInv, Asks
<1>3. Len(Request(d).items) \in Nat
  BY <1>2, RequestFields, Element DEF Asks
<1>4. ASSUME calls[d].done = Len(Request(d).items)
      PROVE  CanGo(d)
  BY <1>1, <1>2, <1>4 DEF CanGo, InTransaction
<1>5. ASSUME calls[d].done < Len(Request(d).items)
      PROVE  CanGo(d) \/ \E e \in Calls : WaitsFor(d, e)
  <2>1. InTransaction(d) /\ Updates(d)
    BY <1>1, <1>2, <1>5 DEF InTransaction, Updates
  <2>2. calls[d].done + 1 \in 1 .. Len(Request(d).items)
    BY <1>2, <1>3, <1>5
  <2>3. NextWallet(d) \in WalletIds
    BY <1>2, <2>2, Item DEF NextWallet, Asks
  <2>4. locks[NextWallet(d)] \in Calls \cup {None}
    BY <2>3 DEF IInv, TypeOK
  <2> QED
    BY <2>1, <2>4 DEF CanGo, WaitsFor
<1> QED
  BY <1>1, <1>2, <1>3, <1>4, <1>5 DEF d

\* For finitely many handlers: no row is held for ever by transactions that wait
\* for each other unseen, in any order of the items of any requests.  Each wait
\* leads to a transaction that can go on or to a circle that the database breaks
\* (UpdateWalletOrder and its deferred Rollback).
THEOREM NobodyWaitsForEver ==
  ASSUME IsFiniteSet(Calls)
  PROVE  Spec => []WaitingEnds
<1>1. IInv => WaitingEnds
  <2> SUFFICES ASSUME IInv, NEW id \in WalletIds, locks[id] # None,
                      NEW S \in SUBSET Calls, locks[id] \in S, Closed(S),
                      \A d \in S : ~CanGo(d)
               PROVE  \E d \in S : Deadlocked(d)
    BY DEF WaitingEnds
  <2> DEFINE T == {d \in S : \E e \in Calls : WaitsFor(d, e)}
  <2>1. locks[id] \in T
    BY HolderGoesOrWaits
  <2>2. ASSUME NEW d \in T PROVE \E e \in T : WaitsFor(d, e)
    <3>1. PICK e \in Calls : WaitsFor(d, e)
      OBVIOUS
    <3>2. e \in S /\ Updates(d) /\ locks[NextWallet(d)] = e
      BY <3>1 DEF Closed, WaitsFor
    <3>3. e # None
      BY Constants
    <3>4. NextWallet(d) \in WalletIds
      <4>1. Request(d) \in Requests /\ Request(d).op = "reorder"
        BY <3>2, TypedCall DEF IInv, Updates, InTransaction, Asks
      <4>2. calls[d].done \in Nat /\ Len(Request(d).items) \in Nat
        BY <4>1, TypedCall, RequestFields, Element DEF IInv
      <4>3. calls[d].done + 1 \in 1 .. Len(Request(d).items)
        BY <3>2, <4>2 DEF Updates
      <4> QED
        BY <4>1, <4>3, Item DEF NextWallet
    <3>5. \E f \in Calls : WaitsFor(e, f)
      BY <3>2, <3>3, <3>4, HolderGoesOrWaits
    <3> QED
      BY <3>1, <3>2, <3>5
  <2>3. T \in SUBSET Calls /\ T # {} /\ T \subseteq S
    BY <2>1
  <2> HIDE DEF T
  <2>4. \E d \in T : Deadlocked(d)
    BY <2>2, <2>3, Circle
  <2> QED
    BY <2>3, <2>4
<1> QED
  BY <1>1, Inductive, PTL
===============================================================================
