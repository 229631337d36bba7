------------------------------- MODULE Wallets -------------------------------
(***************************************************************************)
(* internal/wallet: users register wallets and whitelisted addresses,       *)
(* rename wallets and put them in order.  MemoryStore does each request     *)
(* under one lock.  In PostgresStore a request is one statement, except     *)
(* that UpdateWalletOrder is a transaction with an UPDATE per item: it      *)
(* holds the row locks it got until it commits or rolls back, others wait   *)
(* for them, and a cycle of transactions is broken by aborting one.         *)
(***************************************************************************)
EXTENDS Naturals, Sequences, FiniteSets

CONSTANTS
  Calls,       \* handler goroutines
  WalletIds,   \* ids uuid or the database gives to wallets
  Users,
  Keys,        \* chain and address, as far as the store tells them apart
  Texts,       \* names and labels, "" among them
  Requests,    \* what clients send
  MaxFailures, \* bound on failed statements and crashes
  None         \* an absent row, label, request or lock holder

RequestType(r) ==
  CASE r.op = "create"    -> r.user \in Users /\ r.key \in Keys /\ r.name \in Texts /\ r.order \in Nat
    [] r.op = "rename"    -> r.user \in Users /\ r.id \in WalletIds /\ r.name \in Texts
    [] r.op = "reorder"   -> r.user \in Users /\ r.items \in Seq(WalletIds \X Nat) /\ r.items # <<>>
    [] r.op = "whitelist" -> r.user \in Users /\ r.key \in Keys /\ r.label \in Texts
    [] r.op = "event"     -> r.user \in Users /\ r.risk \in {"", "low", "high"}
    [] OTHER              -> FALSE

RequestsAssumption ==
  /\ MaxFailures \in Nat /\ "" \in Texts /\ None \notin Texts
  /\ None \notin Requests /\ None \notin Calls
  /\ \A r \in Requests : RequestType(r)

\* There is an id for every wallet that can be registered.
EnoughIds == Cardinality({<<r.user, r.key>> : r \in {s \in Requests : s.op = "create"}})
               <= Cardinality(WalletIds)

ASSUME WalletsAssumption == RequestsAssumption /\ EnoughIds

VARIABLES
  store,      \* "memory" or "postgres": which Store main.go wired
  wallets,    \* id -> the row readers see, or None
  latest,     \* id -> its newest version, which a transaction may not have committed
  locks,      \* id -> the goroutine whose transaction holds the row, or None
  whitelist,  \* user, key -> label, or None
  events,     \* the security events, by user and risk
  calls,      \* goroutine -> its request, and how many of its items are written
  failures    \* failures so far

vars == <<store, wallets, latest, locks, whitelist, events, calls, failures>>

\* "by" is history: the request the order is from.
Row == [user: Users, key: Keys, name: Texts, order: Nat, by: Requests]

NoneAssumption == None \notin Row
ASSUME NoneAssumption

Idle == [req |-> None, done |-> 0]

Request(c) == calls[c].req

Asks(c, op) == Request(c) # None /\ Request(c).op = op

TypeOK ==
  /\ store \in {"memory", "postgres"}
  /\ wallets \in [WalletIds -> Row \cup {None}]
  /\ latest \in [WalletIds -> Row \cup {None}]
  /\ locks \in [WalletIds -> Calls \cup {None}]
  /\ whitelist \in [Users \X Keys -> Texts \cup {None}]
  /\ events \subseteq Users \X {"low", "high"}
  /\ calls \in [Calls -> [req: Requests \cup {None}, done: Nat]]
  /\ failures \in 0 .. MaxFailures
  /\ \A id \in WalletIds : IF locks[id] = None THEN latest[id] = wallets[id]
                           ELSE calls[locks[id]].done > 0
  /\ \A c \in Calls : calls[c].done > 0 =>
       Asks(c, "reorder") /\ calls[c].done <= Len(Request(c).items)

Init ==
  /\ store \in {"memory", "postgres"}
  /\ wallets = [id \in WalletIds |-> None]
  /\ latest = wallets
  /\ locks = [id \in WalletIds |-> None]
  /\ whitelist = [k \in Users \X Keys |-> None]
  /\ events = {}
  /\ calls = [c \in Calls |-> Idle]
  /\ failures = 0

-----------------------------------------------------------------------------
\* Rows.

Exists(id) == wallets[id] # None

Owned(r, id) == Exists(id) /\ wallets[id].user = r.user

\* The wallet of a user with that chain and address.
Registered(user, key) ==
  {id \in WalletIds : Exists(id) /\ wallets[id].user = user /\ wallets[id].key = key}

\* Broken variant: a wallet that was renamed is not found.
ExistingUnlessRenamed(r) == {id \in Registered(r.user, r.key) : wallets[id].name = r.name}

\* The wallet a create finds.
Existing(r) == Registered(r.user, r.key)

NewRow(r) == [user |-> r.user, key |-> r.key, name |-> r.name, order |-> r.order, by |-> r]

\* What CreateWallet makes of a row it finds: MemoryStore returns it, the
\* upsert keeps nothing of it but its name, and that if no other is given.
Found(r, row) ==
  IF store = "memory" THEN row
  ELSE [NewRow(r) EXCEPT !.name = IF r.name = "" THEN row.name ELSE r.name]

\* A statement outside a transaction commits at once, and waits for one that
\* holds the row.
Store(id, row) ==
  /\ locks[id] = None
  /\ wallets' = [wallets EXCEPT ![id] = row]
  /\ latest' = [latest EXCEPT ![id] = row]

End(c) == calls' = [calls EXCEPT ![c] = Idle]

CreateWallet(c) ==
  /\ Asks(c, "create") /\ End(c)
  /\ LET r == Request(c) IN
       \/ \E id \in Existing(r) : Store(id, Found(r, wallets[id]))
       \/ /\ Existing(r) = {}
          /\ \E id \in WalletIds : ~Exists(id) /\ Store(id, NewRow(r))
  /\ UNCHANGED <<store, locks, whitelist, events, failures>>

UpdateWalletName(c) ==
  /\ Asks(c, "rename") /\ End(c)
  /\ LET r == Request(c) IN
       IF Owned(r, r.id) THEN Store(r.id, [wallets[r.id] EXCEPT !.name = r.name])
       ELSE UNCHANGED <<wallets, latest>>
  /\ UNCHANGED <<store, locks, whitelist, events, failures>>

AddWhitelist(c) ==
  /\ Asks(c, "whitelist") /\ End(c)
  /\ LET r == Request(c) IN
     whitelist' = [whitelist EXCEPT ![<<r.user, r.key>>] =
       IF @ = None \/ (store = "postgres" /\ r.label # "") THEN r.label ELSE @]
  /\ UNCHANGED <<store, wallets, latest, locks, events, failures>>

RecordSecurityEvent(c) ==
  /\ Asks(c, "event") /\ End(c)
  /\ LET r == Request(c) IN
     events' = events \cup {<<r.user, IF r.risk = "" THEN "low" ELSE r.risk>>}
  /\ UNCHANGED <<store, wallets, latest, locks, whitelist, failures>>

-----------------------------------------------------------------------------
\* UpdateWalletOrder.

ItemId(r, n) == r.items[n][1]

\* A row after the items ns of a reorder.
Placed(row, id, r, ns) ==
  LET at == {k \in ns : ItemId(r, k) = id} IN
  IF at = {} THEN row
  ELSE [row EXCEPT !.order = r.items[CHOOSE k \in at : \A j \in at : j <= k][2], !.by = r]

\* The items before the first one that is not a wallet of the user.
Known(r) == {n \in 1 .. Len(r.items) : \A k \in 1 .. n : Owned(r, ItemId(r, k))}

\* MemoryStore writes items until one is unknown, and keeps what it wrote.
ReorderInMemory(c) ==
  /\ Asks(c, "reorder") /\ store = "memory" /\ End(c)
  /\ LET r == Request(c) IN
     wallets' = [id \in WalletIds |-> Placed(wallets[id], id, r, Known(r))]
  /\ latest' = wallets'
  /\ UNCHANGED <<store, locks, whitelist, events, failures>>

NextWallet(c) == ItemId(Request(c), calls[c].done + 1)

InTransaction(c) == Asks(c, "reorder") /\ store = "postgres"

Updates(c) == InTransaction(c) /\ calls[c].done < Len(Request(c).items)

\* Broken variant: the UPDATE runs on the pool and not in the transaction.
UpdateItemOnPool(c) ==
  /\ Updates(c) /\ Owned(Request(c), NextWallet(c))
  /\ Store(NextWallet(c), Placed(latest[NextWallet(c)], NextWallet(c), Request(c), {calls[c].done + 1}))
  /\ calls' = [calls EXCEPT ![c].done = @ + 1]
  /\ UNCHANGED <<store, locks, whitelist, events, failures>>

\* The UPDATE of the next item, once no other transaction holds its row.
UpdateItem(c) ==
  /\ Updates(c) /\ Owned(Request(c), NextWallet(c)) /\ locks[NextWallet(c)] \in {None, c}
  /\ locks' = [locks EXCEPT ![NextWallet(c)] = c]
  /\ latest' = [latest EXCEPT ![NextWallet(c)] = Placed(@, NextWallet(c), Request(c), {calls[c].done + 1})]
  /\ calls' = [calls EXCEPT ![c].done = @ + 1]
  /\ UNCHANGED <<store, wallets, whitelist, events, failures>>

Held(C) == {id \in WalletIds : locks[id] \in C}

Commit(c) ==
  /\ InTransaction(c) /\ calls[c].done = Len(Request(c).items)
  /\ wallets' = [id \in WalletIds |-> IF id \in Held({c}) THEN latest[id] ELSE wallets[id]]
  /\ locks' = [id \in WalletIds |-> IF id \in Held({c}) THEN None ELSE locks[id]]
  /\ End(c)
  /\ UNCHANGED <<store, latest, whitelist, events, failures>>

\* Broken variant: the deferred Rollback is missing.
RollbackNever(C) ==
  /\ latest' = latest
  /\ locks' = locks
  /\ UNCHANGED wallets

Rollback(C) ==
  /\ latest' = [id \in WalletIds |-> IF id \in Held(C) THEN wallets[id] ELSE latest[id]]
  /\ locks' = [id \in WalletIds |-> IF id \in Held(C) THEN None ELSE locks[id]]
  /\ UNCHANGED wallets

\* Broken variant: the reorder is tried again.
UnknownItemRetried(c) ==
  /\ Updates(c) /\ ~Owned(Request(c), NextWallet(c))
  /\ Rollback({c})
  /\ calls' = [calls EXCEPT ![c].done = 0]
  /\ UNCHANGED <<store, whitelist, events, failures>>

\* An UPDATE that meets no row.
UnknownItem(c) ==
  /\ Updates(c) /\ ~Owned(Request(c), NextWallet(c))
  /\ Rollback({c}) /\ End(c)
  /\ UNCHANGED <<store, whitelist, events, failures>>

-----------------------------------------------------------------------------
\* The database.

\* A statement, a transaction or its request fails.
Fails(c) ==
  /\ store = "postgres" /\ Request(c) # None
  /\ failures < MaxFailures /\ failures' = failures + 1
  /\ Rollback({c}) /\ End(c)
  /\ UNCHANGED <<store, whitelist, events>>

\* The service restarts.
Crash ==
  /\ store = "postgres"
  /\ failures < MaxFailures /\ failures' = failures + 1
  /\ Rollback(Calls)
  /\ calls' = [c \in Calls |-> Idle]
  /\ UNCHANGED <<store, whitelist, events>>

WaitsFor(c, d) == c # d /\ Updates(c) /\ locks[NextWallet(c)] = d

\* Transactions that wait for each other in a circle.
Deadlocked(c) ==
  \E S \in SUBSET Calls : c \in S /\ \A d \in S : \E e, f \in S : WaitsFor(d, e) /\ WaitsFor(f, d)

\* The deadlock detector aborts the transaction that runs it.
DeadlockAbort(c) ==
  /\ Deadlocked(c)
  /\ Rollback({c}) /\ End(c)
  /\ UNCHANGED <<store, whitelist, events, failures>>

-----------------------------------------------------------------------------
Ask(c, r) ==
  /\ calls[c] = Idle
  /\ calls' = [calls EXCEPT ![c].req = r]
  /\ UNCHANGED <<store, wallets, latest, locks, whitelist, events, failures>>

Waiting(c) == CreateWallet(c) \/ UpdateWalletName(c) \/ UpdateItem(c)

Running(c) ==
  AddWhitelist(c) \/ RecordSecurityEvent(c) \/ ReorderInMemory(c) \/ UnknownItem(c) \/ Commit(c)

Next ==
  \/ \E c \in Calls : \/ \E r \in Requests : Ask(c, r)
                      \/ Waiting(c) \/ Running(c) \/ Fails(c) \/ DeadlockAbort(c)
  \/ Crash

Spec == Init /\ [][Next]_vars

\* Postgres hands a row to those that wait for it in turn; each backend that
\* waits runs the deadlock detector.
FairSpec ==
  /\ Spec
  /\ \A c \in Calls : SF_vars(Waiting(c)) /\ WF_vars(Running(c)) /\ WF_vars(DeadlockAbort(c))

-----------------------------------------------------------------------------
Reorders == {r \in Requests : r.op = "reorder"}

WalletsOf(r) == {ItemId(r, n) : n \in DOMAIN r.items}

\* What readers see is never a mix of two reorders of the same wallets, one
\* wallet placed by one and another by the other, although each wallet is
\* written by a statement of its own and transactions overlap, wait, abort and
\* crash (UpdateWalletOrder of PostgresStore; MemoryStore keeps half of a
\* reorder that fails).
NotMixed ==
  store = "postgres" =>
    \A r, s \in Reorders : \A i, j \in WalletsOf(r) \cap WalletsOf(s) :
      Exists(i) /\ Exists(j) /\ wallets[i].by = r /\ wallets[j].by = s => r = s

\* Every request comes to an end: no wallet stays locked for those that wait,
\* after errors and deadlocks too (the deferred Rollback of UpdateWalletOrder).
RequestsEnd == \A c \in Calls : Request(c) # None ~> Request(c) = None

Promise ==
  INSTANCE OrderPlacement
    WITH Requests <- Users \X Keys, Placements <- WalletIds,
         placed <- [k \in Users \X Keys |-> Registered(k[1], k[2])]

\* A user has one wallet per chain and address, whose id stays: no create,
\* repeated or concurrent, replaces it or adds another (CreateWallet of either
\* store promises of wallets what OrderPlacement says of orders).
RegistersOnce == Promise!Spec
===============================================================================
