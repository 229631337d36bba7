# Verification of xbit-core

TLA+ models of the Go services of xbit-core (`src/`), the TLC runs that check
them on small instances, and TLAPS proofs of what matters most for every value
of the parameters.  Run them with

    tlc -workers 2 -config HyperOrders_retries.cfg MCHyperOrdersPlacement
    tlapm MarketDataProofs.tla

`PROJECT.json` lists every run, the line of code each definition stands for, the
hazards of the code and the properties that watch them.

## 1. The system

xbit-core is a gateway and six HTTP services, each with a `Service` over a
`Store` (a mutex-guarded `MemoryStore` or a `PostgresStore`).

| component | state it keeps | operations | what is hard |
|---|---|---|---|
| hypertrader orders (`internal/hypertrader`) | order rows, audit events | create, cancel, sync status; order updates from the websocket bridge | nothing is held between a store call and an exchange call; answers are lost; the bridge writes the same rows |
| hypertrader agent signer | agent wallets, last nonce per agent | create, activate, sign | nonces under concurrent signers and a clock that goes back; a wallet disabled while it signs |
| hypertrader websocket bridge and live state | open order snapshots, fills, account snapshots | one goroutine per user: subscribe, reconcile, read; HTTP reads save snapshots too | reconnects lose messages, redeliver snapshots; two writers of a snapshot |
| hypertrader groups and addresses | groups, followed addresses and their groups | create (also in batches), update, delete | Postgres reads an address, merges and writes all of it back; nothing ties groups and addresses together |
| hypertrader symbols and preferences | a read-only table; a row per user and symbol | list; overwrite | – |
| stream bridge (`internal/streambridge`) | sequence number, ring of recent events per topic | publish, publish batch, recent, topics | number, publish and remember are three separate steps |
| trading (`internal/trading`) | quotes, orders, order events, fees | quote, create, update status, cancel | three writes per order without a transaction; retries |
| market data (`internal/marketdata`) | tokens, transactions, checkpoints | list, OHLC, transactions; ingest, load and save the checkpoint | nested read locks; blind checkpoint overwrite; repeated ingestion; transactions and candles made up for want of stored ones |
| identity (`internal/identity`) | challenges, sessions | challenge, login, refresh, logout | two refreshes, or a refresh and a logout, of one session |
| wallet (`internal/wallet`) | wallets and their order, whitelist, security events | create, rename, reorder, whitelist, record | a reorder is a transaction of many row locks in Postgres and half done where it fails in memory |
| gateway, config, db, health, httpx, cmd | none | routing, start and stop | (start-up and shutdown only) |
| pkg/money, pkg/auth, pkg/errors, pkg/requestid | none | parsing, arithmetic, tokens | rounding |

The services share the database.  One calls another through Go: hypertrader's
websocket bridge publishes with `streambridge.Service.Publish` (ws_bridge.go:522)
in a service of its own process; other producers post their events over HTTP.
Within a service one goroutine per request runs a method of `Service`; nothing is
held between its calls of the store, of the exchange or of the broker.  That is what the
models are about: each is a set of handlers (`Calls`) whose methods are cut at
those calls, so that every interleaving, a failing call and a crash between any
two of them are behaviours.

What makes each component correct:

* **Orders**: one submission per request id, whatever is repeated, lost or
  restarted; a row says filled only if the exchange filled its order or one that a
  client named for it, and the audit trail says submitted only of what was; of all
  the writers that race on a row only those that are late take back a terminal
  status or lose the exchange's order id.
* **Agent signer**: nonces of an agent grow; a signature was made by an agent
  the user had approved, for a request its policy allows; a wallet that is disabled
  signs for the requests that had read it, once for each, and for no other.
* **Live state**: a quiet connection whose subscriptions are all in effect means an
  up-to-date read model, but for a change the exchange had no reason to report; the
  next connection repairs what failed calls lost.
* **Stream bridge**: numbers are unique in one life of the process; a batch goes
  out in order and stops where it fails; a topic's ring shows sent events only, and
  once their handlers are done all that fit.
* **Sessions**: only the live token of a session refreshes it; a session that
  is logged out stays so; a token is exchanged once.
* **Spot orders**: one order per request id; amounts are those of the saved
  quote; fill time and event log tell what happened.
* **Market data**: readers and writers never block each other for good; the
  checkpoint never runs ahead of the transactions, whoever repeats what; an
  indexer gets to the end.
* **Wallets**: a wallet per user, chain and address, whose id stays; no reader
  sees a mix of two reorders; no request waits for ever.
* **Groups and addresses**: an address holds what was last given for each
  of its fields; a deleted one stays deleted.

## 2. Modules and plan

| module | models | composes or extends | status |
|---|---|---|---|
| `OrderStatusRules` | status words, their normalisation and merge | – | done |
| `HyperOrders` | handlers, store, exchange and bridge of futures orders | extends `OrderStatusRules` | done, proved |
| `OrderPlacement` | abstract: a request is placed at most once, for good | – | done |
| `HyperOrdersPlacement` | refinement mapping of `HyperOrders` to `OrderPlacement` | both | checked, proved |
| `HyperOrdersProofs` | proofs | `HyperOrders`, `HyperOrdersPlacement` | nine theorems |
| `NonceSource` | abstract: one larger nonce at a time | – | done |
| `AgentSigner` | agent wallets, nonces, signatures; implements `NonceSource` | instantiates `NonceSource` | done, proved |
| `AgentSignerProofs` | proofs | `AgentSigner` | four theorems |
| `StreamBridge` | publication of events | – | done, proved |
| `LiveState` | the bridge's goroutine for one user against the handlers | – | done, with liveness, proved |
| `BridgeProofs` | proofs | `StreamBridge`, `LiveState` | eight theorems |
| `Sessions` | login, refresh, logout | – | done, proved |
| `SessionsProofs` | proofs | `Sessions` | six theorems |
| `SpotOrders`, `SpotOrdersPlacement` | spot quotes and orders; implements `OrderPlacement` | instantiates `OrderPlacement` | done, proved |
| `SpotOrdersProofs` | proofs | `SpotOrders`, `SpotOrdersPlacement` | six theorems |
| `MarketData` | the store's read-write lock, ingestion, candles, and the indexers | – | done, with liveness, proved |
| `MarketDataProofs` | proofs | `MarketData` | three theorems |
| `Wallets` | creation, names, order, whitelist, events; implements `OrderPlacement` | instantiates `OrderPlacement` | done, with liveness, proved |
| `WalletsProofs` | proofs | `Wallets` | four theorems |
| `AddressBook` | groups and followed addresses | – | done, proved |
| `AddressBookProofs` | proofs | `AddressBook` | three theorems |

`OrderPlacement` is stated once and implemented three times: for futures orders
a placement is an order the exchange has received, for spot orders one that is
stored, for wallets the id of a registered wallet, whose request is its user
with chain and address.

An `MC` module beside each component names the model values and the inputs of its run.

What is left, in this order: network fees in `SpotOrders`; fundings and ledger
updates in `LiveState`.

## 3. How the models correspond to the code

### HyperOrders

`orders` is the `hyper_orders` table (or `MemoryStore.orders`): a row keeps the
owner, request id and cloid of its input, its status, which *kind* of provider
order id it holds (the exchange's own, the hash or the uuid of an answer), and
whether it has a submission and a cancel time.  `calls` holds, per handler, the
step it is at, the order, the row it read, the exchange order it asks about and the
answer it got: the local variables of `CreateOrder`, `CancelOrder` and
`SyncOrderStatus`.  `exch` and
`feed` are the exchange, which is external: what it does is taken from what
`http_provider.go` and `ws_bridge.go` send and expect.  `audits` keeps the two
audit events about submissions.

The body of a status request may name a provider order id, a cloid or both, and
what it names goes before what the row holds (service.go:229-230): a sync may bring
a row the status of another order.  `Names` are the bodies clients send, `Others`
exchange orders that have no row here; `key` is the exchange order a sync ends up
asking for, `names` whether its client named something, and `named` the history
of who named what for which row.  A cancel takes its order from the signed payload of
its row.  The run has a client name, by provider order id, an order placed elsewhere that
has filled (`OtherName`); the theorems are about any `Names`.

One step per call: `BeginCreate`, `InsertOrder` or `ReturnExisting`,
`SubmitAnswered` or `SubmitFailed` (before or after the exchange acted),
`MarkSubmitted`, `AuditSubmission`; the same for cancel and sync.
`DeliverUpdate` is one `UpdateOrderStatusByProvider`; `LoseUpdate` drops an
update (reconnect, ignored error); `StepFails` is a failing store or exchange
call; `Crash` ends every handler and empties the feed; it is a step of the Postgres instance only, because without a database a
restart is the initial state again.  `Store`
chooses which store's rules of duplicates and matching apply; the two differ
(owner by address, rows without an address, who writes the provider id).

### AgentSigner

`wallets` and `nonces` are the two tables; `calls` a `Sign` between the read of
the wallet and the nonce; `signatures` the order in which nonces were taken.
`Active` is `GetActiveAgentWallet` (the latest updated one; ties are a choice),
`NextNonce` the store's upsert.  The clock is an input of each step and goes
where it likes.

The code lets a registration's policy name its own actions in place of the
default list (`mergeAgentPolicy`, agent_signer.go:226); docs/risk/RISK_INVARIANTS.md:9
lists three actions only.  `SignedWithApproval` is about the policy the wallet
stores.

### StreamBridge

`seq` and `remembered` are `Service.seq` and `Service.events`; `published` is
what the broker received.  `Resolve`, `NextEnvelope` (first lock), `SendAcked` /
`SendFails` (no lock), `Remember` (second lock) are the steps of `publishEvent`;
`Restart` starts number and rings over while the broker keeps its messages.
There is no clock: an event keeps the `CreatedAt` its producer gave it and is dated by
the service only if it has none (streambridge/service.go:260-262), so dates say
nothing of order.  `resolveTopics` covers every event type, with a topic as the tuple of its parts.

### LiveState

One user.  `version` and `executed` are the exchange; `conn` the connection
and the messages on it; `bridge` the goroutine of `runUserLoop`; `snapshots`,
`stored`, `announced` what it writes and publishes.  Contents of a snapshot are a
version number.

The bridge writes its subscription frames (`Subscribe`, `asked`) and reconciles at
once; it does not look at acknowledgements (ws_bridge.go:119-152).  The exchange acts
on each frame at some time of its own (`TakeEffect`, `subscribed`), before, between or
after the answers of the reconciliation, and reports from then on; its fills begin with a
snapshot of the latest `SnapshotLimit`.  So a change may come after the
reconciliation's answer and before its subscription is in effect, and then reaches
nobody until the next change of that snapshot: `missed` records it.  `due` are the fills that
the exchange has told the bridge of since it dialed, in an answer or a message; an older
one, beyond both limits, is not among them.

`reads` are handlers in `Service.OpenOrders` and `Account`, which save what the provider
answered.  `Account` takes an answer without balance and positions for none
(`EmptyAccounts`) and falls back like after a failure: on the snapshot, else on
seeded balances.  `TradeHistory`, which appends the fills it was answered to those the
bridge appends, is left out: it can only add fills that happened.  `hurt` (a call of the bridge
failed on this connection), `late` (a handler saved an old answer last), `missed` and
`due` only record history, to say precisely when the read model may differ.

What the bridge publishes goes through the stream bridge, so one module proves
about both; where `StreamBridge` has `Init`, `Next`, `Spec` and `TypeOK`, this
one has `LiveInit`, `LiveNext`, `LiveSpec` and `LiveTypeOK`.

### Sessions

`sessions` is the table of that name (or the map); tokens are numbered as they are
issued, since `HashRefreshToken` keeps them apart.  Every method is cut at its
reads of the clock and calls of the store.  `store` is chosen in `Init`: only
Postgres refuses to touch a revoked row, only memory forgets in a restart.
`began`, `rivals` and `blind` record what held when a request came in.

### SpotOrders

`quotes`, `orders` and `events` are the tables; `had` every status a row has
had.  `CreateOrder` is `FindRequest`, `SaveQuote`, `InsertOrder`, `RecordEvent`;
`UpdateOrderStatus` and `CancelOrder` are `UpdateStatus`, `RecordEvent`.  A
failing insert or update may have reached the database.  `Quoted` computes fee,
output and minimum output as `pkg/money` does, rounding halves up at the 18th
digit.  A client's amount counts `Scale`-ths of such a unit, since `money.Parse` takes
any number of digits: an input of 0.6 units pays no fee and gives one unit, more than
was put in.  `OrdersAreQuoted` therefore has fee and output together within half a
unit of the input.

### MarketData

`store` says which store `main.go` wired.  A goroutine's `pc` tells where it is
in the memory store's `sync.RWMutex`: `LockRead` and `LockWrite` enter it, a
writer "drains" the readers that are in and keeps new ones out, `Write` lets
those in that wait.  `ReadStored` is a read that finds what it looks for;
`ReadNothing` is `OHLC` or `Transactions` calling `GetToken` with the lock held,
whose second `RLock` waits if a writer does; `ReadToken` makes candles or
transactions up for the token it finds, which may be another of the same address or symbol
on any chain (`Alike`), and which may well have stored transactions of its own.
A checkpoint that was never saved is answered with `notFound`, and an indexer takes that
for block 0.  `Statement` is a method of `PostgresStore`; the unique index refuses
a transaction that is there (`Refused`).  A transaction is its block's number;
candles are told only from no candles.

Indexers are external: what they do is taken from the `/v1/indexer` routes.
They load the checkpoint, post a transaction, save its block, and start over
after an error (`Told`).  `Abandon` is a request whose client gave up while the
handler goes on, so two requests of one indexer may be under way.

### Wallets

A row has the version readers see (`wallets`) and the newest one (`latest`),
which differ while a transaction has written it; `locks` says whose.  `Store` is
a statement outside transactions; it waits for a lock, and so does
`UpdateItem`, one UPDATE of a reorder.  `Commit` makes the versions of a
transaction visible, `Rollback` drops them, on an unknown wallet, a failing
statement, a crash or an abort of the deadlock detector (`Deadlocked`: a circle of
transactions that wait for each other; any of them may run the detector first).
`ReorderInMemory` writes the items up to the first unknown one and keeps them.
`by` in a row is history: the request its place is from.  The stores differ in
what they make of a wallet that is there (`Found`) and of a repeated whitelist entry; both
are in the actions.

### AddressBook

`groups` and `addresses` are the two tables.  `CreateAddress` is the next
address of a request or batch, `SkipAddress` one whose statement failed: the
batch goes on.  `UpdateInMemory` is one critical section;
`ReadAddress` and `WriteAddress` are the two statements of
`PostgresStore.UpdateAddress`, with `Merged` between them.  `asked` and
`raced` are history: what clients gave last, and which addresses were written
while another update had read them.  Groups and addresses are of one user.  Creating and
listing pass the owner to the store; `UpdateGroup`, `DeleteGroup`, `UpdateAddress`
and `DeleteAddress` take only the id, and that is what the model does: it changes the
row of that id, whoever asks.

## 4. Runs

| run | instance | shows |
|---|---|---|
| `orders_retries` | Postgres, 2 handlers, 2 rows, a request and its repetition without cloid and address, status requests that may name an order placed elsewhere | one submission, a true audit trail, honest rows, only late answers reopen rows or lose ids, `OrderPlacement` implemented (`PlacesOnce`) |
| `orders_downgrade` | memory, 1 handler, 1 row | **violated**: a late answer puts "submitted" over a terminal status |
| `orders_traceable` | Postgres, 1 handler, 1 row | **violated**: an answer's hash or uuid replaces the exchange's order id |
| `agent_signer` | 2 handlers, 2 agents, 1 user, 2 policies, clock 1..2, 2 signatures | approvals, how a disabled wallet drains, nonces, `NonceSource` implemented |
| `stream_bridge` | 2 handlers, rings of 2, 3 batches, 2 lives | unique numbers, ordered batches, complete rings |
| `live` | 2 fills, 1 handler, 1 change of a snapshot, the first account empty, reconciliation of 1 fill, fill snapshots of 2, 1 failure, 1 lost connection or crash | quiet means caught up; reconnects repair |
| `sessions` | 4 requests, 1 session, lifetime 1, clock 0..2, 1 failure or restart, either store | which tokens refresh, what a logout ends |
| `sessions_once` | the same | **violated**: one token exchanged twice |
| `spot_orders` | 3 handlers, 3 order ids, 2 users, 1 request id, 4 inputs in tenths of a unit, 1 failure or crash | one order per request, amounts, fill times, events, `OrderPlacement` implemented (`StoresOnce`) |
| `market_data` | 2 handlers, 2 indexers, 2 tokens of one symbol, 2 blocks, 3 other requests, 1 failure or crash, either store | only a nested read blocks; no gap before the checkpoint; indexers reach the end |
| `wallets` | 2 handlers, 2 wallets, 2 users, 10 requests, 2 failures or crashes, either store | no mix of reorders, requests end, `OrderPlacement` implemented (`RegistersOnce`) |
| `address_book` | 2 handlers, 3 addresses, 2 groups, 10 requests, 1 failure or crash, either store | fields are what was last given; deleted stays deleted |

Why the bounds are enough to be interesting: the hazards above all need two
actors on one piece of state, hence two handlers (or one and the bridge) on one
row, agent, topic, session, lock or address.  A third handler is there where a retry must meet
two others (spot orders) and a fourth where a login, two refreshes and a logout
must meet (sessions).  Two rows let a request be duplicated or confused with
another's.  A ring of two overflows with three messages.A reconciliation of
one fill misses the other, and one change is enough to fall between the reconciliation's answer
and the subscription.  Two wallets are the fewest two transactions can take in opposite
order, and the second failure lets one of them be rolled back after the other was.
Two blocks let a late save move the checkpoint back, two indexers
overlap.  One failure or crash is one at *any* step; combinations of several
are not explored in these runs, while the theorems of section 6 hold for any
number of them.  `orders_retries` has no bound on retries: a
handler that returns may begin again, and the state space is finite because
rows are.  `MaxSignatures` is in the guard of `FinishSign`, `MaxTime` in the `Tick` of
`Sessions`, `MaxLives` in `Restart`, `MaxChanges` in `Change`, `MaxFailures` and `MaxDrops`
in the steps that fail or drop, `MaxOutages` likewise; `MaxBlock` is the length
of the indexed chain, in `Index`.  The memory store of futures orders is in the
run `orders_downgrade` and in the theorems, which are about either store.

Deadlock is checked except where behaviours really end: in the stream bridge,
sessions, spot orders and live state every request may be answered and every
bounded event spent, in the address book the ids as well, so that a create
waits for one; in market data the nested read lock really stops
everything, which `OnlyNestedReadsBlock` describes exactly.  In the wallets,
where transactions wait for each other, it is checked.

### What the code does and its documents do not say

* `orders_downgrade`: the websocket's "filled" arrives before the answer to the
  submission; `CreateOrder` then writes "submitted" without a look.  The
  repository's own test says a terminal status should not be downgraded.  A
  later sync repairs it, a later order update does not come.
* `orders_traceable`: `UpdateOrder` prefers the new answer's id even if it is
  the transport's hash or a uuid made up for want of one.
* `sessions_once`: `RotateSession` rotates by session id, not by the token that
  was looked up, so two refreshes of one token both get an answer and one of
  the two pairs is dead.

Two more, which need no run to be seen: an event is dated by its producer, or else before
it is numbered, so `seq` and `ts` of two events may disagree
(`streambridge/service.go`), and `Account` answers with a seeded balance when the provider fails and nothing is
stored, which `docs/harness/NO_FALLBACK_POLICY.md:23` excludes.

## 5. Fairness

* `LiveState` asks weak fairness of `BridgeStep`, the steps of the user's
  goroutine: `runUserLoop` loops until its context ends and runs `runUserOnce`
  again after a pause whatever it returned, so the goroutine always gets on when it can.
  Of the exchange it asks weak fairness of `TakeEffect`: on a connection that lasts it acts on
  every subscription at some time, without which no bridge could keep up.
  Nothing is asked of handlers or of connections; that failures and lost
  connections come to an end is in their bounds.
  `ReconnectRepairs` then says: once no call fails any more and the bridge dials, the
  read model is the exchange's state again at some point.
* `MarketData` asks weak fairness of each goroutine's next step (they are
  scheduled), strong fairness of `LockWrite` (a `sync.Mutex` is handed to
  one that has waited long) and of an indexer's next request (an HTTP request
  gets a goroutine of its own, here one of the few `Calls`).  `CatchesUp`
  says that indexers reach the end of the chain: with the memory store unless
  a nested read has stopped it; with Postgres if nothing fails, because a
  transaction whose first answer was lost is refused when it is posted again, and an indexer
  cannot tell that from a failure.
* `Wallets` asks weak fairness of steps that never wait and of the deadlock
  abort (each backend that waits runs the detector), strong fairness of those
  that wait for a row (Postgres queues them).  `RequestsEnd` says that every
  request comes to an end.

## 6. Proofs

All for any number of handlers, rows, agents and requests, either store, and any
number of retries, lost answers and crashes, from the named assumptions of the
modules: the shape of inputs (`InputsAssumption` and its like), that `None` is
none of the rows, ids or requests, that times and bounds are numbers.  Each has
an inductive invariant; what it adds to the property is this.

`HyperOrders`:

* `TypeCorrect`, by `TypeInv`: types, and that a handler between two steps has
  an order that is still stored and a row that is one.  Types alone are not
  inductive because `UpdateOrder` applies to a stored row.
* `PlacedOnce`, by `PlacingInv`.  `PlacedAtMostOnce` does not say why a handler
  about to submit may: the invariant adds that each request has one row (the
  store's duplicate rule), that the order a handler is about to submit has
  never been sent (`SubmittersAreFirst`), and that no other handler is about to
  submit it (`SubmittersAreAlone`).
* `PlacesOnceInSpec`, by the same invariant: `SubmitAnswered` and `SubmitFailed`
  map to a placement of a request that has none, or to a stutter.
* `AuditIsTrue`, by `AuditInv`: a handler about to write the audit event knows
  that the exchange has the order, once, and that the row was written.
* `Stamped`, by `StampInv`: a sync stamps by the row it *read*, so the invariant
  also says that a row read as cancelled and stamped is still stamped.
* `FillsAreReal`, by `FillInv`.  A row, once a sync has merged another order's status,
  also takes that order's id, so later syncs ask for it though nobody names it again.
  The invariant therefore speaks of the *sources* of a row, its own order and those
  ever named for it: updates under way are about orders the exchange filled
  (`UpdatesAreTrue`), and what rows, rows read by handlers and answers know
  comes from a source (`RowsKnowSources`, `ReadsKnowSources`, `AnswersKnowSources`).
* `OnlyLateAnswers` and `OnlyLateAnswersForget` (`OnlyLateAnswersReopen`,
  `OnlyLateAnswersLoseIds`) bound what the runs `orders_downgrade` and
  `orders_traceable` find.  Only the answer of a row's own submission, or a sync that read
  the row before it was over, takes it back to "submitted"; cancels and the bridge never do.
  Only the answer of its submission, a cancel or a sync that read the row before it held the
  exchange's id, or a sync whose client named an order itself, loses that id.  The
  latter needs `SyncsKeepIds`: a sync that read the exchange's id, and whose
  client named nothing, asks for it and writes it back.
* `RedeliveryHarmless`: an update applied twice does what it does once.

`AgentSigner`:

* `ApprovedSignatures`, by `IInv`: a handler that has read an active wallet works
  on one that was approved, and approval is never undone, so the signature keeps
  to it although the status may have changed.
* `NoncesMonotonic`: `AgentSigner` implements `NonceSource`.  `IInv` bounds the
  nonces used by the stored last nonce; the step that signs maps to `Give`, all
  others to stuttering.
* `TypeCorrect`, by the same invariant.
* `DisabledDrains`: no handler joins those that work on a wallet once it is disabled, and
  every nonce taken by its agent after that uses one of them up.

`Sessions`: one `IInv` for `TypeCorrect`, `RefreshesAreLive`, `LogoutsEnd`,
`LoggedOutStays`, and with one conjunct more each `ExchangedTokensDie` and
`OrphansAreLostAnswers`.

* `PairsOK`, `OwnersOK`, `FreshOK`: a token is drawn once, a row holds only
  tokens drawn for its own session, and nobody knows a session before its login
  has stored it; so no token is in two rows, or back in one after it was
  rotated away.
* `RefreshOK`: a refresh that came in with a token no session had finds none
  later either, and is not answered with a pair.
* `LogoutFinds`, `LogoutRevokes`: between lookup and revocation the row is still
  the one, or a rival refresh or a failure has been recorded; with that,
  `LogoutEnds` is preserved by every handler's steps.
* `RefreshNames`: a refresh rotates the session its token was good for when it came
  in, so once it is answered no session holds that token.  This is what is true
  of a token that the run `sessions_once` sees exchanged twice.
* `TokensAreWritten`: a stored token was drawn by a request that has returned;
  if no answer carries it, that request failed after its write.

`SpotOrders`: `TypeInv` for `TypeCorrect`, and one invariant more for each of
the others; every step either leaves the rows, inserts one or updates one
(`RowStep`).

* `OneOrder`, by `RequestInv`: a request has one row (`UniqueRequests`, the
  store's duplicate rule), and a handler that answers has a row of its request.
* `FillTimes`, by `FilledInv`: an order that is not stored has had no status.
* `AllQuoted`, by `QuotedInv`: a handler about to insert has saved the quote its
  row will name.  The amounts, for every natural number of `Scale`-ths, rest on
  lemmas about rounding: `RoundedIsNear` (half a unit around the fraction), `FeeLeaves` (a
  fee of at most one half, rounded, is not more than the amount), `Share` and
  `Left` (so much is at least left of the output by the slippage).
* `HistoryTold`, by `EventInv`: a status no event tells yet is the one a handler
  is about to record (`AllTold`), and such a handler knows a status the row has
  had although the row may have changed since.
* `StoresOnceInSpec`: an insert of a request with an id maps to `Place`.

`MarketData`: `IInv` for `TypeCorrect` and `NoGapInSpec`.

* `CallsOK`, `IndexersOK`: an indexer that has got to a block, and a save that
  is under way even if its client gave up, have every transaction up to it
  behind them.  Without the abandoned saves `NoGap` is not inductive.
* `OneCall`: an indexer has one request under way that it listens to.
* `OnlyNestedReadsBlockInSpec` by `WaitersOK`: readers wait only while there is
  a writer.  If every request waits, that writer waits for a reader that is in,
  which waits itself: it asks for the lock again.

`Wallets`: `IInv` for `TypeCorrect` and `ReordersNotMixed`.

* `HoldsOK`: a transaction holds every row it has written, so all of its places
  become visible at once; `LocksOK`: a row that is held was placed by its
  holder in the newest version; `VersionsOK`: two versions of a row are the same
  wallet, so that a row owned at the UPDATE is owned at the commit.  With these
  a commit puts *all* the wallets of its request in place, those it shares with
  another reorder among them (`NotMixed`).
* the last item of a request that names a wallet exists as the least element of
  a well-founded order, since requests may name a wallet twice.
* `WalletsRegisterOnce`: `Wallets` implements `OrderPlacement`; a create maps to a
  placement if there is no row, and keeps the id if there is one.
* `NobodyWaitsForEver`, the part of `RequestsEnd` that is a safety property: follow
  those a holder of a row waits for, and somebody can go on or a circle is
  there for the deadlock detector.  A holder is in a transaction and can go on
  unless another holds its next row (`HolderGoesOrWaits`); a smallest set of handlers
  that wait for each other is a circle (`Circle`).  It assumes that finitely many
  handlers run, the only theorem that needs it.

`AddressBook`: `IInv` for `TypeCorrect` and `FieldsKept`: the row a handler
holds between read and write is still the stored one, unless it was deleted or
its address is among `raced` (`ReadersOK`); what was last given is a row
(`AskedOK`).  `DeletedForGood` needs that ids are given once.

`StreamBridge`: `TypeInv` for `TypeCorrect`; it adds where a handler is in its
batch (`CursorOK`), without which the topic it is about to send to need not exist.

* `NumbersUnique`, by `SeqInv`: the numbers of this life, sent or given, are at
  most the last one.
* `BatchesInOrder`, by `OrderInv`: what a handler has left behind in its batch is
  out with success, and is all it has sent (`CursorAt`); hence the next message
  it sends is the next of its batch, whatever others have sent in between.
* `RecentComplete`, by `RecentInv`: a message sent with success is in its ring, or
  its handler has yet to remember it, or the ring is full (`NothingLost`); and
  no ring shows a message twice, because none is sent twice (`SeqInv`), which is
  what makes counting the ring right.
* `TopicsGetEventsOnce`, from `OrderInv`: an event's topics differ (`Distinct`), each of
  its messages is sent once, so a topic gets it at most once.

`LiveState`: `LiveInv` for `LiveTypeCorrect`, `LiveInvariant` and `QuietCaughtUp`.
`QuietIsCaughtUp` speaks only of connections with nothing left to read; what
makes it true is what holds while there is.

* `PlaceInv`: types, how far the goroutine is in its setup at each place of
  the loop (`StepOK`), and that the subscriptions of an open connection are asked for exactly from
  the setup's first step on, with none in effect before (`SubscriptionOK`).
* `FillsHappened`: nothing says a fill that did not happen.
* `SnapshotInv`: on an open connection the answer of a reconciliation that a
  change overtook is followed by the newest version in a message, or the change is among
  `missed` (`AnswerCorrected`); every older message is followed by the newest one
  (`NewestLast`); if nothing has failed on it, an outdated stored snapshot is followed likewise,
  unless a handler saved an old answer last (`SnapshotsFollow`).
* `FillInv`: if nothing has failed either, a fill the bridge was told of (`due`) that is not
  announced or not stored is in a message, or in the goroutine's hands (`FillsFollow`).

Model-checked only: liveness (`ReconnectRepairs`, `CatchesUp`, `RequestsEnd`),
which is out of the prover's reach.

## 7. Not modelled

* Hypertrader's symbols (a read-only table) and preferences (one row per user
  and symbol, overwritten whole); the names and display order of groups and the
  profit columns of addresses, which no operation looks at.
* Formats of Hyperliquid's messages, of GraphQL and of HTTP: conversions without
  state.  The GraphQL handlers call the `Service` methods the models are about.
* The gateway, configuration, health checks and process start: no state after start-up.
* Access tokens and the middleware: stateless.  `CreateNonceChallenge`: no code
  reads its nonces.
* Of the bridge: fundings, ledger updates, liquidations and raw events, which
  are only passed on.  Of spot orders: network fee snapshots, transaction hash,
  failure code, expiry.

Seen while reading and not a matter of any property here: favouriting a symbol
through GraphQL writes a preference with default leverage
(`hypertrader/graphql.go:92`); renaming the default group there un-marks it, so
that Postgres no longer keeps it from being deleted (`hypertrader/graphql.go:253`);
the id of a deleted group stays in its addresses; the memory store compares
chain types without regard to case and Postgres exactly.
