------------------------------ MODULE HyperOrders ------------------------------
(***************************************************************************)
(* The life of a futures order in internal/hypertrader: HTTP handlers run   *)
(* Service.CreateOrder, CancelOrder and SyncOrderStatus concurrently, each  *)
(* a sequence of store calls and exchange calls with nothing held across    *)
(* them, while the websocket bridge applies the exchange's order updates to *)
(* the same rows.  A store call is atomic (a mutex in MemoryStore, one SQL  *)
(* statement in PostgresStore); an exchange call may time out before or     *)
(* after the exchange acted on it; the process may crash between any two    *)
(* steps.                                                                   *)
(*                                                                          *)
(* The exchange is external: it is modelled from what http_provider.go and  *)
(* ws_bridge.go send to it and expect from it.                              *)
(***************************************************************************)
EXTENDS Naturals, Sequences, OrderStatusRules

CONSTANTS
  Calls,      \* handler goroutines
  OrderIds,   \* ids uuid.NewString can return
  Others,     \* exchange orders placed elsewhere, that filled and have no row here
  Inputs,     \* the CreateOrderInputs clients send
  Names,      \* what the bodies of status requests name: a provider order id, a cloid
  Store,      \* "memory" or "postgres": which Store main.go wired
  None        \* an absent user, address, request id, row or order id

\* What the model keeps of a CreateOrderInput: who sends it (either half of the
\* owner may be empty), its clientRequestId, and whether it carries a cloid.
\* Cloids identify one order each.
InputsAssumption ==
  /\ \A in \in Inputs : /\ DOMAIN in = {"user", "address", "req", "cloid"}
                        /\ in.cloid \in BOOLEAN
  /\ Store \in {"memory", "postgres"}
ASSUME InputsAssumption

VARIABLES
  orders,  \* order id -> row of the orders table, or None
  calls,   \* goroutine -> where it is, its order, the row it read, what it was told
  exch,    \* order id -> how often it reached the exchange, and its state there
  feed,    \* order id -> orderUpdates the exchange sent and the bridge has not read
  audits,  \* <<action, order id>> of the audit events about order submissions (the
           \* other audit events are written after everything else and never read)
  named    \* history: <<o, p>> once a client asked for row o naming order p

vars == <<orders, calls, exch, feed, audits, named>>

\* What a provider order id column holds: nothing, the exchange's own id of an
\* order (the one its updates carry, written here as the order), or the id of
\* an answer that named none.
ExchangeOrders == OrderIds \cup Others
ProviderIds == {"", "hash", "uuid"} \cup ExchangeOrders

Row == [input: Inputs, status: RowStatuses, poid: ProviderIds,
        submitted: BOOLEAN, cancelled: BOOLEAN]

NoneAssumption == /\ None \notin ExchangeOrders /\ None \notin Row
                  /\ {"", "hash", "uuid"} \cap ExchangeOrders = {}
                  /\ OrderIds \cap Others = {}
ASSUME NoneAssumption

\* A request that names nothing has "" and None; a cloid stands for its order.
NamesAssumption == Names \subseteq [poid: ProviderIds, cloid: ExchangeOrders \cup {None}]
ASSUME NamesAssumption

ExchangeStates == {"absent", "open", "filled", "canceled", "rejected"}

AuditPcs == {"order_submitted", "order_submit_failed"}

Pcs == {"idle", "insert", "submit", "markSubmitted", "cancel", "markCancelled",
        "query", "markSynced"} \cup AuditPcs

\* A goroutine: the order and the row it works on, the exchange order its request
\* is about and whether the client named it, and what it was told.  replyId is
\* first the id a status request goes out with, which an answer falls back on.
Call == [pc: Pcs, id: OrderIds \cup {None}, input: Inputs \cup {None},
         seen: Row \cup {None}, key: ExchangeOrders \cup {None}, names: BOOLEAN,
         reply: RawStatuses, replyId: ProviderIds]

Idle == [pc |-> "idle", id |-> None, input |-> None, seen |-> None, key |-> None,
         names |-> FALSE, reply |-> "", replyId |-> ""]

TypeOK ==
  /\ orders \in [OrderIds -> Row \cup {None}]
  /\ calls  \in [Calls -> Call]
  /\ exch   \in [OrderIds -> [sent: Nat, state: ExchangeStates]]
  /\ feed   \in [OrderIds -> Seq(RawStatuses)]
  /\ audits \subseteq (AuditPcs \X OrderIds)
  /\ named  \subseteq (OrderIds \X ExchangeOrders)

Init ==
  /\ orders = [o \in OrderIds |-> None]
  /\ calls  = [c \in Calls |-> Idle]
  /\ exch   = [o \in OrderIds |-> [sent |-> 0, state |-> "absent"]]
  /\ feed   = [o \in OrderIds |-> <<>>]
  /\ audits = {}
  /\ named  = {}

firstNonEmpty(a, b) == IF a # "" THEN a ELSE b

Stored == {o \in OrderIds : orders[o] # None}

-----------------------------------------------------------------------------
\* The store.

\* Whether two owners are one to MemoryStore: decided by the user ids if both
\* have one, else by the addresses if both have one, else always.
sameOwner(a, b) ==
  IF None \notin {a.user, b.user} THEN a.user = b.user
  ELSE None \notin {a.address, b.address} => a.address = b.address

\* Broken variant: the insert never looks for an earlier order of the request.
DuplicateNever(a, b) == FALSE

\* Whether the store answers an insert of b with the row of a instead.  Postgres
\* has a partial unique index on (user_id, client_request_id).
Duplicate(a, b) ==
  /\ a.req = b.req /\ b.req # None
  /\ IF Store = "memory" THEN sameOwner(a, b)
                         ELSE a.user # None /\ a.user = b.user

NewRow(in) == [input |-> in, status |-> "pending", poid |-> "",
               submitted |-> FALSE, cancelled |-> FALSE]

\* Broken variant: an UpdateOrder with no cancel time erases the row's.
UpdateErasesStamps(row, u) ==
  [row EXCEPT !.status    = u.status,
              !.poid      = firstNonEmpty(u.poid, @),
              !.submitted = u.submitted,
              !.cancelled = u.cancelled]

\* Store.UpdateOrder: the status is overwritten whatever the row holds, the
\* other columns are kept when the update has no value for them.
UpdateOrder(row, u) ==
  [row EXCEPT !.status    = u.status,
              !.poid      = firstNonEmpty(u.poid, @),
              !.submitted = @ \/ u.submitted,
              !.cancelled = @ \/ u.cancelled]

Update(status, poid, submitted, cancelled) ==
  [status |-> status, poid |-> poid, submitted |-> submitted, cancelled |-> cancelled]

\* Whether an orderUpdates item about exchange order p, sent to the account of
\* p, is about row o: it carries p's oid, which the row holds once an answer or
\* an update gave it, and p's cloid, which the client chose.  Rows without an
\* address are no one's for Postgres.
MatchesUpdate(row, o, p) ==
  /\ row.poid = p \/ (o = p /\ row.input.cloid)
  /\ None \in {row.input.address, orders[p].input.address} \/ row.input.address = orders[p].input.address
  /\ Store = "postgres" => row.input.address # None

\* Broken variant: the bridge writes the update's status without merging it.
ApplyUpdateOverwrites(row, p, raw) ==
  [row EXCEPT !.status    = normalizeProviderOrderStatus(raw),
              !.poid      = IF Store = "postgres" THEN p ELSE @,
              !.cancelled = @ \/ normalizeProviderOrderStatus(raw) = "cancelled"]

\* Store.UpdateOrderStatusByProvider on one matching row; only Postgres
\* writes the order id the update carries.
ApplyUpdate(row, p, raw) ==
  LET next   == normalizeProviderOrderStatus(raw)
      merged == mergeSyncedOrderStatus(row.status, next)
  IN [row EXCEPT !.status    = merged,
                 !.poid      = IF Store = "postgres" THEN p ELSE @,
                 !.cancelled = @ \/ (IF Store = "postgres" THEN next ELSE merged)
                                    = "cancelled"]

-----------------------------------------------------------------------------
\* The exchange.  It tells the account's websocket every change of an order.

Report(o, raw) == feed' = [feed EXCEPT ![o] = Append(@, raw)]

\* It receives a submission: the first one of an order is accepted, filled at
\* once, or refused.
ReceiveSubmission(o, state) ==
  /\ state \in {"open", "filled", "rejected"}
  /\ exch' = [exch EXCEPT ![o] = [sent  |-> @.sent + 1,
                                  state |-> IF @.state = "absent" THEN state ELSE @.state]]
  /\ IF exch[o].state = "absent" THEN Report(o, state) ELSE UNCHANGED feed

\* It receives a cancel: an order that is open is cancelled, any other is not.
ReceiveCancel(o) ==
  IF exch[o].state = "open"
  THEN /\ exch' = [exch EXCEPT ![o].state = "canceled"]
       /\ Report(o, "canceled")
  ELSE UNCHANGED <<exch, feed>>

ExchangeFill(o) ==
  /\ exch[o].state = "open"
  /\ exch' = [exch EXCEPT ![o].state = "filled"]
  /\ Report(o, "filled")
  /\ UNCHANGED <<orders, calls, audits, named>>

\* A margin call, self-trade prevention, or the user on another client.
ExchangeCancel(o) ==
  /\ exch[o].state = "open"
  /\ ReceiveCancel(o)
  /\ UNCHANGED <<orders, calls, audits, named>>

\* orderStatusOID: a provider order id that is a number or a hash is the key of a
\* status request, else the cloid is.  The exchange knows no order by a hash.
orderStatusOID(poid, cloid) ==
  IF poid \in ExchangeOrders THEN poid ELSE IF poid = "hash" THEN None ELSE cloid

StateOf(p) == IF p \in Others THEN "filled" ELSE exch[p].state

\* What the exchange answers to a status request with this key; an answer
\* that names no order is taken for one about the id the request went out with.
Lookup(key, id) ==
  IF key = None \/ StateOf(key) = "absent" THEN [raw |-> "unknownOid", id |-> id]
                                           ELSE [raw |-> StateOf(key), id |-> key]

-----------------------------------------------------------------------------
\* The handlers.

Return(c) == calls' = [calls EXCEPT ![c] = Idle]

\* CreateOrder, a valid input that is signed or needs no signature.  A request
\* refused here (bad input, the signer's refusal) touches no order.
BeginCreate(c, in) ==
  /\ calls[c].pc = "idle"
  /\ calls' = [calls EXCEPT ![c] = [Idle EXCEPT !.pc = "insert", !.input = in]]
  /\ UNCHANGED <<orders, exch, feed, audits, named>>

\* store.CreateOrder answers with an earlier order of the same request: it is
\* returned as it is, whatever became of it.
ReturnExisting(c) ==
  /\ calls[c].pc = "insert"
  /\ \E o \in Stored : Duplicate(orders[o].input, calls[c].input)
  /\ Return(c)
  /\ UNCHANGED <<orders, exch, feed, audits, named>>

InsertOrder(c) ==
  /\ calls[c].pc = "insert"
  /\ \A o \in Stored : ~Duplicate(orders[o].input, calls[c].input)
  /\ \E o \in OrderIds \ Stored :
       /\ orders' = [orders EXCEPT ![o] = NewRow(calls[c].input)]
       /\ calls'  = [calls EXCEPT ![c] = [Idle EXCEPT !.pc = "submit", !.id = o]]
  /\ UNCHANGED <<exch, feed, audits, named>>

\* provider.SubmitOrder answers.  A refusal by the exchange is an answer too.
SubmitAnswered(c, state) ==
  /\ calls[c].pc = "submit"
  /\ ReceiveSubmission(calls[c].id, state)
  /\ \E id \in (IF state = "rejected" THEN {"hash", "uuid"}
                                     ELSE {calls[c].id, "hash"}) :
       calls' = [calls EXCEPT ![c] = [@ EXCEPT !.pc = "markSubmitted", !.replyId = id]]
  /\ UNCHANGED <<orders, audits, named>>

\* Broken variant: a submission that failed is taken for one that worked.
SubmitErrorIgnored(c) ==
  /\ calls[c].pc = "submit"
  /\ calls' = [calls EXCEPT ![c] = [@ EXCEPT !.pc = "markSubmitted", !.replyId = "uuid"]]
  /\ UNCHANGED <<orders, exch, feed, audits, named>>

\* provider.SubmitOrder fails: before the exchange saw the order, or after.
SubmitFailed(c) ==
  /\ calls[c].pc = "submit"
  /\ \/ UNCHANGED <<exch, feed>>
     \/ \E state \in ExchangeStates : ReceiveSubmission(calls[c].id, state)
  /\ calls' = [calls EXCEPT ![c] = [@ EXCEPT !.pc = "order_submit_failed"]]
  /\ UNCHANGED <<orders, audits, named>>

MarkSubmitted(c) ==
  LET o == calls[c].id
  IN /\ calls[c].pc = "markSubmitted"
     /\ orders' = [orders EXCEPT ![o] =
                     UpdateOrder(@, Update("submitted", calls[c].replyId, TRUE, FALSE))]
     /\ calls' = [calls EXCEPT ![c] = [@ EXCEPT !.pc = "order_submitted", !.replyId = ""]]
     /\ UNCHANGED <<exch, feed, audits, named>>

\* The audit event that ends CreateOrder.
AuditSubmission(c) ==
  /\ calls[c].pc \in AuditPcs
  /\ audits' = audits \cup {<<calls[c].pc, calls[c].id>>}
  /\ Return(c)
  /\ UNCHANGED <<orders, exch, feed, named>>

\* CancelOrder and SyncOrderStatus start by reading the row.  What the exchange
\* is sent to cancel is the payload the client or the signer signed: the row's
\* order or another one, which may be none the exchange has.
BeginCancel(c, o, key) ==
  /\ calls[c].pc = "idle" /\ o \in Stored
  /\ calls' = [calls EXCEPT ![c] = [Idle EXCEPT !.pc = "cancel", !.id = o,
                                                !.seen = orders[o], !.key = key]]
  /\ UNCHANGED <<orders, exch, feed, audits, named>>

\* The cloid column of a row, empty when its client chose none.
Cloid(o, row) == IF row.input.cloid THEN o ELSE None

\* The ids the request body names go before the row's.
BeginSync(c, o, n) ==
  LET poid  == firstNonEmpty(n.poid, orders[o].poid)
      cloid == IF n.cloid # None THEN n.cloid ELSE Cloid(o, orders[o])
      key   == orderStatusOID(poid, cloid)
  IN /\ calls[c].pc = "idle" /\ o \in Stored
     /\ calls' = [calls EXCEPT ![c] =
                    [Idle EXCEPT !.pc = "query", !.id = o, !.seen = orders[o],
                                 !.key = key, !.names = n.poid # "" \/ n.cloid # None,
                                 !.replyId = poid]]
     /\ named' = named \cup ({o} \X ((ExchangeOrders \cap {n.poid, n.cloid}) \ {o}))
     /\ UNCHANGED <<orders, exch, feed, audits>>

\* provider.CancelOrder answers.  The exchange's "nothing to cancel" comes in
\* the body of an answer nobody inspects.
CancelAnswered(c) ==
  /\ calls[c].pc = "cancel"
  /\ ReceiveCancel(calls[c].key)
  /\ \E id \in {"hash", "uuid"} :
       calls' = [calls EXCEPT ![c] = [@ EXCEPT !.pc = "markCancelled", !.key = None,
                                             !.replyId = id]]
  /\ UNCHANGED <<orders, audits, named>>

CancelFailed(c) ==
  /\ calls[c].pc = "cancel"
  /\ UNCHANGED <<exch, feed>> \/ ReceiveCancel(calls[c].key)
  /\ Return(c)
  /\ UNCHANGED <<orders, audits, named>>

\* Broken variant: the answer's id goes before the one the row had.
MarkCancelledByAnswer(c) ==
  LET o == calls[c].id
  IN /\ calls[c].pc = "markCancelled"
     /\ orders' = [orders EXCEPT ![o] = UpdateOrder(@, Update("cancelled",
                     firstNonEmpty(calls[c].replyId, calls[c].seen.poid), FALSE, TRUE))]
     /\ Return(c)
     /\ UNCHANGED <<exch, feed, audits, named>>

MarkCancelled(c) ==
  LET o == calls[c].id
  IN /\ calls[c].pc = "markCancelled"
     /\ orders' = [orders EXCEPT ![o] = UpdateOrder(@, Update("cancelled",
                     firstNonEmpty(calls[c].seen.poid, calls[c].replyId), FALSE, TRUE))]
     /\ Return(c)
     /\ UNCHANGED <<exch, feed, audits, named>>

QueryAnswered(c) ==
  /\ calls[c].pc = "query"
  /\ LET answer == Lookup(calls[c].key, calls[c].replyId)
     IN calls' = [calls EXCEPT ![c] = [@ EXCEPT !.pc = "markSynced", !.key = None,
                                             !.reply = answer.raw, !.replyId = answer.id]]
  /\ UNCHANGED <<orders, exch, feed, audits, named>>

\* The status is merged with the one read before the exchange was asked.
MarkSynced(c) ==
  LET o    == calls[c].id
      seen == calls[c].seen
      next == mergeSyncedOrderStatus(seen.status, normalizeProviderOrderStatus(calls[c].reply))
  IN /\ calls[c].pc = "markSynced"
     /\ orders' = [orders EXCEPT ![o] = UpdateOrder(@, Update(next,
                     firstNonEmpty(calls[c].replyId, seen.poid), FALSE,
                     next = "cancelled" /\ ~seen.cancelled))]
     /\ Return(c)
     /\ UNCHANGED <<exch, feed, audits, named>>

\* A store call or a status query fails: the handler returns the error.
StepFails(c) ==
  /\ calls[c].pc \in {"insert", "markSubmitted", "markCancelled", "query", "markSynced"}
  /\ Return(c)
  /\ UNCHANGED <<orders, exch, feed, audits, named>>

\* The process dies and restarts.  Rows survive in Postgres; with the memory
\* store a restart begins another behaviour.
Crash ==
  /\ Store = "postgres"
  /\ calls' = [c \in Calls |-> Idle]
  /\ feed'  = [o \in OrderIds |-> <<>>]
  /\ UNCHANGED <<orders, exch, audits, named>>

-----------------------------------------------------------------------------
\* The websocket bridge.

\* publishOrderUpdates, one item: every row it matches is updated.
DeliverUpdate(p) ==
  /\ feed[p] # <<>>
  /\ orders' = [o \in OrderIds |->
                  IF o \in Stored /\ MatchesUpdate(orders[o], o, p)
                  THEN ApplyUpdate(orders[o], p, Head(feed[p])) ELSE orders[o]]
  /\ feed' = [feed EXCEPT ![p] = Tail(@)]
  /\ UNCHANGED <<calls, exch, audits, named>>

\* The connection drops before the update is read, the store call fails (its
\* error is ignored), or an earlier item of the batch could not be published.
LoseUpdate(p) ==
  /\ feed[p] # <<>>
  /\ feed' = [feed EXCEPT ![p] = Tail(@)]
  /\ UNCHANGED <<orders, calls, exch, audits, named>>

-----------------------------------------------------------------------------
Handler(c) ==
  \/ ReturnExisting(c) \/ InsertOrder(c)
  \/ \E state \in ExchangeStates : SubmitAnswered(c, state)
  \/ SubmitFailed(c) \/ MarkSubmitted(c) \/ AuditSubmission(c)
  \/ CancelAnswered(c) \/ CancelFailed(c) \/ MarkCancelled(c)
  \/ QueryAnswered(c) \/ MarkSynced(c) \/ StepFails(c)

Client(c) ==
  \/ \E in \in Inputs : BeginCreate(c, in)
  \/ \E o \in OrderIds, key \in OrderIds : BeginCancel(c, o, key)
  \/ \E o \in OrderIds, n \in Names : BeginSync(c, o, n)

Exchange(o) == ExchangeFill(o) \/ ExchangeCancel(o)

Bridge(o) == DeliverUpdate(o) \/ LoseUpdate(o)

Next ==
  \/ \E c \in Calls : Client(c) \/ Handler(c)
  \/ \E o \in OrderIds : Exchange(o) \/ Bridge(o)
  \/ Crash

Spec == Init /\ [][Next]_vars

-----------------------------------------------------------------------------
\* Two rows of one request: same user id, same clientRequestId.
SameRequest(o, p) ==
  /\ orders[o].input.user = orders[p].input.user /\ orders[o].input.user # None
  /\ orders[o].input.req  = orders[p].input.req  /\ orders[o].input.req # None

\* However often and however concurrently a user repeats a request, and
\* whatever timed out or crashed in between, the exchange receives at most one
\* order for it (CreateOrder's dedup and its check that the row is its own).
PlacedAtMostOnce ==
  /\ \A o \in OrderIds : exch[o].sent <= 1
  /\ \A o, p \in Stored : SameRequest(o, p) /\ exch[o].sent > 0 /\ exch[p].sent > 0
                          => o = p

\* A row says filled only if the exchange filled its order, or another one that a
\* client named in a status request for that row: no stale read, merge, late or
\* misdirected update invents an execution.
NoInventedFill ==
  \A o \in Stored : orders[o].status = "filled" =>
    \E p \in ExchangeOrders : (p = o \/ <<o, p>> \in named) /\ StateOf(p) = "filled"

\* A row that says cancelled has its cancel time, although a sync decides
\* whether to write one from a row it read before it asked the exchange.
CancelledIsStamped ==
  \A o \in Stored : orders[o].status = "cancelled" => orders[o].cancelled

\* The audit trail says an order was submitted only if the exchange has
\* received it, exactly once, and its row has the submission time and an id.
SubmissionAuditIsTrue ==
  \A o \in OrderIds : <<"order_submitted", o>> \in audits =>
    /\ exch[o].sent = 1
    /\ orders[o] # None /\ orders[o].submitted /\ orders[o].poid # ""

\* A row that is over goes back to submitted only by the answer of its own
\* submission, or by a sync that read it before it was over: of all the writers
\* that race on a row these two alone are late, and the bridge never is.
OnlyLateAnswersReopen ==
  [][\A o \in Stored : terminalOrderStatus(orders[o].status) /\ orders'[o].status = "submitted" =>
       \E c \in Calls :
         /\ calls[c].id = o
         /\ \/ calls[c].pc = "markSubmitted"
            \/ calls[c].pc = "markSynced" /\ ~terminalOrderStatus(calls[c].seen.status)]_vars

\* No writer at all takes a row that is over back to submitted.
TerminalNeverDowngraded ==
  [][\A o \in Stored : terminalOrderStatus(orders[o].status)
                       => orders'[o].status # "submitted"]_vars

\* A row that names its own order on the exchange stops to only by the answer of
\* its submission under another id, by a cancel or a sync that read the row before
\* it was named, or by a sync whose client named an order or an id itself.
OnlyLateAnswersLoseIds ==
  [][\A o \in Stored : orders[o].poid = o /\ orders'[o].poid # o =>
       \E c \in Calls :
         /\ calls[c].id = o
         /\ \/ calls[c].pc = "markSubmitted" /\ calls[c].replyId # o
            \/ /\ calls[c].pc \in {"markCancelled", "markSynced"}
               /\ calls[c].seen.poid # o
            \/ calls[c].pc = "markSynced" /\ calls[c].names]_vars

\* Once a row names its order on the exchange it keeps naming it.
ProviderIdTraceable ==
  [][\A o \in Stored : orders[o].poid = o => orders'[o].poid = o]_vars
===============================================================================
