------------------------------- MODULE SpotOrders -------------------------------
(***************************************************************************)
(* Quotes and orders of internal/trading: Quote, CreateOrder,               *)
(* UpdateOrderStatus and CancelOrder over a Store, one step per call of the  *)
(* store, between which nothing is held.  pkg/money computes with rationals   *)
(* and writes its results in units of 10^-18: a client's amount counts        *)
(* Scale-ths of such a unit, so that it may be finer than what is written.    *)
(* The transaction hash and failure code of a row, its expiry and the network *)
(* fees are left out.                                                         *)
(***************************************************************************)
EXTENDS Integers

CONSTANTS
  Calls,       \* handlers, one request each
  OrderIds,    \* uuids of orders
  Users,
  Reqs,        \* client request ids
  None,        \* no request id; no order
  Scale,       \* how many parts of 10^-18 a client's amount may tell apart
  Inputs,      \* the quotes and orders clients ask for
  RawStatuses, \* the words clients send as a status
  Failing,     \* whether the store's calls can fail: Postgres
  MaxOutages   \* bound on failing calls of the store and on crashes

NoneAssumption == None \notin OrderIds \cup Reqs
InputsAssumption == Inputs \subseteq [user: Users, req: Reqs \cup {None}, amount: Nat, bps: Int]
ScaleAssumption == Scale \in Nat \ {0}
FailingAssumption == Failing \in BOOLEAN /\ MaxOutages \in Nat
ASSUME NoneAssumption
ASSUME InputsAssumption
ASSUME ScaleAssumption
ASSUME FailingAssumption

VARIABLES
  quotes,   \* quote_snapshots
  orders,   \* order id -> its row, or Absent
  events,   \* order_events
  had,      \* order id -> every status its row has had
  outages,  \* failing calls of the store and crashes so far
  calls     \* handler -> its request

vars == <<quotes, orders, events, had, outages, calls>>

Statuses == {"pending", "submitted", "confirmed", "failed", "cancelled"}

\* Broken variant: any word is a status.
AnyStatus(status) == TRUE

validStatus(status) == status \in Statuses

-----------------------------------------------------------------------------
\* pkg/money and the arithmetic of a quote.

\* n / d as it is written: half a unit is rounded up (Format, FloatString).
Rounded(n, d) == (2 * n + d) \div (2 * d)

MultiplyBps(amount, scale, bps) == Rounded(amount * bps, 10000 * scale)

PlatformFeeBps == 30

Slippage(bps) == IF bps <= 0 THEN 100 ELSE bps

\* Broken variant: the minimum is what the slippage leaves of the input.
QuotedOnInput(in) ==
  LET fee == MultiplyBps(in.amount, Scale, PlatformFeeBps)
  IN [user |-> in.user, amount |-> in.amount, fee |-> fee,
      output |-> Rounded(in.amount - Scale * fee, Scale),
      minOutput |-> Rounded(in.amount, Scale)
                      - MultiplyBps(in.amount, Scale, Slippage(in.bps))]

\* The fee and the output are rounded by themselves, the output after the fee.
Quoted(in) ==
  LET fee == MultiplyBps(in.amount, Scale, PlatformFeeBps)
      output == Rounded(in.amount - Scale * fee, Scale)
  IN [user |-> in.user, amount |-> in.amount, fee |-> fee, output |-> output,
      minOutput |-> output - MultiplyBps(output, 1, Slippage(in.bps))]

-----------------------------------------------------------------------------
Quotes == [call: Calls, user: Users, amount: Nat, fee: Nat, output: Nat, minOutput: Nat]

Row == [user: Users, req: Reqs \cup {None}, status: Statuses, filled: BOOLEAN,
        quote: Calls, output: Nat, minOutput: Nat]
Absent == [user |-> None]

Event == [order: OrderIds, type: {"created", "status_updated"}, status: Statuses]

Idle == [pc |-> "idle", op |-> "quote", in |-> None, order |-> None, status |-> "pending"]

Stored == {o \in OrderIds : orders[o] # Absent}

TypeOK ==
  /\ quotes \subseteq Quotes
  /\ orders \in [OrderIds -> Row \cup {Absent}]
  /\ events \subseteq Event
  /\ had \in [OrderIds -> SUBSET Statuses]
  /\ outages \in 0 .. MaxOutages
  /\ calls \in [Calls ->
       [pc: {"idle", "find", "quote", "insert", "update", "event", "ok", "failed"},
        op: {"quote", "create", "update"}, in: Inputs \cup {None},
        order: OrderIds \cup {None}, status: RawStatuses \cup Statuses]]
  /\ \A e \in events : e.order \in Stored
  /\ \A c \in Calls : calls[c].pc = "event" => calls[c].order \in Stored

Init ==
  /\ quotes = {} /\ orders = [o \in OrderIds |-> Absent] /\ events = {}
  /\ had = [o \in OrderIds |-> {}] /\ outages = 0
  /\ calls = [c \in Calls |-> Idle]

-----------------------------------------------------------------------------
Moves(c, pc) == calls' = [calls EXCEPT ![c].pc = pc]

Answers(c, pc, o) == calls' = [calls EXCEPT ![c].pc = pc, ![c].order = o, ![c].status = orders'[o].status]

Fails == Failing /\ outages < MaxOutages /\ outages' = outages + 1

\* Quote, past its checks.
BeginQuote(c, in) ==
  /\ calls[c].pc = "idle"
  /\ calls' = [calls EXCEPT ![c].pc = "quote", ![c].in = in]
  /\ UNCHANGED <<quotes, orders, events, had, outages>>

\* CreateOrder, past its checks: a request without an id is not looked up.
BeginCreate(c, in) ==
  /\ calls[c].pc = "idle"
  /\ calls' = [calls EXCEPT ![c].pc = IF in.req = None THEN "quote" ELSE "find",
                            ![c].op = "create", ![c].in = in]
  /\ UNCHANGED <<quotes, orders, events, had, outages>>

\* The orders of a user's request.
OrdersOf(user, req) == {o \in Stored : orders[o].user = user /\ orders[o].req = req}

\* FindOrderByClientRequestID; its error is taken for an unknown request.
FindRequest(c) ==
  LET found == OrdersOf(calls[c].in.user, calls[c].in.req) IN
  /\ calls[c].pc = "find"
  /\ \/ \E o \in found : calls' = [calls EXCEPT ![c].pc = "ok", ![c].order = o] /\ UNCHANGED outages
     \/ found = {} /\ Moves(c, "quote") /\ UNCHANGED outages
     \/ Fails /\ Moves(c, "quote")
  /\ UNCHANGED <<quotes, orders, events, had>>

\* The quote is computed and saved: that is all of Quote, and the second step of
\* CreateOrder.
SaveQuote(c) ==
  LET q == Quoted(calls[c].in) IN
  /\ calls[c].pc = "quote"
  /\ \/ /\ calls[c].in.bps > 5000 /\ Moves(c, "failed") /\ UNCHANGED <<quotes, outages>>
     \/ /\ calls[c].in.bps <= 5000
        /\ quotes' = quotes \cup {[call |-> c, user |-> q.user, amount |-> q.amount, fee |-> q.fee,
                                   output |-> q.output, minOutput |-> q.minOutput]}
        /\ Moves(c, IF calls[c].op = "quote" THEN "ok" ELSE "insert") /\ UNCHANGED outages
     \/ /\ calls[c].in.bps <= 5000 /\ Fails /\ Moves(c, "failed") /\ UNCHANGED quotes
  /\ UNCHANGED <<orders, events, had>>

\* The row of the handler's order.
NewRow(c) ==
  [user |-> calls[c].in.user, req |-> calls[c].in.req, status |-> "pending", filled |-> FALSE,
   quote |-> c, output |-> Quoted(calls[c].in).output, minOutput |-> Quoted(calls[c].in).minOutput]

\* Broken variant: the store inserts whatever it holds.
AlwaysNew(in) == {}

\* The order of the same user and request, if it has an id (MemoryStore.CreateOrder
\* under its lock, the unique index in Postgres).
Existing(in) == IF in.req = None THEN {} ELSE OrdersOf(in.user, in.req)

Writes(o, row) == /\ orders' = [orders EXCEPT ![o] = row]
                  /\ had' = [had EXCEPT ![o] = @ \cup {row.status}]

InsertOrder(c) ==
  /\ calls[c].pc = "insert"
  /\ \/ \E o \in Existing(calls[c].in) :
          UNCHANGED <<orders, had, outages>> /\ Answers(c, "event", o)
     \/ /\ Existing(calls[c].in) = {} /\ UNCHANGED outages
        /\ \E o \in OrderIds \ Stored : Writes(o, NewRow(c)) /\ Answers(c, "event", o)
     \/ /\ Fails /\ Moves(c, "failed")
        /\ \/ UNCHANGED <<orders, had>>
           \/ Existing(calls[c].in) = {} /\ \E o \in OrderIds \ Stored : Writes(o, NewRow(c))
  /\ UNCHANGED <<quotes, events>>

\* UpdateOrderStatus and CancelOrder up to the store.
BeginUpdate(c, o, status) ==
  /\ calls[c].pc = "idle"
  /\ calls' = [calls EXCEPT ![c].pc = IF validStatus(status) THEN "update" ELSE "failed",
                            ![c].op = "update", ![c].order = o, ![c].status = status]
  /\ UNCHANGED <<quotes, orders, events, had, outages>>

\* Broken variant: the fill time is that of the last status.
StampNow(row, status) == [row EXCEPT !.status = status, !.filled = (status = "confirmed")]

\* The status replaces the row's, whatever that was; a fill time stays.
Stamp(row, status) == [row EXCEPT !.status = status, !.filled = @ \/ status = "confirmed"]

UpdateStatus(c) ==
  LET o == calls[c].order IN
  /\ calls[c].pc = "update"
  /\ \/ /\ o \in Stored /\ Writes(o, Stamp(orders[o], calls[c].status))
        /\ Moves(c, "event") /\ UNCHANGED outages
     \/ o \notin Stored /\ Moves(c, "failed") /\ UNCHANGED <<orders, had, outages>>
     \/ /\ Fails /\ Moves(c, "failed")
        /\ \/ UNCHANGED <<orders, had>>
           \/ o \in Stored /\ Writes(o, Stamp(orders[o], calls[c].status))
  /\ UNCHANGED <<quotes, events>>

\* Broken variant: the row is read again for its event.
EventOfRow(c) ==
  [order |-> calls[c].order, type |-> IF calls[c].op = "create" THEN "created" ELSE "status_updated",
   status |-> orders[calls[c].order].status]

\* The event says the status the store's answer showed.
EventOf(c) ==
  [order |-> calls[c].order, type |-> IF calls[c].op = "create" THEN "created" ELSE "status_updated",
   status |-> calls[c].status]

\* AppendOrderEvent, whose error is ignored.
RecordEvent(c) ==
  /\ calls[c].pc = "event" /\ Moves(c, "ok")
  /\ \/ events' = events \cup {EventOf(c)} /\ UNCHANGED outages
     \/ Fails /\ UNCHANGED events
  /\ UNCHANGED <<quotes, orders, had>>

\* The process dies over a database; without one it starts from Init.
Crash ==
  /\ Fails
  /\ calls' = [c \in Calls |-> IF calls[c].pc \in {"idle", "ok"} THEN calls[c]
                               ELSE [calls[c] EXCEPT !.pc = "failed"]]
  /\ UNCHANGED <<quotes, orders, events, had>>

Next ==
  \/ \E c \in Calls, in \in Inputs : BeginQuote(c, in) \/ BeginCreate(c, in)
  \/ \E c \in Calls, o \in OrderIds, status \in RawStatuses : BeginUpdate(c, o, status)
  \/ \E c \in Calls : \/ FindRequest(c)  \/ SaveQuote(c) \/ InsertOrder(c)
                      \/ UpdateStatus(c) \/ RecordEvent(c)
  \/ Crash

Spec == Init /\ [][Next]_vars

-----------------------------------------------------------------------------
\* Creates that ran under one request id of one user, in any interleaving and
\* over any number of retries, are answered with one order, and it is that
\* user's (CreateOrder).
OneOrderPerRequest ==
  \A c \in Calls : calls[c].op = "create" /\ calls[c].pc \in {"event", "ok"} =>
    /\ calls[c].order \in OrdersOf(calls[c].in.user, calls[c].in.req)
    /\ calls[c].in.req # None => OrdersOf(calls[c].in.user, calls[c].in.req) = {calls[c].order}

\* An order's amounts are those of the quote it names, which was saved for the
\* same user; fee and output of a quote make up the input to half a unit, the most
\* that one rounding may be off, and the minimum output lies between half of the
\* output and all of it (Quote, CreateOrder).
OrdersAreQuoted ==
  /\ \A q \in quotes : /\ 2 * Scale * (q.fee + q.output) \in
                            2 * q.amount - Scale .. 2 * q.amount + Scale
                       /\ q.minOutput <= q.output /\ q.output <= 2 * q.minOutput + 1
  /\ \A o \in Stored : \E q \in quotes :
       /\ q.call = orders[o].quote /\ q.user = orders[o].user
       /\ q.output = orders[o].output /\ q.minOutput = orders[o].minOutput

\* The fill time says whether the order was ever confirmed, whatever it was set
\* to afterwards (UpdateOrderStatus).
FilledIfEverConfirmed ==
  \A o \in Stored : orders[o].filled <=> "confirmed" \in had[o]

\* Events only tell statuses the row really had, and once the handlers of an
\* order are done and no call failed, all of them, the overwritten ones included
\* (AppendOrderEvent).
EventsTellHistory ==
  \A o \in OrderIds :
    LET told == {e.status : e \in {f \in events : f.order = o}}
    IN /\ told \subseteq had[o]
       /\ outages > 0 \/ (\E c \in Calls : calls[c].pc = "event" /\ calls[c].order = o) \/ told = had[o]
===============================================================================
