---------------------------- MODULE SpotOrdersProofs ----------------------------
(***************************************************************************)
(* What SpotOrders keeps for any number of handlers, orders, users and      *)
(* requests, any inputs and any number of failing calls and crashes.        *)
(***************************************************************************)
EXTENDS SpotOrdersPlacement, TLAPS

-----------------------------------------------------------------------------
\* Amounts.

\* A share of at most one half.
Shares == 1 .. 5000

\* What is written is off by at most half a unit.
LEMMA RoundedIsNear ==
  ASSUME NEW n \in Nat, NEW d \in Nat \ {0}
  PROVE  /\ Rounded(n, d) \in Nat
         /\ 2 * n - d <= 2 * d * Rounded(n, d) /\ 2 * d * Rounded(n, d) <= 2 * n + d
<1> DEFINE m == 2 * n + d
           e == 2 * d
           w == m \div e
<1>1. m \in Nat /\ e \in Nat \ {0} /\ m = 2 * n + d /\ e = 2 * d
  OBVIOUS
<1>2. w \in Nat /\ e * w <= m /\ m < e * w + e
  <2> HIDE DEF m, e
  <2>1. QED
    BY <1>1
<1>3. Rounded(n, d) = w
  BY DEF Rounded
<1> HIDE DEF m, w, e
<1>4. e * w \in Nat /\ 2 * n - d <= e * w /\ e * w <= 2 * n + d
  <2>1. e * w \in Nat
    BY <1>1, <1>2
  <2> DEFINE x == e * w
  <2>2. x \in Nat /\ x <= m /\ m < x + e
    BY <1>2, <2>1
  <2> HIDE DEF x
  <2>3. 2 * n - d <= x /\ x <= 2 * n + d
    BY <1>1, <2>2
  <2>4. QED
    BY <2>1, <2>3 DEF x
<1>5. QED
  BY <1>1, <1>2, <1>3, <1>4

\* A fee leaves something of the input, and is what it says to half a unit.
LEMMA FeeLeaves ==
  ASSUME NEW x \in Nat
  PROVE  LET fee == MultiplyBps(x, Scale, PlatformFeeBps)
         IN  fee \in Nat /\ Scale * fee \in Nat /\ Scale * fee <= x
<1> DEFINE n == x * 30
           d == 10000 * Scale
           fee == Rounded(n, d)
           paid == Scale * fee
<1>1. Scale \in Nat \ {0} /\ n \in Nat /\ d \in Nat \ {0} /\ n = 30 * x /\ d = 10000 * Scale
  BY ScaleAssumption DEF ScaleAssumption
<1>2. fee = MultiplyBps(x, Scale, PlatformFeeBps)
  BY DEF MultiplyBps, PlatformFeeBps
<1>3. fee \in Nat /\ 2 * d * fee <= 2 * n + d
  <2> HIDE DEF n, d
  <2>1. QED
    BY <1>1, RoundedIsNear
<1> HIDE DEF n, d, fee
<1>4. paid \in Nat /\ 2 * d * fee = 20000 * paid
  BY <1>1, <1>3
<1>5. fee = 0 => paid = 0
  BY <1>1
<1>6. fee # 0 => Scale <= paid
  BY <1>1, <1>3
<1> DEFINE z == 2 * d * fee
<1>7. z = 20000 * paid /\ z <= 2 * n + d
  BY <1>3, <1>4
<1> HIDE DEF paid, z
<1>8. paid <= x
  BY <1>1, <1>3, <1>4, <1>5, <1>6, <1>7
<1>9. QED
  BY <1>2, <1>3, <1>4, <1>8 DEF paid

LEMMA Share ==
  ASSUME NEW x \in Nat, NEW bps \in Shares
  PROVE  MultiplyBps(x, 1, bps) \in Nat /\ 2 * MultiplyBps(x, 1, bps) <= x + 1
<1> DEFINE p == x * bps
           m == Rounded(p, 10000)
<1>1. p \in Nat /\ p <= x * 5000
  BY DEF Shares
<1>2. MultiplyBps(x, 1, bps) = m
  BY DEF MultiplyBps
<1> HIDE DEF p
<1>3. m \in Nat /\ 2 * 10000 * m <= 2 * p + 10000
  BY <1>1, RoundedIsNear
<1> HIDE DEF m
<1>4. 2 * m <= x + 1
  BY <1>1, <1>3
<1>5. QED
  BY <1>2, <1>3, <1>4

LEMMA SlippageIsShare ==
  ASSUME NEW bps \in Int, bps <= 5000
  PROVE  Slippage(bps) \in Shares
BY DEF Slippage, Shares

\* The minimum output: what is left after the slippage.
LEMMA Left ==
  ASSUME NEW x \in Nat, NEW bps \in Shares
  PROVE  LET rest == x - MultiplyBps(x, 1, bps)
         IN  rest \in Nat /\ rest <= x /\ x <= 2 * rest + 1
<1> DEFINE m == MultiplyBps(x, 1, bps)
<1>1. m \in Nat /\ 2 * m <= x + 1
  BY Share
<1> HIDE DEF m
<1>2. (x - m) \in Nat /\ (x - m) <= x /\ x <= 2 * (x - m) + 1
  BY <1>1
<1>3. QED
  BY <1>2 DEF m

\* Fee and output make up the input to half a unit.
AddsUp(q) ==
  2 * Scale * (q.fee + q.output) \in 2 * q.amount - Scale .. 2 * q.amount + Scale

MinimumOK(q) == q.minOutput <= q.output /\ q.output <= 2 * q.minOutput + 1

LEMMA QuotedAmounts ==
  ASSUME NEW in \in Inputs, in.bps <= 5000
  PROVE  /\ Quoted(in).user = in.user /\ Quoted(in).amount = in.amount
         /\ Quoted(in).amount \in Nat /\ Quoted(in).fee \in Nat
         /\ Quoted(in).output \in Nat /\ Quoted(in).minOutput \in Nat
         /\ AddsUp(Quoted(in)) /\ MinimumOK(Quoted(in))
<1> DEFINE a == in.amount
           s == Slippage(in.bps)
           fee == MultiplyBps(a, Scale, PlatformFeeBps)
           paid == Scale * fee
           out == Rounded(a - paid, Scale)
           min == out - MultiplyBps(out, 1, s)
<1>1. a \in Nat /\ in.bps \in Int /\ Scale \in Nat \ {0}
  BY InputsAssumption, ScaleAssumption DEF InputsAssumption, ScaleAssumption
<1>2. s \in Shares
  BY <1>1, SlippageIsShare
<1>3. /\ Quoted(in).user = in.user /\ Quoted(in).amount = a /\ Quoted(in).fee = fee
      /\ Quoted(in).output = out /\ Quoted(in).minOutput = min
  BY DEF Quoted
<1>4. a = in.amount
  OBVIOUS
<1> HIDE DEF a, s
<1>5. fee \in Nat /\ paid \in Nat /\ paid <= a
  BY <1>1, FeeLeaves
<1>6. paid = Scale * fee
  OBVIOUS
<1> HIDE DEF fee, paid
<1>7. /\ out \in Nat
      /\ 2 * (a - paid) - Scale <= 2 * Scale * out /\ 2 * Scale * out <= 2 * (a - paid) + Scale
  <2> DEFINE rest == a - paid
             d == Scale
  <2>1. rest \in Nat /\ d \in Nat \ {0}
    BY <1>1, <1>5
  <2>2. out = Rounded(rest, d)
    OBVIOUS
  <2> HIDE DEF rest, d, out
  <2>3. out \in Nat /\ 2 * rest - d <= 2 * d * out /\ 2 * d * out <= 2 * rest + d
    BY <2>1, <2>2, RoundedIsNear
  <2>4. QED
    BY <2>3 DEF rest, d
<1> HIDE DEF out
<1>8. 2 * Scale * (fee + out) \in 2 * a - Scale .. 2 * a + Scale
  <2> DEFINE x == 2 * Scale * out
             y == 2 * Scale * (fee + out)
  <2>1. x \in Nat /\ y = 2 * paid + x
    BY <1>1, <1>5, <1>6, <1>7
  <2>2. 2 * (a - paid) - Scale <= x /\ x <= 2 * (a - paid) + Scale
    BY <1>7
  <2> HIDE DEF x, y
  <2>3. y \in 2 * a - Scale .. 2 * a + Scale
    BY <1>1, <1>5, <2>1, <2>2
  <2>4. QED
    BY <2>3 DEF y
<1>9. min \in Nat /\ min <= out /\ out <= 2 * min + 1
  BY <1>2, <1>7, Left
<1> HIDE DEF min
<1>10. AddsUp(Quoted(in)) /\ MinimumOK(Quoted(in))
  BY <1>3, <1>8, <1>9 DEF AddsUp, MinimumOK
<1>11. QED
  BY <1>1, <1>3, <1>4, <1>5, <1>7, <1>9, <1>10

-----------------------------------------------------------------------------
\* Types, and what a handler knows between two of its steps.

Busy == {"find", "quote", "insert", "update", "event", "ok", "failed"}

Pcs == Busy \cup {"idle"}

Ops == {"quote", "create", "update"}

MaybeInput == Inputs \cup {None}

MaybeOrder == OrderIds \cup {None}

Words == RawStatuses \cup Statuses

CallType == [pc: Pcs, op: Ops, in: MaybeInput, order: MaybeOrder, status: Words]

Rec(pc, op, in, order, status) ==
  [pc |-> pc, op |-> op, in |-> in, order |-> order, status |-> status]

Becomes(c, new) == calls' = [calls EXCEPT ![c] = new]

CallOK(k) ==
  /\ k.pc = "idle" => k.op = "quote"
  /\ k.pc \in {"find", "quote", "insert"} \/ k.op = "create" => k.in \in Inputs
  /\ k.pc \in {"find", "insert"} => k.op = "create"
  /\ k.pc = "quote" => k.op # "update"
  /\ k.pc = "find" => k.in.req # None
  /\ k.pc = "insert" => k.in.bps <= 5000
  /\ k.pc = "update" => k.op = "update" /\ k.order \in OrderIds /\ k.status \in Statuses
  /\ k.pc = "event" => k.op \in {"create", "update"} /\ k.status \in Statuses

TypeInv == TypeOK /\ \A c \in Calls : CallOK(calls[c])

LEMMA AbsentIsNoRow == Absent \notin Row
BY DEF Absent, Row

LEMMA Typed ==
  ASSUME TypeOK
  PROVE  /\ calls \in [Calls -> CallType]
         /\ \A o \in OrderIds : o \in Stored <=> orders[o] \in Row
         /\ \A o \in Stored : o \in OrderIds /\ orders[o] \in Row
BY AbsentIsNoRow DEF TypeOK, CallType, Pcs, Busy, Ops, MaybeInput, MaybeOrder, Words, Stored

LEMMA WriteFacts ==
  ASSUME TypeOK, NEW o \in OrderIds, NEW row \in Row, Writes(o, row)
  PROVE  /\ orders' \in [OrderIds -> Row \cup {Absent}]
         /\ had' \in [OrderIds -> SUBSET Statuses]
         /\ Stored' = Stored \cup {o}
         /\ orders'[o] = row /\ had'[o] = had[o] \cup {row.status}
         /\ \A p \in OrderIds \ {o} : orders'[p] = orders[p] /\ had'[p] = had[p]
<1>1. row.status \in Statuses
  BY DEF Row
<1>2. /\ orders' \in [OrderIds -> Row \cup {Absent}]
      /\ orders'[o] = row /\ \A p \in OrderIds \ {o} : orders'[p] = orders[p]
  BY DEF Writes, TypeOK
<1>3. /\ had' \in [OrderIds -> SUBSET Statuses] /\ had'[o] = had[o] \cup {row.status}
      /\ \A p \in OrderIds \ {o} : had'[p] = had[p]
  BY <1>1 DEF Writes, TypeOK
<1>4. Stored' = Stored \cup {o}
  BY <1>2, AbsentIsNoRow DEF Stored
<1>5. QED
  BY <1>2, <1>3, <1>4

LEMMA MovesIs ==
  ASSUME TypeOK, NEW c \in Calls, NEW pc, Moves(c, pc)
  PROVE  Becomes(c, Rec(pc, calls[c].op, calls[c].in, calls[c].order, calls[c].status))
<1>1. calls[c] \in CallType
  BY Typed
<1>2. [calls[c] EXCEPT !.pc = pc]
        = Rec(pc, calls[c].op, calls[c].in, calls[c].order, calls[c].status)
  BY <1>1 DEF CallType, Rec
<1>3. QED
  BY <1>2 DEF Moves, Becomes

LEMMA RecType ==
  ASSUME NEW pc \in Busy, NEW op \in Ops, NEW in \in MaybeInput,
         NEW o \in MaybeOrder, NEW s \in Words
  PROVE  /\ Rec(pc, op, in, o, s) \in CallType
         /\ Rec(pc, op, in, o, s).pc = pc /\ Rec(pc, op, in, o, s).op = op
         /\ Rec(pc, op, in, o, s).in = in /\ Rec(pc, op, in, o, s).order = o
         /\ Rec(pc, op, in, o, s).status = s
BY DEF Rec, CallType, Pcs

LEMMA CallFields ==
  ASSUME TypeOK, NEW c \in Calls
  PROVE  /\ calls[c].pc \in Pcs /\ calls[c].op \in Ops
         /\ calls[c].in \in MaybeInput /\ calls[c].order \in MaybeOrder
         /\ calls[c].status \in Words
BY Typed DEF CallType

LEMMA ChangedIn ==
  ASSUME NEW k \in CallType, NEW pc, NEW in
  PROVE  [[k EXCEPT !.pc = pc] EXCEPT !.in = in] = Rec(pc, k.op, in, k.order, k.status)
<1> DEFINE at == [k EXCEPT !.pc = pc]
<1>1. at = Rec(pc, k.op, k.in, k.order, k.status)
  BY DEF CallType, Rec
<1> HIDE DEF at
<1>2. [at EXCEPT !.in = in] = Rec(pc, k.op, in, k.order, k.status)
  BY <1>1 DEF Rec
<1>3. QED
  BY <1>2 DEF at

LEMMA ChangedOp ==
  ASSUME NEW k \in CallType, NEW pc, NEW op
  PROVE  [[k EXCEPT !.pc = pc] EXCEPT !.op = op] = Rec(pc, op, k.in, k.order, k.status)
<1> DEFINE at == [k EXCEPT !.pc = pc]
<1>1. at = Rec(pc, k.op, k.in, k.order, k.status)
  BY DEF CallType, Rec
<1> HIDE DEF at
<1>2. [at EXCEPT !.op = op] = Rec(pc, op, k.in, k.order, k.status)
  BY <1>1 DEF Rec
<1>3. QED
  BY <1>2 DEF at

LEMMA ChangedOrder ==
  ASSUME NEW k \in CallType, NEW pc, NEW o
  PROVE  [[k EXCEPT !.pc = pc] EXCEPT !.order = o] = Rec(pc, k.op, k.in, o, k.status)
<1> DEFINE at == [k EXCEPT !.pc = pc]
<1>1. at = Rec(pc, k.op, k.in, k.order, k.status)
  BY DEF CallType, Rec
<1> HIDE DEF at
<1>2. [at EXCEPT !.order = o] = Rec(pc, k.op, k.in, o, k.status)
  BY <1>1 DEF Rec
<1>3. QED
  BY <1>2 DEF at

LEMMA ChangedRec ==
  ASSUME NEW pc, NEW op, NEW in, NEW o, NEW st, NEW x
  PROVE  /\ [Rec(pc, op, in, o, st) EXCEPT !.in = x] = Rec(pc, op, x, o, st)
         /\ [Rec(pc, op, in, o, st) EXCEPT !.order = x] = Rec(pc, op, in, x, st)
         /\ [Rec(pc, op, in, o, st) EXCEPT !.status = x] = Rec(pc, op, in, o, x)
BY DEF Rec

\* One call moves on.
LEMMA OneMoves ==
  ASSUME TypeInv, NEW c \in Calls, NEW new \in CallType, CallOK(new),
         Becomes(c, new), new.pc = "event" => new.order \in Stored',
         quotes' \subseteq Quotes, orders' \in [OrderIds -> Row \cup {Absent}],
         Stored \subseteq Stored', events' \subseteq Event,
         \A e \in events' : e.order \in Stored',
         had' \in [OrderIds -> SUBSET Statuses], outages' \in 0 .. MaxOutages
  PROVE  TypeInv'
<1>1. calls' \in [Calls -> CallType]
  BY Typed DEF TypeInv, Becomes
<1>2. \A d \in Calls : calls'[d] = IF d = c THEN new ELSE calls[d]
  BY Typed DEF TypeInv, Becomes
<1>3. \A d \in Calls : CallOK(calls'[d])
  BY <1>2 DEF TypeInv
<1>4. (\A d \in Calls : CallOK(calls[d]))'
  BY <1>3 DEF CallOK
<1>5. \A d \in Calls : calls'[d].pc = "event" => calls'[d].order \in Stored'
  BY <1>2 DEF TypeInv, TypeOK
<1>6. TypeOK'
  BY <1>1, <1>5 DEF TypeOK, CallType, Pcs, Busy, Ops, MaybeInput, MaybeOrder, Words
<1>7. QED
  BY <1>4, <1>6 DEF TypeInv

LEMMA Failed == ASSUME TypeOK, Fails PROVE outages' \in 0 .. MaxOutages
BY FailingAssumption DEF FailingAssumption, Fails, TypeOK

-----------------------------------------------------------------------------
\* The rows a handler writes.

LEMMA NewRowType ==
  ASSUME TypeInv, NEW c \in Calls, calls[c].pc = "insert"
  PROVE  /\ NewRow(c) \in Row /\ NewRow(c).status = "pending" /\ NewRow(c).filled = FALSE
         /\ NewRow(c).user = calls[c].in.user /\ NewRow(c).req = calls[c].in.req
         /\ NewRow(c).quote = c /\ NewRow(c).output = Quoted(calls[c].in).output
         /\ NewRow(c).minOutput = Quoted(calls[c].in).minOutput
<1> DEFINE in == calls[c].in
<1>1. in \in Inputs /\ in.bps <= 5000
  BY DEF TypeInv, CallOK
<1>2. in.user \in Users /\ in.req \in Reqs \cup {None}
  BY <1>1, InputsAssumption DEF InputsAssumption
<1>3. Quoted(in).output \in Nat /\ Quoted(in).minOutput \in Nat
  BY <1>1, QuotedAmounts
<1> DEFINE out == Quoted(in).output
           min == Quoted(in).minOutput
<1>4. NewRow(c) = [user |-> in.user, req |-> in.req, status |-> "pending", filled |-> FALSE,
                   quote |-> c, output |-> out, minOutput |-> min]
  BY DEF NewRow
<1> HIDE DEF out, min
<1>5. out \in Nat /\ min \in Nat
  BY <1>3 DEF out, min
<1>6. QED
  BY <1>2, <1>4, <1>5 DEF Row, Statuses, out, min

LEMMA StampType ==
  ASSUME NEW row \in Row, NEW status \in Statuses
  PROVE  /\ Stamp(row, status) \in Row /\ Stamp(row, status).status = status
         /\ Stamp(row, status).filled = (row.filled \/ status = "confirmed")
         /\ Stamp(row, status).user = row.user /\ Stamp(row, status).req = row.req
         /\ Stamp(row, status).quote = row.quote /\ Stamp(row, status).output = row.output
         /\ Stamp(row, status).minOutput = row.minOutput
BY DEF Stamp, Row

Inserts(c, o) ==
  /\ calls[c].pc = "insert" /\ o \in OrderIds \ Stored /\ Existing(calls[c].in) = {}
  /\ Writes(o, NewRow(c))

Updates(c) ==
  /\ calls[c].pc = "update" /\ calls[c].order \in Stored
  /\ Writes(calls[c].order, Stamp(orders[calls[c].order], calls[c].status))

LEMMA InsertFacts ==
  ASSUME TypeInv, NEW c \in Calls, NEW o, Inserts(c, o)
  PROVE  /\ orders' \in [OrderIds -> Row \cup {Absent}]
         /\ had' \in [OrderIds -> SUBSET Statuses]
         /\ Stored' = Stored \cup {o} /\ o \in OrderIds /\ o \notin Stored
         /\ orders'[o].user = calls[c].in.user /\ orders'[o].req = calls[c].in.req
         /\ orders'[o].status = "pending" /\ orders'[o].filled = FALSE
         /\ orders'[o].quote = c /\ orders'[o].output = Quoted(calls[c].in).output
         /\ orders'[o].minOutput = Quoted(calls[c].in).minOutput
         /\ had'[o] = had[o] \cup {"pending"}
         /\ \A p \in OrderIds \ {o} : orders'[p] = orders[p] /\ had'[p] = had[p]
<1> DEFINE row == NewRow(c)
<1>1. /\ row \in Row /\ row.status = "pending" /\ row.filled = FALSE
      /\ row.user = calls[c].in.user /\ row.req = calls[c].in.req
      /\ row.quote = c /\ row.output = Quoted(calls[c].in).output
      /\ row.minOutput = Quoted(calls[c].in).minOutput
  BY NewRowType DEF Inserts
<1>2. Writes(o, row) /\ o \in OrderIds /\ o \notin Stored
  BY DEF Inserts
<1> HIDE DEF row
<1>3. QED
  BY <1>1, <1>2, WriteFacts DEF TypeInv

LEMMA UpdateFacts ==
  ASSUME TypeInv, NEW c \in Calls, Updates(c)
  PROVE  LET n == calls[c].order
             new == Stamp(orders[n], calls[c].status)
         IN /\ orders' \in [OrderIds -> Row \cup {Absent}]
            /\ had' \in [OrderIds -> SUBSET Statuses]
            /\ Stored' = Stored /\ n \in Stored /\ n \in OrderIds
            /\ orders'[n] = new /\ had'[n] = had[n] \cup {calls[c].status}
            /\ \A p \in OrderIds \ {n} : orders'[p] = orders[p] /\ had'[p] = had[p]
            /\ new.filled = (orders[n].filled \/ calls[c].status = "confirmed")
            /\ new.status = calls[c].status /\ calls[c].status \in Statuses
            /\ new.user = orders[n].user /\ new.req = orders[n].req
            /\ new.quote = orders[n].quote /\ new.output = orders[n].output
            /\ new.minOutput = orders[n].minOutput
<1> DEFINE n == calls[c].order
           st == calls[c].status
           new == Stamp(orders[n], st)
<1>1. n \in OrderIds /\ n \in Stored /\ orders[n] \in Row
  BY Typed DEF Updates, TypeInv
<1>2. st \in Statuses
  BY DEF Updates, TypeInv, CallOK
<1>3. /\ new \in Row /\ new.status = st
      /\ new.filled = (orders[n].filled \/ st = "confirmed")
      /\ new.user = orders[n].user /\ new.req = orders[n].req
      /\ new.quote = orders[n].quote /\ new.output = orders[n].output
      /\ new.minOutput = orders[n].minOutput
  <2> HIDE DEF n, st
  <2>1. QED
    BY <1>1, <1>2, StampType
<1>4. Writes(n, new)
  BY DEF Updates
<1> HIDE DEF n, st, new
<1>5. /\ orders' \in [OrderIds -> Row \cup {Absent}]
      /\ had' \in [OrderIds -> SUBSET Statuses]
      /\ Stored' = Stored \cup {n} /\ orders'[n] = new /\ had'[n] = had[n] \cup {new.status}
      /\ \A p \in OrderIds \ {n} : orders'[p] = orders[p] /\ had'[p] = had[p]
  <2>1. TypeOK /\ new \in Row
    BY <1>3 DEF TypeInv
  <2>2. QED
    BY <1>1, <1>4, <2>1, WriteFacts
<1>6. Stored' = Stored
  BY <1>1, <1>5
<1>7. QED
  BY <1>1, <1>2, <1>3, <1>5, <1>6 DEF new, n, st

\* What a step does to the rows.
RowStep ==
  \/ orders' = orders /\ had' = had
  \/ \E c \in Calls, o \in OrderIds : Inserts(c, o)
  \/ \E c \in Calls : Updates(c)

LEMMA RowsKept ==
  ASSUME TypeInv, RowStep
  PROVE  /\ orders' \in [OrderIds -> Row \cup {Absent}]
         /\ had' \in [OrderIds -> SUBSET Statuses]
         /\ Stored \subseteq Stored'
         /\ \A o \in Stored : /\ orders'[o].user = orders[o].user /\ orders'[o].req = orders[o].req
                              /\ orders'[o].quote = orders[o].quote
                              /\ orders'[o].output = orders[o].output
                              /\ orders'[o].minOutput = orders[o].minOutput
<1>1. CASE orders' = orders /\ had' = had
  BY <1>1 DEF TypeInv, TypeOK, Stored
<1>2. ASSUME NEW c \in Calls, NEW o \in OrderIds, Inserts(c, o)
      PROVE  /\ orders' \in [OrderIds -> Row \cup {Absent}]
             /\ had' \in [OrderIds -> SUBSET Statuses]
             /\ Stored \subseteq Stored' /\ \A p \in Stored : orders'[p] = orders[p]
  <2>1. Stored \subseteq OrderIds
    BY DEF Stored
  <2>2. QED
    BY <1>2, <2>1, InsertFacts
<1>3. ASSUME NEW c \in Calls, Updates(c)
      PROVE  /\ orders' \in [OrderIds -> Row \cup {Absent}]
             /\ had' \in [OrderIds -> SUBSET Statuses]
             /\ Stored \subseteq Stored'
             /\ \A o \in Stored :
                  /\ orders'[o].user = orders[o].user /\ orders'[o].req = orders[o].req
                  /\ orders'[o].quote = orders[o].quote
                  /\ orders'[o].output = orders[o].output
                  /\ orders'[o].minOutput = orders[o].minOutput
  <2>1. Stored \subseteq OrderIds
    BY DEF Stored
  <2>2. QED
    BY <1>3, <2>1, UpdateFacts
<1>4. QED
  BY <1>1, <1>2, <1>3 DEF RowStep

-----------------------------------------------------------------------------
\* The steps keep the types.

\* A call that moves to a record of its own; every step of a handler does.
Goes(c, new) ==
  /\ Becomes(c, new) /\ new \in CallType /\ CallOK(new)
  /\ new.pc = "event" => new.order \in Stored'

LEMMA GoesTo ==
  ASSUME TypeInv, NEW c \in Calls, NEW pc \in Busy, NEW op \in Ops,
         NEW in \in MaybeInput, NEW o \in MaybeOrder,
         NEW st \in Words,
         Becomes(c, Rec(pc, op, in, o, st)),
         pc \in {"find", "quote", "insert"} \/ op = "create" => in \in Inputs,
         pc \in {"find", "insert"} => op = "create",
         pc = "quote" => op # "update",
         pc = "find" => in.req # None,
         pc = "insert" => in.bps <= 5000,
         pc = "update" => op = "update" /\ o \in OrderIds /\ st \in Statuses,
         pc = "event" => op \in {"create", "update"} /\ st \in Statuses /\ o \in Stored'
  PROVE  Goes(c, Rec(pc, op, in, o, st)) /\ calls'[c] = Rec(pc, op, in, o, st)
<1>1. calls'[c] = Rec(pc, op, in, o, st)
  BY Typed DEF TypeInv, Becomes
<1> DEFINE r == Rec(pc, op, in, o, st)
<1>2. /\ r \in CallType /\ r.pc = pc /\ r.op = op /\ r.in = in /\ r.order = o /\ r.status = st
  BY RecType
<1>3. Becomes(c, r) /\ calls'[c] = r
  BY <1>1
<1> HIDE DEF r
<1>4. CallOK(r)
  BY <1>2 DEF CallOK, Busy
<1>5. Goes(c, r)
  BY <1>2, <1>3, <1>4 DEF Goes
<1>6. QED
  BY <1>3, <1>5 DEF r

\* The same when only the place changes.
LEMMA GoesOn ==
  ASSUME TypeInv, NEW c \in Calls, NEW pc \in Busy, Moves(c, pc),
         pc \in {"find", "quote", "insert"} => calls[c].in \in Inputs,
         pc \in {"find", "insert"} => calls[c].op = "create",
         pc = "quote" => calls[c].op # "update",
         pc = "find" => calls[c].in.req # None,
         pc = "insert" => calls[c].in.bps <= 5000,
         pc # "update",
         pc = "event" => /\ calls[c].op \in {"create", "update"} /\ calls[c].status \in Statuses
                         /\ calls[c].order \in Stored'
  PROVE  /\ \E new : Goes(c, new)
         /\ calls'[c].pc = pc /\ calls'[c].op = calls[c].op /\ calls'[c].in = calls[c].in
         /\ calls'[c].order = calls[c].order /\ calls'[c].status = calls[c].status
<1> DEFINE op == calls[c].op
           in == calls[c].in
           o  == calls[c].order
           st == calls[c].status
<1>1. Becomes(c, Rec(pc, op, in, o, st))
  BY MovesIs DEF TypeInv
<1>2. op \in Ops /\ in \in MaybeInput /\ o \in MaybeOrder /\ st \in Words
  BY CallFields DEF TypeInv
<1>3. /\ pc \in {"find", "quote", "insert"} \/ op = "create" => in \in Inputs
      /\ pc \in {"find", "insert"} => op = "create"
      /\ pc = "quote" => op # "update"
      /\ pc = "find" => in.req # None
      /\ pc = "insert" => in.bps <= 5000
      /\ pc = "event" => op \in {"create", "update"} /\ st \in Statuses /\ o \in Stored'
  BY DEF TypeInv, CallOK
<1>4. op = calls[c].op /\ in = calls[c].in /\ o = calls[c].order /\ st = calls[c].status
  OBVIOUS
<1> HIDE DEF op, in, o, st
<1>5. Goes(c, Rec(pc, op, in, o, st)) /\ calls'[c] = Rec(pc, op, in, o, st)
  BY <1>1, <1>2, <1>3, GoesTo
<1>6. QED
  BY <1>2, <1>4, <1>5, RecType

LEMMA GoesKeepsTypes ==
  ASSUME TypeInv, RowStep, NEW c \in Calls, \E new : Goes(c, new), quotes' \subseteq Quotes,
         events' \subseteq Event, \A e \in events' : e.order \in Stored',
         outages' \in 0 .. MaxOutages
  PROVE  TypeInv'
<1>1. PICK new : Goes(c, new)
  OBVIOUS
<1>2. QED
  BY <1>1, OneMoves, RowsKept DEF Goes

LEMMA EventsStay ==
  ASSUME TypeInv, RowStep, events' = events
  PROVE  events' \subseteq Event /\ \A e \in events' : e.order \in Stored'
BY RowsKept DEF TypeInv, TypeOK

LEMMA BeginsKeep ==
  ASSUME TypeInv, NEW c \in Calls, NEW in \in Inputs, NEW op \in {"quote", "create"},
         NEW pc \in {"quote", "find"}, pc = "find" => op = "create" /\ in.req # None,
         Becomes(c, Rec(pc, op, in, calls[c].order, calls[c].status)),
         UNCHANGED <<quotes, orders, events, had, outages>>
  PROVE  TypeInv' /\ RowStep /\ calls'[c].pc \in {"find", "quote"}
<1> DEFINE o == calls[c].order
           st == calls[c].status
<1>1. o \in MaybeOrder /\ st \in Words /\ pc \in Busy
  BY CallFields DEF TypeInv, Busy
<1>0. in \in MaybeInput /\ op \in Ops
  BY DEF MaybeInput, Ops
<1>2. Becomes(c, Rec(pc, op, in, o, st))
  OBVIOUS
<1> HIDE DEF o, st
<1>3. Goes(c, Rec(pc, op, in, o, st)) /\ calls'[c] = Rec(pc, op, in, o, st)
  BY <1>0, <1>1, <1>2, GoesTo
<1>4. RowStep
  BY DEF RowStep
<1>5. TypeInv'
  BY <1>3, <1>4, EventsStay, GoesKeepsTypes DEF TypeInv, TypeOK
<1>6. Rec(pc, op, in, o, st).pc = pc
  BY <1>0, <1>1, RecType
<1>7. QED
  BY <1>3, <1>4, <1>5, <1>6

LEMMA BeginQuoteKeeps ==
  ASSUME TypeInv, NEW c \in Calls, NEW in \in Inputs, BeginQuote(c, in)
  PROVE  TypeInv' /\ RowStep /\ calls'[c].pc \in {"find", "quote"}
<1> DEFINE new == [[calls[c] EXCEPT !.pc = "quote"] EXCEPT !.in = in]
<1>1. calls[c] \in CallType /\ calls[c].op = "quote"
  BY Typed DEF TypeInv, BeginQuote, CallOK
<1>2. new = Rec("quote", "quote", in, calls[c].order, calls[c].status)
  BY <1>1, ChangedIn
<1>3. Becomes(c, new)
  BY Typed DEF TypeInv, Becomes, BeginQuote
<1> HIDE DEF new
<1>4. UNCHANGED <<quotes, orders, events, had, outages>>
  BY DEF BeginQuote
<1>5. QED
  BY <1>2, <1>3, <1>4, BeginsKeep

LEMMA BeginCreateKeeps ==
  ASSUME TypeInv, NEW c \in Calls, NEW in \in Inputs, BeginCreate(c, in)
  PROVE  TypeInv' /\ RowStep /\ calls'[c].pc \in {"find", "quote"}
<1> DEFINE pc == IF in.req = None THEN "quote" ELSE "find"
           at == [[calls[c] EXCEPT !.pc = pc] EXCEPT !.op = "create"]
           new == [at EXCEPT !.in = in]
<1>1. calls[c] \in CallType
  BY Typed DEF TypeInv
<1>0. at = Rec(pc, "create", calls[c].in, calls[c].order, calls[c].status)
  BY <1>1, ChangedOp
<1>3. Becomes(c, new)
  BY Typed DEF TypeInv, Becomes, BeginCreate
<1>4. pc \in {"quote", "find"} /\ (pc = "find" => in.req # None)
  OBVIOUS
<1> HIDE DEF at, pc
<1>2. new = Rec(pc, "create", in, calls[c].order, calls[c].status)
  BY <1>0, ChangedRec
<1> HIDE DEF new
<1>5. UNCHANGED <<quotes, orders, events, had, outages>>
  BY DEF BeginCreate
<1>6. QED
  BY <1>2, <1>3, <1>4, <1>5, BeginsKeep

LEMMA BeginUpdateKeeps ==
  ASSUME TypeInv, NEW c \in Calls, NEW o \in OrderIds, NEW st \in RawStatuses,
         BeginUpdate(c, o, st)
  PROVE  TypeInv' /\ RowStep /\ calls'[c].pc \in {"update", "failed"}
<1> DEFINE pc == IF validStatus(st) THEN "update" ELSE "failed"
           at == [[calls[c] EXCEPT !.pc = pc] EXCEPT !.op = "update"]
           about == [at EXCEPT !.order = o]
           new == [about EXCEPT !.status = st]
           in == calls[c].in
<1>1. calls[c] \in CallType
  BY Typed DEF TypeInv
<1>0. at = Rec(pc, "update", in, calls[c].order, calls[c].status)
  BY <1>1, ChangedOp
<1>2. /\ in \in MaybeInput /\ "update" \in Ops /\ o \in MaybeOrder /\ st \in Words
  BY CallFields DEF TypeInv, Ops, MaybeOrder, Words
<1>3. Becomes(c, new)
  BY Typed DEF TypeInv, Becomes, BeginUpdate
<1>4. pc \in {"update", "failed"} /\ (pc = "update" => st \in Statuses)
  BY DEF validStatus
<1> HIDE DEF at, pc, in
<1>11. about = Rec(pc, "update", in, o, calls[c].status)
  BY <1>0 DEF Rec
<1> HIDE DEF about
<1>12. new = Rec(pc, "update", in, o, st)
  BY <1>11 DEF Rec
<1> HIDE DEF new
<1>5. /\ RowStep /\ quotes' = quotes /\ events' = events /\ outages' = outages
  BY DEF BeginUpdate, RowStep
<1>6. pc \in Busy /\ pc \notin {"find", "quote", "insert", "event"}
  BY <1>4 DEF Busy
<1>7. Goes(c, Rec(pc, "update", in, o, st)) /\ calls'[c] = Rec(pc, "update", in, o, st)
  BY <1>2, <1>3, <1>12, <1>4, <1>6, GoesTo
<1>8. Rec(pc, "update", in, o, st).pc = pc
  BY <1>2, <1>6, RecType
<1>9. TypeInv'
  BY <1>5, <1>7, EventsStay, GoesKeepsTypes DEF TypeInv, TypeOK
<1>10. QED
  BY <1>4, <1>5, <1>7, <1>8, <1>9

LEMMA FindRequestKeeps ==
  ASSUME TypeInv, NEW c \in Calls, FindRequest(c)
  PROVE  /\ TypeInv' /\ RowStep
         /\ \/ calls'[c].pc = "quote"
            \/ /\ calls'[c].pc = "ok" /\ calls'[c].in = calls[c].in
               /\ calls'[c].order \in OrdersOf(calls[c].in.user, calls[c].in.req)
<1>1. /\ RowStep /\ quotes' = quotes /\ events' = events /\ outages' \in 0 .. MaxOutages
  BY Failed DEF FindRequest, RowStep, TypeInv, TypeOK
<1>2. calls[c].op = "create" /\ calls[c].in \in Inputs
  BY DEF FindRequest, TypeInv, CallOK
<1>3. CASE Moves(c, "quote")
  <2>1. (\E new : Goes(c, new)) /\ calls'[c].pc = "quote"
    BY <1>2, <1>3, GoesOn DEF Busy
  <2>2. TypeInv'
    BY <1>1, <2>1, EventsStay, GoesKeepsTypes DEF TypeInv, TypeOK
  <2>3. QED
    BY <1>1, <2>1, <2>2
<1>4. ASSUME NEW o \in OrdersOf(calls[c].in.user, calls[c].in.req),
             calls' = [calls EXCEPT ![c].pc = "ok", ![c].order = o]
      PROVE  /\ TypeInv' /\ RowStep
             /\ calls'[c].pc = "ok" /\ calls'[c].op = "create"
             /\ calls'[c].in = calls[c].in /\ calls'[c].order = o
  <2> DEFINE new == [[calls[c] EXCEPT !.pc = "ok"] EXCEPT !.order = o]
             in == calls[c].in
             st == calls[c].status
  <2>1. calls[c] \in CallType
    BY Typed DEF TypeInv
  <2>2. new = Rec("ok", "create", in, o, st)
    BY <1>2, <2>1, ChangedOrder
  <2>3. Becomes(c, new)
    BY <1>4, Typed DEF TypeInv, Becomes
  <2>4. /\ o \in MaybeOrder /\ "ok" \in Busy /\ "create" \in Ops /\ in \in MaybeInput
        /\ st \in Words /\ in \in Inputs
    BY <1>2, <1>4, CallFields DEF TypeInv, OrdersOf, Stored, MaybeOrder, MaybeInput, Busy, Ops
  <2>7. calls[c].in = in
    OBVIOUS
  <2> HIDE DEF new, in, st
  <2>5. Goes(c, Rec("ok", "create", in, o, st)) /\ calls'[c] = Rec("ok", "create", in, o, st)
    BY <2>2, <2>3, <2>4, GoesTo
  <2>6. /\ Rec("ok", "create", in, o, st).pc = "ok" /\ Rec("ok", "create", in, o, st).in = in
        /\ Rec("ok", "create", in, o, st).order = o /\ Rec("ok", "create", in, o, st).op = "create"
    BY <2>4, RecType
  <2>8. TypeInv'
    BY <1>1, <2>5, EventsStay, GoesKeepsTypes DEF TypeInv, TypeOK
  <2>9. QED
    BY <1>1, <2>5, <2>6, <2>7, <2>8
<1>5. QED
  BY <1>3, <1>4 DEF FindRequest

LEMMA SaveQuoteKeeps ==
  ASSUME TypeInv, NEW c \in Calls, SaveQuote(c)
  PROVE  /\ TypeInv' /\ RowStep /\ quotes \subseteq quotes'
         /\ calls'[c].op = calls[c].op /\ calls'[c].in = calls[c].in
         /\ calls'[c].order = calls[c].order /\ calls'[c].pc \in {"failed", "ok", "insert"}
         /\ calls'[c].pc = "ok" => calls[c].op = "quote"
<1> DEFINE in == calls[c].in
           q == Quoted(in)
           saved == [call |-> c, user |-> q.user, amount |-> q.amount, fee |-> q.fee,
                     output |-> q.output, minOutput |-> q.minOutput]
<1>1. in \in Inputs /\ calls[c].op \in {"quote", "create"}
  BY CallFields DEF SaveQuote, TypeInv, CallOK, Ops
<1>2. RowStep /\ events' = events /\ outages' \in 0 .. MaxOutages
  BY Failed DEF SaveQuote, RowStep, TypeInv, TypeOK
<1>3. quotes' = quotes \/ (in.bps <= 5000 /\ quotes' = quotes \cup {saved})
  BY DEF SaveQuote
<1>4. in.bps <= 5000 => saved \in Quotes
  <2> SUFFICES ASSUME in.bps <= 5000 PROVE saved \in Quotes
    OBVIOUS
  <2>1. /\ q.user = in.user /\ q.amount \in Nat /\ q.fee \in Nat /\ q.output \in Nat
        /\ q.minOutput \in Nat
    BY <1>1, QuotedAmounts
  <2>2. in.user \in Users
    BY <1>1, InputsAssumption DEF InputsAssumption
  <2> HIDE DEF q, in
  <2>3. QED
    BY <2>1, <2>2 DEF Quotes
<1>5. quotes \subseteq quotes' /\ quotes' \subseteq Quotes
  <2> HIDE DEF saved
  <2>1. QED
    BY <1>3, <1>4 DEF TypeInv, TypeOK
<1>6. CASE Moves(c, "failed")
  <2>1. /\ \E new : Goes(c, new)
        /\ calls'[c].pc = "failed" /\ calls'[c].op = calls[c].op /\ calls'[c].in = calls[c].in
        /\ calls'[c].order = calls[c].order
    BY <1>6, GoesOn DEF Busy
  <2>2. TypeInv'
    BY <1>2, <1>5, <2>1, EventsStay, GoesKeepsTypes
  <2>3. QED
    BY <1>2, <1>5, <2>1, <2>2
<1>7. CASE calls[c].op = "quote" /\ Moves(c, "ok")
  <2>1. /\ \E new : Goes(c, new)
        /\ calls'[c].pc = "ok" /\ calls'[c].op = calls[c].op /\ calls'[c].in = calls[c].in
        /\ calls'[c].order = calls[c].order
    BY <1>7, GoesOn DEF Busy
  <2>2. TypeInv'
    BY <1>2, <1>5, <2>1, EventsStay, GoesKeepsTypes
  <2>3. QED
    BY <1>2, <1>5, <1>7, <2>1, <2>2
<1>8. CASE calls[c].op = "create" /\ in.bps <= 5000 /\ Moves(c, "insert")
  <2>1. /\ \E new : Goes(c, new)
        /\ calls'[c].pc = "insert" /\ calls'[c].op = calls[c].op /\ calls'[c].in = calls[c].in
        /\ calls'[c].order = calls[c].order
    BY <1>1, <1>8, GoesOn DEF Busy
  <2>2. TypeInv'
    BY <1>2, <1>5, <2>1, EventsStay, GoesKeepsTypes
  <2>3. QED
    BY <1>2, <1>5, <2>1, <2>2
<1>9. \/ Moves(c, "failed")
      \/ calls[c].op = "quote" /\ Moves(c, "ok")
      \/ calls[c].op = "create" /\ in.bps <= 5000 /\ Moves(c, "insert")
  BY <1>1 DEF SaveQuote
<1>10. QED
  BY <1>6, <1>7, <1>8, <1>9

LEMMA RowStatus ==
  ASSUME TypeInv, RowStep, NEW o \in Stored'
  PROVE  o \in OrderIds /\ orders'[o] \in Row /\ orders'[o].status \in Statuses
<1>1. o \in OrderIds /\ orders'[o] # Absent
  BY DEF Stored
<1>2. orders'[o] \in Row
  BY <1>1, RowsKept
<1>3. QED
  BY <1>1, <1>2 DEF Row

LEMMA AnswersKeep ==
  ASSUME TypeInv, RowStep, NEW c \in Calls, calls[c].pc = "insert", NEW o \in Stored',
         Answers(c, "event", o), quotes' = quotes, events' = events, outages' = outages
  PROVE  /\ TypeInv' /\ calls'[c].pc = "event" /\ calls'[c].op = "create"
         /\ calls'[c].in = calls[c].in /\ calls'[c].order = o
         /\ calls'[c].status = orders'[o].status
<1> DEFINE st == orders'[o].status
           in == calls[c].in
           about == [[calls[c] EXCEPT !.pc = "event"] EXCEPT !.order = o]
           new == [about EXCEPT !.status = st]
<1>1. calls[c] \in CallType /\ calls[c].op = "create" /\ in \in Inputs
  BY Typed DEF TypeInv, CallOK
<1>2. o \in OrderIds /\ st \in Statuses
  BY RowStatus
<1>3. Becomes(c, new)
  BY Typed DEF TypeInv, Becomes, Answers
<1>4. st = orders'[o].status /\ in = calls[c].in
  OBVIOUS
<1> HIDE DEF st, in
<1>5. about = Rec("event", "create", in, o, calls[c].status)
  BY <1>1, <1>4, ChangedOrder
<1> HIDE DEF about
<1>6. new = Rec("event", "create", in, o, st)
  BY <1>5 DEF Rec
<1> HIDE DEF new
<1>7. /\ o \in MaybeOrder /\ "event" \in Busy /\ "create" \in Ops /\ in \in MaybeInput
      /\ st \in Words
  BY <1>1, <1>2 DEF MaybeOrder, MaybeInput, Busy, Ops, Words
<1>8. /\ Goes(c, Rec("event", "create", in, o, st))
      /\ calls'[c] = Rec("event", "create", in, o, st)
  BY <1>1, <1>2, <1>3, <1>6, <1>7, GoesTo
<1>9. /\ Rec("event", "create", in, o, st).pc = "event"
      /\ Rec("event", "create", in, o, st).op = "create"
      /\ Rec("event", "create", in, o, st).in = in
      /\ Rec("event", "create", in, o, st).order = o
      /\ Rec("event", "create", in, o, st).status = st
  BY <1>7, RecType
<1>10. TypeInv'
  BY <1>8, EventsStay, GoesKeepsTypes DEF TypeInv, TypeOK
<1>11. QED
  BY <1>4, <1>8, <1>9, <1>10

LEMMA ExistingStored ==
  ASSUME NEW in, NEW o \in Existing(in)
  PROVE  o \in Stored /\ o \in OrdersOf(in.user, in.req)
BY DEF Existing, OrdersOf

\* A handler that could not reach the store is over.
LEMMA FailsKeep ==
  ASSUME TypeInv, RowStep, NEW c \in Calls, calls[c].pc # "idle", Fails, Moves(c, "failed"),
         quotes' = quotes, events' = events
  PROVE  TypeInv' /\ calls'[c].pc = "failed"
<1>1. (\E new : Goes(c, new)) /\ calls'[c].pc = "failed"
  BY GoesOn DEF Busy
<1>2. TypeInv'
  BY <1>1, Failed, EventsStay, GoesKeepsTypes DEF TypeInv, TypeOK
<1>3. QED
  BY <1>1, <1>2

\* An insert answers with the row of the handler's request: one that was there
\* (no row is written then) or its own.
LEMMA InsertOrderKeeps ==
  ASSUME TypeInv, NEW c \in Calls, InsertOrder(c)
  PROVE  /\ TypeInv' /\ RowStep /\ calls[c].pc = "insert"
         /\ \/ calls'[c].pc = "failed" /\ Fails
            \/ /\ calls'[c].pc = "event" /\ calls'[c].op = "create"
               /\ calls'[c].in = calls[c].in /\ calls'[c].order \in Stored'
               /\ calls'[c].status = orders'[calls'[c].order].status
               /\ \/ /\ calls'[c].order \in Existing(calls[c].in)
                     /\ orders' = orders /\ had' = had
                  \/ Inserts(c, calls'[c].order)
<1>1. calls[c].pc = "insert" /\ quotes' = quotes /\ events' = events
  BY DEF InsertOrder
<1>2. ASSUME NEW o \in Existing(calls[c].in), UNCHANGED <<orders, had, outages>>,
             Answers(c, "event", o)
      PROVE  /\ TypeInv' /\ RowStep
             /\ calls'[c].pc = "event" /\ calls'[c].op = "create"
             /\ calls'[c].in = calls[c].in /\ calls'[c].order = o /\ o \in Stored'
             /\ calls'[c].status = orders'[o].status
             /\ orders' = orders /\ had' = had
  <2>1. RowStep /\ Stored' = Stored /\ o \in Stored
    BY <1>2, ExistingStored DEF RowStep, Stored
  <2>2. QED
    BY <1>1, <1>2, <2>1, AnswersKeep
<1>3. ASSUME Existing(calls[c].in) = {}, UNCHANGED outages,
             NEW o \in OrderIds \ Stored, Writes(o, NewRow(c)), Answers(c, "event", o)
      PROVE  /\ TypeInv' /\ RowStep
             /\ calls'[c].pc = "event" /\ calls'[c].op = "create"
             /\ calls'[c].in = calls[c].in /\ calls'[c].order = o /\ o \in Stored'
             /\ calls'[c].status = orders'[o].status
             /\ Inserts(c, o)
  <2>1. Inserts(c, o) /\ RowStep
    BY <1>1, <1>3 DEF Inserts, RowStep
  <2>2. o \in Stored'
    BY <2>1, InsertFacts
  <2>3. QED
    BY <1>1, <1>3, <2>1, <2>2, AnswersKeep
<1>4. ASSUME Fails, Moves(c, "failed"),
             \/ UNCHANGED <<orders, had>>
             \/ Existing(calls[c].in) = {} /\ \E o \in OrderIds \ Stored : Writes(o, NewRow(c))
      PROVE  TypeInv' /\ RowStep /\ calls'[c].pc = "failed"
  <2>1. RowStep
    BY <1>1, <1>4 DEF RowStep, Inserts
  <2>2. QED
    BY <1>1, <1>4, <2>1, FailsKeep
<1>5. \/ \E o \in Existing(calls[c].in) :
            UNCHANGED <<orders, had, outages>> /\ Answers(c, "event", o)
      \/ /\ Existing(calls[c].in) = {} /\ UNCHANGED outages
         /\ \E o \in OrderIds \ Stored : Writes(o, NewRow(c)) /\ Answers(c, "event", o)
      \/ /\ Fails /\ Moves(c, "failed")
         /\ \/ UNCHANGED <<orders, had>>
            \/ Existing(calls[c].in) = {} /\ \E o \in OrderIds \ Stored : Writes(o, NewRow(c))
  BY DEF InsertOrder
<1>6. QED
  BY <1>1, <1>2, <1>3, <1>4, <1>5

LEMMA UpdateStatusKeeps ==
  ASSUME TypeInv, NEW c \in Calls, UpdateStatus(c)
  PROVE  /\ TypeInv' /\ RowStep /\ calls[c].pc = "update"
         /\ \/ calls'[c].pc = "failed" /\ Fails
            \/ calls'[c].pc = "failed" /\ orders' = orders /\ had' = had
            \/ /\ calls'[c].pc = "event" /\ Updates(c) /\ calls'[c].op = "update"
               /\ calls'[c].order = calls[c].order /\ calls'[c].status = calls[c].status
<1>1. /\ calls[c].pc = "update" /\ quotes' = quotes /\ events' = events
      /\ calls[c].op = "update" /\ calls[c].status \in Statuses
  BY DEF UpdateStatus, TypeInv, CallOK
<1>2. CASE Updates(c) /\ Moves(c, "event") /\ outages' = outages
  <2>1. RowStep /\ calls[c].order \in Stored'
    BY <1>2, UpdateFacts DEF RowStep
  <2>2. /\ \E new : Goes(c, new)
        /\ calls'[c].pc = "event" /\ calls'[c].op = "update"
        /\ calls'[c].order = calls[c].order /\ calls'[c].status = calls[c].status
    BY <1>1, <1>2, <2>1, GoesOn DEF Busy
  <2>3. TypeInv'
    BY <1>1, <1>2, <2>1, <2>2, EventsStay, GoesKeepsTypes DEF TypeInv, TypeOK
  <2>4. QED
    BY <1>1, <1>2, <2>1, <2>2, <2>3
<1>3. CASE Moves(c, "failed") /\ UNCHANGED <<orders, had, outages>>
  <2>1. RowStep
    BY <1>3 DEF RowStep
  <2>2. (\E new : Goes(c, new)) /\ calls'[c].pc = "failed"
    BY <1>3, GoesOn DEF Busy
  <2>3. TypeInv'
    BY <1>1, <1>3, <2>1, <2>2, EventsStay, GoesKeepsTypes DEF TypeInv, TypeOK
  <2>4. QED
    BY <1>1, <1>3, <2>1, <2>2, <2>3
<1>4. CASE Fails /\ Moves(c, "failed") /\ (UNCHANGED <<orders, had>> \/ Updates(c))
  <2>1. RowStep
    BY <1>4 DEF RowStep
  <2>2. QED
    BY <1>1, <1>4, <2>1, FailsKeep
<1>5. \/ Updates(c) /\ Moves(c, "event") /\ outages' = outages
      \/ Moves(c, "failed") /\ UNCHANGED <<orders, had, outages>>
      \/ Fails /\ Moves(c, "failed") /\ (UNCHANGED <<orders, had>> \/ Updates(c))
  BY DEF UpdateStatus, Updates
<1>6. QED
  BY <1>2, <1>3, <1>4, <1>5

LEMMA RecordEventKeeps ==
  ASSUME TypeInv, NEW c \in Calls, RecordEvent(c)
  PROVE  /\ TypeInv' /\ RowStep /\ calls[c].pc = "event"
         /\ calls'[c].pc = "ok" /\ calls'[c].op = calls[c].op /\ calls'[c].in = calls[c].in
         /\ calls'[c].order = calls[c].order /\ calls[c].order \in Stored
<1>1. /\ calls[c].pc = "event" /\ Moves(c, "ok") /\ quotes' = quotes
      /\ orders' = orders /\ had' = had
      /\ calls[c].order \in Stored /\ calls[c].status \in Statuses
      /\ calls[c].in \in Inputs \/ calls[c].op # "create"
      /\ calls[c].op \in {"create", "update"}
  BY DEF RecordEvent, TypeInv, TypeOK, CallOK
<1>2. RowStep /\ Stored' = Stored
  BY <1>1 DEF RowStep, Stored
<1>3. outages' \in 0 .. MaxOutages
  BY Failed DEF RecordEvent, TypeInv, TypeOK
<1>4. EventOf(c) \in Event /\ EventOf(c).order = calls[c].order
  <2>1. calls[c].order \in OrderIds
    BY <1>1 DEF Stored
  <2>2. QED
    BY <1>1, <2>1 DEF EventOf, Event
<1>5. events' = events \/ events' = events \cup {EventOf(c)}
  BY DEF RecordEvent
<1>6. events' \subseteq Event /\ \A e \in events' : e.order \in Stored'
  BY <1>1, <1>2, <1>4, <1>5 DEF TypeInv, TypeOK
<1>7. /\ \E new : Goes(c, new)
      /\ calls'[c].pc = "ok" /\ calls'[c].op = calls[c].op /\ calls'[c].in = calls[c].in
      /\ calls'[c].order = calls[c].order
  BY <1>1, GoesOn DEF Busy
<1>8. TypeInv'
  BY <1>1, <1>2, <1>3, <1>6, <1>7, GoesKeepsTypes DEF TypeInv, TypeOK
<1>9. QED
  BY <1>1, <1>2, <1>7, <1>8

\* A crash ends what was under way.
LEMMA CrashKeeps ==
  ASSUME TypeInv, Crash
  PROVE  /\ TypeInv' /\ RowStep /\ quotes' = quotes /\ events' = events /\ outages' > 0
         /\ \A d \in Calls : calls'[d] = calls[d] \/ calls'[d].pc = "failed"
<1>1. /\ quotes' = quotes /\ orders' = orders /\ events' = events /\ had' = had
      /\ Stored' = Stored
  BY DEF Crash, Stored
<1>2. outages' \in 0 .. MaxOutages /\ outages' > 0
  BY Failed DEF Crash, Fails, TypeInv, TypeOK
<1>3. /\ calls' \in [Calls -> CallType]
      /\ \A d \in Calls : calls'[d] = calls[d] \/ (calls'[d] \in CallType /\ calls'[d].pc = "failed"
           /\ calls'[d].op = calls[d].op /\ calls'[d].in = calls[d].in)
  <2> DEFINE over(d) == [calls[d] EXCEPT !.pc = "failed"]
  <2>1. \A d \in Calls : /\ over(d) \in CallType /\ over(d).pc = "failed"
                         /\ over(d).op = calls[d].op /\ over(d).in = calls[d].in
    BY Typed DEF TypeInv, CallType, Pcs, Busy
  <2>2. calls' = [d \in Calls |-> IF calls[d].pc \in {"idle", "ok"} THEN calls[d] ELSE over(d)]
    BY DEF Crash
  <2> HIDE DEF over
  <2>3. QED
    BY <2>1, <2>2, Typed DEF TypeInv
<1>4. \A d \in Calls : CallOK(calls'[d])
  BY <1>3 DEF TypeInv, CallOK
<1>5. (\A d \in Calls : CallOK(calls[d]))'
  BY <1>4 DEF CallOK
<1>6. \A d \in Calls : calls'[d].pc = "event" => calls'[d].order \in Stored'
  BY <1>1, <1>3 DEF TypeInv, TypeOK
<1>7. TypeOK'
  BY <1>1, <1>2, <1>3, <1>6
  DEF TypeInv, TypeOK, CallType, Pcs, Busy, Ops, MaybeInput, MaybeOrder, Words
<1>8. QED
  BY <1>1, <1>2, <1>3, <1>5, <1>7 DEF TypeInv, RowStep

\* A step of handler c.
StepOf(c) ==
  \/ \E in \in Inputs : BeginQuote(c, in) \/ BeginCreate(c, in)
  \/ \E o \in OrderIds, st \in RawStatuses : BeginUpdate(c, o, st)
  \/ FindRequest(c) \/ SaveQuote(c) \/ InsertOrder(c) \/ UpdateStatus(c) \/ RecordEvent(c)

LEMMA NextIs ==
  ASSUME Next
  PROVE  Crash \/ \E c \in Calls : StepOf(c)
BY DEF Next, StepOf

LEMMA OthersStay ==
  ASSUME TypeOK, NEW c \in Calls, StepOf(c), NEW d \in Calls, d # c
  PROVE  calls'[d] = calls[d]
<1>1. calls \in [Calls -> CallType]
  BY Typed
<1>2. ASSUME NEW new, calls' = [calls EXCEPT ![c] = new]
      PROVE  calls'[d] = calls[d]
  BY <1>1, <1>2
<1>3. ASSUME NEW pc, Moves(c, pc)
      PROVE  calls'[d] = calls[d]
  BY <1>1, <1>3 DEF Moves
<1>4. ASSUME NEW pc, NEW o, Answers(c, pc, o)
      PROVE  calls'[d] = calls[d]
  BY <1>1, <1>4 DEF Answers
<1>5. ASSUME NEW in \in Inputs, BeginQuote(c, in) \/ BeginCreate(c, in)
      PROVE  calls'[d] = calls[d]
  BY <1>1, <1>5 DEF BeginQuote, BeginCreate
<1>6. ASSUME NEW o \in OrderIds, NEW st \in RawStatuses, BeginUpdate(c, o, st)
      PROVE  calls'[d] = calls[d]
  BY <1>1, <1>6 DEF BeginUpdate
<1>7. ASSUME FindRequest(c)
      PROVE  calls'[d] = calls[d]
  BY <1>1, <1>3, <1>7 DEF FindRequest
<1>8. SaveQuote(c) \/ UpdateStatus(c) \/ RecordEvent(c) => \E pc : Moves(c, pc)
  BY DEF SaveQuote, UpdateStatus, RecordEvent
<1>9. InsertOrder(c) => (\E pc : Moves(c, pc)) \/ \E pc, o : Answers(c, pc, o)
  BY DEF InsertOrder
<1>10. QED
  BY <1>3, <1>4, <1>5, <1>6, <1>7, <1>8, <1>9 DEF StepOf

LEMMA StepKeepsTypes ==
  ASSUME TypeInv, NEW c \in Calls, StepOf(c)
  PROVE  TypeInv' /\ RowStep
BY BeginQuoteKeeps, BeginCreateKeeps, BeginUpdateKeeps, FindRequestKeeps, SaveQuoteKeeps,
   InsertOrderKeeps, UpdateStatusKeeps, RecordEventKeeps DEF StepOf

LEMMA NextKeepsTypes ==
  ASSUME TypeInv, [Next]_vars
  PROVE  TypeInv' /\ RowStep
<1>1. CASE Next
  BY <1>1, NextIs, CrashKeeps, StepKeepsTypes
<1>2. CASE vars' = vars
  BY <1>2 DEF vars, TypeInv, TypeOK, CallOK, Stored, RowStep
<1>3. QED
  BY <1>1, <1>2

LEMMA InitTypes == Init => TypeInv
<1> SUFFICES ASSUME Init PROVE TypeInv
  OBVIOUS
<1>1. /\ quotes = {} /\ events = {} /\ outages = 0
      /\ orders = [o \in OrderIds |-> Absent] /\ had = [o \in OrderIds |-> {}]
      /\ calls = [c \in Calls |-> Idle]
  BY DEF Init
<1>2. Idle \in CallType /\ Idle.pc = "idle" /\ Idle.op = "quote"
  BY DEF Idle, CallType, Pcs, Ops, MaybeInput, MaybeOrder, Words, Statuses
<1>3. \A c \in Calls : CallOK(calls[c])
  <2>1. CallOK(Idle)
    BY <1>2 DEF CallOK
  <2>2. QED
    BY <1>1, <2>1
<1>4. 0 \in 0 .. MaxOutages
  BY FailingAssumption DEF FailingAssumption
<1>5. TypeOK
  BY <1>1, <1>2, <1>4
  DEF TypeOK, CallType, Pcs, Busy, Ops, MaybeInput, MaybeOrder, Words, Stored
<1>6. QED
  BY <1>3, <1>5 DEF TypeInv

\* Values keep their types, and a handler about to record an event does so for
\* a stored order (TypeOK).
THEOREM TypeCorrect == Spec => []TypeOK
<1>1. TypeInv /\ [Next]_vars => TypeInv'
  BY NextKeepsTypes
<1>2. TypeInv => TypeOK
  BY DEF TypeInv
<1>3. QED
  BY InitTypes, <1>1, <1>2, PTL DEF Spec

-----------------------------------------------------------------------------
\* One order per request.

\* A request has one row, and a handler that answers a create has the row of its
\* request.
UniqueRequests ==
  \A o, p \in Stored :
    /\ orders[o].user = orders[p].user /\ orders[o].req = orders[p].req
    /\ orders[o].req # None
    => o = p

AnswersOwn ==
  \A c \in Calls : calls[c].op = "create" /\ calls[c].pc \in {"event", "ok"} =>
    calls[c].order \in OrdersOf(calls[c].in.user, calls[c].in.req)

RequestInv == TypeInv /\ UniqueRequests /\ AnswersOwn

LEMMA UniqueKept ==
  ASSUME TypeInv, UniqueRequests, RowStep
  PROVE  UniqueRequests'
<1>1. CASE Stored' = Stored
  BY <1>1, RowsKept DEF UniqueRequests
<1>2. ASSUME NEW c \in Calls, NEW n \in OrderIds, Inserts(c, n)
      PROVE  UniqueRequests'
  <2> DEFINE in == calls[c].in
  <2>1. /\ Stored' = Stored \cup {n} /\ n \notin Stored /\ orders'[n].user = in.user
        /\ orders'[n].req = in.req /\ Stored \subseteq OrderIds
    BY <1>2, InsertFacts DEF Stored
  <2>2. \A p \in Stored : orders'[p] = orders[p]
    BY <1>2, <2>1, InsertFacts
  <2>3. \A p \in Stored : in.req # None => orders[p].user # in.user \/ orders[p].req # in.req
    BY <1>2 DEF Inserts, Existing, OrdersOf
  <2> HIDE DEF in
  <2>4. QED
    BY <2>1, <2>2, <2>3 DEF UniqueRequests
<1>3. ASSUME NEW c \in Calls, Updates(c)
      PROVE  Stored' = Stored
  BY <1>3, UpdateFacts
<1>4. orders' = orders => Stored' = Stored
  BY DEF Stored
<1>5. QED
  BY <1>1, <1>2, <1>3, <1>4 DEF RowStep

LEMMA OrdersOfKept ==
  ASSUME TypeInv, RowStep, NEW user, NEW req
  PROVE  OrdersOf(user, req) \subseteq OrdersOf(user, req)'
BY RowsKept DEF OrdersOf

LEMMA AnswersOwnKept ==
  ASSUME TypeInv, AnswersOwn, NEW c \in Calls, StepOf(c)
  PROVE  AnswersOwn'
<1> DEFINE Own(d) == calls[d].op = "create" /\ calls[d].pc \in {"event", "ok"} =>
                       calls[d].order \in OrdersOf(calls[d].in.user, calls[d].in.req)
<1>1. TypeInv' /\ RowStep
  BY StepKeepsTypes
<1>2. ASSUME NEW d \in Calls, d # c
      PROVE  Own(d)'
  BY <1>1, <1>2, OthersStay, OrdersOfKept DEF AnswersOwn, TypeInv
<1>3. calls'[c].pc \notin {"event", "ok"} \/ calls'[c].op # "create" => Own(c)'
  OBVIOUS
<1>4. FindRequest(c) => Own(c)'
  <2> SUFFICES ASSUME FindRequest(c), calls'[c].pc # "quote" PROVE Own(c)'
    OBVIOUS
  <2>1. /\ calls'[c].in = calls[c].in
        /\ calls'[c].order \in OrdersOf(calls[c].in.user, calls[c].in.req)
    BY FindRequestKeeps
  <2>2. QED
    BY <1>1, <2>1, OrdersOfKept
<1>5. SaveQuote(c) => Own(c)'
  BY SaveQuoteKeeps
<1>6. InsertOrder(c) => Own(c)'
  <2> SUFFICES ASSUME InsertOrder(c), calls'[c].pc # "failed" PROVE Own(c)'
    OBVIOUS
  <2>1. PICK n : /\ calls'[c].in = calls[c].in /\ calls'[c].order = n
                 /\ n \in Existing(calls[c].in) \/ Inserts(c, n)
    BY InsertOrderKeeps
  <2>2. CASE n \in Existing(calls[c].in)
    <3>1. n \in OrdersOf(calls[c].in.user, calls[c].in.req)
      BY <2>2, ExistingStored
    <3>2. QED
      BY <1>1, <2>1, <3>1, OrdersOfKept
  <2>3. CASE Inserts(c, n)
    <3>1. /\ Stored' = Stored \cup {n} /\ orders'[n].user = calls[c].in.user
          /\ orders'[n].req = calls[c].in.req
      BY <2>3, InsertFacts
    <3>2. QED
      BY <2>1, <3>1 DEF OrdersOf
  <2>4. QED
    BY <2>1, <2>2, <2>3
<1>7. UpdateStatus(c) => Own(c)'
  BY UpdateStatusKeeps
<1>8. RecordEvent(c) => Own(c)'
  <2> SUFFICES ASSUME RecordEvent(c) PROVE Own(c)'
    OBVIOUS
  <2>1. /\ calls[c].pc = "event" /\ calls'[c].op = calls[c].op /\ calls'[c].in = calls[c].in
        /\ calls'[c].order = calls[c].order
    BY RecordEventKeeps
  <2>2. QED
    BY <1>1, <2>1, OrdersOfKept DEF AnswersOwn
<1>9. Own(c)'
  BY <1>3, <1>4, <1>5, <1>6, <1>7, <1>8, BeginQuoteKeeps, BeginCreateKeeps, BeginUpdateKeeps
  DEF StepOf
<1>10. QED
  BY <1>2, <1>9 DEF AnswersOwn

LEMMA RequestInvKept ==
  ASSUME RequestInv, [Next]_vars
  PROVE  RequestInv'
<1>1. TypeInv' /\ UniqueRequests'
  BY NextKeepsTypes, UniqueKept DEF RequestInv
<1>2. CASE Next
  <2>1. ASSUME NEW c \in Calls, StepOf(c)
        PROVE  AnswersOwn'
    BY <2>1, AnswersOwnKept DEF RequestInv
  <2>2. ASSUME Crash, NEW d \in Calls, calls'[d].op = "create", calls'[d].pc \in {"event", "ok"}
        PROVE  calls'[d].order \in OrdersOf(calls[d].in.user, calls[d].in.req)'
    <3>1. calls'[d] = calls[d] /\ RowStep
      BY <2>2, CrashKeeps DEF RequestInv
    <3>2. calls[d].order \in OrdersOf(calls[d].in.user, calls[d].in.req)
      BY <2>2, <3>1 DEF RequestInv, AnswersOwn
    <3>3. QED
      BY <3>1, <3>2, OrdersOfKept DEF RequestInv
  <2>3. Crash => AnswersOwn'
    BY <2>2 DEF AnswersOwn
  <2>4. AnswersOwn'
    BY <1>2, <2>1, <2>3, NextIs
  <2>5. QED
    BY <1>1, <2>4 DEF RequestInv
<1>3. CASE vars' = vars
  BY <1>3, <1>1 DEF vars, RequestInv, AnswersOwn, OrdersOf, Stored
<1>4. QED
  BY <1>2, <1>3

\* Creates under one request id are answered with the one order of that request
\* (OneOrderPerRequest).
THEOREM OneOrder == Spec => []OneOrderPerRequest
<1>1. Init => RequestInv
  <2> SUFFICES ASSUME Init PROVE UniqueRequests /\ AnswersOwn
    BY InitTypes DEF RequestInv
  <2>1. Stored = {} /\ \A c \in Calls : calls[c].pc = "idle"
    BY DEF Init, Stored, Idle
  <2>2. QED
    BY <2>1 DEF UniqueRequests, AnswersOwn
<1>2. RequestInv /\ [Next]_vars => RequestInv'
  BY RequestInvKept
<1>3. RequestInv => OneOrderPerRequest
  BY DEF RequestInv, UniqueRequests, AnswersOwn, OneOrderPerRequest, OrdersOf
<1>4. QED
  BY <1>1, <1>2, <1>3, PTL DEF Spec

-----------------------------------------------------------------------------
\* Fill times.

\* An order that is not stored has had no status.
HadOfStored == \A p \in OrderIds : p \notin Stored => had[p] = {}

FilledInv == TypeInv /\ HadOfStored /\ FilledIfEverConfirmed

LEMMA FilledKept ==
  ASSUME FilledInv, RowStep
  PROVE  HadOfStored' /\ FilledIfEverConfirmed'
<1>1. CASE orders' = orders /\ had' = had
  BY <1>1 DEF FilledInv, HadOfStored, FilledIfEverConfirmed, Stored
<1>2. ASSUME NEW c \in Calls, NEW n \in OrderIds, Inserts(c, n)
      PROVE  HadOfStored' /\ FilledIfEverConfirmed'
  <2>1. /\ Stored' = Stored \cup {n} /\ n \notin Stored /\ orders'[n].filled = FALSE
        /\ had'[n] = had[n] \cup {"pending"}
        /\ \A p \in OrderIds \ {n} : orders'[p] = orders[p] /\ had'[p] = had[p]
    BY <1>2, InsertFacts DEF FilledInv
  <2>2. had'[n] = {"pending"}
    BY <2>1 DEF FilledInv, HadOfStored
  <2>3. Stored \subseteq OrderIds
    BY DEF Stored
  <2>4. QED
    BY <2>1, <2>2, <2>3 DEF FilledInv, HadOfStored, FilledIfEverConfirmed
<1>3. ASSUME NEW c \in Calls, Updates(c)
      PROVE  HadOfStored' /\ FilledIfEverConfirmed'
  <2> DEFINE n == calls[c].order
             st == calls[c].status
  <2>1. /\ Stored' = Stored /\ n \in Stored /\ n \in OrderIds
        /\ orders'[n].filled = (orders[n].filled \/ st = "confirmed")
        /\ had'[n] = had[n] \cup {st}
        /\ \A p \in OrderIds \ {n} : orders'[p] = orders[p] /\ had'[p] = had[p]
    BY <1>3, UpdateFacts DEF FilledInv
  <2>2. Stored \subseteq OrderIds
    BY DEF Stored
  <2> HIDE DEF n, st
  <2>3. orders'[n].filled <=> "confirmed" \in had'[n]
    BY <2>1 DEF FilledInv, FilledIfEverConfirmed
  <2>4. QED
    BY <2>1, <2>2, <2>3 DEF FilledInv, HadOfStored, FilledIfEverConfirmed
<1>4. QED
  BY <1>1, <1>2, <1>3 DEF RowStep

\* The fill time says whether the order was ever confirmed (FilledIfEverConfirmed).
THEOREM FillTimes == Spec => []FilledIfEverConfirmed
<1>1. Init => FilledInv
  <2> SUFFICES ASSUME Init PROVE HadOfStored /\ FilledIfEverConfirmed
    BY InitTypes DEF FilledInv
  <2>1. QED
    BY DEF Init, Stored, HadOfStored, FilledIfEverConfirmed
<1>2. FilledInv /\ [Next]_vars => FilledInv'
  <2> SUFFICES ASSUME FilledInv, [Next]_vars PROVE FilledInv'
    OBVIOUS
  <2>1. TypeInv' /\ RowStep
    BY NextKeepsTypes DEF FilledInv
  <2>2. QED
    BY <2>1, FilledKept DEF FilledInv
<1>3. FilledInv => FilledIfEverConfirmed
  BY DEF FilledInv
<1>4. QED
  BY <1>1, <1>2, <1>3, PTL DEF Spec

-----------------------------------------------------------------------------
\* Quotes.

\* A quote that a handler computed and saved, with the amounts of its request.
QuoteOf(q, c, in) ==
  /\ q.call = c /\ q.user = in.user /\ q.output = Quoted(in).output
  /\ q.minOutput = Quoted(in).minOutput

AmountsOK == \A q \in quotes : AddsUp(q) /\ MinimumOK(q)

RowQuoted(o) ==
  \E q \in quotes : /\ q.call = orders[o].quote /\ q.user = orders[o].user
                    /\ q.output = orders[o].output /\ q.minOutput = orders[o].minOutput

RowsQuoted == \A o \in Stored : RowQuoted(o)

\* A handler about to insert has saved the quote its row will name.
InsertersQuoted ==
  \A c \in Calls : calls[c].pc = "insert" => \E q \in quotes : QuoteOf(q, c, calls[c].in)

QuotedInv == TypeInv /\ AmountsOK /\ RowsQuoted /\ InsertersQuoted

LEMMA SavedQuote ==
  ASSUME TypeInv, NEW c \in Calls, SaveQuote(c)
  PROVE  \/ quotes' = quotes /\ calls'[c].pc # "insert"
         \/ \E new : /\ quotes' = quotes \cup {new} /\ QuoteOf(new, c, calls[c].in)
                     /\ AddsUp(new) /\ MinimumOK(new)
<1> DEFINE in == calls[c].in
           q == Quoted(in)
           saved == [call |-> c, user |-> q.user, amount |-> q.amount, fee |-> q.fee,
                     output |-> q.output, minOutput |-> q.minOutput]
<1>1. in \in Inputs
  BY DEF SaveQuote, TypeInv, CallOK
<1>2. \/ quotes' = quotes /\ Moves(c, "failed")
      \/ in.bps <= 5000 /\ quotes' = quotes \cup {saved}
  BY DEF SaveQuote
<1>3. CASE quotes' = quotes /\ Moves(c, "failed")
  <2>1. calls'[c].pc = "failed"
    BY <1>3, Typed DEF Moves, TypeInv, CallType
  <2>2. QED
    BY <1>3, <2>1
<1>4. CASE in.bps <= 5000 /\ quotes' = quotes \cup {saved}
  <2>1. /\ saved.call = c /\ saved.user = in.user /\ saved.output = q.output
        /\ saved.minOutput = q.minOutput /\ saved.fee = q.fee /\ saved.amount = q.amount
    BY <1>1, <1>4, QuotedAmounts
  <2>4. AddsUp(saved) /\ MinimumOK(saved)
    BY <1>1, <1>4, <2>1, QuotedAmounts DEF AddsUp, MinimumOK
  <2>2. QuoteOf(saved, c, in)
    BY <2>1 DEF QuoteOf
  <2> HIDE DEF saved
  <2>3. QED
    BY <1>4, <2>1, <2>2, <2>4
<1>5. QED
  BY <1>2, <1>3, <1>4

LEMMA QuotesGrow ==
  ASSUME TypeInv, NEW c \in Calls, StepOf(c)
  PROVE  /\ quotes \subseteq quotes'
         /\ calls'[c].pc = "insert" => SaveQuote(c)
         /\ quotes' = quotes \/ SaveQuote(c)
<1>1. SaveQuote(c) => quotes \subseteq quotes'
  BY SaveQuoteKeeps
<1>2. ~ SaveQuote(c) => quotes' = quotes
  BY DEF StepOf, BeginQuote, BeginCreate, BeginUpdate, FindRequest, InsertOrder, UpdateStatus,
         RecordEvent
<1>3. ~ SaveQuote(c) => calls'[c].pc # "insert"
  BY BeginQuoteKeeps, BeginCreateKeeps, BeginUpdateKeeps, FindRequestKeeps, InsertOrderKeeps,
     UpdateStatusKeeps, RecordEventKeeps DEF StepOf
<1>4. QED
  BY <1>1, <1>2, <1>3

LEMMA RowsQuotedKept ==
  ASSUME TypeInv, RowsQuoted, InsertersQuoted, RowStep, quotes \subseteq quotes'
  PROVE  RowsQuoted'
<1>1. ASSUME NEW p \in Stored
      PROVE  RowQuoted(p)'
  BY RowsKept DEF RowsQuoted, RowQuoted
<1>2. ASSUME NEW c \in Calls, NEW n \in OrderIds, Inserts(c, n)
      PROVE  Stored' = Stored \cup {n} /\ RowQuoted(n)'
  <2>1. /\ Stored' = Stored \cup {n} /\ orders'[n].user = calls[c].in.user /\ orders'[n].quote = c
        /\ orders'[n].output = Quoted(calls[c].in).output
        /\ orders'[n].minOutput = Quoted(calls[c].in).minOutput
    BY <1>2, InsertFacts
  <2>2. PICK q \in quotes : QuoteOf(q, c, calls[c].in)
    BY <1>2 DEF InsertersQuoted, Inserts
  <2>3. QED
    BY <2>1, <2>2 DEF QuoteOf, RowQuoted
<1>3. ASSUME NEW c \in Calls, Updates(c)
      PROVE  Stored' = Stored
  BY <1>3, UpdateFacts
<1>4. orders' = orders => Stored' = Stored
  BY DEF Stored
<1>5. QED
  BY <1>1, <1>2, <1>3, <1>4 DEF RowStep, RowsQuoted

LEMMA QuotedKept ==
  ASSUME QuotedInv, NEW c \in Calls, StepOf(c)
  PROVE  QuotedInv'
<1>1. TypeInv' /\ RowStep /\ TypeInv
  BY StepKeepsTypes DEF QuotedInv
<1>2. quotes \subseteq quotes'
  BY <1>1, QuotesGrow
<1>3. RowsQuoted'
  BY <1>1, <1>2, RowsQuotedKept DEF QuotedInv
<1>4. AmountsOK'
  <2>1. CASE quotes' = quotes
    BY <2>1 DEF QuotedInv, AmountsOK, AddsUp, MinimumOK
  <2>2. CASE SaveQuote(c)
    BY <1>1, <2>2, SavedQuote DEF QuotedInv, AmountsOK, AddsUp, MinimumOK
  <2>3. QED
    BY <1>1, <2>1, <2>2, QuotesGrow
<1>5. ASSUME NEW d \in Calls, calls'[d].pc = "insert"
      PROVE  \E q \in quotes' : QuoteOf(q, d, calls'[d].in)
  <2>1. CASE d # c
    <3>1. calls'[d] = calls[d]
      BY <1>1, <2>1, OthersStay DEF TypeInv
    <3>2. QED
      BY <1>2, <1>5, <3>1 DEF QuotedInv, InsertersQuoted
  <2>2. CASE d = c
    <3>1. SaveQuote(c)
      BY <1>1, <1>5, <2>2, QuotesGrow
    <3>2. calls'[c].in = calls[c].in
      BY <1>1, <3>1, SaveQuoteKeeps
    <3>3. QED
      BY <1>1, <1>5, <2>2, <3>1, <3>2, SavedQuote
  <2>3. QED
    BY <2>1, <2>2
<1>6. InsertersQuoted'
  BY <1>5 DEF InsertersQuoted, QuoteOf
<1>7. QED
  BY <1>1, <1>3, <1>4, <1>6 DEF QuotedInv

\* Orders have the amounts of a saved quote of their user, whose fee and output
\* make up the input to half of 10^-18, for any amount, however fine, and any
\* slippage a client may ask for (OrdersAreQuoted).
THEOREM AllQuoted == Spec => []OrdersAreQuoted
<1>1. Init => QuotedInv
  <2> SUFFICES ASSUME Init PROVE AmountsOK /\ RowsQuoted /\ InsertersQuoted
    BY InitTypes DEF QuotedInv
  <2>1. quotes = {} /\ Stored = {} /\ \A c \in Calls : calls[c].pc = "idle"
    BY DEF Init, Stored, Idle
  <2>2. QED
    BY <2>1 DEF AmountsOK, AddsUp, MinimumOK, RowsQuoted, InsertersQuoted
<1>2. QuotedInv /\ [Next]_vars => QuotedInv'
  <2> SUFFICES ASSUME QuotedInv, [Next]_vars PROVE QuotedInv'
    OBVIOUS
  <2>1. CASE Crash
    <3>1. /\ TypeInv' /\ RowStep /\ quotes' = quotes
          /\ \A d \in Calls : calls'[d] = calls[d] \/ calls'[d].pc = "failed"
      BY <2>1, CrashKeeps DEF QuotedInv
    <3>2. RowsQuoted'
      BY <3>1, RowsQuotedKept DEF QuotedInv
    <3>3. AmountsOK' /\ InsertersQuoted'
      BY <3>1 DEF QuotedInv, AmountsOK, AddsUp, MinimumOK, InsertersQuoted, QuoteOf
    <3>4. QED
      BY <3>1, <3>2, <3>3 DEF QuotedInv
  <2>2. CASE vars' = vars
    <3>1. TypeInv' /\ RowStep
      BY NextKeepsTypes DEF QuotedInv
    <3>2. RowsQuoted'
      BY <2>2, <3>1, RowsQuotedKept DEF QuotedInv, vars
    <3>3. AmountsOK' /\ InsertersQuoted'
      BY <2>2 DEF vars, QuotedInv, AmountsOK, AddsUp, MinimumOK, InsertersQuoted, QuoteOf
    <3>4. QED
      BY <3>1, <3>2, <3>3 DEF QuotedInv
  <2>3. CASE Next
    BY <2>1, <2>3, NextIs, QuotedKept
  <2>4. QED
    BY <2>2, <2>3
<1>3. QuotedInv => OrdersAreQuoted
  BY DEF QuotedInv, AmountsOK, AddsUp, MinimumOK, RowsQuoted, RowQuoted, OrdersAreQuoted
<1>4. QED
  BY <1>1, <1>2, <1>3, PTL DEF Spec

-----------------------------------------------------------------------------
\* Events.

StatusHad == \A p \in Stored : orders[p].status \in had[p]

\* A handler about to record an event does so of a status the order has had.
PendingHad ==
  \A c \in Calls : calls[c].pc = "event" => calls[c].status \in had[calls[c].order]

EventsHad == \A e \in events : e.status \in had[e.order]

Told(p, st) == \E e \in events : e.order = p /\ e.status = st

\* What an order has had and no event tells, a handler is about to record.
Pending(p, st) ==
  \E c \in Calls : calls[c].pc = "event" /\ calls[c].order = p /\ calls[c].status = st

AllTold == outages = 0 => \A p \in OrderIds : \A st \in had[p] : Told(p, st) \/ Pending(p, st)

EventInv == TypeInv /\ StatusHad /\ PendingHad /\ EventsHad /\ AllTold

LEMMA HadGrows ==
  ASSUME TypeInv, RowStep
  PROVE  \A p \in OrderIds : had[p] \subseteq had'[p]
<1>1. ASSUME NEW c \in Calls, NEW n \in OrderIds, Inserts(c, n), NEW p \in OrderIds
      PROVE  had[p] \subseteq had'[p]
  BY <1>1, InsertFacts
<1>2. ASSUME NEW c \in Calls, Updates(c), NEW p \in OrderIds
      PROVE  had[p] \subseteq had'[p]
  BY <1>2, UpdateFacts
<1>3. QED
  BY <1>1, <1>2 DEF RowStep

LEMMA StatusHadKept ==
  ASSUME TypeInv, StatusHad, RowStep
  PROVE  StatusHad'
<1>1. CASE orders' = orders /\ had' = had
  BY <1>1 DEF StatusHad, Stored
<1>2. ASSUME NEW c \in Calls, NEW n \in OrderIds, Inserts(c, n)
      PROVE  StatusHad'
  <2>1. /\ Stored' = Stored \cup {n} /\ orders'[n].status = "pending"
        /\ had'[n] = had[n] \cup {"pending"}
        /\ \A p \in OrderIds \ {n} : orders'[p] = orders[p] /\ had'[p] = had[p]
    BY <1>2, InsertFacts
  <2>2. Stored \subseteq OrderIds
    BY DEF Stored
  <2>3. QED
    BY <2>1, <2>2 DEF StatusHad
<1>3. ASSUME NEW c \in Calls, Updates(c)
      PROVE  StatusHad'
  <2> DEFINE n == calls[c].order
             st == calls[c].status
  <2>1. /\ Stored' = Stored /\ n \in OrderIds /\ orders'[n].status = st
        /\ had'[n] = had[n] \cup {st}
        /\ \A p \in OrderIds \ {n} : orders'[p] = orders[p] /\ had'[p] = had[p]
    BY <1>3, UpdateFacts
  <2>2. Stored \subseteq OrderIds
    BY DEF Stored
  <2> HIDE DEF n, st
  <2>3. QED
    BY <2>1, <2>2 DEF StatusHad
<1>4. QED
  BY <1>1, <1>2, <1>3 DEF RowStep

\* A status that is new is the next event of the handler that wrote it, unless
\* the call failed.
LEMMA NewHad ==
  ASSUME TypeInv, NEW c \in Calls, StepOf(c), ~ Fails, NEW p \in OrderIds,
         NEW st \in had'[p], st \notin had[p]
  PROVE  calls'[c].pc = "event" /\ calls'[c].order = p /\ calls'[c].status = st
<1>1. CASE InsertOrder(c)
  <2>1. PICK n : /\ calls'[c].pc = "event" /\ calls'[c].order = n
                 /\ calls'[c].status = orders'[n].status
                 /\ had' = had \/ Inserts(c, n)
    BY <1>1, InsertOrderKeeps
  <2>2. Inserts(c, n)
    BY <2>1
  <2>3. /\ orders'[n].status = "pending" /\ had'[n] = had[n] \cup {"pending"}
        /\ \A i \in OrderIds \ {n} : had'[i] = had[i]
    BY <2>2, InsertFacts
  <2>4. QED
    BY <2>1, <2>3
<1>2. CASE UpdateStatus(c)
  <2>1. /\ calls'[c].pc = "event" /\ Updates(c) /\ calls'[c].order = calls[c].order
        /\ calls'[c].status = calls[c].status
    BY <1>2, UpdateStatusKeeps
  <2>2. /\ had'[calls[c].order] = had[calls[c].order] \cup {calls[c].status}
        /\ \A i \in OrderIds \ {calls[c].order} : had'[i] = had[i]
    BY <2>1, UpdateFacts
  <2>3. QED
    BY <2>1, <2>2
<1>3. ~ InsertOrder(c) /\ ~ UpdateStatus(c) => had' = had
  BY DEF StepOf, BeginQuote, BeginCreate, BeginUpdate, FindRequest, SaveQuote, RecordEvent
<1>4. QED
  BY <1>1, <1>2, <1>3

LEMMA EventSteps ==
  ASSUME TypeInv, NEW c \in Calls, StepOf(c)
  PROVE  /\ outages' = outages \/ Fails
         /\ events \subseteq events'
         /\ events' = events \/ (calls[c].pc = "event" /\ events' = events \cup {EventOf(c)})
         /\ calls[c].pc = "event" => events' = events \cup {EventOf(c)} \/ Fails
<1>1. outages' = outages \/ Fails
  <2>1. ASSUME NEW in, BeginQuote(c, in) \/ BeginCreate(c, in) PROVE outages' = outages
    BY <2>1 DEF BeginQuote, BeginCreate
  <2>2. ASSUME NEW p, NEW st, BeginUpdate(c, p, st) PROVE outages' = outages
    BY <2>2 DEF BeginUpdate
  <2>3. FindRequest(c) \/ SaveQuote(c) => outages' = outages \/ Fails
    BY DEF FindRequest, SaveQuote
  <2>4. InsertOrder(c) => outages' = outages \/ Fails
    BY DEF InsertOrder
  <2>5. UpdateStatus(c) \/ RecordEvent(c) => outages' = outages \/ Fails
    BY DEF UpdateStatus, RecordEvent
  <2>6. QED
    BY <2>1, <2>2, <2>3, <2>4, <2>5 DEF StepOf
<1>2. events' = events \/ (calls[c].pc = "event" /\ events' = events \cup {EventOf(c)})
  BY DEF StepOf, BeginQuote, BeginCreate, BeginUpdate, FindRequest, SaveQuote, InsertOrder,
         UpdateStatus, RecordEvent
<1>3. calls[c].pc = "event" => events' = events \cup {EventOf(c)} \/ Fails
  BY DEF StepOf, BeginQuote, BeginCreate, BeginUpdate, FindRequest, SaveQuote, InsertOrder,
         UpdateStatus, RecordEvent
<1>4. QED
  BY <1>1, <1>2, <1>3

LEMMA EventInvKept ==
  ASSUME EventInv, NEW c \in Calls, StepOf(c)
  PROVE  EventInv'
<1>1. TypeInv /\ TypeInv' /\ RowStep
  BY StepKeepsTypes DEF EventInv
<1>2. StatusHad'
  BY <1>1, StatusHadKept DEF EventInv
<1>3. \A p \in OrderIds : had[p] \subseteq had'[p]
  BY <1>1, HadGrows
<1>4. \A d \in Calls : calls[d].pc = "event" => calls[d].order \in OrderIds
  BY <1>1 DEF TypeInv, TypeOK, Stored
<1>5. PendingHad'
  <2>1. ASSUME NEW d \in Calls, d # c, calls'[d].pc = "event"
        PROVE  calls'[d].status \in had'[calls'[d].order]
    <3>1. calls'[d] = calls[d]
      BY <1>1, <2>1, OthersStay DEF TypeInv
    <3>2. QED
      BY <1>3, <1>4, <2>1, <3>1 DEF EventInv, PendingHad
  <2>2. ASSUME calls'[c].pc = "event"
        PROVE  calls'[c].status \in had'[calls'[c].order]
    <3>1. InsertOrder(c) \/ UpdateStatus(c)
      BY <1>1, <2>2, BeginQuoteKeeps, BeginCreateKeeps, BeginUpdateKeeps, FindRequestKeeps,
         SaveQuoteKeeps, RecordEventKeeps DEF StepOf
    <3>2. CASE InsertOrder(c)
      BY <1>1, <1>2, <2>2, <3>2, InsertOrderKeeps DEF StatusHad
    <3>3. CASE UpdateStatus(c)
      <4>1. /\ Updates(c) /\ calls'[c].order = calls[c].order
            /\ calls'[c].status = calls[c].status
        BY <1>1, <2>2, <3>3, UpdateStatusKeeps
      <4>2. had'[calls[c].order] = had[calls[c].order] \cup {calls[c].status}
        BY <1>1, <4>1, UpdateFacts
      <4>3. QED
        BY <4>1, <4>2
    <3>4. QED
      BY <3>1, <3>2, <3>3
  <2>3. QED
    BY <2>1, <2>2 DEF PendingHad
<1>6. EventOf(c).order = calls[c].order /\ EventOf(c).status = calls[c].status
  BY DEF EventOf
<1>7. EventsHad'
  <2>1. \A e \in events : e.order \in OrderIds /\ e.status \in had'[e.order]
    BY <1>1, <1>3 DEF EventInv, EventsHad, TypeInv, TypeOK, Event
  <2>2. calls[c].pc = "event" => calls[c].status \in had'[calls[c].order]
    BY <1>3, <1>4 DEF EventInv, PendingHad
  <2>3. events' = events \/ (calls[c].pc = "event" /\ events' = events \cup {EventOf(c)})
    BY <1>1, EventSteps
  <2>4. QED
    BY <1>6, <2>1, <2>2, <2>3 DEF EventsHad
<1>8. AllTold'
  <2> SUFFICES ASSUME outages' = 0, NEW p \in OrderIds, NEW st \in had'[p]
               PROVE  Told(p, st)' \/ Pending(p, st)'
    BY DEF AllTold
  <2>1. ~ Fails /\ outages = 0
    <3>1. outages \in Nat
      BY <1>1, FailingAssumption DEF FailingAssumption, TypeInv, TypeOK
    <3>2. ~ Fails
      BY <3>1 DEF Fails
    <3>3. QED
      BY <1>1, <3>2, EventSteps
  <2>2. CASE st \notin had[p]
    <3>1. calls'[c].pc = "event" /\ calls'[c].order = p /\ calls'[c].status = st
      BY <1>1, <2>1, <2>2, NewHad
    <3>2. QED
      BY <3>1 DEF Pending
  <2>3. CASE Told(p, st)
    <3>1. events \subseteq events'
      BY <1>1, EventSteps
    <3>2. QED
      BY <2>3, <3>1 DEF Told
  <2>4. CASE Pending(p, st)
    <3>1. PICK d \in Calls : calls[d].pc = "event" /\ calls[d].order = p /\ calls[d].status = st
      BY <2>4 DEF Pending
    <3>2. CASE d # c
      <4>1. calls'[d] = calls[d]
        BY <1>1, <3>2, OthersStay DEF TypeInv
      <4>2. QED
        BY <3>1, <4>1 DEF Pending
    <3>3. CASE d = c
      <4>1. EventOf(c) \in events'
        BY <1>1, <2>1, <3>1, <3>3, EventSteps
      <4>2. QED
        BY <1>6, <3>1, <3>3, <4>1 DEF Told
    <3>4. QED
      BY <3>2, <3>3
  <2>5. QED
    BY <2>1, <2>2, <2>3, <2>4 DEF EventInv, AllTold
<1>9. QED
  BY <1>1, <1>2, <1>5, <1>7, <1>8 DEF EventInv

\* Events tell statuses orders really had, and all of them once the handlers are
\* done, unless a call failed (EventsTellHistory).
THEOREM HistoryTold == Spec => []EventsTellHistory
<1>1. Init => EventInv
  <2> SUFFICES ASSUME Init PROVE EventInv
    OBVIOUS
  <2>1. /\ events = {} /\ Stored = {} /\ \A c \in Calls : calls[c].pc = "idle"
        /\ \A p \in OrderIds : had[p] = {}
    BY DEF Init, Stored, Idle
  <2>2. StatusHad /\ PendingHad /\ EventsHad /\ AllTold
    BY <2>1 DEF StatusHad, PendingHad, EventsHad, AllTold
  <2>3. QED
    BY <2>2, InitTypes DEF EventInv
<1>2. EventInv /\ [Next]_vars => EventInv'
  <2> SUFFICES ASSUME EventInv, [Next]_vars PROVE EventInv'
    OBVIOUS
  <2>1. CASE Crash
    <3>1. /\ TypeInv' /\ RowStep /\ events' = events /\ outages' > 0
          /\ \A d \in Calls : calls'[d] = calls[d] \/ calls'[d].pc = "failed"
      BY <2>1, CrashKeeps DEF EventInv
    <3>2. had' = had
      BY <2>1 DEF Crash
    <3>3. StatusHad'
      BY <3>1, StatusHadKept DEF EventInv
    <3>4. PendingHad' /\ EventsHad' /\ AllTold'
      BY <3>1, <3>2 DEF EventInv, PendingHad, EventsHad, AllTold
    <3>5. QED
      BY <3>1, <3>3, <3>4 DEF EventInv
  <2>2. CASE vars' = vars
    <3>1. TypeInv'
      BY NextKeepsTypes DEF EventInv
    <3>2. StatusHad' /\ PendingHad' /\ EventsHad' /\ AllTold'
      BY <2>2 DEF vars, EventInv, StatusHad, Stored, PendingHad, EventsHad, AllTold, Told, Pending
    <3>3. QED
      BY <3>1, <3>2 DEF EventInv
  <2>3. CASE Next
    BY <2>1, <2>3, NextIs, EventInvKept
  <2>4. QED
    BY <2>2, <2>3
<1>3. EventInv => EventsTellHistory
  <2> SUFFICES ASSUME EventInv, NEW p \in OrderIds
               PROVE  LET told == {e.status : e \in {f \in events : f.order = p}}
                      IN  /\ told \subseteq had[p]
                          /\ \/ outages > 0
                             \/ \E c \in Calls : calls[c].pc = "event" /\ calls[c].order = p
                             \/ told = had[p]
    BY DEF EventsTellHistory
  <2>1. \A e \in events : e.order = p => e.status \in had[p]
    BY DEF EventInv, EventsHad
  <2>2. outages \in Nat
    BY FailingAssumption DEF FailingAssumption, EventInv, TypeInv, TypeOK
  <2>3. \/ outages > 0
        \/ \E c \in Calls : calls[c].pc = "event" /\ calls[c].order = p
        \/ \A st \in had[p] : \E e \in events : e.order = p /\ e.status = st
    BY <2>2 DEF EventInv, AllTold, Told, Pending
  <2>4. QED
    BY <2>1, <2>3
<1>4. QED
  BY <1>1, <1>2, <1>3, PTL DEF Spec

-----------------------------------------------------------------------------
\* SpotOrders implements OrderPlacement: an insert of a request with an id maps
\* to a placement, every other step to a stutter.

LEMMA PlacedOf ==
  ASSUME NEW r \in Users \X Reqs
  PROVE  PlacedFor[r] = OrdersOf(r[1], r[2]) /\ PlacedFor'[r] = OrdersOf(r[1], r[2])'
BY DEF PlacedFor

LEMMA SameOrders ==
  ASSUME TypeInv, RowStep, Stored' = Stored
  PROVE  PlacedFor' = PlacedFor
<1>1. ASSUME NEW user, NEW req
      PROVE  OrdersOf(user, req)' = OrdersOf(user, req)
  BY RowsKept DEF OrdersOf
<1>2. QED
  BY <1>1 DEF PlacedFor

LEMMA InsertPlaces ==
  ASSUME TypeInv, NEW c \in Calls, NEW n \in OrderIds, Inserts(c, n)
  PROVE  [Promise!Next]_PlacedFor
<1> DEFINE user == calls[c].in.user
           req == calls[c].in.req
<1>1. /\ Stored' = Stored \cup {n} /\ n \notin Stored /\ Stored \subseteq OrderIds
      /\ orders'[n].user = user /\ orders'[n].req = req
      /\ \A p \in OrderIds \ {n} : orders'[p] = orders[p]
  BY InsertFacts DEF Stored
<1>2. user \in Users /\ req \in Reqs \cup {None}
  <2>1. calls[c].in \in Inputs
    BY DEF Inserts, TypeInv, CallOK
  <2>2. QED
    BY <2>1, InputsAssumption DEF InputsAssumption
<1>3. req # None => OrdersOf(user, req) = {}
  BY DEF Inserts, Existing
<1>4. ASSUME NEW u, NEW q
      PROVE  OrdersOf(u, q)' = IF u = user /\ q = req THEN OrdersOf(u, q) \cup {n}
                                                     ELSE OrdersOf(u, q)
  <2> HIDE DEF user, req
  <2>1. QED
    BY <1>1 DEF OrdersOf
<1> HIDE DEF user, req
<1>5. CASE req = None
  <2>1. \A r \in Users \X Reqs : r[2] # req
    BY <1>5, NoneAssumption DEF NoneAssumption
  <2>2. PlacedFor' = PlacedFor
    BY <1>4, <2>1 DEF PlacedFor
  <2>3. QED
    BY <2>2
<1>6. CASE req # None
  <2> DEFINE r == <<user, req>>
  <2>1. r \in Users \X Reqs /\ r[1] = user /\ r[2] = req
    BY <1>2, <1>6
  <2>2. \A x \in Users \X Reqs : x # r => x[1] # user \/ x[2] # req
    OBVIOUS
  <2> HIDE DEF r
  <2>3. PlacedFor[r] = {} /\ PlacedFor'[r] = {n}
    BY <1>3, <1>4, <1>6, <2>1, PlacedOf
  <2>4. \A x \in Users \X Reqs : x # r => PlacedFor'[x] = PlacedFor[x]
    BY <1>4, <2>2, PlacedOf
  <2>5. PlacedFor' = [PlacedFor EXCEPT ![r] = {n}]
    BY <2>1, <2>3, <2>4 DEF PlacedFor
  <2>6. QED
    BY <2>1, <2>3, <2>5 DEF Promise!Next, Promise!Place
<1>7. QED
  BY <1>5, <1>6

\* A request leads to one stored order, never taken back or replaced (StoresOnce).
THEOREM StoresOnceInSpec == Spec => StoresOnce
<1>1. Init => Promise!Init
  <2> SUFFICES ASSUME Init PROVE PlacedFor = [r \in Users \X Reqs |-> {}]
    BY DEF Promise!Init
  <2>1. Stored = {}
    BY DEF Init, Stored
  <2>2. QED
    BY <2>1 DEF PlacedFor, OrdersOf
<1>2. TypeInv /\ [Next]_vars => [Promise!Next]_PlacedFor
  <2> SUFFICES ASSUME TypeInv, [Next]_vars PROVE [Promise!Next]_PlacedFor
    OBVIOUS
  <2>1. RowStep
    BY NextKeepsTypes
  <2>2. CASE orders' = orders /\ had' = had
    BY <2>1, <2>2, SameOrders DEF Stored
  <2>3. ASSUME NEW c \in Calls, Updates(c) PROVE [Promise!Next]_PlacedFor
    BY <2>1, <2>3, UpdateFacts, SameOrders
  <2>4. QED
    BY <2>1, <2>2, <2>3, InsertPlaces DEF RowStep
<1>3. TypeInv /\ [Next]_vars => TypeInv'
  BY NextKeepsTypes
<1>4. QED
  BY <1>1, <1>2, <1>3, InitTypes, PTL DEF Spec, StoresOnce, Promise!Spec

===============================================================================
