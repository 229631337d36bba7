--------------------------- MODULE HyperOrdersProofs ---------------------------
(***************************************************************************)
(* Proofs about HyperOrders for any number of calls, orders and requests    *)
(* and either store: type correctness, from an inductive invariant that     *)
(* adds what each handler knows between two of its steps; on top of it,     *)
(* that a user's request reaches the exchange at most once, that a          *)
(* cancelled row is stamped and that fills are real; and what HyperOrders   *)
(* promises outside: it implements OrderPlacement, its audit trail of       *)
(* submissions is true, and the bridge takes no row back.                   *)
(***************************************************************************)
EXTENDS HyperOrdersPlacement, SequenceTheorems, TLAPS

\* The steps of a call that work on an order, and those that carry the row the
\* call read when it began.
OnOrder == Pcs \ {"idle", "insert"}
ReadsRow == {"cancel", "markCancelled", "query", "markSynced"}

\* Rows are never removed, so the order a call works on is still there.
CallsKnowTheirOrder ==
  \A c \in Calls :
    /\ calls[c].pc = "insert" => calls[c].input \in Inputs
    /\ calls[c].pc \in OnOrder => calls[c].id \in Stored
    /\ calls[c].pc \in ReadsRow => calls[c].seen \in Row
    /\ calls[c].pc = "cancel" => calls[c].key \in OrderIds

TypeInv == TypeOK /\ CallsKnowTheirOrder

LEMMA NormalizeType ==
  ASSUME NEW raw \in RawStatuses
  PROVE  normalizeProviderOrderStatus(raw) \in RowStatuses
BY DEF normalizeProviderOrderStatus, RawStatuses, OpenWords, CancelWords, RejectWords,
       UnknownWords, OtherWords, RowStatuses

LEMMA MergeType ==
  ASSUME NEW current \in RowStatuses, NEW next \in RowStatuses
  PROVE  mergeSyncedOrderStatus(current, next) \in RowStatuses
BY DEF mergeSyncedOrderStatus

LEMMA NewRowType ==
  ASSUME NEW in \in Inputs
  PROVE  NewRow(in) \in Row
BY DEF NewRow, Row, RowStatuses, ProviderIds

LEMMA UpdateOrderType ==
  ASSUME NEW row \in Row, NEW status \in RowStatuses, NEW poid \in ProviderIds,
         NEW submitted \in BOOLEAN, NEW cancelled \in BOOLEAN
  PROVE  UpdateOrder(row, Update(status, poid, submitted, cancelled)) \in Row
BY DEF UpdateOrder, Update, Row, firstNonEmpty

LEMMA ApplyUpdateType ==
  ASSUME NEW row \in Row, NEW p \in OrderIds, NEW raw \in RawStatuses
  PROVE  ApplyUpdate(row, p, raw) \in Row
<1> DEFINE next == normalizeProviderOrderStatus(raw)
<1>1. next \in RowStatuses
  BY NormalizeType
<1>2. mergeSyncedOrderStatus(row.status, next) \in RowStatuses
  BY <1>1, MergeType DEF Row
<1> HIDE DEF next
<1>3. QED
  BY <1>1, <1>2 DEF ApplyUpdate, Row, ProviderIds, ExchangeOrders, next

LEMMA LookupType ==
  ASSUME TypeOK, NEW key \in ExchangeOrders \cup {None}, NEW id \in ProviderIds
  PROVE  /\ Lookup(key, id).raw \in RawStatuses
         /\ Lookup(key, id).id \in ProviderIds
BY DEF Lookup, StateOf, TypeOK, ExchangeStates, RawStatuses, OpenWords, CancelWords,
       RejectWords, UnknownWords, ProviderIds, ExchangeOrders

LEMMA ReportType ==
  ASSUME TypeOK, NEW o \in OrderIds, NEW raw \in RawStatuses, Report(o, raw)
  PROVE  feed' \in [OrderIds -> Seq(RawStatuses)]
<1>1. feed[o] \in Seq(RawStatuses) /\ feed \in [OrderIds -> Seq(RawStatuses)]
  BY DEF TypeOK
<1>2. Append(feed[o], raw) \in Seq(RawStatuses)
  BY <1>1, AppendProperties
<1>3. QED
  BY <1>1, <1>2, Zenon DEF Report

\* What the exchange does to its orders and its reports keeps their types.
ExchangeTypes ==
  /\ exch \in [OrderIds -> [sent: Nat, state: ExchangeStates]]
  /\ feed \in [OrderIds -> Seq(RawStatuses)]

LEMMA ReceiveSubmissionType ==
  ASSUME TypeOK, NEW o \in OrderIds, NEW state, ReceiveSubmission(o, state)
  PROVE  ExchangeTypes'
<1>1. state \in RawStatuses /\ state \in ExchangeStates
  BY DEF ReceiveSubmission, RawStatuses, OpenWords, RejectWords, ExchangeStates
<1>2. exch' \in [OrderIds -> [sent: Nat, state: ExchangeStates]]
  BY <1>1 DEF ReceiveSubmission, TypeOK
<1>3. feed' \in [OrderIds -> Seq(RawStatuses)]
  <2>1. CASE Report(o, state)
    BY <2>1, <1>1, ReportType
  <2>2. CASE UNCHANGED feed
    BY <2>2 DEF TypeOK
  <2>3. QED
    BY <2>1, <2>2 DEF ReceiveSubmission
<1>4. QED
  BY <1>2, <1>3 DEF ExchangeTypes

LEMMA ReceiveCancelType ==
  ASSUME TypeOK, NEW o \in OrderIds, ReceiveCancel(o)
  PROVE  ExchangeTypes'
<1>1. "canceled" \in RawStatuses /\ "canceled" \in ExchangeStates
  BY DEF RawStatuses, CancelWords, ExchangeStates
<1>2. CASE exch[o].state = "open"
  <2>1. exch' \in [OrderIds -> [sent: Nat, state: ExchangeStates]]
    BY <1>1, <1>2 DEF ReceiveCancel, TypeOK
  <2>2. QED
    BY <1>1, <1>2, <2>1, ReportType DEF ReceiveCancel, ExchangeTypes
<1>3. CASE exch[o].state # "open"
  BY <1>3 DEF ReceiveCancel, TypeOK, ExchangeTypes
<1>4. QED
  BY <1>2, <1>3

LEMMA IdleType == Idle \in Call
<1>1. "" \in RawStatuses /\ "" \in ProviderIds /\ "idle" \in Pcs
  BY DEF RawStatuses, OpenWords, ProviderIds, Pcs
<1>2. QED
  BY <1>1 DEF Idle, Call

LEMMA InitTypeInv == Init => TypeInv
<1> SUFFICES ASSUME Init PROVE TypeInv
  OBVIOUS
<1>2. TypeOK
  BY IdleType DEF Init, TypeOK, ExchangeStates
<1>3. CallsKnowTheirOrder
  BY DEF Init, CallsKnowTheirOrder, OnOrder, ReadsRow, Idle
<1>4. QED
  BY <1>2, <1>3 DEF TypeInv

\* A call that moves to rec knows its order if rec does, and leaves what the
\* others know alone.
KnowsItsOrder(rec, stored) ==
  /\ rec.pc = "insert" => rec.input \in Inputs
  /\ rec.pc \in OnOrder => rec.id \in stored
  /\ rec.pc \in ReadsRow => rec.seen \in Row
  /\ rec.pc = "cancel" => rec.key \in OrderIds

LEMMA CallMoves ==
  ASSUME TypeInv, NEW c \in Calls, NEW rec \in Call, Stored \subseteq Stored',
         KnowsItsOrder(rec, Stored'), calls' = [calls EXCEPT ![c] = rec]
  PROVE  calls' \in [Calls -> Call] /\ CallsKnowTheirOrder'
<1>1. calls' \in [Calls -> Call]
  BY DEF TypeInv, TypeOK
<1>2. ASSUME NEW d \in Calls PROVE KnowsItsOrder(calls'[d], Stored')
  <2>1. CASE d = c
    BY <2>1 DEF TypeInv, TypeOK
  <2>2. CASE d # c
    <3>1. calls'[d] = calls[d] /\ KnowsItsOrder(calls[d], Stored)
      BY <2>2 DEF TypeInv, TypeOK, CallsKnowTheirOrder, KnowsItsOrder
    <3>2. QED
      BY <3>1 DEF KnowsItsOrder
  <2>3. QED
    BY <2>1, <2>2
<1>3. CallsKnowTheirOrder'
  BY <1>2 DEF CallsKnowTheirOrder, KnowsItsOrder
<1>4. QED
  BY <1>1, <1>3

LEMMA ReturnKeepsCalls ==
  ASSUME TypeInv, NEW c \in Calls, Return(c), Stored \subseteq Stored'
  PROVE  calls' \in [Calls -> Call] /\ CallsKnowTheirOrder'
<1>1. KnowsItsOrder(Idle, Stored')
  BY DEF KnowsItsOrder, Idle, OnOrder, ReadsRow
<1>2. QED
  BY <1>1, IdleType, CallMoves DEF Return

Working(c) == c \in Calls /\ calls[c].pc \in OnOrder

LEMMA WorkingCall ==
  ASSUME TypeInv, NEW c, Working(c)
  PROVE  /\ calls[c] \in Call
         /\ calls[c].id \in OrderIds /\ orders[calls[c].id] \in Row
         /\ calls[c].reply \in RawStatuses /\ calls[c].replyId \in ProviderIds
         /\ calls[c].pc \in ReadsRow => calls[c].seen \in Row
         /\ calls[c].key \in ExchangeOrders \cup {None}
         /\ calls[c].pc = "cancel" => calls[c].key \in OrderIds
<1>1. calls[c] \in Call /\ calls[c].id \in Stored
  BY DEF TypeInv, TypeOK, CallsKnowTheirOrder, Working
<1>2. QED
  BY <1>1 DEF TypeInv, TypeOK, CallsKnowTheirOrder, Working, Stored, Call

\* A call that works on an order goes on to another step, with what it was told.
LEMMA CallAdvances ==
  ASSUME TypeInv, NEW c, Working(c), NEW pc \in OnOrder \ {"cancel"}, NEW id \in ProviderIds,
         pc \in ReadsRow => calls[c].pc \in ReadsRow, Stored \subseteq Stored',
         \/ calls' = [calls EXCEPT ![c] = [@ EXCEPT !.pc = pc, !.replyId = id]]
         \/ calls' = [calls EXCEPT ![c] = [@ EXCEPT !.pc = pc, !.key = None, !.replyId = id]]
         \/ \E raw \in RawStatuses : calls' =
              [calls EXCEPT ![c] = [@ EXCEPT !.pc = pc, !.key = None, !.reply = raw, !.replyId = id]]
  PROVE  calls' \in [Calls -> Call] /\ CallsKnowTheirOrder'
<1>1. calls[c] \in Call /\ KnowsItsOrder(calls[c], Stored) /\ c \in Calls
  BY DEF TypeInv, TypeOK, CallsKnowTheirOrder, KnowsItsOrder, Working
<1>2. pc \in Pcs /\ pc # "insert" /\ pc # "cancel"
  BY DEF OnOrder
<1>3. PICK rec \in Call : /\ calls' = [calls EXCEPT ![c] = rec]
                          /\ rec.pc = pc
                          /\ rec.id = calls[c].id /\ rec.seen = calls[c].seen
  <2>1. ASSUME NEW raw \in RawStatuses
        PROVE  LET rec == [calls[c] EXCEPT !.pc = pc, !.key = None, !.reply = raw, !.replyId = id]
               IN  /\ rec \in Call /\ rec.pc = pc
                   /\ rec.id = calls[c].id /\ rec.seen = calls[c].seen
    BY <1>1, <1>2 DEF Call
  <2>2. LET rec == [calls[c] EXCEPT !.pc = pc, !.replyId = id]
        IN  /\ rec \in Call /\ rec.pc = pc
            /\ rec.id = calls[c].id /\ rec.seen = calls[c].seen
    BY <1>1, <1>2 DEF Call
  <2>3. LET rec == [calls[c] EXCEPT !.pc = pc, !.key = None, !.replyId = id]
        IN  /\ rec \in Call /\ rec.pc = pc
            /\ rec.id = calls[c].id /\ rec.seen = calls[c].seen
    BY <1>1, <1>2 DEF Call
  <2>4. QED
    BY <2>1, <2>2, <2>3, Zenon
<1>4. KnowsItsOrder(rec, Stored')
  BY <1>1, <1>2, <1>3 DEF KnowsItsOrder, Working
<1>5. QED
  BY <1>1, <1>3, <1>4, CallMoves

\* A row overwritten by a row removes none.
LEMMA RowWriteKeepsRows ==
  ASSUME TypeInv, NEW o \in OrderIds, NEW row \in Row,
         orders' = [orders EXCEPT ![o] = row]
  PROVE  /\ orders' \in [OrderIds -> Row \cup {None}]
         /\ Stored \subseteq Stored' /\ o \in Stored'
<1>1. row # None /\ orders \in [OrderIds -> Row \cup {None}]
  BY NoneAssumption DEF NoneAssumption, TypeInv, TypeOK
<1>2. orders' \in [OrderIds -> Row \cup {None}]
  BY <1>1
<1>3. \A p \in OrderIds : orders'[p] = IF p = o THEN row ELSE orders[p]
  BY <1>1
<1>4. ASSUME NEW p \in OrderIds PROVE p \in Stored' <=> p \in Stored \/ p = o
  BY <1>1, <1>3 DEF Stored
<1>5. QED
  BY <1>2, <1>4 DEF Stored

LEMMA NextTypeInv == TypeInv /\ [Next]_vars => TypeInv'
<1> SUFFICES ASSUME TypeInv, [Next]_vars PROVE TypeInv'
  OBVIOUS
<1> USE DEF TypeInv
<1>1. ASSUME NEW c \in Calls, NEW in \in Inputs, BeginCreate(c, in) PROVE TypeInv'
  <2>1. [Idle EXCEPT !.pc = "insert", !.input = in] \in Call
    BY IdleType DEF Call, Pcs
  <2>2. TypeOK'
    BY <1>1, <2>1 DEF BeginCreate, TypeOK
  <2>3. CallsKnowTheirOrder'
    BY <1>1 DEF BeginCreate, TypeOK, CallsKnowTheirOrder, Stored, Idle, OnOrder, ReadsRow
  <2>4. QED
    BY <2>2, <2>3
<1>2a. ASSUME NEW c \in Calls, NEW o \in OrderIds, NEW key \in OrderIds, BeginCancel(c, o, key)
       PROVE  TypeInv'
  <2> DEFINE rec == [Idle EXCEPT !.pc = "cancel", !.id = o, !.seen = orders[o], !.key = key]
  <2>1. orders[o] \in Row /\ o \in Stored /\ Stored' = Stored
    BY <1>2a DEF BeginCancel, Stored, TypeOK
  <2>2. rec \in Call
    BY <2>1, IdleType DEF Call, Pcs, ExchangeOrders
  <2>3. KnowsItsOrder(rec, Stored')
    BY <2>1 DEF KnowsItsOrder, Idle, OnOrder, ReadsRow, Pcs
  <2>4. calls' = [calls EXCEPT ![c] = rec]
    BY <1>2a DEF BeginCancel
  <2> HIDE DEF rec
  <2>5. calls' \in [Calls -> Call] /\ CallsKnowTheirOrder'
    BY <2>1, <2>2, <2>3, <2>4, CallMoves
  <2>6. QED
    BY <1>2a, <2>5 DEF BeginCancel, TypeOK
<1>2b. ASSUME NEW c \in Calls, NEW o \in OrderIds, NEW n \in Names, BeginSync(c, o, n)
       PROVE  TypeInv'
  <2> DEFINE poid  == firstNonEmpty(n.poid, orders[o].poid)
             cloid == IF n.cloid # None THEN n.cloid ELSE Cloid(o, orders[o])
             key   == orderStatusOID(poid, cloid)
             asks  == n.poid # "" \/ n.cloid # None
             rec   == [Idle EXCEPT !.pc = "query", !.id = o, !.seen = orders[o], !.key = key,
                                   !.names = asks, !.replyId = poid]
  <2>1. orders[o] \in Row /\ o \in Stored /\ Stored' = Stored
    BY <1>2b DEF BeginSync, Stored, TypeOK
  <2>2. n.poid \in ProviderIds /\ n.cloid \in ExchangeOrders \cup {None}
    BY NamesAssumption DEF NamesAssumption
  <2>3. poid \in ProviderIds /\ cloid \in ExchangeOrders \cup {None} /\ asks \in BOOLEAN
    BY <2>1, <2>2 DEF firstNonEmpty, Row, Cloid, ExchangeOrders
  <2> HIDE DEF poid, cloid, asks
  <2>4. key \in ExchangeOrders \cup {None}
    BY <2>3 DEF orderStatusOID
  <2> HIDE DEF key
  <2>5. rec \in Call
    BY <2>1, <2>3, <2>4, IdleType DEF Call, Pcs
  <2>6. KnowsItsOrder(rec, Stored')
    BY <2>1 DEF KnowsItsOrder, Idle, OnOrder, ReadsRow, Pcs
  <2>7. calls' = [calls EXCEPT ![c] = rec]
    BY <1>2b DEF BeginSync, poid, cloid, key, asks
  <2> HIDE DEF rec
  <2>8. calls' \in [Calls -> Call] /\ CallsKnowTheirOrder'
    BY <2>1, <2>5, <2>6, <2>7, CallMoves
  <2>9. named' \subseteq (OrderIds \X ExchangeOrders)
    BY <1>2b DEF BeginSync, TypeOK
  <2>10. QED
    BY <1>2b, <2>8, <2>9 DEF BeginSync, TypeOK
<1>3. ASSUME NEW c \in Calls, ReturnExisting(c) \/ StepFails(c) PROVE TypeInv'
  <2>1. Return(c) /\ UNCHANGED <<orders, exch, feed, audits, named>>
    BY <1>3 DEF ReturnExisting, StepFails
  <2>2. QED
    BY <2>1, ReturnKeepsCalls DEF TypeOK, Stored
<1>4. ASSUME NEW c \in Calls, InsertOrder(c) PROVE TypeInv'
  <2>1. PICK o \in OrderIds \ Stored :
          /\ orders' = [orders EXCEPT ![o] = NewRow(calls[c].input)]
          /\ calls'  = [calls EXCEPT ![c] = [Idle EXCEPT !.pc = "submit", !.id = o]]
    BY <1>4 DEF InsertOrder
  <2>2. NewRow(calls[c].input) \in Row
    BY <1>4, NewRowType DEF InsertOrder, CallsKnowTheirOrder
  <2>3. /\ orders' \in [OrderIds -> Row \cup {None}]
        /\ Stored \subseteq Stored' /\ o \in Stored'
    BY <2>1, <2>2, RowWriteKeepsRows
  <2>5. [Idle EXCEPT !.pc = "submit", !.id = o] \in Call
    BY IdleType DEF Call, Pcs
  <2>6. TypeOK'
    BY <1>4, <2>1, <2>3, <2>5 DEF InsertOrder, TypeOK
  <2>7. KnowsItsOrder([Idle EXCEPT !.pc = "submit", !.id = o], Stored')
    BY <2>3 DEF KnowsItsOrder, Idle, OnOrder, ReadsRow
  <2>8. CallsKnowTheirOrder'
    BY <2>1, <2>3, <2>5, <2>7, CallMoves
  <2>9. QED
    BY <2>6, <2>8
<1>5. ASSUME NEW c \in Calls, NEW state \in ExchangeStates, SubmitAnswered(c, state)
      PROVE  TypeInv'
  <2>1. Working(c) /\ calls[c].id \in OrderIds /\ Stored' = Stored
    BY <1>5, WorkingCall DEF SubmitAnswered, Working, OnOrder, Pcs, Stored
  <2>2. ExchangeTypes'
    BY <1>5, <2>1, ReceiveSubmissionType DEF SubmitAnswered
  <2>3. PICK id \in ProviderIds :
          calls' = [calls EXCEPT ![c] = [@ EXCEPT !.pc = "markSubmitted", !.replyId = id]]
    BY <1>5, <2>1 DEF SubmitAnswered, ProviderIds, ExchangeOrders
  <2>4. "markSubmitted" \in OnOrder \ {"cancel"} /\ "markSubmitted" \notin ReadsRow
    BY DEF OnOrder, Pcs, ReadsRow
  <2>5. calls' \in [Calls -> Call] /\ CallsKnowTheirOrder'
    BY <2>1, <2>3, <2>4, CallAdvances
  <2>6. QED
    BY <1>5, <2>2, <2>5 DEF SubmitAnswered, TypeOK, ExchangeTypes
<1>6. ASSUME NEW c \in Calls, SubmitFailed(c) PROVE TypeInv'
  <2>1. Working(c) /\ calls[c].id \in OrderIds /\ Stored' = Stored
    BY <1>6, WorkingCall DEF SubmitFailed, Working, OnOrder, Pcs, Stored
  <2>2. ExchangeTypes'
    BY <1>6, <2>1, ReceiveSubmissionType DEF SubmitFailed, ExchangeTypes, TypeOK
  <2>3. calls' = [calls EXCEPT ![c] = [@ EXCEPT !.pc = "order_submit_failed",
                                                !.replyId = calls[c].replyId]]
    BY <1>6, WorkingCall, <2>1 DEF SubmitFailed, Call
  <2>4. /\ "order_submit_failed" \in OnOrder \ {"cancel"}
        /\ "order_submit_failed" \notin ReadsRow /\ calls[c].replyId \in ProviderIds
    BY <2>1, WorkingCall DEF OnOrder, Pcs, AuditPcs, ReadsRow
  <2>5. calls' \in [Calls -> Call] /\ CallsKnowTheirOrder'
    BY <2>1, <2>3, <2>4, CallAdvances
  <2>6. QED
    BY <1>6, <2>2, <2>5 DEF SubmitFailed, TypeOK, ExchangeTypes
<1>7. ASSUME NEW c \in Calls, MarkSubmitted(c) PROVE TypeInv'
  <2>1. Working(c) /\ calls[c].id \in OrderIds /\ orders[calls[c].id] \in Row
                   /\ calls[c].replyId \in ProviderIds
    BY <1>7, WorkingCall DEF MarkSubmitted, Working, OnOrder, Pcs
  <2>2. UpdateOrder(orders[calls[c].id], Update("submitted", calls[c].replyId, TRUE, FALSE)) \in Row
    BY <2>1, UpdateOrderType DEF RowStatuses
  <2>3. orders' \in [OrderIds -> Row \cup {None}] /\ Stored \subseteq Stored'
    BY <1>7, <2>1, <2>2, RowWriteKeepsRows DEF MarkSubmitted
  <2>4. /\ "" \in ProviderIds
        /\ "order_submitted" \in OnOrder \ {"cancel"} /\ "order_submitted" \notin ReadsRow
    BY DEF ProviderIds, OnOrder, Pcs, AuditPcs, ReadsRow
  <2>5. calls' \in [Calls -> Call] /\ CallsKnowTheirOrder'
    BY <1>7, <2>1, <2>3, <2>4, CallAdvances DEF MarkSubmitted
  <2>6. QED
    BY <1>7, <2>3, <2>5 DEF MarkSubmitted, TypeOK
<1>8. ASSUME NEW c \in Calls, AuditSubmission(c) PROVE TypeInv'
  <2>1. Working(c) /\ calls[c].id \in OrderIds /\ Stored' = Stored
    BY <1>8, WorkingCall DEF AuditSubmission, Working, AuditPcs, OnOrder, Pcs, Stored
  <2>2. QED
    BY <1>8, <2>1, ReturnKeepsCalls DEF AuditSubmission, TypeOK
<1>9. ASSUME NEW c \in Calls, CancelAnswered(c) PROVE TypeInv'
  <2>1. Working(c) /\ calls[c].key \in OrderIds /\ Stored' = Stored
    BY <1>9, WorkingCall DEF CancelAnswered, Working, OnOrder, Pcs, Stored
  <2>2. ExchangeTypes'
    BY <1>9, <2>1, ReceiveCancelType DEF CancelAnswered
  <2>3. PICK id \in ProviderIds : calls' =
          [calls EXCEPT ![c] = [@ EXCEPT !.pc = "markCancelled", !.key = None, !.replyId = id]]
    BY <1>9 DEF CancelAnswered, ProviderIds
  <2>4. calls' \in [Calls -> Call] /\ CallsKnowTheirOrder'
    BY <1>9, <2>1, <2>3, CallAdvances DEF CancelAnswered, OnOrder, Pcs, ReadsRow
  <2>5. QED
    BY <1>9, <2>2, <2>4 DEF CancelAnswered, TypeOK, ExchangeTypes
<1>10. ASSUME NEW c \in Calls, CancelFailed(c) PROVE TypeInv'
  <2>1. Working(c) /\ calls[c].key \in OrderIds /\ Stored' = Stored
    BY <1>10, WorkingCall DEF CancelFailed, Working, OnOrder, Pcs, Stored
  <2>2. ExchangeTypes'
    BY <1>10, <2>1, ReceiveCancelType DEF CancelFailed, ExchangeTypes, TypeOK
  <2>3. QED
    BY <1>10, <2>1, <2>2, ReturnKeepsCalls DEF CancelFailed, TypeOK, ExchangeTypes
<1>11. ASSUME NEW c \in Calls, MarkCancelled(c) PROVE TypeInv'
  <2>1. Working(c) /\ calls[c].pc = "markCancelled"
    BY <1>11 DEF MarkCancelled, Working, OnOrder, Pcs
  <2>2. firstNonEmpty(calls[c].seen.poid, calls[c].replyId) \in ProviderIds
    BY <2>1, WorkingCall DEF ReadsRow, Row, firstNonEmpty
  <2>3. UpdateOrder(orders[calls[c].id], Update("cancelled",
          firstNonEmpty(calls[c].seen.poid, calls[c].replyId), FALSE, TRUE)) \in Row
    BY <2>1, <2>2, WorkingCall, UpdateOrderType DEF RowStatuses
  <2>4. orders' \in [OrderIds -> Row \cup {None}] /\ Stored \subseteq Stored'
    BY <1>11, <2>1, <2>3, WorkingCall, RowWriteKeepsRows DEF MarkCancelled
  <2>5. QED
    BY <1>11, <2>4, ReturnKeepsCalls DEF MarkCancelled, TypeOK
<1>12. ASSUME NEW c \in Calls, QueryAnswered(c) PROVE TypeInv'
  <2>1. Working(c) /\ calls[c].pc = "query" /\ Stored' = Stored
    BY <1>12 DEF QueryAnswered, Working, OnOrder, Pcs, Stored
  <2>2. PICK raw \in RawStatuses, id \in ProviderIds : calls' =
          [calls EXCEPT ![c] = [@ EXCEPT !.pc = "markSynced", !.key = None, !.reply = raw,
                                         !.replyId = id]]
    BY <1>12, <2>1, WorkingCall, LookupType DEF QueryAnswered, ReadsRow
  <2>3. calls' \in [Calls -> Call] /\ CallsKnowTheirOrder'
    BY <2>1, <2>2, CallAdvances DEF OnOrder, Pcs, ReadsRow
  <2>4. QED
    BY <1>12, <2>3 DEF QueryAnswered, TypeOK
<1>13. ASSUME NEW c \in Calls, MarkSynced(c) PROVE TypeInv'
  <2> DEFINE o    == calls[c].id
             seen == calls[c].seen
             next == mergeSyncedOrderStatus(seen.status,
                                            normalizeProviderOrderStatus(calls[c].reply))
  <2>1. Working(c) /\ seen \in Row /\ o \in OrderIds /\ orders[o] \in Row
    BY <1>13, WorkingCall DEF MarkSynced, Working, OnOrder, Pcs, ReadsRow
  <2>2. next \in RowStatuses
    BY <2>1, WorkingCall, NormalizeType, MergeType DEF Row
  <2>3. firstNonEmpty(calls[c].replyId, seen.poid) \in ProviderIds
    BY <2>1, WorkingCall DEF Row, firstNonEmpty
  <2>4. UpdateOrder(orders[o], Update(next, firstNonEmpty(calls[c].replyId, seen.poid), FALSE,
                                      next = "cancelled" /\ ~seen.cancelled)) \in Row
    BY <2>1, <2>2, <2>3, UpdateOrderType
  <2>5. orders' \in [OrderIds -> Row \cup {None}] /\ Stored \subseteq Stored'
    BY <1>13, <2>1, <2>4, RowWriteKeepsRows DEF MarkSynced
  <2>6. QED
    BY <1>13, <2>5, ReturnKeepsCalls DEF MarkSynced, TypeOK
<1>14. ASSUME NEW o \in OrderIds, Exchange(o) PROVE TypeInv'
  <2>1. UNCHANGED <<orders, calls, audits, named>> /\ Stored' = Stored
    BY <1>14 DEF Exchange, ExchangeFill, ExchangeCancel, Stored
  <2>2. ExchangeTypes'
    <3>1. CASE ExchangeFill(o)
      <4>1. "filled" \in RawStatuses /\ "filled" \in ExchangeStates
        BY DEF RawStatuses, ExchangeStates
      <4>2. feed' \in [OrderIds -> Seq(RawStatuses)]
        BY <3>1, <4>1, ReportType DEF ExchangeFill
      <4>3. exch' \in [OrderIds -> [sent: Nat, state: ExchangeStates]]
        BY <3>1, <4>1 DEF ExchangeFill, TypeOK
      <4>4. QED
        BY <4>2, <4>3 DEF ExchangeTypes
    <3>2. CASE ExchangeCancel(o)
      BY <3>2, ReceiveCancelType DEF ExchangeCancel
    <3>3. QED
      BY <1>14, <3>1, <3>2 DEF Exchange
  <2>3. QED
    BY <2>1, <2>2 DEF TypeOK, ExchangeTypes, CallsKnowTheirOrder
<1>15. ASSUME Crash PROVE TypeInv'
  <2>1. TypeOK'
    BY <1>15, IdleType DEF Crash, TypeOK
  <2>2. CallsKnowTheirOrder'
    BY <1>15 DEF Crash, CallsKnowTheirOrder, Idle, OnOrder, ReadsRow
  <2>3. QED
    BY <2>1, <2>2
<1>16. ASSUME NEW p \in OrderIds, Bridge(p) PROVE TypeInv'
  <2>1. feed[p] \in Seq(RawStatuses) /\ feed[p] # <<>> /\ UNCHANGED <<calls, exch, audits, named>>
    BY <1>16 DEF Bridge, DeliverUpdate, LoseUpdate, TypeOK
  <2>2. Head(feed[p]) \in RawStatuses /\ Tail(feed[p]) \in Seq(RawStatuses)
    BY <2>1, HeadTailProperties
  <2>3. feed' \in [OrderIds -> Seq(RawStatuses)]
    BY <1>16, <2>2 DEF Bridge, DeliverUpdate, LoseUpdate, TypeOK
  <2>4. orders' \in [OrderIds -> Row \cup {None}] /\ Stored' = Stored
    <3>1. CASE DeliverUpdate(p)
      <4>1. ASSUME NEW o \in Stored PROVE ApplyUpdate(orders[o], p, Head(feed[p])) \in Row
        BY <2>2, ApplyUpdateType DEF Stored, TypeOK
      <4>2. orders' \in [OrderIds -> Row \cup {None}]
        BY <3>1, <4>1 DEF DeliverUpdate, TypeOK
      <4>3. \A o \in OrderIds : orders'[o] = None <=> orders[o] = None
        BY <3>1, <4>1, NoneAssumption DEF NoneAssumption, DeliverUpdate, Stored
      <4>4. QED
        BY <4>2, <4>3 DEF Stored
    <3>2. CASE LoseUpdate(p)
      BY <3>2 DEF LoseUpdate, TypeOK, Stored
    <3>3. QED
      BY <1>16, <3>1, <3>2 DEF Bridge
  <2>5. QED
    BY <2>1, <2>3, <2>4 DEF TypeOK, CallsKnowTheirOrder
<1>17. ASSUME UNCHANGED vars PROVE TypeInv'
  BY <1>17 DEF vars, TypeOK, CallsKnowTheirOrder, Stored
<1>18. QED
  BY <1>1, <1>2a, <1>2b, <1>3, <1>4, <1>5, <1>6, <1>7, <1>8, <1>9, <1>10, <1>11, <1>12, <1>13,
     <1>14, <1>15, <1>16, <1>17 DEF Next, Client, Handler

\* Every state has the types declared, and a call never works on an order that
\* the store does not have (handlers between two of their steps).
THEOREM TypeCorrect == Spec => []TypeOK
<1>1. Spec => []TypeInv
  BY InitTypeInv, NextTypeInv, PTL DEF Spec
<1>2. TypeInv => TypeOK
  BY DEF TypeInv
<1>3. QED
  BY <1>1, <1>2, PTL

-----------------------------------------------------------------------------
\* What a row never loses: its input, its stamps, having a provider order id.
Keeps(row, new) ==
  /\ new.input = row.input
  /\ row.submitted => new.submitted
  /\ row.cancelled => new.cancelled
  /\ row.poid # "" => new.poid # ""

KeepsRows == \A o \in Stored : o \in Stored' /\ Keeps(orders[o], orders'[o])

LEMMA UpdateOrderKeeps ==
  ASSUME NEW row \in Row, NEW u
  PROVE  Keeps(row, UpdateOrder(row, u))
BY DEF UpdateOrder, Row, Keeps, firstNonEmpty

LEMMA ApplyUpdateKeeps ==
  ASSUME NEW row \in Row, NEW p \in OrderIds, NEW raw
  PROVE  Keeps(row, ApplyUpdate(row, p, raw))
BY NoneAssumption DEF NoneAssumption, ExchangeOrders, ApplyUpdate, Row, Keeps

\* Row writes keep the input; everything but an insert keeps the set of rows.
LEMMA WriteKeepsInput ==
  ASSUME TypeInv, NEW o \in OrderIds, NEW u, orders[o] \in Row,
         UpdateOrder(orders[o], u) \in Row,
         orders' = [orders EXCEPT ![o] = UpdateOrder(@, u)]
  PROVE  KeepsRows /\ Stored' = Stored
<1>1. Keeps(orders[o], UpdateOrder(orders[o], u)) /\ \A row : Keeps(row, row)
  BY UpdateOrderKeeps DEF Keeps
<1>2. \A p \in OrderIds : orders'[p] = IF p = o THEN UpdateOrder(orders[o], u) ELSE orders[p]
  BY DEF TypeInv, TypeOK
<1>3. orders[o] # None /\ UpdateOrder(orders[o], u) # None
  BY NoneAssumption DEF NoneAssumption
<1>4. Stored' = Stored
  BY <1>2, <1>3 DEF Stored
<1>5. QED
  BY <1>1, <1>2, <1>4 DEF KeepsRows, Stored

\* Which steps write rows, and how.
LEMMA RowSteps ==
  ASSUME TypeInv, [Next]_vars, ~\E c \in Calls : InsertOrder(c)
  PROVE  KeepsRows /\ Stored' = Stored
<1>1. CASE orders' = orders
  BY <1>1 DEF KeepsRows, Keeps, Stored
<1>2. ASSUME NEW c \in Calls, MarkSubmitted(c)
      PROVE  KeepsRows /\ Stored' = Stored
  <2>1. Working(c)
    BY <1>2 DEF MarkSubmitted, Working, OnOrder, Pcs
  <2>2. UpdateOrder(orders[calls[c].id], Update("submitted", calls[c].replyId, TRUE, FALSE)) \in Row
    BY <2>1, WorkingCall, UpdateOrderType DEF RowStatuses
  <2>3. QED
    BY <1>2, <2>1, <2>2, WorkingCall, WriteKeepsInput DEF MarkSubmitted
<1>3. ASSUME NEW c \in Calls, MarkCancelled(c)
      PROVE  KeepsRows /\ Stored' = Stored
  <2>1. Working(c) /\ calls[c].pc \in ReadsRow
    BY <1>3 DEF MarkCancelled, Working, OnOrder, Pcs, ReadsRow
  <2>2. firstNonEmpty(calls[c].seen.poid, calls[c].replyId) \in ProviderIds
    BY <2>1, WorkingCall DEF Row, firstNonEmpty
  <2>3. UpdateOrder(orders[calls[c].id], Update("cancelled",
          firstNonEmpty(calls[c].seen.poid, calls[c].replyId), FALSE, TRUE)) \in Row
    BY <2>1, <2>2, WorkingCall, UpdateOrderType DEF RowStatuses
  <2>4. QED
    BY <1>3, <2>1, <2>3, WorkingCall, WriteKeepsInput DEF MarkCancelled
<1>4. ASSUME NEW c \in Calls, MarkSynced(c)
      PROVE  KeepsRows /\ Stored' = Stored
  <2> DEFINE o    == calls[c].id
             seen == calls[c].seen
             next == mergeSyncedOrderStatus(seen.status,
                                            normalizeProviderOrderStatus(calls[c].reply))
             u    == Update(next, firstNonEmpty(calls[c].replyId, seen.poid), FALSE,
                            next = "cancelled" /\ ~seen.cancelled)
  <2>1. Working(c) /\ calls[c].pc \in ReadsRow
    BY <1>4 DEF MarkSynced, Working, OnOrder, Pcs, ReadsRow
  <2>2. seen \in Row /\ o \in OrderIds /\ orders[o] \in Row
    BY <2>1, WorkingCall
  <2>3. next \in RowStatuses
    BY <2>1, <2>2, WorkingCall, NormalizeType, MergeType DEF Row
  <2>4. firstNonEmpty(calls[c].replyId, seen.poid) \in ProviderIds
    BY <2>1, <2>2, WorkingCall DEF Row, firstNonEmpty
  <2>5. UpdateOrder(orders[o], u) \in Row
    BY <2>2, <2>3, <2>4, UpdateOrderType
  <2>6. orders' = [orders EXCEPT ![o] = UpdateOrder(@, u)]
    BY <1>4 DEF MarkSynced
  <2>7. QED
    BY <2>2, <2>5, <2>6, WriteKeepsInput
<1>5. ASSUME NEW p \in OrderIds, DeliverUpdate(p)
      PROVE  KeepsRows /\ Stored' = Stored
  <2>1. Head(feed[p]) \in RawStatuses
    BY <1>5, HeadTailProperties DEF DeliverUpdate, TypeInv, TypeOK
  <2>2. ASSUME NEW o \in Stored
        PROVE  orders'[o] \in Row /\ Keeps(orders[o], orders'[o])
    <3>1. orders[o] \in Row /\ o \in OrderIds
      BY DEF Stored, TypeInv, TypeOK
    <3>2. /\ ApplyUpdate(orders[o], p, Head(feed[p])) \in Row
          /\ Keeps(orders[o], ApplyUpdate(orders[o], p, Head(feed[p])))
      BY <2>1, <3>1, ApplyUpdateType, ApplyUpdateKeeps
    <3>3. orders'[o] \in {orders[o], ApplyUpdate(orders[o], p, Head(feed[p]))}
      BY <1>5, <3>1 DEF DeliverUpdate
    <3>4. QED
      BY <3>1, <3>2, <3>3 DEF Keeps
  <2>3. \A o \in OrderIds \ Stored : orders'[o] = orders[o]
    BY <1>5 DEF DeliverUpdate
  <2>4. Stored' = Stored
    BY <2>2, <2>3, NoneAssumption DEF NoneAssumption, Stored
  <2>5. QED
    BY <2>2, <2>4 DEF KeepsRows
<1>6. QED
  BY <1>1, <1>2, <1>3, <1>4, <1>5
     DEF Next, Client, Handler, Exchange, Bridge, vars, BeginCreate, BeginCancel, BeginSync,
         ReturnExisting, SubmitAnswered, SubmitFailed, AuditSubmission, CancelAnswered,
         CancelFailed, QueryAnswered, StepFails, ExchangeFill, ExchangeCancel, LoseUpdate, Crash

-----------------------------------------------------------------------------
\* What makes a placement happen once: the store keeps one row per request, one
\* call alone is about to submit a row, and it has not been submitted yet.
OneRowPerRequest == \A o, p \in Stored : SameRequest(o, p) => o = p

SentOnce == \A o \in OrderIds : exch[o].sent <= 1 /\ (exch[o].sent > 0 => o \in Stored)

About(c, o) == calls[c].pc = "submit" /\ calls[c].id = o

SubmittersAreFirst == \A c \in Calls, o \in OrderIds : About(c, o) => exch[o].sent = 0

SubmittersAreAlone ==
  \A c, d \in Calls, o \in OrderIds : About(c, o) /\ About(d, o) => c = d

PlacingInv == OneRowPerRequest /\ SentOnce /\ SubmittersAreFirst /\ SubmittersAreAlone

\* A step that inserts and submits nothing.
Quiet ==
  /\ \A o \in OrderIds : exch'[o].sent = exch[o].sent
  /\ \A c \in Calls, o \in OrderIds : About(c, o)' => About(c, o)

\* Call c goes on to something else than submitting, the other calls stay.
MovesOn(c) == calls'[c].pc # "submit" /\ \A d \in Calls \ {c} : calls'[d] = calls[d]

LEMMA ReceiveCancelKeepsSent ==
  ASSUME TypeInv, NEW p \in OrderIds, ReceiveCancel(p)
  PROVE  \A o \in OrderIds : exch'[o].sent = exch[o].sent
<1>1. exch \in [OrderIds -> [sent: Nat, state: ExchangeStates]]
  BY DEF TypeInv, TypeOK
<1>2. CASE exch' = exch
  BY <1>2
<1>3. CASE exch' = [exch EXCEPT ![p].state = "canceled"]
  BY <1>1, <1>3
<1>4. QED
  BY <1>2, <1>3 DEF ReceiveCancel

LEMMA ReceiveSubmissionSends ==
  ASSUME TypeInv, NEW p \in OrderIds, NEW state, ReceiveSubmission(p, state)
  PROVE  \A o \in OrderIds : exch'[o].sent = IF o = p THEN exch[o].sent + 1
                                                      ELSE exch[o].sent
<1>1. exch \in [OrderIds -> [sent: Nat, state: ExchangeStates]]
  BY DEF TypeInv, TypeOK
<1>2. PICK new : /\ exch' = [exch EXCEPT ![p] = new]
                 /\ new = [sent  |-> exch[p].sent + 1,
                           state |-> IF exch[p].state = "absent" THEN state
                                                                 ELSE exch[p].state]
  BY Zenon DEF ReceiveSubmission
<1>3. new.sent = exch[p].sent + 1
  BY <1>2
<1>4. QED
  BY <1>1, <1>2, <1>3

LEMMA QuietSteps ==
  ASSUME TypeInv, [Next]_vars,
         \A c \in Calls : /\ ~InsertOrder(c) /\ ~SubmitFailed(c)
                          /\ \A state \in ExchangeStates : ~SubmitAnswered(c, state)
  PROVE  Quiet
<1>1. \A o \in OrderIds : exch'[o].sent = exch[o].sent
  <2>1. ASSUME NEW c \in Calls, CancelAnswered(c) \/ CancelFailed(c)
        PROVE  \A o \in OrderIds : exch'[o].sent = exch[o].sent
    <3>1. calls[c].key \in OrderIds
      BY <2>1, WorkingCall DEF CancelAnswered, CancelFailed, Working, OnOrder, Pcs
    <3>2. QED
      BY <2>1, <3>1, ReceiveCancelKeepsSent DEF CancelAnswered, CancelFailed
  <2>2. ASSUME NEW p \in OrderIds, Exchange(p)
        PROVE  \A o \in OrderIds : exch'[o].sent = exch[o].sent
    <3>1. CASE ExchangeCancel(p)
      BY <3>1, ReceiveCancelKeepsSent DEF ExchangeCancel
    <3>2. CASE ExchangeFill(p)
      BY <3>2 DEF ExchangeFill, TypeInv, TypeOK
    <3>3. QED
      BY <2>2, <3>1, <3>2 DEF Exchange
  <2>3. QED
    BY <2>1, <2>2
       DEF Next, Client, Handler, Bridge, vars, BeginCreate, BeginCancel, BeginSync,
           ReturnExisting, MarkSubmitted, AuditSubmission, MarkCancelled, QueryAnswered,
           MarkSynced, StepFails, DeliverUpdate, LoseUpdate, Crash
<1>2. \A c \in Calls, o \in OrderIds : About(c, o)' => About(c, o)
  <2>1. CASE calls' = calls
    BY <2>1 DEF About
  <2>2. CASE calls' = [c \in Calls |-> Idle]
    BY <2>2 DEF About, Idle
  <2>3. CASE \E c \in Calls : MovesOn(c)
    BY <2>3 DEF About, MovesOn
  <2>4. ASSUME NEW c \in Calls, Client(c) \/ Handler(c)
        PROVE  MovesOn(c)
    <3>1. calls[c] \in Call /\ calls \in [Calls -> Call]
      BY DEF TypeInv, TypeOK
    <3>2. CASE Client(c)
      BY <3>1, <3>2 DEF Client, BeginCreate, BeginCancel, BeginSync, Idle, MovesOn
    <3>3. CASE Return(c)
      BY <3>1, <3>3 DEF Return, Idle, MovesOn
    <3>4. CASE MarkSubmitted(c)
      BY <3>1, <3>4 DEF MarkSubmitted, Call, MovesOn
    <3>5. CASE CancelAnswered(c)
      BY <3>1, <3>5 DEF CancelAnswered, Call, MovesOn
    <3>6. CASE QueryAnswered(c)
      BY <3>1, <3>6 DEF QueryAnswered, Call, MovesOn
    <3>7. QED
      BY <2>4, <3>2, <3>3, <3>4, <3>5, <3>6
         DEF Handler, ReturnExisting, AuditSubmission, CancelFailed, MarkCancelled,
             MarkSynced, StepFails
  <2>5. QED
    BY <2>1, <2>2, <2>3, <2>4
       DEF Next, Exchange, Bridge, vars, ExchangeFill, ExchangeCancel, DeliverUpdate,
           LoseUpdate, Crash
<1>3. QED
  BY <1>1, <1>2 DEF Quiet

LEMMA RequestsStay ==
  ASSUME KeepsRows, Stored' = Stored, OneRowPerRequest
  PROVE  OneRowPerRequest'
<1>1. \A o \in Stored : orders'[o].input = orders[o].input
  BY DEF KeepsRows, Keeps
<1>2. ASSUME NEW o \in Stored, NEW p \in Stored, SameRequest(o, p)' PROVE SameRequest(o, p)
  BY <1>1, <1>2 DEF SameRequest
<1>3. QED
  BY <1>2 DEF OneRowPerRequest

LEMMA NextPlacingInv == TypeInv /\ PlacingInv /\ [Next]_vars => PlacingInv'
<1> SUFFICES ASSUME TypeInv, PlacingInv, [Next]_vars PROVE PlacingInv'
  OBVIOUS
<1>1. ASSUME NEW c \in Calls, InsertOrder(c) PROVE PlacingInv'
  <2>1. PICK o \in OrderIds \ Stored :
          /\ orders' = [orders EXCEPT ![o] = NewRow(calls[c].input)]
          /\ calls'  = [calls EXCEPT ![c] = [Idle EXCEPT !.pc = "submit", !.id = o]]
    BY <1>1 DEF InsertOrder
  <2>2. NewRow(calls[c].input) \in Row /\ NewRow(calls[c].input).input = calls[c].input
    BY <1>1, NewRowType DEF InsertOrder, TypeInv, CallsKnowTheirOrder, NewRow
  <2>3. \A p \in OrderIds : orders'[p] = IF p = o THEN NewRow(calls[c].input) ELSE orders[p]
    BY <2>1 DEF TypeInv, TypeOK
  <2>4. Stored' = Stored \cup {o} /\ o \notin Stored
    <3>1. \A p \in OrderIds : orders'[p] # None <=> orders[p] # None \/ p = o
      BY <2>2, <2>3, NoneAssumption DEF NoneAssumption
    <3>2. QED
      BY <2>1, <3>1, Zenon DEF Stored
  <2>5. \A d \in Calls, p \in OrderIds :
          About(d, p)' => (d = c /\ p = o) \/ (d # c /\ About(d, p))
    BY <2>1 DEF TypeInv, TypeOK, About, Idle
  <2>6. \A d \in Calls : ~About(d, o)
    BY <2>1 DEF TypeInv, CallsKnowTheirOrder, About, OnOrder, Pcs
  <2>7. exch' = exch /\ exch[o].sent = 0
    BY <1>1, <2>1 DEF InsertOrder, PlacingInv, SentOnce, TypeInv, TypeOK
  <2>8. OneRowPerRequest'
    <3>1. ASSUME NEW p \in Stored
          PROVE  ~SameRequest(p, o)' /\ ~SameRequest(o, p)'
      <4>1. ~Duplicate(orders[p].input, calls[c].input)
        BY <1>1 DEF InsertOrder
      <4>2. /\ p \in OrderIds /\ p # o
            /\ orders'[p] = orders[p] /\ orders'[o].input = calls[c].input
        BY <2>1, <2>2, <2>3, <2>4 DEF Stored
      <4>3. QED
        BY <4>1, <4>2, InputsAssumption DEF InputsAssumption, Duplicate, sameOwner, SameRequest
    <3>2. ASSUME NEW p \in Stored, NEW q \in Stored
          PROVE  SameRequest(p, q)' => SameRequest(p, q)
      <4>1. orders'[p] = orders[p] /\ orders'[q] = orders[q]
        BY <2>3, <2>4 DEF Stored
      <4>2. QED
        BY <4>1 DEF SameRequest
    <3>3. QED
      BY <2>4, <3>1, <3>2 DEF PlacingInv, OneRowPerRequest
  <2>9. SentOnce'
    BY <2>4, <2>7 DEF PlacingInv, SentOnce
  <2>10. SubmittersAreFirst'
    BY <2>5, <2>7 DEF PlacingInv, SubmittersAreFirst
  <2>11. SubmittersAreAlone'
    BY <2>5, <2>6 DEF PlacingInv, SubmittersAreAlone
  <2>12. QED
    BY <2>8, <2>9, <2>10, <2>11 DEF PlacingInv
<1>2. ASSUME NEW c \in Calls,
             SubmitFailed(c) \/ \E state \in ExchangeStates : SubmitAnswered(c, state)
      PROVE  PlacingInv'
  <2> DEFINE o == calls[c].id
  <2>1. orders' = orders /\ Stored' = Stored /\ About(c, o)
    BY <1>2 DEF SubmitFailed, SubmitAnswered, Stored, About
  <2>2. o \in OrderIds /\ o \in Stored
    BY <2>1, WorkingCall DEF About, TypeInv, CallsKnowTheirOrder, Working, OnOrder, Pcs
  <2>3. \A p \in OrderIds : exch'[p].sent = exch[p].sent
                            \/ (p = o /\ exch'[p].sent = exch[p].sent + 1)
    BY <1>2, <2>2, ReceiveSubmissionSends DEF SubmitFailed, SubmitAnswered
  <2>4. \A d \in Calls, p \in OrderIds : About(d, p)' => d # c /\ About(d, p)
    <3>1. calls \in [Calls -> Call] /\ calls[c] \in Call
      BY DEF TypeInv, TypeOK
    <3>2. \E rec : rec.pc # "submit" /\ calls' = [calls EXCEPT ![c] = rec]
      <4>1. CASE SubmitFailed(c)
        <5> DEFINE rec == [calls[c] EXCEPT !.pc = "order_submit_failed"]
        <5>1. rec.pc # "submit"
          BY <3>1 DEF Call
        <5>2. calls' = [calls EXCEPT ![c] = rec]
          BY <4>1 DEF SubmitFailed
        <5>3. QED
          BY <5>1, <5>2
      <4>2. ASSUME NEW state \in ExchangeStates, SubmitAnswered(c, state)
            PROVE  \E rec : rec.pc # "submit" /\ calls' = [calls EXCEPT ![c] = rec]
        <5>1. PICK id : calls' = [calls EXCEPT ![c] =
                          [calls[c] EXCEPT !.pc = "markSubmitted", !.replyId = id]]
          BY <4>2 DEF SubmitAnswered
        <5>2. [calls[c] EXCEPT !.pc = "markSubmitted", !.replyId = id].pc # "submit"
          BY <3>1 DEF Call
        <5>3. QED
          BY <5>1, <5>2
      <4>3. QED
        BY <1>2, <4>1, <4>2
    <3>3. MovesOn(c)
      BY <3>1, <3>2 DEF MovesOn
    <3>4. QED
      BY <3>3 DEF About, MovesOn
  <2>5. exch[o].sent = 0
    BY <2>1, <2>2 DEF PlacingInv, SubmittersAreFirst
  <2>6. OneRowPerRequest'
    BY <2>1 DEF PlacingInv, OneRowPerRequest, SameRequest
  <2>7. SentOnce'
    BY <2>1, <2>2, <2>3, <2>5 DEF PlacingInv, SentOnce
  <2>8. SubmittersAreFirst'
    BY <2>1, <2>2, <2>3, <2>4 DEF PlacingInv, SubmittersAreFirst, SubmittersAreAlone
  <2>9. SubmittersAreAlone'
    BY <2>4 DEF PlacingInv, SubmittersAreAlone
  <2>10. QED
    BY <2>6, <2>7, <2>8, <2>9 DEF PlacingInv
<1>3. CASE \A c \in Calls : /\ ~InsertOrder(c) /\ ~SubmitFailed(c)
                            /\ \A state \in ExchangeStates : ~SubmitAnswered(c, state)
  <2>1. Quiet /\ KeepsRows /\ Stored' = Stored
    BY <1>3, QuietSteps, RowSteps
  <2>2. OneRowPerRequest'
    BY <2>1, RequestsStay DEF PlacingInv
  <2>3. SentOnce' /\ SubmittersAreFirst' /\ SubmittersAreAlone'
    BY <2>1 DEF PlacingInv, Quiet, SentOnce, SubmittersAreFirst, SubmittersAreAlone
  <2>4. QED
    BY <2>2, <2>3 DEF PlacingInv
<1>4. QED
  BY <1>1, <1>2, <1>3

\* For any number of users, retries, handlers, restarts and late answers, and
\* for either store, the exchange receives at most one order per request
\* (Service.CreateOrder, Store.CreateOrder).
THEOREM PlacedOnce == Spec => []PlacedAtMostOnce
<1>1. Init => PlacingInv
  <2> SUFFICES ASSUME Init PROVE PlacingInv
    OBVIOUS
  <2>1. Stored = {}
    BY DEF Init, Stored
  <2>2. \A o \in OrderIds : exch[o].sent = 0
    BY DEF Init
  <2>3. \A c \in Calls : calls[c].pc # "submit"
    BY DEF Init, Idle
  <2>4. QED
    BY <2>1, <2>2, <2>3 DEF PlacingInv, OneRowPerRequest, SentOnce, SubmittersAreFirst,
                            SubmittersAreAlone, About
<1>2. Spec => [](TypeInv /\ PlacingInv)
  BY <1>1, InitTypeInv, NextTypeInv, NextPlacingInv, PTL DEF Spec
<1>3. PlacingInv => PlacedAtMostOnce
  BY DEF PlacingInv, OneRowPerRequest, SentOnce, PlacedAtMostOnce
<1>4. QED
  BY <1>2, <1>3, PTL

-----------------------------------------------------------------------------
\* A call remembers the row it read; its cancel time is still there.
ReadCancelsStay ==
  \A c \in Calls : calls[c].pc \in ReadsRow /\ calls[c].seen.cancelled
                   => orders[calls[c].id].cancelled

StampInv == CancelledIsStamped /\ ReadCancelsStay

\* What a call read before this step it knows after it, or it reads a row now.
StillReads(c) ==
  /\ calls[c].pc \in ReadsRow
  /\ calls'[c].id = calls[c].id /\ calls'[c].seen = calls[c].seen
  /\ calls'[c] = calls[c] \/ QueryAnswered(c) \/ CancelAnswered(c)

ReadsNow(c, o) ==
  /\ calls'[c].id = o /\ calls'[c].seen = orders[o] /\ calls'[c].pc # "markSynced"
  /\ \/ \E key \in OrderIds : BeginCancel(c, o, key)
     \/ \E n \in Names : BeginSync(c, o, n)

KeepsReads ==
  \A c \in Calls : calls'[c].pc \in ReadsRow =>
    StillReads(c) \/ \E o \in Stored : ReadsNow(c, o)

\* What a status request starts with.
Asks(c, o, n) ==
  LET poid  == firstNonEmpty(n.poid, orders[o].poid)
      cloid == IF n.cloid # None THEN n.cloid ELSE Cloid(o, orders[o])
  IN /\ calls'[c].pc = "query" /\ calls'[c].id = o /\ calls'[c].seen = orders[o]
     /\ calls'[c].replyId = poid /\ calls'[c].key = orderStatusOID(poid, cloid)
     /\ calls'[c].names = (n.poid # "" \/ n.cloid # None)

LEMMA SyncBegun ==
  ASSUME TypeInv, NEW c \in Calls, NEW o \in OrderIds, NEW n \in Names, BeginSync(c, o, n)
  PROVE  Asks(c, o, n)
<1> DEFINE poid  == firstNonEmpty(n.poid, orders[o].poid)
           cloid == IF n.cloid # None THEN n.cloid ELSE Cloid(o, orders[o])
           key   == orderStatusOID(poid, cloid)
           asks  == n.poid # "" \/ n.cloid # None
<1>1. calls' = [calls EXCEPT ![c] = [Idle EXCEPT !.pc = "query", !.id = o, !.seen = orders[o],
                                                 !.key = key, !.names = asks, !.replyId = poid]]
  BY DEF BeginSync
<1>2. Asks(c, o, n) <=> /\ calls'[c].pc = "query" /\ calls'[c].id = o /\ calls'[c].seen = orders[o]
                        /\ calls'[c].replyId = poid /\ calls'[c].key = key
                        /\ calls'[c].names = asks
  BY Zenon DEF Asks
<1> HIDE DEF poid, cloid, key, asks
<1>3. QED
  BY <1>1, <1>2 DEF TypeInv, TypeOK, Idle

LEMMA ReadSteps ==
  ASSUME TypeInv, [Next]_vars
  PROVE  KeepsReads
<1>0. calls \in [Calls -> Call]
  BY DEF TypeInv, TypeOK
<1>1. CASE calls' = calls
  BY <1>1 DEF KeepsReads, StillReads
<1>2. CASE calls' = [c \in Calls |-> Idle]
  BY <1>2 DEF KeepsReads, Idle, ReadsRow
<1>3a. ASSUME NEW c \in Calls, NEW o \in OrderIds, NEW key \in OrderIds, BeginCancel(c, o, key)
       PROVE  KeepsReads
  <2>1. calls' = [calls EXCEPT ![c] = [Idle EXCEPT !.pc = "cancel", !.id = o,
                                                   !.seen = orders[o], !.key = key]]
    BY <1>3a DEF BeginCancel
  <2>2. /\ calls'[c].id = o /\ calls'[c].seen = orders[o] /\ calls'[c].pc = "cancel"
        /\ \A d \in Calls \ {c} : calls'[d] = calls[d]
    BY <1>0, <2>1 DEF Idle
  <2>3. ReadsNow(c, o) /\ o \in Stored
    BY <1>3a, <2>2 DEF ReadsNow, BeginCancel
  <2>4. QED
    BY <2>2, <2>3 DEF KeepsReads, StillReads
<1>3b. ASSUME NEW c \in Calls, NEW o \in OrderIds, NEW n \in Names, BeginSync(c, o, n)
       PROVE  KeepsReads
  <2>1. /\ calls'[c].id = o /\ calls'[c].seen = orders[o] /\ calls'[c].pc = "query"
    BY <1>3b, SyncBegun DEF Asks
  <2>2. \A d \in Calls \ {c} : calls'[d] = calls[d]
    <3>1. \E rec : calls' = [calls EXCEPT ![c] = rec]
      BY <1>3b DEF BeginSync
    <3>2. QED
      BY <1>0, <3>1
  <2>3. ReadsNow(c, o) /\ o \in Stored
    <3>1. o \in Stored
      BY <1>3b DEF BeginSync
    <3>2. QED
      BY <1>3b, <2>1, <3>1 DEF ReadsNow
  <2>4. QED
    BY <2>2, <2>3 DEF KeepsReads, StillReads
<1>4. ASSUME NEW c \in Calls, calls'[c].pc \notin ReadsRow,
             \A d \in Calls \ {c} : calls'[d] = calls[d]
      PROVE  KeepsReads
  BY <1>4 DEF KeepsReads, StillReads
<1>5. ASSUME NEW c \in Calls, \/ Return(c) \/ InsertOrder(c)
                              \/ \E in \in Inputs : BeginCreate(c, in)
      PROVE  KeepsReads
  <2>1. CASE Return(c)
    BY <1>0, <1>4, <2>1 DEF Return, Idle, ReadsRow
  <2>2. CASE InsertOrder(c)
    <3>1. PICK o : calls' = [calls EXCEPT ![c] = [Idle EXCEPT !.pc = "submit", !.id = o]]
      BY <2>2, Zenon DEF InsertOrder
    <3>2. QED
      BY <1>0, <1>4, <3>1 DEF Idle, ReadsRow
  <2>3. CASE \E in \in Inputs : BeginCreate(c, in)
    BY <1>0, <1>4, <2>3 DEF BeginCreate, Idle, ReadsRow
  <2>4. QED
    BY <1>5, <2>1, <2>2, <2>3
<1>6. ASSUME NEW c \in Calls,
             \/ SubmitFailed(c) \/ MarkSubmitted(c)
             \/ \E state \in ExchangeStates : SubmitAnswered(c, state)
      PROVE  KeepsReads
  <2>1. calls[c] \in Call
    BY <1>0
  <2>2. PICK pc \in {"order_submit_failed", "order_submitted", "markSubmitted"},
             id \in ProviderIds :
          calls' = [calls EXCEPT ![c] = [calls[c] EXCEPT !.pc = pc, !.replyId = id]]
    <3>1. CASE SubmitFailed(c)
      <4>1. calls' = [calls EXCEPT ![c] = [calls[c] EXCEPT !.pc = "order_submit_failed",
                                                           !.replyId = calls[c].replyId]]
        BY <3>1, <2>1 DEF SubmitFailed, Call
      <4>2. QED
        BY <2>1, <4>1 DEF Call
    <3>2. CASE MarkSubmitted(c)
      <4>1. "" \in ProviderIds
        BY DEF ProviderIds
      <4>2. QED
        BY <3>2, <4>1, Zenon DEF MarkSubmitted
    <3>3. CASE \E state \in ExchangeStates : SubmitAnswered(c, state)
      <4>1. PICK id \in {"hash", "uuid", calls[c].id} :
              calls' = [calls EXCEPT ![c] = [@ EXCEPT !.pc = "markSubmitted", !.replyId = id]]
        BY <3>3 DEF SubmitAnswered
      <4>2. id \in ProviderIds
        BY <3>3, WorkingCall DEF SubmitAnswered, Working, OnOrder, Pcs, ProviderIds, ExchangeOrders
      <4>3. QED
        BY <4>1, <4>2, Zenon
    <3>4. QED
      BY <1>6, <3>1, <3>2, <3>3
  <2>3. calls'[c].pc = pc /\ \A d \in Calls \ {c} : calls'[d] = calls[d]
    BY <1>0, <2>1, <2>2 DEF Call
  <2>4. QED
    BY <1>4, <2>3 DEF ReadsRow
<1>7. ASSUME NEW c \in Calls, CancelAnswered(c) \/ QueryAnswered(c)
      PROVE  KeepsReads
  <2>1. calls[c] \in Call /\ calls[c].pc \in ReadsRow
    BY <1>0, <1>7 DEF CancelAnswered, QueryAnswered, ReadsRow
  <2>2. /\ calls'[c].id = calls[c].id /\ calls'[c].seen = calls[c].seen
        /\ \A d \in Calls \ {c} : calls'[d] = calls[d]
    <3>1. CASE CancelAnswered(c)
      BY <1>0, <2>1, <3>1 DEF CancelAnswered, Call
    <3>2. CASE QueryAnswered(c)
      BY <1>0, <2>1, <3>2 DEF QueryAnswered, Call
    <3>3. QED
      BY <1>7, <3>1, <3>2
  <2>3. StillReads(c)
    BY <1>7, <2>1, <2>2 DEF StillReads
  <2>4. QED
    BY <2>2, <2>3 DEF KeepsReads, StillReads
<1>8. QED
  BY <1>1, <1>2, <1>3a, <1>3b, <1>5, <1>6, <1>7
     DEF Next, Client, Handler, Exchange, Bridge, vars, ReturnExisting, AuditSubmission,
         CancelFailed, MarkCancelled, MarkSynced, StepFails, ExchangeFill, ExchangeCancel,
         DeliverUpdate, LoseUpdate, Crash

LEMMA NewRowIsPending ==
  ASSUME NEW in
  PROVE  NewRow(in).status = "pending"
BY DEF NewRow

\* An insert keeps the other rows.
LEMMA InsertKeepsRows ==
  ASSUME TypeInv, NEW c \in Calls, InsertOrder(c)
  PROVE  /\ KeepsRows
         /\ \A o \in Stored' : \/ o \in Stored /\ orders'[o] = orders[o]
                               \/ \E in \in Inputs : orders'[o] = NewRow(in)
<1>1. PICK o \in OrderIds \ Stored : orders' = [orders EXCEPT ![o] = NewRow(calls[c].input)]
  BY DEF InsertOrder
<1>2. \A p \in OrderIds : orders'[p] = IF p = o THEN NewRow(calls[c].input) ELSE orders[p]
  BY <1>1 DEF TypeInv, TypeOK
<1>3. calls[c].input \in Inputs
  BY DEF InsertOrder, TypeInv, CallsKnowTheirOrder
<1>4. \A p \in Stored : orders'[p] = orders[p]
  BY <1>1, <1>2 DEF Stored
<1>5. \A p \in Stored' : p \in Stored \/ p = o
  BY <1>2 DEF Stored
<1>6. KeepsRows
  BY <1>4 DEF KeepsRows, Keeps, Stored
<1>7. QED
  BY <1>1, <1>2, <1>3, <1>4, <1>5, <1>6

SyncStatus(c) == mergeSyncedOrderStatus(calls[c].seen.status,
                                        normalizeProviderOrderStatus(calls[c].reply))

\* How a row that is stored after a step came to be what it is.
Written(o) ==
  \/ o \in Stored /\ orders'[o] = orders[o]
  \/ \E in \in Inputs : orders'[o] = NewRow(in)
  \/ orders'[o].status = "submitted"
  \/ orders'[o].status = "cancelled" /\ orders'[o].cancelled
  \/ \E c \in Calls : /\ calls[c].pc = "markSynced" /\ calls[c].id = o
                      /\ orders'[o].status = SyncStatus(c)
                      /\ (SyncStatus(c) = "cancelled" /\ ~calls[c].seen.cancelled)
                            => orders'[o].cancelled
  \/ /\ o \in Stored
     /\ \E p \in OrderIds : orders'[o] = ApplyUpdate(orders[o], p, Head(feed[p]))

LEMMA WrittenSteps ==
  ASSUME TypeInv, [Next]_vars, NEW o \in Stored'
  PROVE  Written(o)
<1>1. CASE orders' = orders
  BY <1>1 DEF Written, Stored
<1>2. ASSUME NEW c \in Calls, InsertOrder(c) PROVE Written(o)
  BY <1>2, InsertKeepsRows DEF Written
<1>3. ASSUME NEW c \in Calls, MarkSubmitted(c) PROVE Written(o)
  <2>1. /\ orders[calls[c].id] \in Row
        /\ orders' = [orders EXCEPT ![calls[c].id] =
                        UpdateOrder(@, Update("submitted", calls[c].replyId, TRUE, FALSE))]
    BY <1>3, WorkingCall DEF MarkSubmitted, Working, OnOrder, Pcs
  <2>2. CASE o = calls[c].id
    <3>1. orders'[o] = UpdateOrder(orders[o], Update("submitted", calls[c].replyId, TRUE, FALSE))
      BY <2>1, <2>2 DEF TypeInv, TypeOK, Stored
    <3>2. orders'[o].status = "submitted"
      <4>1. orders[o] \in Row
        BY <2>1, <2>2
      <4>2. QED
        BY <3>1, <4>1 DEF UpdateOrder, Update, Row
    <3>3. QED
      BY <3>2 DEF Written
  <2>3. CASE o # calls[c].id
    BY <2>1, <2>3 DEF Written, TypeInv, TypeOK, Stored
  <2>4. QED
    BY <2>2, <2>3
<1>4. ASSUME NEW c \in Calls, MarkCancelled(c) PROVE Written(o)
  <2> DEFINE poid == firstNonEmpty(calls[c].seen.poid, calls[c].replyId)
  <2>1. /\ orders[calls[c].id] \in Row
        /\ orders' = [orders EXCEPT ![calls[c].id] =
                        UpdateOrder(@, Update("cancelled", poid, FALSE, TRUE))]
    BY <1>4, WorkingCall DEF MarkCancelled, Working, OnOrder, Pcs
  <2>2. CASE o = calls[c].id
    <3> HIDE DEF poid
    <3>1. orders'[o] = UpdateOrder(orders[o], Update("cancelled", poid, FALSE, TRUE))
      BY <2>1, <2>2 DEF TypeInv, TypeOK, Stored
    <3>2. orders'[o].status = "cancelled" /\ orders'[o].cancelled
      <4>1. orders[o] \in Row
        BY <2>1, <2>2
      <4>2. QED
        BY <3>1, <4>1 DEF UpdateOrder, Update, Row
    <3>3. QED
      BY <3>2 DEF Written
  <2>3. CASE o # calls[c].id
    BY <2>1, <2>3 DEF Written, TypeInv, TypeOK, Stored
  <2>4. QED
    BY <2>2, <2>3
<1>5. ASSUME NEW c \in Calls, MarkSynced(c) PROVE Written(o)
  <2> DEFINE poid == firstNonEmpty(calls[c].replyId, calls[c].seen.poid)
             stamp == SyncStatus(c) = "cancelled" /\ ~calls[c].seen.cancelled
  <2>1. /\ orders[calls[c].id] \in Row /\ calls[c].id \in OrderIds
        /\ exch' = exch /\ calls[c].pc = "markSynced" /\ stamp \in BOOLEAN
    BY <1>5, WorkingCall DEF MarkSynced, Working, OnOrder, Pcs
  <2>2. orders' = [orders EXCEPT ![calls[c].id] =
                     UpdateOrder(@, Update(SyncStatus(c), poid, FALSE, stamp))]
    BY <1>5 DEF MarkSynced, SyncStatus
  <2>3. CASE o = calls[c].id
    <3> DEFINE new == UpdateOrder(orders[o], Update(SyncStatus(c), poid, FALSE, stamp))
    <3> HIDE DEF poid
    <3>1. orders'[o] = new
      BY <2>1, <2>2, <2>3 DEF TypeInv, TypeOK
    <3>2. new.status = SyncStatus(c) /\ (stamp => new.cancelled)
      <4> HIDE DEF stamp
      <4>1. QED
        BY <2>1, <2>3 DEF UpdateOrder, Update, Row
    <3>3. QED
      BY <2>1, <2>3, <3>1, <3>2 DEF Written
  <2>4. CASE o # calls[c].id
    BY <2>2, <2>4 DEF Written, TypeInv, TypeOK, Stored
  <2>5. QED
    BY <2>3, <2>4
<1>6. ASSUME NEW p \in OrderIds, DeliverUpdate(p) PROVE Written(o)
  <2>1. o \in Stored
    <3>0. ASSUME NEW c \in Calls PROVE ~InsertOrder(c)
      <4>1. SUFFICES ASSUME InsertOrder(c) PROVE FALSE
        OBVIOUS
      <4>2. PICK id : calls' = [calls EXCEPT ![c] = [Idle EXCEPT !.pc = "submit", !.id = id]]
        BY <4>1, Zenon DEF InsertOrder
      <4>3. calls[c].pc = "insert" /\ calls' = calls
        BY <1>6, <4>1 DEF DeliverUpdate, InsertOrder
      <4>4. QED
        BY <4>2, <4>3 DEF Idle, TypeInv, TypeOK
    <3>1. Stored' = Stored
      BY <3>0, RowSteps
    <3>2. QED
      BY <3>1
  <2>2. \/ orders'[o] = orders[o]
        \/ orders'[o] = ApplyUpdate(orders[o], p, Head(feed[p]))
    BY <1>6, <2>1 DEF DeliverUpdate, Stored
  <2>3. QED
    BY <2>1, <2>2 DEF Written
<1>7. QED
  BY <1>1, <1>2, <1>3, <1>4, <1>5, <1>6
     DEF Next, Client, Handler, Exchange, Bridge, vars, BeginCreate, BeginCancel, BeginSync,
         ReturnExisting, SubmitAnswered, SubmitFailed, AuditSubmission, CancelAnswered,
         CancelFailed, QueryAnswered, StepFails, ExchangeFill, ExchangeCancel, LoseUpdate, Crash

LEMMA RowsKept ==
  ASSUME TypeInv, [Next]_vars
  PROVE  KeepsRows
BY RowSteps, InsertKeepsRows

LEMMA NextStampInv == TypeInv /\ StampInv /\ [Next]_vars => StampInv'
<1> SUFFICES ASSUME TypeInv, StampInv, [Next]_vars PROVE StampInv'
  OBVIOUS
<1>1. KeepsRows /\ KeepsReads
  BY RowsKept, ReadSteps
<1>2. \A c \in Calls : calls[c].pc \in ReadsRow =>
        /\ calls[c].id \in Stored
        /\ calls[c].seen.cancelled => orders[calls[c].id].cancelled
  BY DEF StampInv, ReadCancelsStay, TypeInv, CallsKnowTheirOrder, ReadsRow, OnOrder, Pcs
<1>3. CancelledIsStamped'
  <2> SUFFICES ASSUME NEW o \in Stored', orders'[o].status = "cancelled"
               PROVE  orders'[o].cancelled
    BY DEF CancelledIsStamped
  <2>1. CASE o \in Stored /\ orders'[o] = orders[o]
    BY <2>1 DEF StampInv, CancelledIsStamped
  <2>2. CASE \E in \in Inputs : orders'[o] = NewRow(in)
    <3>1. orders'[o].status = "pending"
      <4>1. PICK in \in Inputs : orders'[o] = NewRow(in)
        BY <2>2
      <4>2. QED
        BY <4>1, NewRowIsPending
    <3>2. QED
      BY <3>1
  <2>3. ASSUME NEW c \in Calls, calls[c].pc = "markSynced", calls[c].id = o,
               orders'[o].status = SyncStatus(c),
               SyncStatus(c) = "cancelled" /\ ~calls[c].seen.cancelled => orders'[o].cancelled
        PROVE  orders'[o].cancelled
    <3>1. CASE ~calls[c].seen.cancelled
      BY <2>3, <3>1
    <3>2. CASE calls[c].seen.cancelled
      <4>1. o \in Stored /\ orders[o].cancelled
        BY <1>2, <2>3, <3>2 DEF ReadsRow
      <4>2. QED
        BY <1>1, <4>1 DEF KeepsRows, Keeps
    <3>3. QED
      BY <3>1, <3>2
  <2>4. ASSUME NEW p \in OrderIds, o \in Stored,
               orders'[o] = ApplyUpdate(orders[o], p, Head(feed[p]))
        PROVE  orders'[o].cancelled
    <3>1. orders[o] \in Row /\ (orders[o].status = "cancelled" => orders[o].cancelled)
      BY <2>4 DEF StampInv, CancelledIsStamped, Stored, TypeInv, TypeOK
    <3>2. QED
      BY <2>4, <3>1 DEF ApplyUpdate, mergeSyncedOrderStatus, Row
  <2>5. QED
    BY <2>1, <2>2, <2>3, <2>4, WrittenSteps DEF Written
<1>4. ReadCancelsStay'
  <2> SUFFICES ASSUME NEW c \in Calls, calls'[c].pc \in ReadsRow, calls'[c].seen.cancelled
               PROVE  orders'[calls'[c].id].cancelled
    BY DEF ReadCancelsStay
  <2>1. CASE /\ calls[c].pc \in ReadsRow
             /\ calls'[c].id = calls[c].id /\ calls'[c].seen = calls[c].seen
    BY <1>1, <1>2, <2>1 DEF KeepsRows, Keeps
  <2>2. CASE /\ calls'[c].seen = orders[calls'[c].id]
             /\ orders' = orders
    BY <2>2
  <2>3. QED
    BY <1>1, <2>1, <2>2 DEF KeepsReads, StillReads, ReadsNow, BeginCancel, BeginSync
<1>5. QED
  BY <1>3, <1>4 DEF StampInv

\* For any interleaving of cancels, syncs, late answers and updates, and for
\* either store, a row that says cancelled has its cancel time (SyncOrderStatus,
\* UpdateOrder, UpdateOrderStatusByProvider).
THEOREM Stamped == Spec => []CancelledIsStamped
<1>1. Init => StampInv
  <2> SUFFICES ASSUME Init PROVE StampInv
    OBVIOUS
  <2>1. Stored = {} /\ \A c \in Calls : calls[c].pc \notin ReadsRow
    BY DEF Init, Stored, Idle, ReadsRow
  <2>2. QED
    BY <2>1 DEF StampInv, CancelledIsStamped, ReadCancelsStay
<1>2. Spec => [](TypeInv /\ StampInv)
  BY <1>1, InitTypeInv, NextTypeInv, NextStampInv, PTL DEF Spec
<1>3. StampInv => CancelledIsStamped
  BY DEF StampInv
<1>4. QED
  BY <1>2, <1>3, PTL

-----------------------------------------------------------------------------
\* How a step changes a row that was stored: what it makes of the two columns.
Rewritten(o) ==
  \/ orders'[o] = orders[o]
  \/ \E p \in OrderIds : /\ feed[p] # <<>> /\ MatchesUpdate(orders[o], o, p)
                         /\ orders'[o] = ApplyUpdate(orders[o], p, Head(feed[p]))
  \/ \E c \in Calls :
       /\ calls[c].id = o
       /\ \/ /\ calls[c].pc = "markSubmitted" /\ orders'[o].status = "submitted"
             /\ orders'[o].poid = firstNonEmpty(calls[c].replyId, orders[o].poid)
          \/ /\ calls[c].pc = "markCancelled" /\ orders'[o].status = "cancelled"
             /\ orders'[o].poid = firstNonEmpty(firstNonEmpty(calls[c].seen.poid, calls[c].replyId),
                                                orders[o].poid)
          \/ /\ calls[c].pc = "markSynced" /\ orders'[o].status = SyncStatus(c)
             /\ orders'[o].poid = firstNonEmpty(firstNonEmpty(calls[c].replyId, calls[c].seen.poid),
                                                orders[o].poid)

LEMMA UpdateOrderColumns ==
  ASSUME NEW row \in Row, NEW status, NEW poid, NEW submitted, NEW cancelled
  PROVE  LET new == UpdateOrder(row, Update(status, poid, submitted, cancelled))
         IN new.status = status /\ new.poid = firstNonEmpty(poid, row.poid)
BY DEF UpdateOrder, Update, Row

LEMMA RewrittenSteps ==
  ASSUME TypeInv, [Next]_vars, NEW o \in Stored
  PROVE  Rewritten(o)
<1>0. o \in OrderIds /\ orders[o] \in Row /\ orders \in [OrderIds -> Row \cup {None}]
  BY DEF Stored, TypeInv, TypeOK
<1>1. CASE orders' = orders
  BY <1>1 DEF Rewritten
<1>2. ASSUME NEW c \in Calls, InsertOrder(c) PROVE Rewritten(o)
  <2>1. PICK p \in OrderIds \ Stored : orders' = [orders EXCEPT ![p] = NewRow(calls[c].input)]
    BY <1>2 DEF InsertOrder
  <2>2. orders'[o] = orders[o]
    BY <1>0, <2>1
  <2> QED
    BY <2>2 DEF Rewritten
<1>3. ASSUME NEW c \in Calls, NEW status, NEW poid, NEW submitted, NEW cancelled,
             orders' = [orders EXCEPT ![calls[c].id] =
                          UpdateOrder(@, Update(status, poid, submitted, cancelled))]
      PROVE  \/ orders'[o] = orders[o]
             \/ /\ calls[c].id = o /\ orders'[o].status = status
                /\ orders'[o].poid = firstNonEmpty(poid, orders[o].poid)
  <2>1. CASE calls[c].id # o
    BY <1>0, <1>3, <2>1
  <2>2. CASE calls[c].id = o
    <3>1. orders'[o] = UpdateOrder(orders[o], Update(status, poid, submitted, cancelled))
      BY <1>0, <1>3, <2>2
    <3> QED
      BY <1>0, <2>2, <3>1, UpdateOrderColumns
  <2> QED
    BY <2>1, <2>2
<1>4. ASSUME NEW c \in Calls, MarkSubmitted(c) PROVE Rewritten(o)
  <2>1. orders' = [orders EXCEPT ![calls[c].id] =
                     UpdateOrder(@, Update("submitted", calls[c].replyId, TRUE, FALSE))]
        /\ calls[c].pc = "markSubmitted"
    BY <1>4 DEF MarkSubmitted
  <2>2. \/ orders'[o] = orders[o]
        \/ /\ calls[c].id = o /\ orders'[o].status = "submitted"
           /\ orders'[o].poid = firstNonEmpty(calls[c].replyId, orders[o].poid)
    BY <1>3, <2>1
  <2> QED
    BY <2>1, <2>2 DEF Rewritten
<1>5. ASSUME NEW c \in Calls, MarkCancelled(c) PROVE Rewritten(o)
  <2>1. orders' = [orders EXCEPT ![calls[c].id] = UpdateOrder(@, Update("cancelled",
                     firstNonEmpty(calls[c].seen.poid, calls[c].replyId), FALSE, TRUE))]
        /\ calls[c].pc = "markCancelled"
    BY <1>5 DEF MarkCancelled
  <2>2. \/ orders'[o] = orders[o]
        \/ /\ calls[c].id = o /\ orders'[o].status = "cancelled"
           /\ orders'[o].poid = firstNonEmpty(firstNonEmpty(calls[c].seen.poid, calls[c].replyId),
                                              orders[o].poid)
    BY <1>3, <2>1
  <2> QED
    BY <2>1, <2>2 DEF Rewritten
<1>6. ASSUME NEW c \in Calls, MarkSynced(c) PROVE Rewritten(o)
  <2>1. orders' = [orders EXCEPT ![calls[c].id] = UpdateOrder(@, Update(SyncStatus(c),
                     firstNonEmpty(calls[c].replyId, calls[c].seen.poid), FALSE,
                     SyncStatus(c) = "cancelled" /\ ~calls[c].seen.cancelled))]
        /\ calls[c].pc = "markSynced"
    BY <1>6 DEF MarkSynced, SyncStatus
  <2>2. \/ orders'[o] = orders[o]
        \/ /\ calls[c].id = o /\ orders'[o].status = SyncStatus(c)
           /\ orders'[o].poid = firstNonEmpty(firstNonEmpty(calls[c].replyId, calls[c].seen.poid),
                                              orders[o].poid)
    BY <1>3, <2>1
  <2> QED
    BY <2>1, <2>2 DEF Rewritten
<1>7. ASSUME NEW p \in OrderIds, DeliverUpdate(p) PROVE Rewritten(o)
  BY <1>0, <1>7 DEF DeliverUpdate, Rewritten
<1> QED
  BY <1>1, <1>2, <1>4, <1>5, <1>6, <1>7
     DEF Next, Client, Handler, Exchange, Bridge, vars, BeginCreate, BeginCancel, BeginSync,
         ReturnExisting, SubmitAnswered, SubmitFailed, AuditSubmission, CancelAnswered,
         CancelFailed, QueryAnswered, StepFails, ExchangeFill, ExchangeCancel, LoseUpdate, Crash

\* How a call comes to mark or to audit a submission.
KeepsAuditors ==
  \A c \in Calls : calls'[c].pc \in {"markSubmitted", "order_submitted"} =>
    \/ calls'[c] = calls[c]
    \/ \E state \in ExchangeStates : SubmitAnswered(c, state)
    \/ MarkSubmitted(c)

LEMMA AuditorSteps ==
  ASSUME TypeInv, [Next]_vars
  PROVE  KeepsAuditors
<1>0. calls \in [Calls -> Call]
  BY DEF TypeInv, TypeOK
<1>1. CASE calls' = calls
  BY <1>1 DEF KeepsAuditors
<1>2. CASE calls' = [c \in Calls |-> Idle]
  BY <1>2 DEF KeepsAuditors, Idle
<1>3. ASSUME NEW c \in Calls, NEW rec, calls' = [calls EXCEPT ![c] = rec],
             \/ calls'[c].pc \notin {"markSubmitted", "order_submitted"}
             \/ \E state \in ExchangeStates : SubmitAnswered(c, state)
             \/ MarkSubmitted(c)
      PROVE  KeepsAuditors
  BY <1>0, <1>3 DEF KeepsAuditors
<1>4. ASSUME NEW c \in Calls, \/ \E state \in ExchangeStates : SubmitAnswered(c, state)
                              \/ MarkSubmitted(c)
      PROVE  KeepsAuditors
  <2>1. \E rec : calls' = [calls EXCEPT ![c] = rec]
    BY <1>4 DEF SubmitAnswered, MarkSubmitted
  <2>2. QED
    BY <1>3, <1>4, <2>1
<1>5. ASSUME NEW c \in Calls, Client(c) \/ Return(c) \/ InsertOrder(c)
      PROVE  KeepsAuditors
  <2>1. CASE Client(c)
    <3>1. PICK rec : calls' = [calls EXCEPT ![c] = rec]
      BY <2>1 DEF Client, BeginCreate, BeginCancel, BeginSync
    <3>2. calls'[c].pc \in {"insert", "cancel", "query"}
      <4>1. ASSUME NEW in, BeginCreate(c, in) PROVE calls'[c].pc = "insert"
        BY <1>0, <4>1 DEF BeginCreate, Idle
      <4>2. ASSUME NEW o, NEW key, BeginCancel(c, o, key) PROVE calls'[c].pc = "cancel"
        BY <1>0, <4>2 DEF BeginCancel, Idle
      <4>3. ASSUME NEW o \in OrderIds, NEW n \in Names, BeginSync(c, o, n)
            PROVE  calls'[c].pc = "query"
        BY <4>3, SyncBegun DEF Asks
      <4>4. QED
        BY <2>1, <4>1, <4>2, <4>3 DEF Client
    <3>3. QED
      BY <1>3, <3>1, <3>2
  <2>2. CASE Return(c)
    <3>1. calls'[c].pc = "idle"
      BY <1>0, <2>2 DEF Return, Idle
    <3>2. QED
      BY <1>3, <2>2, <3>1 DEF Return
  <2>3. CASE InsertOrder(c)
    <3>1. PICK o : calls' = [calls EXCEPT ![c] = [Idle EXCEPT !.pc = "submit", !.id = o]]
      BY <2>3, Zenon DEF InsertOrder
    <3>2. calls'[c].pc = "submit"
      BY <1>0, <3>1 DEF Idle
    <3>3. QED
      BY <1>3, <3>1, <3>2
  <2>4. QED
    BY <1>5, <2>1, <2>2, <2>3
<1>6. ASSUME NEW c \in Calls, SubmitFailed(c) \/ CancelAnswered(c) \/ QueryAnswered(c)
      PROVE  KeepsAuditors
  <2>1. calls[c] \in Call
    BY <1>0
  <2>2. PICK rec : calls' = [calls EXCEPT ![c] = rec]
    BY <1>6 DEF SubmitFailed, CancelAnswered, QueryAnswered
  <2>3. calls'[c].pc \in {"order_submit_failed", "markCancelled", "markSynced"}
    <3>1. CASE SubmitFailed(c)
      BY <1>0, <2>1, <3>1 DEF SubmitFailed, Call
    <3>2. CASE CancelAnswered(c)
      BY <1>0, <2>1, <3>2 DEF CancelAnswered, Call
    <3>3. CASE QueryAnswered(c)
      BY <1>0, <2>1, <3>3 DEF QueryAnswered, Call
    <3>4. QED
      BY <1>6, <3>1, <3>2, <3>3
  <2>4. QED
    BY <1>3, <2>2, <2>3
<1>7. QED
  BY <1>1, <1>2, <1>4, <1>5, <1>6
     DEF Next, Handler, Exchange, Bridge, vars, ReturnExisting, AuditSubmission, CancelFailed,
         MarkCancelled, MarkSynced, StepFails, ExchangeFill, ExchangeCancel, DeliverUpdate,
         LoseUpdate, Crash

-----------------------------------------------------------------------------
\* What is known of fills: an update is about an order the exchange filled, and
\* what a row or a call knows comes from a source of the row, which is its own
\* order or one that a client named for it.
Filled(o) == exch[o].state = "filled"

Sources(o) == {p \in ExchangeOrders : p = o \/ <<o, p>> \in named}

Executed(o) == \E p \in Sources(o) : StateOf(p) = "filled"

IsSource(o, id) == id \in ExchangeOrders => id \in Sources(o)

UpdatesAreTrue ==
  \A o \in OrderIds : \A i \in 1 .. Len(feed[o]) : feed[o][i] = "filled" => Filled(o)

RowsKnowSources ==
  \A o \in Stored : IsSource(o, orders[o].poid) /\ (orders[o].status = "filled" => Executed(o))

KnowsSources(c) ==
  /\ IsSource(calls[c].id, calls[c].seen.poid) /\ IsSource(calls[c].id, calls[c].replyId)
  /\ calls[c].pc = "query" => IsSource(calls[c].id, calls[c].key)
  /\ calls[c].seen.status = "filled" => Executed(calls[c].id)
  /\ calls[c].pc = "markSynced" /\ calls[c].reply = "filled" => Executed(calls[c].id)

ReadsKnowSources == \A c \in Calls : calls[c].pc \in ReadsRow => KnowsSources(c)

AnswersKnowSources ==
  \A c \in Calls : calls[c].pc = "markSubmitted" => IsSource(calls[c].id, calls[c].replyId)

FillInv == UpdatesAreTrue /\ RowsKnowSources /\ ReadsKnowSources /\ AnswersKnowSources

LEMMA FillWords ==
  ASSUME NEW raw \in RawStatuses, normalizeProviderOrderStatus(raw) = "filled"
  PROVE  raw = "filled"
BY DEF normalizeProviderOrderStatus, RawStatuses, OpenWords, CancelWords, RejectWords,
       UnknownWords, OtherWords

LEMMA MergedFill ==
  ASSUME NEW current, NEW next, mergeSyncedOrderStatus(current, next) = "filled"
  PROVE  current = "filled" \/ next = "filled"
BY DEF mergeSyncedOrderStatus

\* The exchange's step: what it appends to a feed is the state it moved to.
FillSteps ==
  /\ \A o \in OrderIds : Filled(o) => Filled(o)'
  /\ UpdatesAreTrue'

LEMMA ReportIsTrue ==
  ASSUME TypeInv, UpdatesAreTrue, NEW o \in OrderIds, NEW raw \in RawStatuses, Report(o, raw),
         \A p \in OrderIds : Filled(p) => Filled(p)', raw = "filled" => Filled(o)'
  PROVE  UpdatesAreTrue'
<1>1. feed \in [OrderIds -> Seq(RawStatuses)]
  BY DEF TypeInv, TypeOK
<1> SUFFICES ASSUME NEW p \in OrderIds, NEW i \in 1 .. Len(feed'[p]), feed'[p][i] = "filled"
             PROVE  Filled(p)'
  BY DEF UpdatesAreTrue
<1>2. CASE p = o
  <2>1. feed'[p] = Append(feed[o], raw) /\ feed[o] \in Seq(RawStatuses)
    BY <1>1, <1>2 DEF Report
  <2>2. CASE i \in 1 .. Len(feed[o])
    <3>1. feed[o][i] = "filled"
      BY <2>1, <2>2, AppendProperties
    <3>2. QED
      BY <1>2, <2>2, <3>1 DEF UpdatesAreTrue
  <2>3. CASE i = Len(feed[o]) + 1
    <3>1. raw = "filled"
      BY <2>1, <2>3, AppendProperties
    <3>2. QED
      BY <1>2, <3>1
  <2>4. QED
    BY <2>1, <2>2, <2>3, AppendProperties
<1>3. CASE p # o
  BY <1>1, <1>3 DEF Report, UpdatesAreTrue
<1>4. QED
  BY <1>2, <1>3

LEMMA NothingReported ==
  ASSUME UpdatesAreTrue, feed' = feed, \A p \in OrderIds : Filled(p) => Filled(p)'
  PROVE  UpdatesAreTrue'
BY DEF UpdatesAreTrue

LEMMA SubmissionFills ==
  ASSUME TypeInv, UpdatesAreTrue, NEW o \in OrderIds, NEW state, ReceiveSubmission(o, state)
  PROVE  FillSteps
<1>1. exch \in [OrderIds -> [sent: Nat, state: ExchangeStates]] /\ state \in RawStatuses
  BY DEF ReceiveSubmission, TypeInv, TypeOK, RawStatuses, OpenWords, RejectWords
<1>2. PICK new : /\ exch' = [exch EXCEPT ![o] = new]
                 /\ new = [sent  |-> exch[o].sent + 1,
                           state |-> IF exch[o].state = "absent" THEN state
                                                                 ELSE exch[o].state]
  BY Zenon DEF ReceiveSubmission
<1>3. new.state = IF exch[o].state = "absent" THEN state ELSE exch[o].state
  BY <1>2
<1>4. \A p \in OrderIds : Filled(p) => Filled(p)'
  BY <1>1, <1>2, <1>3 DEF Filled
<1>5. CASE exch[o].state = "absent"
  <2>1. Report(o, state) /\ (state = "filled" => Filled(o)')
    BY <1>1, <1>2, <1>3, <1>5 DEF ReceiveSubmission, Filled
  <2>2. QED
    BY <1>1, <1>4, <2>1, ReportIsTrue DEF FillSteps
<1>6. CASE exch[o].state # "absent"
  BY <1>4, <1>6, NothingReported DEF ReceiveSubmission, FillSteps
<1>7. QED
  BY <1>5, <1>6

LEMMA CancelFills ==
  ASSUME TypeInv, UpdatesAreTrue, NEW o \in OrderIds, ReceiveCancel(o)
  PROVE  FillSteps
<1>1. exch \in [OrderIds -> [sent: Nat, state: ExchangeStates]] /\ "canceled" \in RawStatuses
  BY DEF TypeInv, TypeOK, RawStatuses, CancelWords
<1>2. CASE exch[o].state = "open"
  <2>1. \A p \in OrderIds : Filled(p) => Filled(p)'
    BY <1>1, <1>2 DEF ReceiveCancel, Filled
  <2>2. QED
    BY <1>1, <1>2, <2>1, ReportIsTrue DEF ReceiveCancel, FillSteps
<1>3. CASE exch[o].state # "open"
  BY <1>3, NothingReported DEF ReceiveCancel, FillSteps, Filled
<1>4. QED
  BY <1>2, <1>3

LEMMA FeedShrinks ==
  ASSUME TypeInv, UpdatesAreTrue, NEW p \in OrderIds, feed[p] # <<>>,
         feed' = [feed EXCEPT ![p] = Tail(@)], exch' = exch
  PROVE  FillSteps
<1>1. feed \in [OrderIds -> Seq(RawStatuses)]
  BY DEF TypeInv, TypeOK
<1>2. ASSUME NEW o \in OrderIds, NEW i \in 1 .. Len(feed'[o]), feed'[o][i] = "filled"
      PROVE  Filled(o)'
  <2>1. CASE o = p
    <3>1. feed'[o] = Tail(feed[p]) /\ feed[p] \in Seq(RawStatuses)
      BY <1>1, <2>1
    <3>2. i + 1 \in 1 .. Len(feed[p]) /\ feed[p][i + 1] = "filled"
      <4>1. /\ Len(Tail(feed[p])) = Len(feed[p]) - 1 /\ Len(feed[p]) \in Nat
            /\ \A j \in 1 .. Len(Tail(feed[p])) : Tail(feed[p])[j] = feed[p][j + 1]
        BY <3>1, HeadTailProperties
      <4>2. i \in 1 .. Len(Tail(feed[p])) /\ Tail(feed[p])[i] = "filled"
        BY <1>2, <3>1
      <4>3. QED
        BY <4>1, <4>2
    <3>3. QED
      BY <2>1, <3>2 DEF UpdatesAreTrue, Filled
  <2>2. CASE o # p
    BY <1>1, <1>2, <2>2 DEF UpdatesAreTrue, Filled
  <2>3. QED
    BY <2>1, <2>2
<1>3. QED
  BY <1>2 DEF FillSteps, UpdatesAreTrue, Filled

LEMMA NextFillSteps ==
  ASSUME TypeInv, UpdatesAreTrue, [Next]_vars
  PROVE  FillSteps
<1>1. CASE UNCHANGED <<exch, feed>>
  BY <1>1, NothingReported DEF FillSteps, Filled
<1>2. ASSUME NEW c \in Calls,
             SubmitFailed(c) \/ \E state \in ExchangeStates : SubmitAnswered(c, state)
      PROVE  FillSteps
  <2>1. calls[c].id \in OrderIds
    BY <1>2, WorkingCall DEF SubmitFailed, SubmitAnswered, Working, OnOrder, Pcs
  <2>2. QED
    BY <1>1, <1>2, <2>1, SubmissionFills DEF SubmitFailed, SubmitAnswered
<1>3. ASSUME NEW c \in Calls, CancelAnswered(c) \/ CancelFailed(c)
      PROVE  FillSteps
  <2>1. calls[c].key \in OrderIds
    BY <1>3, WorkingCall DEF CancelAnswered, CancelFailed, Working, OnOrder, Pcs
  <2>2. QED
    BY <1>1, <1>3, <2>1, CancelFills DEF CancelAnswered, CancelFailed
<1>4. ASSUME NEW o \in OrderIds, Exchange(o)
      PROVE  FillSteps
  <2>1. CASE ExchangeFill(o)
    <3>1. /\ \A p \in OrderIds : Filled(p) => Filled(p)'
          /\ Filled(o)' /\ "filled" \in RawStatuses
      BY <2>1 DEF ExchangeFill, Filled, TypeInv, TypeOK, RawStatuses
    <3>2. QED
      BY <2>1, <3>1, ReportIsTrue DEF ExchangeFill, FillSteps
  <2>2. CASE ExchangeCancel(o)
    BY <2>2, CancelFills DEF ExchangeCancel
  <2>3. QED
    BY <1>4, <2>1, <2>2 DEF Exchange
<1>5. ASSUME NEW o \in OrderIds, Bridge(o)
      PROVE  FillSteps
  BY <1>5, FeedShrinks DEF Bridge, DeliverUpdate, LoseUpdate
<1>6. CASE Crash
  BY <1>6 DEF Crash, FillSteps, UpdatesAreTrue, Filled
<1>7. QED
  BY <1>1, <1>2, <1>3, <1>4, <1>5, <1>6
     DEF Next, Client, Handler, vars, BeginCreate, BeginCancel, BeginSync, ReturnExisting,
         InsertOrder, MarkSubmitted, AuditSubmission, MarkCancelled, QueryAnswered,
         MarkSynced, StepFails

\* A row's sources stay its sources, and stay filled.
LEMMA SourcesStay ==
  ASSUME TypeInv, UpdatesAreTrue, [Next]_vars
  PROVE  \A o : Sources(o) \subseteq Sources(o)' /\ (Executed(o) => Executed(o)')
<1>1. named \subseteq named'
  BY DEF Next, Client, Handler, Exchange, Bridge, vars, BeginCreate, BeginCancel, BeginSync,
         ReturnExisting, InsertOrder, SubmitAnswered, SubmitFailed, MarkSubmitted,
         AuditSubmission, CancelAnswered, CancelFailed, MarkCancelled, QueryAnswered,
         MarkSynced, StepFails, ExchangeFill, ExchangeCancel, DeliverUpdate, LoseUpdate, Crash
<1>2. ASSUME NEW p \in ExchangeOrders, StateOf(p) = "filled" PROVE StateOf(p)' = "filled"
  BY <1>2, NextFillSteps DEF StateOf, FillSteps, Filled, ExchangeOrders
<1>3. ASSUME NEW o PROVE Sources(o) \subseteq Sources(o)'
  BY <1>1 DEF Sources
<1>4. ASSUME NEW o, Executed(o) PROVE Executed(o)'
  <2>1. PICK p \in Sources(o) : StateOf(p) = "filled"
    BY <1>4 DEF Executed
  <2>2. p \in Sources(o)' /\ StateOf(p)' = "filled"
    BY <1>2, <1>3, <2>1 DEF Sources
  <2> QED
    BY <2>2 DEF Executed
<1> QED
  BY <1>3, <1>4

LEMMA FirstIsSource ==
  ASSUME NEW o, NEW a, NEW b, IsSource(o, a), IsSource(o, b)
  PROVE  IsSource(o, firstNonEmpty(a, b))
BY DEF firstNonEmpty

LEMMA WordsAreNoOrders ==
  ASSUME NEW o, NEW id \in {"", "hash", "uuid"}
  PROVE  IsSource(o, id)
BY NoneAssumption DEF NoneAssumption, IsSource

LEMMA SyncIsFilled ==
  ASSUME TypeInv, ReadsKnowSources, NEW c \in Calls, calls[c].pc = "markSynced",
         SyncStatus(c) = "filled"
  PROVE  Executed(calls[c].id)
<1>1. calls[c].reply \in RawStatuses /\ calls[c].pc \in ReadsRow
  BY DEF TypeInv, TypeOK, Call, ReadsRow
<1>2. \/ calls[c].seen.status = "filled"
      \/ normalizeProviderOrderStatus(calls[c].reply) = "filled"
  BY MergedFill DEF SyncStatus
<1>3. calls[c].seen.status = "filled" \/ calls[c].reply = "filled"
  BY <1>1, <1>2, FillWords
<1> QED
  BY <1>1, <1>3 DEF ReadsKnowSources, KnowsSources

\* What a step leaves in a row that was stored still comes from its sources.
LEMMA RowsLearn ==
  ASSUME TypeInv, FillInv, [Next]_vars, NEW o \in Stored
  PROVE  IsSource(o, orders'[o].poid) /\ (orders'[o].status = "filled" => Executed(o))
<1>0. o \in OrderIds /\ orders[o] \in Row
  BY DEF Stored, TypeInv, TypeOK
<1>1. IsSource(o, orders[o].poid) /\ (orders[o].status = "filled" => Executed(o))
  BY DEF FillInv, RowsKnowSources
<1>2. CASE orders'[o] = orders[o]
  BY <1>1, <1>2
<1>3. ASSUME NEW p \in OrderIds, feed[p] # <<>>, MatchesUpdate(orders[o], o, p),
             orders'[o] = ApplyUpdate(orders[o], p, Head(feed[p]))
      PROVE  IsSource(o, orders'[o].poid) /\ (orders'[o].status = "filled" => Executed(o))
  <2>1. p \in Sources(o)
    <3>1. orders[o].poid = p \/ o = p
      BY <1>3 DEF MatchesUpdate
    <3> QED
      BY <1>1, <3>1 DEF IsSource, Sources, ExchangeOrders
  <2>2. orders'[o].poid \in {p, orders[o].poid}
    BY <1>0, <1>3 DEF ApplyUpdate, Row
  <2>3. orders'[o].status = mergeSyncedOrderStatus(orders[o].status,
                              normalizeProviderOrderStatus(Head(feed[p])))
    BY <1>0, <1>3 DEF ApplyUpdate, Row
  <2>4. /\ Head(feed[p]) \in RawStatuses /\ 1 \in 1 .. Len(feed[p])
        /\ Head(feed[p]) = feed[p][1]
    <3>1. feed[p] \in Seq(RawStatuses)
      BY DEF TypeInv, TypeOK
    <3> QED
      BY <1>3, <3>1, HeadTailProperties, EmptySeq
  <2>5. Head(feed[p]) = "filled" => Executed(o)
    <3>1. Head(feed[p]) = "filled" => StateOf(p) = "filled"
      BY <2>4 DEF FillInv, UpdatesAreTrue, Filled, StateOf
    <3> QED
      BY <2>1, <3>1 DEF Executed
  <2>6. orders'[o].status = "filled" => Executed(o)
    BY <1>1, <2>3, <2>4, <2>5, MergedFill, FillWords
  <2> QED
    BY <1>1, <2>1, <2>2, <2>6 DEF IsSource
<1>4. ASSUME NEW c \in Calls, calls[c].id = o, calls[c].pc = "markSubmitted",
             orders'[o].status = "submitted",
             orders'[o].poid = firstNonEmpty(calls[c].replyId, orders[o].poid)
      PROVE  IsSource(o, orders'[o].poid) /\ orders'[o].status # "filled"
  BY <1>1, <1>4, FirstIsSource DEF FillInv, AnswersKnowSources
<1>5. ASSUME NEW c \in Calls, calls[c].id = o, calls[c].pc \in ReadsRow
      PROVE  IsSource(o, calls[c].seen.poid) /\ IsSource(o, calls[c].replyId)
  BY <1>5 DEF FillInv, ReadsKnowSources, KnowsSources
<1>6. ASSUME NEW c \in Calls, calls[c].id = o, calls[c].pc = "markCancelled",
             orders'[o].status = "cancelled",
             orders'[o].poid = firstNonEmpty(firstNonEmpty(calls[c].seen.poid, calls[c].replyId),
                                             orders[o].poid)
      PROVE  IsSource(o, orders'[o].poid) /\ orders'[o].status # "filled"
  BY <1>1, <1>5, <1>6, FirstIsSource DEF ReadsRow
<1>7. ASSUME NEW c \in Calls, calls[c].id = o, calls[c].pc = "markSynced",
             orders'[o].status = SyncStatus(c),
             orders'[o].poid = firstNonEmpty(firstNonEmpty(calls[c].replyId, calls[c].seen.poid),
                                             orders[o].poid)
      PROVE  IsSource(o, orders'[o].poid) /\ (orders'[o].status = "filled" => Executed(o))
  <2>1. IsSource(o, orders'[o].poid)
    BY <1>1, <1>5, <1>7, FirstIsSource DEF ReadsRow
  <2>2. orders'[o].status = "filled" => Executed(o)
    BY <1>7, SyncIsFilled DEF FillInv
  <2> QED
    BY <2>1, <2>2
<1> QED
  BY <1>2, <1>3, <1>4, <1>6, <1>7, RewrittenSteps DEF Rewritten

LEMMA NextRowsKnowSources ==
  ASSUME TypeInv, FillInv, [Next]_vars
  PROVE  RowsKnowSources'
<1> SUFFICES ASSUME NEW o \in Stored'
             PROVE  (IsSource(o, orders[o].poid) /\ (orders[o].status = "filled" => Executed(o)))'
  BY DEF RowsKnowSources
<1>1. CASE o \in Stored
  <2>1. IsSource(o, orders'[o].poid) /\ (orders'[o].status = "filled" => Executed(o))
    BY <1>1, RowsLearn
  <2>2. Sources(o) \subseteq Sources(o)' /\ (Executed(o) => Executed(o)')
    BY SourcesStay DEF FillInv
  <2> QED
    BY <2>1, <2>2 DEF IsSource
<1>2. CASE o \notin Stored
  <2>1. PICK c \in Calls : InsertOrder(c)
    BY <1>2, RowSteps
  <2>2. PICK entry \in Inputs : orders'[o] = NewRow(entry)
    BY <1>2, <2>1, InsertKeepsRows
  <2>3. NewRow(entry).status = "pending" /\ NewRow(entry).poid = ""
    BY DEF NewRow
  <2>4. "" \notin ExchangeOrders
    BY NoneAssumption DEF NoneAssumption
  <2> QED
    BY <2>2, <2>3, <2>4 DEF IsSource
<1> QED
  BY <1>1, <1>2

\* What a status request starts with names sources only.
LEMMA SyncsKnowSources ==
  ASSUME TypeInv, FillInv, NEW c \in Calls, NEW o \in Stored, NEW n \in Names,
         BeginSync(c, o, n), [Next]_vars
  PROVE  (IsSource(o, calls[c].replyId) /\ IsSource(o, calls[c].key) /\ calls[c].pc = "query")'
<1> DEFINE poid  == firstNonEmpty(n.poid, orders[o].poid)
           cloid == IF n.cloid # None THEN n.cloid ELSE Cloid(o, orders[o])
<1>0. o \in OrderIds
  BY DEF Stored
<1>1. /\ calls'[c].replyId = poid /\ calls'[c].key = orderStatusOID(poid, cloid)
      /\ calls'[c].pc = "query"
  <2>1. Asks(c, o, n)
    BY <1>0, SyncBegun
  <2> QED
    BY <2>1, Zenon DEF Asks
<1>2. named' = named \cup ({o} \X ((ExchangeOrders \cap {n.poid, n.cloid}) \ {o}))
  BY DEF BeginSync
<1>3. \A id \in {n.poid, n.cloid} : id \in ExchangeOrders => id \in Sources(o)'
  BY <1>2 DEF Sources
<1>4. orders[o].poid \in ExchangeOrders => orders[o].poid \in Sources(o)'
  <2>1. Sources(o) \subseteq Sources(o)'
    BY SourcesStay DEF FillInv
  <2>2. IsSource(o, orders[o].poid)
    BY DEF FillInv, RowsKnowSources
  <2> QED
    BY <2>1, <2>2 DEF IsSource
<1>5. o \in Sources(o)' /\ None \notin ExchangeOrders
  BY <1>0, NoneAssumption DEF NoneAssumption, Sources, ExchangeOrders
<1>6. poid \in ExchangeOrders => poid \in Sources(o)'
  BY <1>3, <1>4 DEF firstNonEmpty
<1>7. cloid \in ExchangeOrders => cloid \in Sources(o)'
  BY <1>3, <1>5 DEF Cloid
<1> HIDE DEF poid, cloid
<1>8. orderStatusOID(poid, cloid) \in ExchangeOrders => orderStatusOID(poid, cloid) \in Sources(o)'
  BY <1>5, <1>6, <1>7 DEF orderStatusOID
<1> QED
  BY <1>1, <1>6, <1>8 DEF IsSource

LEMMA NextReadsKnowSources ==
  ASSUME TypeInv, FillInv, [Next]_vars
  PROVE  ReadsKnowSources'
<1> SUFFICES ASSUME NEW c \in Calls, calls'[c].pc \in ReadsRow
             PROVE  KnowsSources(c)'
  BY DEF ReadsKnowSources
<1>0. calls[c] \in Call /\ calls \in [Calls -> Call]
  BY DEF TypeInv, TypeOK
<1>1. \A o : Sources(o) \subseteq Sources(o)' /\ (Executed(o) => Executed(o)')
  BY SourcesStay DEF FillInv
<1>2. ASSUME StillReads(c) PROVE KnowsSources(c)'
  <2>0. PICK o : o = calls[c].id
    OBVIOUS
  <2>1. /\ KnowsSources(c) /\ calls'[c].id = o /\ calls'[c].seen = calls[c].seen
        /\ calls[c].id = o
    BY <1>2, <2>0 DEF FillInv, ReadsKnowSources, StillReads
  <2>2. /\ calls'[c].seen.poid \in ExchangeOrders => calls'[c].seen.poid \in Sources(o)'
        /\ calls'[c].seen.status = "filled" => Executed(o)'
    BY <1>1, <2>1 DEF KnowsSources, IsSource
  <2>3. CASE calls'[c] = calls[c]
    <3>1. /\ calls'[c].replyId \in ExchangeOrders => calls'[c].replyId \in Sources(o)'
          /\ calls'[c].pc = "query" /\ calls'[c].key \in ExchangeOrders => calls'[c].key \in Sources(o)'
          /\ calls'[c].pc = "markSynced" /\ calls'[c].reply = "filled" => Executed(o)'
      BY <1>1, <2>1, <2>3 DEF KnowsSources, IsSource
    <3> QED
      BY <2>1, <2>2, <3>1 DEF KnowsSources, IsSource
  <2>4. CASE CancelAnswered(c)
    <3>1. calls'[c].replyId \in {"hash", "uuid"} /\ calls'[c].pc = "markCancelled"
      BY <1>0, <2>4 DEF CancelAnswered, Call
    <3>2. calls'[c].replyId \notin ExchangeOrders
      BY <3>1, NoneAssumption DEF NoneAssumption
    <3> QED
      BY <2>1, <2>2, <3>1, <3>2 DEF KnowsSources, IsSource
  <2>5. CASE QueryAnswered(c)
    <3>1. PICK answer : answer = Lookup(calls[c].key, calls[c].replyId)
      OBVIOUS
    <3>2. /\ calls'[c].pc = "markSynced" /\ calls'[c].reply = answer.raw
          /\ calls'[c].replyId = answer.id /\ calls[c].pc = "query"
      BY <1>0, <2>5, <3>1 DEF QueryAnswered, Call
    <3>3. calls[c].key \in ExchangeOrders \cup {None}
      BY <1>0 DEF Call
    <3>4. answer.id \in {calls[c].key, calls[c].replyId}
      BY <3>1 DEF Lookup
    <3>5. answer.raw = "filled" => calls[c].key # None /\ StateOf(calls[c].key) = "filled"
      BY <3>1 DEF Lookup
    <3>6. answer.raw = "filled" => Executed(o)
      BY <2>1, <3>2, <3>3, <3>5 DEF KnowsSources, IsSource, Executed
    <3>7. IsSource(o, answer.id)
      BY <2>1, <3>2, <3>4 DEF KnowsSources
    <3>8. /\ answer.id \in ExchangeOrders => answer.id \in Sources(o)'
          /\ answer.raw = "filled" => Executed(o)'
      BY <1>1, <3>6, <3>7 DEF IsSource
    <3>9. /\ calls'[c].replyId \in ExchangeOrders => calls'[c].replyId \in Sources(o)'
          /\ calls'[c].reply = "filled" => Executed(o)'
      BY <3>2, <3>8
    <3> QED
      BY <2>1, <2>2, <3>2, <3>9 DEF KnowsSources, IsSource
  <2> QED
    BY <1>2, <2>3, <2>4, <2>5 DEF StillReads
<1>3. ASSUME NEW o \in Stored, ReadsNow(c, o) PROVE KnowsSources(c)'
  <2>1. /\ calls'[c].id = o /\ calls'[c].seen = orders[o] /\ calls'[c].pc # "markSynced"
    BY <1>3 DEF ReadsNow
  <2>2. /\ calls'[c].seen.poid \in ExchangeOrders => calls'[c].seen.poid \in Sources(o)'
        /\ calls'[c].seen.status = "filled" => Executed(o)'
    BY <1>1, <2>1 DEF FillInv, RowsKnowSources, IsSource
  <2>3. ASSUME NEW key \in OrderIds, BeginCancel(c, o, key)
        PROVE  calls'[c].replyId = "" /\ calls'[c].pc = "cancel"
    BY <1>0, <2>3 DEF BeginCancel, Idle
  <2>4. CASE \E key \in OrderIds : BeginCancel(c, o, key)
    <3>1. calls'[c].replyId \notin ExchangeOrders /\ calls'[c].pc = "cancel"
      BY <2>3, <2>4, NoneAssumption DEF NoneAssumption
    <3> QED
      BY <2>1, <2>2, <3>1 DEF KnowsSources, IsSource
  <2>5. CASE \E n \in Names : BeginSync(c, o, n)
    <3>1. (IsSource(o, calls[c].replyId) /\ IsSource(o, calls[c].key) /\ calls[c].pc = "query")'
      BY <2>5, SyncsKnowSources
    <3>2. /\ calls'[c].replyId \in ExchangeOrders => calls'[c].replyId \in Sources(o)'
          /\ calls'[c].key \in ExchangeOrders => calls'[c].key \in Sources(o)'
      BY <3>1 DEF IsSource
    <3> QED
      BY <2>1, <2>2, <3>2 DEF KnowsSources, IsSource
  <2> QED
    BY <1>3, <2>4, <2>5 DEF ReadsNow
<1> QED
  BY <1>2, <1>3, ReadSteps DEF KeepsReads

LEMMA NextAnswersKnowSources ==
  ASSUME TypeInv, FillInv, [Next]_vars
  PROVE  AnswersKnowSources'
<1> SUFFICES ASSUME NEW c \in Calls, calls'[c].pc = "markSubmitted"
             PROVE  IsSource(calls[c].id, calls[c].replyId)'
  BY DEF AnswersKnowSources
<1>0. calls[c] \in Call /\ calls \in [Calls -> Call]
  BY DEF TypeInv, TypeOK
<1>1. CASE calls'[c] = calls[c]
  <2>1. PICK o : o = calls[c].id
    OBVIOUS
  <2>2. IsSource(o, calls[c].replyId) /\ calls'[c].id = o
    BY <1>1, <2>1 DEF FillInv, AnswersKnowSources
  <2>3. Sources(o) \subseteq Sources(o)'
    BY SourcesStay DEF FillInv
  <2>4. calls'[c].replyId \in ExchangeOrders => calls'[c].replyId \in Sources(o)'
    BY <1>1, <2>2, <2>3 DEF IsSource
  <2> QED
    BY <2>2, <2>4 DEF IsSource
<1>2. ASSUME NEW state \in ExchangeStates, SubmitAnswered(c, state)
      PROVE  IsSource(calls[c].id, calls[c].replyId)'
  <2>1. PICK id \in {calls[c].id, "hash", "uuid"} :
          calls' = [calls EXCEPT ![c] = [calls[c] EXCEPT !.pc = "markSubmitted", !.replyId = id]]
    BY <1>2 DEF SubmitAnswered
  <2>2. calls'[c].replyId = id /\ calls'[c].id = calls[c].id
    BY <1>0, <2>1 DEF Call
  <2>3. id \in ExchangeOrders => id = calls'[c].id
    BY <2>1, <2>2, NoneAssumption DEF NoneAssumption
  <2> QED
    BY <2>2, <2>3 DEF Sources, IsSource
<1>3. CASE MarkSubmitted(c)
  BY <1>0, <1>3 DEF MarkSubmitted, Call
<1> QED
  BY <1>1, <1>2, <1>3, AuditorSteps DEF KeepsAuditors

\* Whatever is read stale, answered late, misdirected by a client or delivered
\* between two steps of a handler, and for either store, a row says filled only if
\* the exchange filled its order or one that a client named for it
\* (SyncOrderStatus, UpdateOrderStatusByProvider).
THEOREM FillsAreReal == Spec => []NoInventedFill
<1>1. Init => FillInv
  <2> SUFFICES ASSUME Init PROVE FillInv
    OBVIOUS
  <2>1. /\ Stored = {} /\ \A c \in Calls : calls[c].pc = "idle"
        /\ \A o \in OrderIds : feed[o] = <<>>
    BY DEF Init, Stored, Idle
  <2>2. QED
    BY <2>1 DEF FillInv, RowsKnowSources, UpdatesAreTrue, ReadsKnowSources,
                AnswersKnowSources, ReadsRow
<1>2. TypeInv /\ FillInv /\ [Next]_vars => FillInv'
  BY NextFillSteps, NextRowsKnowSources, NextReadsKnowSources, NextAnswersKnowSources
     DEF FillInv, FillSteps
<1>3. Spec => [](TypeInv /\ FillInv)
  BY <1>1, <1>2, InitTypeInv, NextTypeInv, PTL DEF Spec
<1>4. FillInv => NoInventedFill
  BY DEF FillInv, RowsKnowSources, NoInventedFill, Executed, Sources
<1>5. QED
  BY <1>3, <1>4, PTL

-----------------------------------------------------------------------------
\* A submission is counted once, and stays counted.
LEMMA SentSteps ==
  ASSUME TypeInv, PlacingInv, [Next]_vars
  PROVE  /\ PlacingInv'
         /\ \A o \in OrderIds : exch'[o].sent \in {exch[o].sent, exch[o].sent + 1}
         /\ \A o \in OrderIds : exch[o].sent = 1 => exch'[o].sent = 1
<1>1. PlacingInv'
  BY NextPlacingInv
<1>2. exch \in [OrderIds -> [sent: Nat, state: ExchangeStates]]
  BY DEF TypeInv, TypeOK
<1>3. \A o \in OrderIds : exch'[o].sent \in {exch[o].sent, exch[o].sent + 1}
  <2>1. ASSUME NEW c \in Calls, InsertOrder(c)
        PROVE  \A o \in OrderIds : exch'[o].sent = exch[o].sent
    BY <2>1 DEF InsertOrder
  <2>2. ASSUME NEW c \in Calls,
               SubmitFailed(c) \/ \E state \in ExchangeStates : SubmitAnswered(c, state)
        PROVE  \A o \in OrderIds : exch'[o].sent \in {exch[o].sent, exch[o].sent + 1}
    <3>1. calls[c].id \in OrderIds
      BY <2>2, WorkingCall DEF SubmitFailed, SubmitAnswered, Working, OnOrder, Pcs
    <3>2. QED
      BY <2>2, <3>1, ReceiveSubmissionSends DEF SubmitFailed, SubmitAnswered
  <2>3. QED
    BY <2>1, <2>2, QuietSteps DEF Quiet
<1>4. ASSUME NEW o \in OrderIds, exch[o].sent = 1 PROVE exch'[o].sent = 1
  <2>1. exch'[o].sent <= 1
    BY <1>1 DEF PlacingInv, SentOnce
  <2>2. QED
    BY <1>3, <1>4, <2>1
<1>5. QED
  BY <1>1, <1>3, <1>4

-----------------------------------------------------------------------------
\* The refinement.

LEMMA PlacedForMembers ==
  ASSUME NEW r \in Requests, NEW x
  PROVE  x \in PlacedFor[r] <=>
           \E p \in Stored : RequestOf(p) = r /\ x \in {p} \X (1 .. exch[p].sent)
BY DEF PlacedFor

LEMMA InitPromise == Init => Promise!Init
<1> SUFFICES ASSUME Init PROVE Promise!Init
  OBVIOUS
<1>1. Stored = {}
  BY DEF Init, Stored
<1>2. \A r \in Requests : PlacedFor[r] = {}
  BY <1>1, PlacedForMembers
<1>3. QED
  BY <1>2 DEF PlacedFor, Promise!Init

\* Nothing is placed: the rows that were sent are the same and so are their inputs.
LEMMA NothingPlaced ==
  ASSUME TypeInv, TypeInv', PlacingInv, Stored \subseteq Stored',
         \A o \in Stored : orders'[o].input = orders[o].input,
         \A o \in OrderIds : exch'[o].sent = exch[o].sent
  PROVE  UNCHANGED PlacedFor
<1>1. \A o \in OrderIds : exch[o].sent \in Nat
  BY DEF TypeInv, TypeOK
<1>2. ASSUME NEW r \in Requests PROVE PlacedFor'[r] = PlacedFor[r]
  <2>1. ASSUME NEW x, x \in PlacedFor[r] PROVE x \in PlacedFor'[r]
    <3>1. PICK p \in Stored : RequestOf(p) = r /\ x \in {p} \X (1 .. exch[p].sent)
      BY <2>1, PlacedForMembers
    <3>2. p \in Stored' /\ RequestOf(p)' = r /\ exch'[p].sent = exch[p].sent
      BY <3>1 DEF RequestOf, Stored
    <3>3. QED
      BY <3>1, <3>2 DEF PlacedFor
  <2>2. ASSUME NEW x, x \in PlacedFor'[r] PROVE x \in PlacedFor[r]
    <3>1. PICK p \in Stored' : RequestOf(p)' = r /\ x \in {p} \X (1 .. exch'[p].sent)
      BY <2>2 DEF PlacedFor
    <3>2. p \in OrderIds /\ exch'[p].sent = exch[p].sent /\ exch[p].sent > 0
      <4>1. p \in OrderIds /\ exch'[p].sent = exch[p].sent
        BY DEF Stored
      <4>2. QED
        BY <1>1, <3>1, <4>1
    <3>3. p \in Stored
      BY <3>2 DEF PlacingInv, SentOnce
    <3>4. RequestOf(p) = r
      BY <3>1, <3>3 DEF RequestOf
    <3>5. QED
      BY <3>1, <3>2, <3>3, <3>4, PlacedForMembers
  <2>3. QED
    BY <2>1, <2>2
<1>3. QED
  BY <1>2 DEF PlacedFor

\* A submission reaches the exchange: the request of its row had no placement.
LEMMA OnePlaced ==
  ASSUME TypeInv, PlacingInv, NEW o \in Stored, UNCHANGED orders,
         exch[o].sent = 0, exch'[o].sent = 1,
         \A p \in OrderIds : p # o => exch'[p].sent = exch[p].sent
  PROVE  [Promise!Next]_PlacedFor
<1> DEFINE r == RequestOf(o)
<1>1. /\ o \in OrderIds /\ Stored' = Stored /\ Stored \subseteq OrderIds
      /\ \A p : RequestOf(p)' = RequestOf(p)
      /\ \A p \in OrderIds : exch[p].sent \in Nat
  BY DEF Stored, RequestOf, TypeInv, TypeOK
<1>2. \A p \in Stored : RequestOf(p) = r /\ r \in Requests => p = o
  <2>1. ASSUME NEW p \in Stored, RequestOf(p) = r, r \in Requests PROVE p = o
    <3>1. SameRequest(p, o)
      BY <2>1 DEF RequestOf, Requests, SameRequest
    <3>2. QED
      BY <3>1 DEF PlacingInv, OneRowPerRequest
  <2>2. QED
    BY <2>1
<1>3. ASSUME NEW s \in Requests, s # r PROVE PlacedFor'[s] = PlacedFor[s]
  <2>1. \A p \in Stored : RequestOf(p) = s => p # o /\ exch'[p].sent = exch[p].sent
    BY <1>1, <1>3
  <2>2. \A x : x \in PlacedFor'[s] <=> x \in PlacedFor[s]
    BY <1>1, <2>1, PlacedForMembers DEF PlacedFor
  <2>3. QED
    BY <2>2
<1>4. CASE r \in Requests
  <2>1. PlacedFor[r] = {}
    <3>1. ASSUME NEW x, x \in PlacedFor[r] PROVE FALSE
      <4>1. PICK p \in Stored : RequestOf(p) = r /\ x \in {p} \X (1 .. exch[p].sent)
        BY <1>4, <3>1, PlacedForMembers
      <4>2. p = o
        BY <1>2, <1>4, <4>1
      <4>3. QED
        BY <4>1, <4>2
    <3>2. QED
      BY <3>1
  <2>2. PlacedFor'[r] = {<<o, 1>>}
    <3>1. \A x : x \in PlacedFor'[r] <=>
                   \E p \in Stored : RequestOf(p) = r /\ x \in {p} \X (1 .. exch'[p].sent)
      BY <1>1, <1>4 DEF PlacedFor
    <3>2. \A x : x \in PlacedFor'[r] <=> x \in {o} \X (1 .. 1)
      BY <1>2, <1>4, <3>1
    <3>3. 1 .. 1 = {1}
      OBVIOUS
    <3>4. QED
      BY <3>2, <3>3
  <2>3. PlacedFor' = [PlacedFor EXCEPT ![r] = {<<o, 1>>}]
    <3>1. /\ PlacedFor = [s \in Requests |-> PlacedFor[s]]
          /\ PlacedFor' = [s \in Requests |-> PlacedFor'[s]]
      BY DEF PlacedFor
    <3>2. QED
      BY <1>3, <1>4, <2>2, <3>1
  <2>4. <<o, 1>> \in OrderIds \X {1}
    BY <1>1
  <2>5. QED
    BY <1>4, <2>1, <2>3, <2>4 DEF Promise!Next, Promise!Place
<1>5. CASE r \notin Requests
  BY <1>3, <1>5 DEF PlacedFor
<1>6. QED
  BY <1>4, <1>5

LEMMA StepPromise ==
  TypeInv /\ TypeInv' /\ PlacingInv /\ PlacingInv' /\ [Next]_vars => [Promise!Next]_PlacedFor
<1> SUFFICES ASSUME TypeInv, TypeInv', PlacingInv, PlacingInv', [Next]_vars
             PROVE  [Promise!Next]_PlacedFor
  OBVIOUS
<1>1. /\ Stored \subseteq Stored'
      /\ \A o \in Stored : orders'[o].input = orders[o].input
  BY RowsKept DEF KeepsRows, Keeps
<1>2. CASE \A o \in OrderIds : exch'[o].sent = exch[o].sent
  BY <1>1, <1>2, NothingPlaced
<1>3. ASSUME NEW c \in Calls,
             SubmitFailed(c) \/ \E state \in ExchangeStates : SubmitAnswered(c, state)
      PROVE  [Promise!Next]_PlacedFor
  <2> DEFINE o == calls[c].id
  <2>1. UNCHANGED orders /\ About(c, o)
    BY <1>3 DEF SubmitFailed, SubmitAnswered, About
  <2>2. o \in OrderIds /\ o \in Stored
    BY <2>1, WorkingCall DEF About, TypeInv, CallsKnowTheirOrder, Working, OnOrder, Pcs
  <2>3. \/ \A p \in OrderIds : exch'[p].sent = exch[p].sent
        \/ \A p \in OrderIds : exch'[p].sent = IF p = o THEN exch[p].sent + 1
                                                        ELSE exch[p].sent
    BY <1>3, <2>2, ReceiveSubmissionSends DEF SubmitFailed, SubmitAnswered
  <2>4. exch[o].sent = 0
    BY <2>1, <2>2 DEF PlacingInv, SubmittersAreFirst
  <2>5. QED
    BY <1>2, <2>1, <2>2, <2>3, <2>4, OnePlaced
<1>4. ASSUME NEW c \in Calls, InsertOrder(c) PROVE [Promise!Next]_PlacedFor
  BY <1>2, <1>4 DEF InsertOrder
<1>5. QED
  BY <1>2, <1>3, <1>4, QuietSteps DEF Quiet

\* Every step of the handlers, the bridge, the exchange and the crashes, for any
\* number of them and either store, is a placement of a request never placed
\* before or none at all (CreateOrder implements OrderPlacement).
THEOREM PlacesOnceInSpec == Spec => PlacesOnce
<1>1. Init => PlacingInv
  <2> SUFFICES ASSUME Init PROVE PlacingInv
    OBVIOUS
  <2>1. Stored = {} /\ \A o \in OrderIds : exch[o].sent = 0
    BY DEF Init, Stored
  <2>2. \A c \in Calls : calls[c].pc # "submit"
    BY DEF Init, Idle
  <2>3. QED
    BY <2>1, <2>2 DEF PlacingInv, OneRowPerRequest, SentOnce, SubmittersAreFirst,
                      SubmittersAreAlone, About
<1>2. Spec => [](TypeInv /\ PlacingInv)
  BY <1>1, InitTypeInv, NextTypeInv, NextPlacingInv, PTL DEF Spec
<1>3. QED
  BY <1>2, InitPromise, StepPromise, PTL DEF Spec, PlacesOnce, Promise!Spec

-----------------------------------------------------------------------------
\* The audit trail.

\* What a call knows of the submission it is about to mark or to audit.
AuditorsKnow ==
  \A c \in Calls :
    /\ calls[c].pc = "markSubmitted" => exch[calls[c].id].sent = 1 /\ calls[c].replyId # ""
    /\ calls[c].pc = "order_submitted" =>
         /\ exch[calls[c].id].sent = 1
         /\ orders[calls[c].id].submitted /\ orders[calls[c].id].poid # ""

AuditInv == SubmissionAuditIsTrue /\ AuditorsKnow

\* An answer to a submission, and its mark.
LEMMA AnsweredIsSent ==
  ASSUME TypeInv, PlacingInv, NEW c \in Calls, NEW state \in ExchangeStates,
         SubmitAnswered(c, state)
  PROVE  /\ calls'[c].pc = "markSubmitted" /\ calls'[c].replyId # ""
         /\ exch'[calls'[c].id].sent = 1
<1>1. calls[c] \in Call /\ calls \in [Calls -> Call] /\ calls[c].id \in OrderIds
  BY WorkingCall DEF SubmitAnswered, TypeInv, TypeOK, Working, OnOrder, Pcs
<1>2. PICK id : id # "" /\
        calls' = [calls EXCEPT ![c] = [calls[c] EXCEPT !.pc = "markSubmitted", !.replyId = id]]
  <2>1. \A id \in {"hash", "uuid", calls[c].id} : id # ""
    BY <1>1, NoneAssumption DEF NoneAssumption, ExchangeOrders
  <2>2. QED
    BY <2>1 DEF SubmitAnswered
<1>3. calls'[c].pc = "markSubmitted" /\ calls'[c].replyId = id /\ calls'[c].id = calls[c].id
  BY <1>1, <1>2 DEF Call
<1>4. exch[calls[c].id].sent = 0
  BY <1>1 DEF SubmitAnswered, PlacingInv, SubmittersAreFirst, About
<1>5. exch'[calls[c].id].sent = exch[calls[c].id].sent + 1
  BY <1>1, ReceiveSubmissionSends DEF SubmitAnswered
<1>6. exch'[calls[c].id].sent = 1
  BY <1>4, <1>5
<1>7. QED
  BY <1>2, <1>3, <1>6, Zenon

LEMMA MarkedRow ==
  ASSUME TypeInv, NEW c \in Calls, MarkSubmitted(c), calls[c].replyId # ""
  PROVE  /\ calls'[c].pc = "order_submitted" /\ calls'[c].id = calls[c].id /\ exch' = exch
         /\ orders'[calls[c].id].submitted /\ orders'[calls[c].id].poid # ""
<1> DEFINE o == calls[c].id
           u == Update("submitted", calls[c].replyId, TRUE, FALSE)
<1>1. calls[c] \in Call /\ calls \in [Calls -> Call] /\ o \in OrderIds /\ orders[o] \in Row
  BY WorkingCall DEF MarkSubmitted, TypeInv, TypeOK, Working, OnOrder, Pcs
<1>2. calls'[c].pc = "order_submitted" /\ calls'[c].id = o /\ exch' = exch
  BY <1>1 DEF MarkSubmitted, Call
<1>3. orders'[o] = UpdateOrder(orders[o], u)
  BY <1>1 DEF MarkSubmitted, TypeInv, TypeOK
<1>4. UpdateOrder(orders[o], u).submitted /\ UpdateOrder(orders[o], u).poid # ""
  BY <1>1 DEF UpdateOrder, Update, Row, firstNonEmpty
<1>5. QED
  BY <1>2, <1>3, <1>4

LEMMA NextAuditInv ==
  TypeInv /\ PlacingInv /\ AuditInv /\ [Next]_vars => AuditInv'
<1> SUFFICES ASSUME TypeInv, PlacingInv, AuditInv, [Next]_vars PROVE AuditInv'
  OBVIOUS
<1>1. \A o \in OrderIds : exch[o].sent = 1 => exch'[o].sent = 1
  BY SentSteps
<1>2. ASSUME NEW o \in Stored
      PROVE  /\ o \in OrderIds /\ orders'[o] # None
             /\ orders[o].submitted => orders'[o].submitted
             /\ orders[o].poid # "" => orders'[o].poid # ""
  BY RowsKept DEF KeepsRows, Keeps, Stored
<1>3. \A c \in Calls : calls[c].pc \in {"markSubmitted", "order_submitted"}
                        => calls[c].id \in Stored
  BY DEF TypeInv, CallsKnowTheirOrder, OnOrder, Pcs, AuditPcs
<1>4. AuditorsKnow'
  <2>1. SUFFICES ASSUME NEW c \in Calls,
                        calls'[c].pc \in {"markSubmitted", "order_submitted"}
                 PROVE  /\ calls'[c].pc = "markSubmitted" =>
                              exch'[calls'[c].id].sent = 1 /\ calls'[c].replyId # ""
                        /\ calls'[c].pc = "order_submitted" =>
                              /\ exch'[calls'[c].id].sent = 1
                              /\ orders'[calls'[c].id].submitted
                              /\ orders'[calls'[c].id].poid # ""
    BY DEF AuditorsKnow
  <2>2. CASE calls'[c] = calls[c]
    BY <1>1, <1>2, <1>3, <2>1, <2>2 DEF AuditInv, AuditorsKnow
  <2>3. CASE \E state \in ExchangeStates : SubmitAnswered(c, state)
    BY <2>3, AnsweredIsSent
  <2>4. CASE MarkSubmitted(c)
    BY <2>4, MarkedRow DEF MarkSubmitted, AuditInv, AuditorsKnow
  <2>5. QED
    BY <2>1, <2>2, <2>3, <2>4, AuditorSteps DEF KeepsAuditors
<1>5. SubmissionAuditIsTrue'
  <2>1. ASSUME NEW o \in OrderIds, <<"order_submitted", o>> \in audits,
        TRUE PROVE /\ exch'[o].sent = 1 /\ orders'[o] # None
                   /\ orders'[o].submitted /\ orders'[o].poid # ""
    BY <1>1, <1>2, <2>1 DEF AuditInv, SubmissionAuditIsTrue, Stored
  <2>2. CASE audits' = audits
    BY <2>1, <2>2 DEF SubmissionAuditIsTrue
  <2>3. ASSUME NEW c \in Calls, AuditSubmission(c) PROVE SubmissionAuditIsTrue'
    <3>1. audits' = audits \cup {<<calls[c].pc, calls[c].id>>} /\ UNCHANGED <<orders, exch>>
      BY <2>3 DEF AuditSubmission
    <3>2. calls[c].pc = "order_submitted" =>
            /\ exch[calls[c].id].sent = 1 /\ orders[calls[c].id] # None
            /\ orders[calls[c].id].submitted /\ orders[calls[c].id].poid # ""
      BY <1>3 DEF AuditInv, AuditorsKnow, Stored
    <3>3. QED
      BY <2>1, <3>1, <3>2 DEF SubmissionAuditIsTrue
  <2>4. QED
    BY <2>2, <2>3
       DEF Next, Client, Handler, Exchange, Bridge, vars, BeginCreate, BeginCancel, BeginSync,
           ReturnExisting, InsertOrder, SubmitAnswered, SubmitFailed, MarkSubmitted,
           CancelAnswered, CancelFailed, MarkCancelled, QueryAnswered, MarkSynced, StepFails,
           ExchangeFill, ExchangeCancel, DeliverUpdate, LoseUpdate, Crash
<1>6. QED
  BY <1>4, <1>5 DEF AuditInv

\* The audit trail says an order was submitted only if the exchange received it
\* exactly once and its row has the submission time and an id, whatever crashes,
\* times out or writes the row between the mark and the audit event (CreateOrder).
THEOREM AuditIsTrue == Spec => []SubmissionAuditIsTrue
<1>1. Init => PlacingInv /\ AuditInv
  <2> SUFFICES ASSUME Init PROVE PlacingInv /\ AuditInv
    OBVIOUS
  <2>1. Stored = {} /\ \A o \in OrderIds : exch[o].sent = 0
    BY DEF Init, Stored
  <2>2. \A c \in Calls : calls[c].pc = "idle"
    BY DEF Init, Idle
  <2>3. PlacingInv
    BY <2>1, <2>2 DEF PlacingInv, OneRowPerRequest, SentOnce, SubmittersAreFirst,
                      SubmittersAreAlone, About
  <2>4. AuditInv
    BY <2>2 DEF Init, AuditInv, SubmissionAuditIsTrue, AuditorsKnow
  <2>5. QED
    BY <2>3, <2>4
<1>2. Spec => [](TypeInv /\ PlacingInv /\ AuditInv)
  BY <1>1, InitTypeInv, NextTypeInv, NextPlacingInv, NextAuditInv, PTL DEF Spec
<1>3. AuditInv => SubmissionAuditIsTrue
  BY DEF AuditInv
<1>4. QED
  BY <1>2, <1>3, PTL

-----------------------------------------------------------------------------
LEMMA MergeKeepsTerminal ==
  ASSUME NEW current, NEW next, terminalOrderStatus(current)
  PROVE  mergeSyncedOrderStatus(current, next) # "submitted"
BY DEF mergeSyncedOrderStatus, terminalOrderStatus

-----------------------------------------------------------------------------
\* Two runs show handlers taking a row back and losing the exchange's order id.
\* What holds of them is which handlers do so: the ones that write what they
\* knew before the row changed, and no other.

\* Which writers lose the status: an order that has ended is brought back only
\* by an answer that is older than its end, for either store and any number of
\* handlers; cancels, updates and syncs that read the row later never do it
\* (CreateOrder, SyncOrderStatus, mergeSyncedOrderStatus).
THEOREM OnlyLateAnswers == Spec => OnlyLateAnswersReopen
<1>1. ASSUME TypeInv, [Next]_vars, NEW o \in Stored,
             terminalOrderStatus(orders[o].status), orders'[o].status = "submitted"
      PROVE  \E c \in Calls :
               /\ calls[c].id = o
               /\ \/ calls[c].pc = "markSubmitted"
                  \/ calls[c].pc = "markSynced" /\ ~terminalOrderStatus(calls[c].seen.status)
  <2>1. orders[o] \in Row
    BY <1>1 DEF Stored, TypeInv, TypeOK
  <2>2. orders'[o] # orders[o]
    BY <1>1 DEF terminalOrderStatus
  <2>3. ASSUME NEW p \in OrderIds PROVE orders'[o] # ApplyUpdate(orders[o], p, Head(feed[p]))
    <3>1. ApplyUpdate(orders[o], p, Head(feed[p])).status =
            mergeSyncedOrderStatus(orders[o].status, normalizeProviderOrderStatus(Head(feed[p])))
      BY <2>1 DEF ApplyUpdate, Row
    <3>2. ApplyUpdate(orders[o], p, Head(feed[p])).status # "submitted"
      BY <1>1, <3>1, MergeKeepsTerminal
    <3> QED
      BY <1>1, <3>2
  <2>4. ASSUME NEW c \in Calls, SyncStatus(c) = "submitted"
        PROVE  ~terminalOrderStatus(calls[c].seen.status)
    BY <2>4, MergeKeepsTerminal DEF SyncStatus
  <2> QED
    BY <1>1, <2>2, <2>3, <2>4, RewrittenSteps DEF Rewritten
<1>2. TypeInv /\ [Next]_vars =>
        [\A o \in Stored : terminalOrderStatus(orders[o].status) /\ orders'[o].status = "submitted" =>
           \E c \in Calls :
             /\ calls[c].id = o
             /\ \/ calls[c].pc = "markSubmitted"
                \/ calls[c].pc = "markSynced" /\ ~terminalOrderStatus(calls[c].seen.status)]_vars
  BY <1>1
<1>3. Spec => []TypeInv
  BY InitTypeInv, NextTypeInv, PTL DEF Spec
<1> QED
  BY <1>2, <1>3, PTL DEF Spec, OnlyLateAnswersReopen

\* A sync whose client named nothing, and that read the row's own order id, is
\* about that order and answered under that id.
SyncsKeepIds ==
  \A c \in Calls :
    /\ calls[c].pc \in {"query", "markSynced"} /\ calls[c].seen.poid = calls[c].id /\ ~calls[c].names
    => calls[c].replyId = calls[c].id /\ (calls[c].pc = "query" => calls[c].key = calls[c].id)

LEMMA NextSyncsKeepIds == TypeInv /\ SyncsKeepIds /\ [Next]_vars => SyncsKeepIds'
<1> SUFFICES ASSUME TypeInv, SyncsKeepIds, [Next]_vars, NEW c \in Calls,
                    calls'[c].pc \in {"query", "markSynced"},
                    calls'[c].seen.poid = calls'[c].id, ~calls'[c].names
             PROVE  calls'[c].replyId = calls'[c].id /\ (calls'[c].pc = "query" => calls'[c].key = calls'[c].id)
  BY DEF SyncsKeepIds
<1>0. calls[c] \in Call /\ calls \in [Calls -> Call]
  BY DEF TypeInv, TypeOK
<1>1. ASSUME StillReads(c)
      PROVE  calls'[c].replyId = calls'[c].id /\ (calls'[c].pc = "query" => calls'[c].key = calls'[c].id)
  <2>1. CASE calls'[c] = calls[c]
    BY <2>1 DEF SyncsKeepIds
  <2>2. CASE CancelAnswered(c)
    <3>1. calls'[c].pc = "markCancelled"
      BY <1>0, <2>2 DEF CancelAnswered, Call
    <3> QED
      BY <3>1
  <2>3. CASE QueryAnswered(c)
    <3>1. /\ calls'[c].pc = "markSynced" /\ calls[c].pc = "query"
          /\ calls'[c].replyId = Lookup(calls[c].key, calls[c].replyId).id
          /\ calls'[c].names = calls[c].names
      BY <1>0, <2>3 DEF QueryAnswered, Call
    <3>2. calls[c].replyId = calls[c].id /\ calls[c].key = calls[c].id
      BY <1>1, <3>1 DEF StillReads, SyncsKeepIds
    <3>3. calls'[c].replyId = calls[c].id
      BY <3>1, <3>2 DEF Lookup
    <3> QED
      BY <1>1, <3>1, <3>3 DEF StillReads
  <2> QED
    BY <1>1, <2>1, <2>2, <2>3 DEF StillReads
<1>2. ASSUME NEW o \in Stored, ReadsNow(c, o)
      PROVE  calls'[c].replyId = calls'[c].id /\ (calls'[c].pc = "query" => calls'[c].key = calls'[c].id)
  <2>1. CASE \E key \in OrderIds : BeginCancel(c, o, key)
    <3>1. calls'[c].pc = "cancel"
      BY <1>0, <2>1 DEF BeginCancel, Idle
    <3> QED
      BY <3>1
  <2>2. ASSUME NEW n \in Names, BeginSync(c, o, n)
        PROVE  calls'[c].replyId = calls'[c].id /\ calls'[c].key = calls'[c].id
    <3> DEFINE cloid == IF n.cloid # None THEN n.cloid ELSE Cloid(o, orders[o])
    <3>0. o \in OrderIds
      BY DEF Stored
    <3>1. /\ calls'[c].id = o /\ calls'[c].seen = orders[o]
          /\ calls'[c].replyId = firstNonEmpty(n.poid, orders[o].poid)
          /\ calls'[c].key = orderStatusOID(firstNonEmpty(n.poid, orders[o].poid), cloid)
          /\ calls'[c].names = (n.poid # "" \/ n.cloid # None)
      BY <2>2, <3>0, SyncBegun DEF Asks
    <3>2. orders[o].poid = o /\ n.poid = ""
      BY <3>1
    <3>3. firstNonEmpty(n.poid, orders[o].poid) = o
      BY <3>2 DEF firstNonEmpty
    <3> HIDE DEF cloid
    <3>4. orderStatusOID(o, cloid) = o
      BY <3>0 DEF orderStatusOID, ExchangeOrders
    <3> QED
      BY <3>1, <3>3, <3>4
  <2> QED
    BY <1>2, <2>1, <2>2 DEF ReadsNow
<1>3. calls'[c].pc \in ReadsRow
  BY DEF ReadsRow
<1> QED
  BY <1>1, <1>2, <1>3, ReadSteps DEF KeepsReads

\* Which writers lose an order's own id: only those whose answer or reading is
\* older than it, or a sync whose client named an order itself, for either store;
\* the bridge never does (firstNonEmpty in CancelOrder and SyncOrderStatus,
\* UpdateOrder, UpdateOrderStatusByProvider).
THEOREM OnlyLateAnswersForget == Spec => OnlyLateAnswersLoseIds
<1>1. ASSUME TypeInv, SyncsKeepIds, [Next]_vars, NEW o \in Stored,
             orders[o].poid = o, orders'[o].poid # o
      PROVE  \E c \in Calls :
               /\ calls[c].id = o
               /\ \/ calls[c].pc = "markSubmitted" /\ calls[c].replyId # o
                  \/ /\ calls[c].pc \in {"markCancelled", "markSynced"}
                     /\ calls[c].seen.poid # o
                  \/ calls[c].pc = "markSynced" /\ calls[c].names
  <2>1. orders[o] \in Row /\ o \in OrderIds /\ o # ""
    <3>1. orders[o] \in Row /\ o \in OrderIds
      BY <1>1 DEF Stored, TypeInv, TypeOK
    <3>2. o \in ExchangeOrders
      BY <3>1 DEF ExchangeOrders
    <3> QED
      BY <3>1, <3>2, NoneAssumption DEF NoneAssumption
  <2>2. ASSUME NEW p \in OrderIds, MatchesUpdate(orders[o], o, p)
        PROVE  ApplyUpdate(orders[o], p, Head(feed[p])).poid = o
    <3>1. p = o
      BY <1>1, <2>2 DEF MatchesUpdate
    <3>2. ApplyUpdate(orders[o], p, Head(feed[p])).poid \in {p, orders[o].poid}
      BY <2>1 DEF ApplyUpdate, Row
    <3> QED
      BY <1>1, <3>1, <3>2
  <2>3. PICK c \in Calls :
          /\ calls[c].id = o
          /\ \/ /\ calls[c].pc = "markSubmitted"
                /\ orders'[o].poid = firstNonEmpty(calls[c].replyId, orders[o].poid)
             \/ /\ calls[c].pc = "markCancelled"
                /\ orders'[o].poid = firstNonEmpty(firstNonEmpty(calls[c].seen.poid, calls[c].replyId),
                                                   orders[o].poid)
             \/ /\ calls[c].pc = "markSynced"
                /\ orders'[o].poid = firstNonEmpty(firstNonEmpty(calls[c].replyId, calls[c].seen.poid),
                                                   orders[o].poid)
    BY <1>1, <2>2, RewrittenSteps DEF Rewritten
  <2>4. \A a : firstNonEmpty(o, a) = o
    BY <2>1 DEF firstNonEmpty
  <2>5. calls[c].pc = "markSubmitted" => calls[c].replyId # o
    BY <1>1, <2>3, <2>4
  <2>6. calls[c].pc = "markCancelled" => calls[c].seen.poid # o
    BY <1>1, <2>3, <2>4
  <2>7. calls[c].pc = "markSynced" => calls[c].seen.poid # o \/ calls[c].names
    BY <1>1, <2>3, <2>4 DEF SyncsKeepIds
  <2> QED
    BY <2>3, <2>5, <2>6, <2>7
<1>2. TypeInv /\ SyncsKeepIds /\ [Next]_vars =>
        [\A o \in Stored : orders[o].poid = o /\ orders'[o].poid # o =>
           \E c \in Calls :
             /\ calls[c].id = o
             /\ \/ calls[c].pc = "markSubmitted" /\ calls[c].replyId # o
                \/ /\ calls[c].pc \in {"markCancelled", "markSynced"}
                   /\ calls[c].seen.poid # o
                \/ calls[c].pc = "markSynced" /\ calls[c].names]_vars
  BY <1>1
<1>3. Init => SyncsKeepIds
  <2> SUFFICES ASSUME Init, NEW c \in Calls PROVE calls[c].pc = "idle"
    BY DEF SyncsKeepIds
  <2> QED
    BY DEF Init, Idle
<1>4. Spec => [](TypeInv /\ SyncsKeepIds)
  BY <1>3, InitTypeInv, NextTypeInv, NextSyncsKeepIds, PTL DEF Spec
<1> QED
  BY <1>2, <1>4, PTL DEF Spec, OnlyLateAnswersLoseIds

\* An update that the websocket delivers twice does to a row what it does once:
\* a replay after a reconnection is harmless (UpdateOrderStatusByProvider).
THEOREM RedeliveryHarmless ==
  ASSUME NEW row \in Row, NEW p \in OrderIds, NEW raw \in RawStatuses
  PROVE  ApplyUpdate(ApplyUpdate(row, p, raw), p, raw) = ApplyUpdate(row, p, raw)
<1> DEFINE next == normalizeProviderOrderStatus(raw)
           merged(status) == mergeSyncedOrderStatus(status, next)
           bound(poid) == IF Store = "postgres" THEN p ELSE poid
           stamp(status) == (IF Store = "postgres" THEN next ELSE merged(status)) = "cancelled"
           new(r) == [input |-> r.input, status |-> merged(r.status), poid |-> bound(r.poid),
                      submitted |-> r.submitted, cancelled |-> r.cancelled \/ stamp(r.status)]
<1>1. ASSUME NEW r \in Row PROVE ApplyUpdate(r, p, raw) = new(r)
  <2> HIDE DEF merged, bound, stamp
  <2>1. ApplyUpdate(r, p, raw) = [r EXCEPT !.status = merged(r.status), !.poid = bound(r.poid),
                                        !.cancelled = r.cancelled \/ stamp(r.status)]
    BY DEF ApplyUpdate, merged, bound, stamp
  <2> QED
    BY <2>1 DEF Row
<1>2. ApplyUpdate(row, p, raw) \in Row
  BY ApplyUpdateType
<1>3. merged(merged(row.status)) = merged(row.status)
  <2> HIDE DEF next
  <2> QED
    BY DEF mergeSyncedOrderStatus
<1>4. bound(bound(row.poid)) = bound(row.poid)
  OBVIOUS
<1>5. stamp(merged(row.status)) = stamp(row.status)
  BY <1>3
<1>6. new(new(row)) = new(row)
  <2> HIDE DEF merged, bound, stamp
  <2>1. ((row.cancelled \/ stamp(row.status)) \/ stamp(merged(row.status)))
          = (row.cancelled \/ stamp(row.status))
    BY <1>5
  <2> QED
    BY <1>3, <1>4, <2>1
<1> HIDE DEF new
<1> QED
  BY <1>1, <1>2, <1>6
===============================================================================
