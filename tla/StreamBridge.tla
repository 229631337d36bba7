----------------------------- MODULE StreamBridge -----------------------------
(***************************************************************************)
(* internal/streambridge: handlers publish batches of events.  Each event   *)
(* resolves to topics, each topic gets an envelope with the next sequence   *)
(* number (one lock), the envelope goes to the broker (no lock) and is then *)
(* remembered in the topic's ring (the lock again).  The number and the     *)
(* rings live in memory and start over with the process.                    *)
(***************************************************************************)
EXTENDS Naturals, Sequences, FiniteSets

CONSTANTS
  Calls,      \* handler goroutines, each of one request
  Batches,    \* the batches requests may carry: sequences of events
  MaxEvents,  \* Service.maxEvents, what a ring holds
  MaxLives    \* bound on the lives of the process

MaxEventsAssumption == MaxEvents \in Nat \ {0}
BatchesAssumption == \A b \in Batches : b \in Seq({b[i] : i \in DOMAIN b})
ASSUME MaxEventsAssumption
ASSUME BatchesAssumption

VARIABLES
  seq,         \* Service.seq
  remembered,  \* Service.events: topic -> its ring
  calls,       \* goroutine -> where it is
  published,   \* what reached the broker, in order
  life         \* which life of the process this is

vars == <<seq, remembered, calls, published, life>>

-----------------------------------------------------------------------------
\* Topics.  An event is [type, topic, user, chain, token, bucket, meme].

UserTypes ==
  {"trading.order.submit_failed", "trading.order.confirmed", "trading.order.updated",
   "hypertrader.order.updated", "hypertrader.fill.created", "hypertrader.open_orders.snapshot",
   "hypertrader.account.updated", "hypertrader.position.updated",
   "hypertrader.funding.updated", "hypertrader.ledger.updated", "hypertrader.event"}

normalizeChain(chain) ==
  CASE chain \in {"501", "SOL", "SOLANA"}          -> "501"
    [] chain \in {"1", "ETH", "EVM", "ETHEREUM"}   -> "1"
    [] chain \in {"56", "BSC"}                     -> "56"
    [] chain \in {"10143", "MON", "MONAD"}         -> "10143"
    [] OTHER                                       -> chain

normalizeEvent(e) == [e EXCEPT !.chain = normalizeChain(@)]

\* The topics of a normalised event, each the tuple of its parts; none at all
\* when a part is missing or the type is unknown.
resolveTopics(e) ==
  LET onChain == e.chain # "" /\ e.token # ""
      bucket  == IF e.bucket = "" THEN "1m" ELSE e.bucket
      Given(has, topics) == IF has THEN topics ELSE <<>>
  IN CASE e.topic # "" -> << <<e.topic>> >>
       [] e.topic = "" /\ e.type \in UserTypes ->
            Given(e.user # "", << <<"users", e.user, e.type>> >>)
       [] e.topic = "" /\ e.type = "market.token.created" ->
            << <<"token/new">> >> \o Given(e.meme, << <<"meme/new">> >>)
       [] e.topic = "" /\ e.type = "market.token.updated" ->
            Given(onChain, << <<"token_info", e.chain, e.token>>,
                              <<"token_statistic", e.chain, e.token>> >>)
       [] e.topic = "" /\ e.type = "market.token.statistic_updated" ->
            Given(onChain, << <<"token_statistic", e.chain, e.token>> >>)
       [] e.topic = "" /\ e.type = "market.transaction.created" ->
            Given(onChain, << <<"transaction/new", e.chain, e.token>> >>)
       [] e.topic = "" /\ e.type = "market.ohlc.updated" ->
            Given(e.token # "", << <<"kline", bucket, e.token>> >>)
       [] e.topic = "" /\ e.type = "network.fee.updated" ->
            Given(e.chain # "", << <<"network_fee_updated", e.chain>> >>)
       [] OTHER -> <<>>

\* The topics of a batch's event, none when the event has no type.
TopicsOf(e) == IF e.type = "" THEN <<>> ELSE resolveTopics(normalizeEvent(e))

Topics == UNION {UNION {{TopicsOf(b[i])[k] : k \in DOMAIN TopicsOf(b[i])} : i \in DOMAIN b} :
                  b \in Batches}

-----------------------------------------------------------------------------
\* An envelope: that of event "at" of a call's batch for the k-th of its topics.
\* Its date, the client's or else the clock's, is left out: no property is
\* about it, and the client's may be any.
Envelope == [call: Calls, at: Nat, k: Nat, topic: Topics, seq: Nat, life: Nat]

Sent == [env: Envelope, acked: BOOLEAN]

Idle == [pc |-> "idle"]

Request == [pc: {"resolve", "stamp", "send", "remember", "ok", "failed"}, batch: Batches,
            at: Nat, k: Nat, seq: Nat]

TypeOK ==
  /\ seq \in Nat /\ life \in Nat
  /\ remembered \in [Topics -> Seq(Envelope)]
  /\ \A t \in Topics : Len(remembered[t]) <= MaxEvents
  /\ calls \in [Calls -> Request \cup {Idle}]
  /\ published \in Seq(Sent)

Init ==
  /\ seq = 0 /\ life = 1
  /\ remembered = [t \in Topics |-> <<>>]
  /\ calls = [c \in Calls |-> Idle]
  /\ published = <<>>

TopicsAt(c) == TopicsOf(calls[c].batch[calls[c].at])

EnvelopeOf(c) ==
  [call |-> c, at |-> calls[c].at, k |-> calls[c].k, topic |-> TopicsAt(c)[calls[c].k],
   seq |-> calls[c].seq, life |-> life]

\* Broken variant: PublishBatch goes on with the next event.
FailOnlyEvent(c) ==
  calls' = [calls EXCEPT ![c] = IF @.at = Len(@.batch) THEN [@ EXCEPT !.pc = "failed"]
                                ELSE [@ EXCEPT !.pc = "resolve", !.at = @ + 1, !.k = 1]]

\* The request's answer when an event fails: the events before it are not named.
Fail(c) == calls' = [calls EXCEPT ![c].pc = "failed"]

BeginPublish(c, batch) ==
  /\ calls[c].pc = "idle"
  /\ calls' = [calls EXCEPT ![c] = [pc |-> IF batch = <<>> THEN "ok" ELSE "resolve",
                                    batch |-> batch, at |-> 1, k |-> 1, seq |-> 0]]
  /\ UNCHANGED <<seq, remembered, published, life>>

\* Publish up to its loop: the event is normalised and its topics are resolved.
Resolve(c) ==
  /\ calls[c].pc = "resolve"
  /\ IF TopicsAt(c) = <<>> THEN Fail(c) ELSE calls' = [calls EXCEPT ![c].pc = "stamp"]
  /\ UNCHANGED <<seq, remembered, published, life>>

\* Broken variant: the number is read and only later advanced.
SameSeq(last) == IF last = 0 THEN 1 ELSE last

NextSeq(last) == last + 1

\* nextEnvelope, under the lock.
NextEnvelope(c) ==
  /\ calls[c].pc = "stamp"
  /\ seq' = NextSeq(seq)
  /\ calls' = [calls EXCEPT ![c].pc = "send", ![c].seq = NextSeq(seq)]
  /\ UNCHANGED <<remembered, published, life>>

\* publisher.Publish returns without an error.
SendAcked(c) ==
  /\ calls[c].pc = "send"
  /\ published' = Append(published, [env |-> EnvelopeOf(c), acked |-> TRUE])
  /\ calls' = [calls EXCEPT ![c].pc = "remember"]
  /\ UNCHANGED <<seq, remembered, life>>

\* It returns an error, or its context ends first: the broker may have it anyway.
SendFails(c) ==
  /\ calls[c].pc = "send"
  /\ \/ published' = Append(published, [env |-> EnvelopeOf(c), acked |-> FALSE])
     \/ UNCHANGED published
  /\ Fail(c)
  /\ UNCHANGED <<seq, remembered, life>>

\* Broken variants: the ring is never cut; it is cut one event too early.
RingGrows(ring, e) == Append(ring, e)

RingCutEarly(ring, e) ==
  LET events == Append(ring, e)
  IN IF Len(events) >= MaxEvents
     THEN SubSeq(events, Len(events) - MaxEvents + 2, Len(events)) ELSE events

Ring(ring, e) ==
  LET events == Append(ring, e)
  IN IF Len(events) > MaxEvents
     THEN SubSeq(events, Len(events) - MaxEvents + 1, Len(events)) ELSE events

\* remember, under the lock; then the next topic, event, or the answer.
Remember(c) ==
  /\ calls[c].pc = "remember"
  /\ remembered' = [remembered EXCEPT ![TopicsAt(c)[calls[c].k]] = Ring(@, EnvelopeOf(c))]
  /\ \/ /\ calls[c].k < Len(TopicsAt(c))
        /\ calls' = [calls EXCEPT ![c].pc = "stamp", ![c].k = calls[c].k + 1]
     \/ /\ calls[c].k = Len(TopicsAt(c)) /\ calls[c].at < Len(calls[c].batch)
        /\ calls' = [calls EXCEPT ![c].pc = "resolve", ![c].at = calls[c].at + 1, ![c].k = 1]
     \/ /\ calls[c].k = Len(TopicsAt(c)) /\ calls[c].at = Len(calls[c].batch)
        /\ calls' = [calls EXCEPT ![c].pc = "ok"]
  /\ UNCHANGED <<seq, published, life>>

\* The process dies and starts again with nothing in memory.
Restart ==
  /\ life < MaxLives /\ life' = life + 1
  /\ seq' = 0
  /\ remembered' = [t \in Topics |-> <<>>]
  /\ calls' = [c \in Calls |-> IF calls[c].pc \in {"idle", "ok"} THEN calls[c]
                               ELSE [calls[c] EXCEPT !.pc = "failed"]]
  /\ UNCHANGED published

Next ==
  \/ \E c \in Calls, batch \in Batches : BeginPublish(c, batch)
  \/ \E c \in Calls : \/ Resolve(c)   \/ NextEnvelope(c) \/ SendAcked(c)
                      \/ SendFails(c) \/ Remember(c)
  \/ Restart

Spec == Init /\ [][Next]_vars

-----------------------------------------------------------------------------
\* No two messages of one life of the process carry the same number, whether
\* sent already or about to be (nextEnvelope).
SeqsUnique ==
  /\ \A i, j \in 1 .. Len(published) :
       published[i].env.life = published[j].env.life /\ published[i].env.seq = published[j].env.seq
         => i = j
  /\ \A c \in Calls : calls[c].pc = "send" =>
       /\ \A i \in 1 .. Len(published) :
            published[i].env.life = life => published[i].env.seq # calls[c].seq
       /\ \A d \in Calls \ {c} : calls[d].pc = "send" => calls[d].seq # calls[c].seq

\* The messages a batch amounts to, as positions.
Messages(batch) ==
  UNION {{[at |-> i, k |-> j] : j \in DOMAIN TopicsOf(batch[i])} : i \in DOMAIN batch}

Before(e, f) == e.at < f.at \/ (e.at = f.at /\ e.k < f.k)

\* Message m of c's batch is on the broker, acknowledged, among the first n.
Out(c, m, n) ==
  \E i \in 1 .. n : /\ published[i].acked /\ published[i].env.call = c
                    /\ published[i].env.at = m.at /\ published[i].env.k = m.k

\* A batch goes out once and in order, topic by topic and event by event, with
\* numbers that agree with the order (those of two handlers need not), and stops
\* at the first message that failed; an "ok" means that the broker has all of it
\* (Publish and PublishBatch).
BatchInOrder ==
  /\ \A j \in 1 .. Len(published) :
       LET f == published[j].env IN
       /\ \A i \in 1 .. j - 1 : published[i].env.call = f.call =>
            Before(published[i].env, f) /\ published[i].env.seq < f.seq
       /\ \A m \in Messages(calls[f.call].batch) : Before(m, f) => Out(f.call, m, j - 1)
  /\ \A c \in Calls : calls[c].pc = "ok" =>
       \A m \in Messages(calls[c].batch) : Out(c, m, Len(published))

\* What a topic's ring shows was sent in this life and acknowledged, and unless a
\* handler has yet to remember, nothing is missing that the ring has room for
\* (Recent, Topics).
RecentIsComplete ==
  \A t \in Topics :
    LET kept == {remembered[t][i] : i \in DOMAIN remembered[t]}
        sent == {published[i].env : i \in
                   {j \in DOMAIN published : /\ published[j].acked
                                             /\ published[j].env.topic = t
                                             /\ published[j].env.life = life}}
    IN /\ kept \subseteq sent
       /\ \/ \E c \in Calls : calls[c].pc = "remember" /\ EnvelopeOf(c).topic = t
          \/ Cardinality(sent) <= MaxEvents /\ kept = sent
          \/ Cardinality(sent) > MaxEvents  /\ Cardinality(kept) = MaxEvents
=============================================================================
