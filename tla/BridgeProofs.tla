------------------------------ MODULE BridgeProofs ------------------------------
(***************************************************************************)
(* What the two halves of the streams keep: StreamBridge, which sends the   *)
(* events of any number of handlers to the broker, for any batches, any     *)
(* size of the rings and any number of restarts, and LiveState, whose       *)
(* goroutine reads the exchange and publishes through it, for any fills,    *)
(* any handlers and any failures.                                           *)
(***************************************************************************)
EXTENDS StreamBridge, LiveState, SequenceTheorems, FiniteSetTheorems, TLAPS

-----------------------------------------------------------------------------
\* Topics come in sequences.

IsSeq(s) == Len(s) \in Nat /\ DOMAIN s = 1 .. Len(s) /\ (s # <<>> => Len(s) # 0)

LEMMA ShortSeqs ==
  ASSUME NEW a, NEW b
  PROVE  /\ IsSeq(<<>>) /\ IsSeq(<<a>>) /\ IsSeq(<<a, b>>)
         /\ IsSeq(<<a>> \o <<>>) /\ IsSeq(<<a>> \o <<b>>)
<1> DEFINE S == {a, b}
<1>1. <<>> \in Seq(S) /\ <<a>> \in Seq(S) /\ <<b>> \in Seq(S) /\ <<a, b>> \in Seq(S)
  OBVIOUS
<1>2. \A s \in Seq(S) : IsSeq(s)
  BY LenProperties, EmptySeq DEF IsSeq
<1>3. <<a>> \o <<>> \in Seq(S) /\ <<a>> \o <<b>> \in Seq(S)
  <2> HIDE DEF S
  <2>1. QED
    BY <1>1, ConcatProperties
<1>4. QED
  BY <1>1, <1>2, <1>3

LEMMA TopicsAreSeq ==
  ASSUME NEW e
  PROVE  IsSeq(TopicsOf(e))
<1>1. \A f : IsSeq(resolveTopics(f))
  BY ShortSeqs DEF resolveTopics
<1>2. QED
  BY <1>1, ShortSeqs DEF TopicsOf

-----------------------------------------------------------------------------
\* Types, and where in its batch a handler is.

Sending == {"stamp", "send", "remember"}

Active == Sending \cup {"resolve"}

Pcs == Active \cup {"ok", "failed"}

CursorOK(k) ==
  /\ k.pc \in Active => k.at \in 1 .. Len(k.batch)
  /\ k.pc = "resolve" => k.k = 1
  /\ k.pc \in Sending => k.k \in 1 .. Len(TopicsOf(k.batch[k.at]))

TypeInv == TypeOK /\ \A c \in Calls : CursorOK(calls[c])

Becomes(c, new) == calls' = [calls EXCEPT ![c] = new]

LEMMA RequestFields ==
  ASSUME NEW k \in Request
  PROVE  /\ k.pc \in Pcs /\ k.batch \in Batches /\ k.at \in Nat /\ k.k \in Nat
         /\ k.seq \in Nat
BY DEF Request, Pcs, Active, Sending

\* A handler that has begun has a request.
LEMMA HasRequest ==
  ASSUME TypeOK, NEW c \in Calls, calls[c].pc # "idle"
  PROVE  calls[c] \in Request
BY DEF TypeOK, Idle

LEMMA BatchIsSeq ==
  ASSUME NEW b \in Batches
  PROVE  IsSeq(b)
<1> DEFINE S == {b[i] : i \in DOMAIN b}
<1>1. b \in Seq(S)
  BY BatchesAssumption DEF BatchesAssumption
<1> HIDE DEF S
<1>2. QED
  BY <1>1, LenProperties, EmptySeq DEF IsSeq

LEMMA TopicAt ==
  ASSUME NEW b \in Batches, NEW i \in 1 .. Len(b), NEW j \in 1 .. Len(TopicsOf(b[i]))
  PROVE  TopicsOf(b[i])[j] \in Topics
<1>1. i \in DOMAIN b
  BY BatchIsSeq DEF IsSeq
<1>2. j \in DOMAIN TopicsOf(b[i])
  BY TopicsAreSeq DEF IsSeq
<1>3. QED
  BY <1>1, <1>2 DEF Topics

LEMMA EnvelopeType ==
  ASSUME TypeInv, NEW c \in Calls, calls[c].pc \in Sending
  PROVE  /\ EnvelopeOf(c) \in Envelope
         /\ EnvelopeOf(c).call = c /\ EnvelopeOf(c).at = calls[c].at
         /\ EnvelopeOf(c).k = calls[c].k /\ EnvelopeOf(c).seq = calls[c].seq
         /\ EnvelopeOf(c).life = life
         /\ EnvelopeOf(c).topic \in Topics
         /\ EnvelopeOf(c).topic = TopicsAt(c)[calls[c].k]
<1>1. calls[c] \in Request
  BY HasRequest DEF TypeInv, Sending
<1>2. CursorOK(calls[c])
  BY DEF TypeInv
<1>3. calls[c].at \in 1 .. Len(calls[c].batch) /\ calls[c].k \in 1 .. Len(TopicsAt(c))
  BY <1>2 DEF CursorOK, Active, TopicsAt
<1>4. TopicsAt(c)[calls[c].k] \in Topics
  BY <1>1, <1>3, RequestFields, TopicAt DEF TopicsAt
<1>5. life \in Nat
  BY DEF TypeInv, TypeOK
<1>6. QED
  BY <1>1, <1>4, <1>5, RequestFields DEF EnvelopeOf, Envelope

LEMMA RingType ==
  ASSUME NEW S, NEW ring \in Seq(S), NEW e \in S, Len(ring) <= MaxEvents
  PROVE  Ring(ring, e) \in Seq(S) /\ Len(Ring(ring, e)) <= MaxEvents
<1> DEFINE full == Append(ring, e)
<1>1. MaxEvents \in Nat /\ MaxEvents > 0
  BY MaxEventsAssumption DEF MaxEventsAssumption
<1>2. /\ full \in Seq(S) /\ Len(full) = Len(ring) + 1 /\ Len(ring) \in Nat
      /\ \A i \in 1 .. Len(full) : full[i] \in S
  OBVIOUS
<1>3. Ring(ring, e) = IF Len(full) > MaxEvents
                      THEN SubSeq(full, Len(full) - MaxEvents + 1, Len(full)) ELSE full
  BY DEF Ring
<1> HIDE DEF full
<1>4. CASE Len(full) > MaxEvents
  <2> DEFINE from == Len(full) - MaxEvents + 1
  <2>1. from \in Int /\ Len(full) \in Int /\ \A i \in from .. Len(full) : full[i] \in S
    BY <1>1, <1>2, <1>4
  <2>2. from <= Len(full) /\ Len(full) - from + 1 = MaxEvents
    BY <1>1, <1>2
  <2>3. Ring(ring, e) = SubSeq(full, from, Len(full))
    BY <1>3, <1>4
  <2> HIDE DEF from
  <2>4. SubSeq(full, from, Len(full)) \in Seq(S)
        /\ Len(SubSeq(full, from, Len(full))) = MaxEvents
    BY <2>1, <2>2, SubSeqProperties
  <2>5. QED
    BY <1>1, <2>3, <2>4
<1>5. CASE ~ (Len(full) > MaxEvents)
  BY <1>1, <1>2, <1>3, <1>5
<1>6. QED
  BY <1>4, <1>5

\* One handler moves on; the parts of the state that are not its own keep
\* their types.
LEMMA OneMoves ==
  ASSUME TypeInv, NEW c \in Calls, NEW new \in Request, CursorOK(new), Becomes(c, new),
         seq' \in Nat, life' \in Nat,
         remembered' \in [Topics -> Seq(Envelope)],
         \A t \in Topics : Len(remembered'[t]) <= MaxEvents,
         published' \in Seq(Sent)
  PROVE  /\ TypeInv' /\ calls'[c] = new
         /\ \A d \in Calls : d # c => calls'[d] = calls[d]
<1>1. /\ calls' \in [Calls -> Request \cup {Idle}] /\ calls'[c] = new
      /\ \A d \in Calls : d # c => calls'[d] = calls[d]
  BY DEF TypeInv, TypeOK, Becomes
<1>2. \A d \in Calls : CursorOK(calls'[d])
  BY <1>1 DEF TypeInv
<1>3. (\A d \in Calls : CursorOK(calls[d]))'
  BY <1>2 DEF CursorOK, TopicsOf
<1>4. QED
  BY <1>1, <1>3 DEF TypeInv, TypeOK

LEMMA Moved ==
  ASSUME NEW k \in Request, NEW pc \in Pcs
  PROVE  LET new == [k EXCEPT !.pc = pc]
         IN /\ new \in Request /\ new.pc = pc /\ new.batch = k.batch /\ new.at = k.at
            /\ new.k = k.k /\ new.seq = k.seq
BY DEF Request, Pcs, Active, Sending

LEMMA Numbered ==
  ASSUME NEW k \in Request, NEW x \in Nat
  PROVE  LET new == [k EXCEPT !.seq = x]
         IN /\ new \in Request /\ new.pc = k.pc /\ new.batch = k.batch /\ new.at = k.at
            /\ new.k = k.k /\ new.seq = x
BY DEF Request

LEMMA AtTopic ==
  ASSUME NEW k \in Request, NEW x \in Nat
  PROVE  LET new == [k EXCEPT !.k = x]
         IN /\ new \in Request /\ new.pc = k.pc /\ new.batch = k.batch /\ new.at = k.at
            /\ new.k = x /\ new.seq = k.seq
BY DEF Request

LEMMA AtEvent ==
  ASSUME NEW k \in Request, NEW x \in Nat
  PROVE  LET new == [k EXCEPT !.at = x]
         IN /\ new \in Request /\ new.pc = k.pc /\ new.batch = k.batch /\ new.at = x
            /\ new.k = k.k /\ new.seq = k.seq
BY DEF Request

-----------------------------------------------------------------------------
\* What each step does to its handler.

\* Only handler c moves, to new.
Moves(c, new) ==
  /\ TypeInv' /\ calls'[c] = new /\ new \in Request
  /\ \A d \in Calls : d # c => calls'[d] = calls[d]

\* The same, but for its place.
Keeps(old, new) ==
  /\ new.batch = old.batch /\ new.at = old.at /\ new.k = old.k

LEMMA BeginFacts ==
  ASSUME TypeInv, NEW c \in Calls, NEW b \in Batches, BeginPublish(c, b)
  PROVE  \E new : /\ Moves(c, new) /\ new.batch = b /\ new.at = 1 /\ new.k = 1
                  /\ new.seq = 0
                  /\ new.pc = IF b = <<>> THEN "ok" ELSE "resolve"
<1> DEFINE pc == IF b = <<>> THEN "ok" ELSE "resolve"
           new == [pc |-> pc, batch |-> b, at |-> 1, k |-> 1, seq |-> 0]
<1>1. pc \in Pcs /\ pc \in {"ok", "resolve"} /\ (pc = "resolve" => Len(b) \in Nat \ {0})
  BY BatchIsSeq DEF IsSeq, Pcs, Active
<1>2. Becomes(c, new)
  BY DEF BeginPublish, Becomes
<1> HIDE DEF pc
<1>3. /\ new \in Request /\ new.pc = pc /\ new.batch = b /\ new.at = 1 /\ new.k = 1
      /\ new.seq = 0
  BY <1>1 DEF Request, Pcs, Active, Sending
<1> HIDE DEF new
<1>4. CursorOK(new)
  BY <1>1, <1>3 DEF CursorOK, Active, Sending
<1>5. Moves(c, new)
  BY <1>2, <1>3, <1>4, OneMoves DEF BeginPublish, TypeInv, TypeOK, Moves
<1>6. QED
  BY <1>3, <1>5 DEF pc

LEMMA FailFacts ==
  ASSUME TypeInv, NEW c \in Calls, calls[c].pc # "idle", Fail(c),
         UNCHANGED <<seq, remembered, life>>, published' \in Seq(Sent)
  PROVE  \E new : Moves(c, new) /\ Keeps(calls[c], new) /\ new.pc = "failed"
<1> DEFINE new == [calls[c] EXCEPT !.pc = "failed"]
<1>1. calls[c] \in Request
  BY HasRequest DEF TypeInv
<1>2. Becomes(c, new)
  BY DEF Fail, Becomes, TypeInv, TypeOK
<1>3. new \in Request /\ new.pc = "failed" /\ Keeps(calls[c], new)
  BY <1>1, Moved DEF Pcs, Keeps
<1> HIDE DEF new
<1>4. CursorOK(new)
  BY <1>3 DEF CursorOK, Active, Sending
<1>5. QED
  BY <1>2, <1>3, <1>4, OneMoves DEF TypeInv, TypeOK, Moves

LEMMA ResolveFacts ==
  ASSUME TypeInv, NEW c \in Calls, Resolve(c)
  PROVE  \E new : /\ Moves(c, new) /\ Keeps(calls[c], new)
                  /\ \/ new.pc = "failed"
                     \/ new.pc = "stamp" /\ new.seq = calls[c].seq
<1>1. CASE Fail(c)
  <2>1. QED
    BY <1>1, FailFacts DEF Resolve, TypeInv, TypeOK
<1>2. CASE TopicsAt(c) # <<>> /\ calls' = [calls EXCEPT ![c].pc = "stamp"]
  <2> DEFINE new == [calls[c] EXCEPT !.pc = "stamp"]
  <2>1. calls[c] \in Request
    BY HasRequest DEF TypeInv, TypeOK, Resolve
  <2>2. Becomes(c, new)
    BY <1>2 DEF Becomes, TypeInv, TypeOK
  <2>3. new \in Request /\ new.pc = "stamp" /\ Keeps(calls[c], new) /\ new.seq = calls[c].seq
    BY <2>1, Moved DEF Pcs, Active, Sending, Keeps
  <2> HIDE DEF new
  <2>4. CursorOK(new)
    <3>1. calls[c].at \in 1 .. Len(calls[c].batch) /\ calls[c].k = 1
      BY DEF TypeInv, CursorOK, Resolve, Active
    <3>2. Len(TopicsAt(c)) \in Nat \ {0}
      BY <1>2, TopicsAreSeq DEF IsSeq, TopicsAt
    <3>3. QED
      BY <2>3, <3>1, <3>2 DEF CursorOK, Active, Sending, Keeps, TopicsAt
  <2>5. Moves(c, new)
    BY <2>2, <2>3, <2>4, OneMoves DEF TypeInv, TypeOK, Moves, Resolve
  <2>6. QED
    BY <2>3, <2>5
<1>3. QED
  BY <1>1, <1>2 DEF Resolve

LEMMA NextEnvelopeFacts ==
  ASSUME TypeInv, NEW c \in Calls, NextEnvelope(c)
  PROVE  /\ seq' = seq + 1
         /\ \E new : /\ Moves(c, new) /\ Keeps(calls[c], new)
                     /\ new.pc = "send" /\ new.seq = seq + 1
<1> DEFINE next == seq + 1
           at == [calls[c] EXCEPT !.pc = "send"]
           new == [at EXCEPT !.seq = next]
<1>1. calls[c] \in Request /\ seq \in Nat /\ next \in Nat
  BY HasRequest DEF TypeInv, TypeOK, NextEnvelope
<1>2. Becomes(c, new)
  BY DEF Becomes, TypeInv, TypeOK, NextEnvelope, NextSeq
<1>3. at \in Request /\ at.pc = "send" /\ Keeps(calls[c], at)
  BY <1>1, Moved DEF Pcs, Active, Sending, Keeps
<1> HIDE DEF at
<1>4. /\ new \in Request /\ new.pc = "send" /\ Keeps(calls[c], new)
      /\ new.seq = next
  <2> HIDE DEF next
  <2>1. QED
    BY <1>1, <1>3, Numbered DEF Keeps
<1> HIDE DEF new
<1>5. CursorOK(new)
  BY <1>4 DEF CursorOK, Active, Sending, Keeps, TypeInv, NextEnvelope
<1>6. seq' = seq + 1 /\ seq' \in Nat
  BY <1>1 DEF NextEnvelope, NextSeq
<1>7. Moves(c, new)
  BY <1>2, <1>4, <1>5, <1>6, OneMoves DEF TypeInv, TypeOK, Moves, NextEnvelope
<1>8. QED
  BY <1>4, <1>6, <1>7

LEMMA SendAckedFacts ==
  ASSUME TypeInv, NEW c \in Calls, SendAcked(c)
  PROVE  /\ published' = Append(published, [env |-> EnvelopeOf(c), acked |-> TRUE])
         /\ \E new : /\ Moves(c, new) /\ Keeps(calls[c], new) /\ new.pc = "remember"
                     /\ new.seq = calls[c].seq
<1> DEFINE new == [calls[c] EXCEPT !.pc = "remember"]
<1>1. calls[c] \in Request /\ calls[c].pc \in Sending
  BY HasRequest DEF TypeInv, SendAcked, Sending
<1>2. Becomes(c, new)
  BY DEF Becomes, TypeInv, TypeOK, SendAcked
<1>3. /\ new \in Request /\ new.pc = "remember" /\ Keeps(calls[c], new)
      /\ new.seq = calls[c].seq
  BY <1>1, Moved DEF Pcs, Active, Sending, Keeps
<1> HIDE DEF new
<1>4. CursorOK(new)
  BY <1>1, <1>3 DEF CursorOK, Active, Sending, Keeps, TypeInv
<1>5. published' \in Seq(Sent)
  BY <1>1, EnvelopeType DEF SendAcked, TypeInv, TypeOK, Sent
<1>6. Moves(c, new)
  BY <1>2, <1>3, <1>4, <1>5, OneMoves DEF TypeInv, TypeOK, Moves, SendAcked
<1>7. QED
  BY <1>3, <1>6 DEF SendAcked

LEMMA SendFailsFacts ==
  ASSUME TypeInv, NEW c \in Calls, SendFails(c)
  PROVE  /\ \/ published' = Append(published, [env |-> EnvelopeOf(c), acked |-> FALSE])
            \/ published' = published
         /\ \E new : Moves(c, new) /\ Keeps(calls[c], new) /\ new.pc = "failed"
<1>0. EnvelopeOf(c) \in Envelope
  BY EnvelopeType DEF SendFails, Sending
<1> DEFINE lost == [env |-> EnvelopeOf(c), acked |-> FALSE]
<1>1. lost \in Sent /\ (published' = Append(published, lost) \/ published' = published)
  BY <1>0 DEF SendFails, Sent
<1> HIDE DEF lost
<1>2. published' \in Seq(Sent)
  BY <1>1 DEF TypeInv, TypeOK
<1>3. QED
  BY <1>2, FailFacts DEF SendFails

\* Remembering moves on to the next topic, to the next event, or ends the call.
LEMMA RememberFacts ==
  ASSUME TypeInv, NEW c \in Calls, Remember(c)
  PROVE  LET e == EnvelopeOf(c)
             topics == Len(TopicsAt(c))
         IN /\ remembered' = [remembered EXCEPT ![e.topic] = Ring(@, e)]
            /\ \E new : /\ Moves(c, new) /\ new.batch = calls[c].batch
                        /\ new.seq = calls[c].seq
                        /\ \/ /\ calls[c].k < topics /\ new.pc = "stamp"
                              /\ new.at = calls[c].at /\ new.k = calls[c].k + 1
                           \/ /\ calls[c].k = topics /\ calls[c].at < Len(calls[c].batch)
                              /\ new.pc = "resolve" /\ new.at = calls[c].at + 1 /\ new.k = 1
                           \/ /\ calls[c].k = topics /\ calls[c].at = Len(calls[c].batch)
                              /\ new.pc = "ok"
<1> DEFINE e == EnvelopeOf(c)
           topics == Len(TopicsAt(c))
           old == calls[c]
           rings == remembered'
<1>1. /\ old \in Request /\ old.pc \in Sending /\ old.pc = "remember"
      /\ old.at \in Nat /\ old.k \in Nat
  BY HasRequest, RequestFields DEF TypeInv, Remember, Sending
<1>2. /\ old.at \in 1 .. Len(old.batch) /\ old.k \in 1 .. topics
      /\ topics \in Nat /\ Len(old.batch) \in Nat
  <2>1. CursorOK(old)
    BY DEF TypeInv
  <2>2. IsSeq(TopicsAt(c)) /\ IsSeq(old.batch)
    BY <1>1, TopicsAreSeq, BatchIsSeq, RequestFields DEF TopicsAt
  <2>3. QED
    BY <1>1, <2>1, <2>2 DEF CursorOK, IsSeq, Active, TopicsAt
<1>3. e \in Envelope /\ e.topic \in Topics /\ e.topic = TopicsAt(c)[old.k]
  BY <1>1, EnvelopeType
<1>4. rings = [remembered EXCEPT ![e.topic] = Ring(@, e)]
  BY <1>3 DEF Remember
<1>5. rings \in [Topics -> Seq(Envelope)] /\ \A t \in Topics : Len(rings[t]) <= MaxEvents
  <2>1. remembered \in [Topics -> Seq(Envelope)] /\ \A t \in Topics : Len(remembered[t]) <= MaxEvents
    BY DEF TypeInv, TypeOK
  <2> HIDE DEF e
  <2>2. Ring(remembered[e.topic], e) \in Seq(Envelope) /\ Len(Ring(remembered[e.topic], e)) <= MaxEvents
    BY <1>3, <2>1, RingType
  <2>3. QED
    BY <1>3, <1>4, <2>1, <2>2
<1>6. UNCHANGED <<seq, published, life>>
  BY DEF Remember
<1>7. ASSUME NEW new \in Request, Becomes(c, new), CursorOK(new)
      PROVE  Moves(c, new)
  BY <1>5, <1>6, <1>7, OneMoves DEF TypeInv, TypeOK, Moves
<1>8. CASE old.k < topics
  <2> DEFINE at == [old EXCEPT !.pc = "stamp"]
             next == old.k + 1
             new == [at EXCEPT !.k = next]
  <2>0. calls' = [calls EXCEPT ![c].pc = "stamp", ![c].k = calls[c].k + 1]
    BY <1>2, <1>8 DEF Remember
  <2>1. Becomes(c, new)
    BY <2>0 DEF Becomes, TypeInv, TypeOK
  <2>2. /\ at \in Request /\ at.pc = "stamp" /\ at.batch = old.batch /\ at.at = old.at
        /\ at.seq = old.seq
    BY <1>1, Moved DEF Pcs, Active, Sending
  <2>3. next \in Nat /\ next \in 1 .. topics
    BY <1>2, <1>8
  <2> HIDE DEF at
  <2>4. /\ new \in Request /\ new.pc = "stamp" /\ new.batch = old.batch /\ new.at = old.at
        /\ new.k = next /\ new.seq = old.seq
    <3> HIDE DEF next, old
    <3>1. QED
      BY <2>2, <2>3, AtTopic
  <2> HIDE DEF new
  <2>5. CursorOK(new)
    BY <1>2, <2>3, <2>4 DEF CursorOK, Active, Sending, TopicsAt
  <2>6. Moves(c, new)
    BY <1>7, <2>1, <2>4, <2>5
  <2>7. QED
    BY <1>4, <1>8, <2>4, <2>6
<1>9. CASE old.k = topics /\ old.at < Len(old.batch)
  <2> DEFINE at == [old EXCEPT !.pc = "resolve"]
             next == old.at + 1
             on == [at EXCEPT !.at = next]
             new == [on EXCEPT !.k = 1]
  <2>0. calls' = [calls EXCEPT ![c].pc = "resolve", ![c].at = calls[c].at + 1, ![c].k = 1]
    BY <1>2, <1>9 DEF Remember
  <2>1. Becomes(c, new)
    BY <2>0 DEF Becomes, TypeInv, TypeOK
  <2>2. /\ at \in Request /\ at.pc = "resolve" /\ at.batch = old.batch /\ at.at = old.at
        /\ at.seq = old.seq
    BY <1>1, Moved DEF Pcs, Active
  <2>3. next \in Nat /\ next \in 1 .. Len(old.batch)
    BY <1>2, <1>9
  <2> HIDE DEF at
  <2>4. /\ on \in Request /\ on.pc = "resolve" /\ on.batch = old.batch /\ on.at = next
        /\ on.seq = old.seq
    <3> HIDE DEF next, old
    <3>1. QED
      BY <2>2, <2>3, AtEvent
  <2> HIDE DEF on
  <2>5. /\ new \in Request /\ new.pc = "resolve" /\ new.batch = old.batch /\ new.at = next
        /\ new.k = 1 /\ new.seq = old.seq
    <3> HIDE DEF next, old
    <3>1. QED
      BY <2>4, AtTopic
  <2> HIDE DEF new
  <2>6. CursorOK(new)
    BY <2>3, <2>5 DEF CursorOK, Active, Sending
  <2>7. Moves(c, new)
    BY <1>7, <2>1, <2>5, <2>6
  <2>8. QED
    BY <1>4, <1>9, <2>5, <2>7
<1>10. CASE old.k = topics /\ old.at = Len(old.batch)
  <2> DEFINE new == [old EXCEPT !.pc = "ok"]
  <2>1. Becomes(c, new)
    BY <1>2, <1>10 DEF Becomes, TypeInv, TypeOK, Remember
  <2>2. /\ new \in Request /\ new.pc = "ok" /\ new.batch = old.batch
        /\ new.seq = old.seq
    BY <1>1, Moved DEF Pcs
  <2> HIDE DEF new
  <2>3. CursorOK(new)
    BY <2>2 DEF CursorOK, Active, Sending
  <2>4. Moves(c, new)
    BY <1>7, <2>1, <2>2, <2>3
  <2>5. QED
    BY <1>4, <1>10, <2>2, <2>4
<1>11. QED
  BY <1>2, <1>8, <1>9, <1>10

LEMMA RestartFacts ==
  ASSUME TypeInv, Restart
  PROVE  /\ TypeInv'
         /\ \A d \in Calls : \/ calls'[d] = calls[d] /\ calls[d].pc \in {"idle", "ok", "failed"}
                             \/ calls'[d].pc = "failed" /\ calls'[d].batch = calls[d].batch
<1> DEFINE over(d) == [calls[d] EXCEPT !.pc = "failed"]
<1>1. \A d \in Calls : calls[d].pc # "idle" =>
        over(d) \in Request /\ over(d).pc = "failed" /\ over(d).batch = calls[d].batch
  BY HasRequest, Moved DEF TypeInv, Pcs
<1>2. calls' = [d \in Calls |-> IF calls[d].pc \in {"idle", "ok"} THEN calls[d] ELSE over(d)]
  BY DEF Restart
<1> HIDE DEF over
<1>3. /\ calls' \in [Calls -> Request \cup {Idle}]
      /\ \A d \in Calls : \/ calls'[d] = calls[d] /\ calls[d].pc \in {"idle", "ok", "failed"}
                          \/ calls'[d].pc = "failed" /\ calls'[d].batch = calls[d].batch
  BY <1>1, <1>2 DEF TypeInv, TypeOK
<1>4. \A d \in Calls : CursorOK(calls'[d])
  BY <1>3 DEF TypeInv, CursorOK, Active, Sending
<1>5. (\A d \in Calls : CursorOK(calls[d]))'
  BY <1>4 DEF CursorOK, TopicsOf
<1>6. remembered' \in [Topics -> Seq(Envelope)] /\ \A t \in Topics : Len(remembered'[t]) <= MaxEvents
  BY MaxEventsAssumption DEF MaxEventsAssumption, Restart
<1>7. QED
  BY <1>3, <1>5, <1>6 DEF TypeInv, TypeOK, Restart

LEMMA NextKeepsTypes ==
  ASSUME TypeInv, [Next]_vars
  PROVE  TypeInv'
<1>1. CASE vars' = vars
  BY <1>1 DEF vars, TypeInv, TypeOK, CursorOK
<1>2. CASE Next
  BY <1>2, BeginFacts, ResolveFacts, NextEnvelopeFacts, SendAckedFacts, SendFailsFacts,
     RememberFacts, RestartFacts DEF Next, Moves
<1>3. QED
  BY <1>1, <1>2

LEMMA InitTypes == Init => TypeInv
<1> SUFFICES ASSUME Init PROVE TypeInv
  OBVIOUS
<1>1. remembered \in [Topics -> Seq(Envelope)] /\ \A t \in Topics : Len(remembered[t]) <= MaxEvents
  BY MaxEventsAssumption DEF MaxEventsAssumption, Init
<1>2. calls \in [Calls -> Request \cup {Idle}] /\ \A c \in Calls : calls[c].pc = "idle"
  BY DEF Init, Idle
<1>3. \A c \in Calls : CursorOK(calls[c])
  BY <1>2 DEF CursorOK, Active, Sending
<1>4. QED
  BY <1>1, <1>2, <1>3 DEF Init, TypeInv, TypeOK

\* Values keep their types, and no ring outgrows its bound (TypeOK).
THEOREM TypeCorrect == Spec => []TypeOK
<1>1. TypeInv /\ [Next]_vars => TypeInv'
  BY NextKeepsTypes
<1>2. TypeInv => TypeOK
  BY DEF TypeInv
<1>3. QED
  BY InitTypes, <1>1, <1>2, PTL DEF Spec

-----------------------------------------------------------------------------
\* What a step sends.

StepOf(c) ==
  \/ \E b \in Batches : BeginPublish(c, b)
  \/ Resolve(c) \/ NextEnvelope(c) \/ SendAcked(c) \/ SendFails(c) \/ Remember(c)

LEMMA NextIs ==
  ASSUME Next
  PROVE  (\E c \in Calls : StepOf(c)) \/ Restart
BY DEF Next, StepOf

Sends == 1 .. Len(published)

\* Handler c sends its envelope as the newest message.
Adds(c, acked) ==
  /\ calls[c].pc = "send" /\ Sends' = Sends \cup {Len(published) + 1}
  /\ Len(published) + 1 \notin Sends
  /\ \A i \in Sends : published'[i] = published[i]
  /\ published'[Len(published) + 1] = [env |-> EnvelopeOf(c), acked |-> acked]

LEMMA SentType ==
  ASSUME TypeInv, NEW i \in Sends
  PROVE  /\ published[i] \in Sent /\ published[i].env \in Envelope
         /\ published[i].env.seq \in Nat /\ published[i].env.life \in Nat
         /\ published[i].env.at \in Nat /\ published[i].env.k \in Nat
         /\ published[i].env.call \in Calls
<1>1. published[i] \in Sent
  BY DEF TypeInv, TypeOK, Sends
<1>2. QED
  BY <1>1 DEF Sent, Envelope

LEMMA AppendAdds ==
  ASSUME TypeInv, NEW c \in Calls, calls[c].pc = "send", NEW acked \in BOOLEAN,
         published' = Append(published, [env |-> EnvelopeOf(c), acked |-> acked])
  PROVE  Adds(c, acked)
<1> DEFINE e == [env |-> EnvelopeOf(c), acked |-> acked]
<1>1. e \in Sent
  BY EnvelopeType DEF Sent, Sending
<1>2. published' = Append(published, e)
  OBVIOUS
<1> HIDE DEF e
<1>3. /\ Len(published) \in Nat /\ Len(published') = Len(published) + 1
      /\ \A i \in 1 .. Len(published) : published'[i] = published[i]
      /\ published'[Len(published) + 1] = e
  BY <1>1, <1>2 DEF TypeInv, TypeOK
<1>4. QED
  BY <1>3 DEF Adds, Sends, e

LEMMA StepSends ==
  ASSUME TypeInv, NEW c \in Calls, StepOf(c)
  PROVE  /\ \/ published' = published
            \/ Adds(c, TRUE) \/ Adds(c, FALSE)
         /\ \/ Adds(c, TRUE) /\ calls'[c].pc = "remember"
            \/ calls'[c].pc # "remember"
         /\ calls'[c].pc = "send" => NextEnvelope(c) /\ calls'[c].seq = seq + 1
         /\ calls[c].pc = "send" => calls'[c].pc \in {"remember", "failed"}
         /\ life' = life
         /\ seq' = seq \/ (NextEnvelope(c) /\ seq' = seq + 1)
         /\ \A d \in Calls : d # c => calls'[d] = calls[d]
         /\ TypeInv'
<1>1. ASSUME NEW b \in Batches, BeginPublish(c, b)
      PROVE  /\ calls'[c].pc \in {"ok", "resolve"} /\ published' = published /\ life' = life
             /\ seq' = seq /\ (\A d \in Calls : d # c => calls'[d] = calls[d]) /\ TypeInv'
             /\ calls[c].pc # "send"
  BY <1>1, BeginFacts DEF BeginPublish, Moves
<1>2. CASE Resolve(c)
  <2>1. /\ calls'[c].pc \in {"failed", "stamp"} /\ published' = published /\ life' = life
        /\ seq' = seq /\ (\A d \in Calls : d # c => calls'[d] = calls[d]) /\ TypeInv'
        /\ calls[c].pc # "send"
    BY <1>2, ResolveFacts DEF Resolve, Moves
  <2>2. QED
    BY <2>1
<1>3. CASE NextEnvelope(c)
  <2>1. /\ calls'[c].pc = "send" /\ calls'[c].seq = seq + 1 /\ published' = published
        /\ life' = life /\ seq' = seq + 1
        /\ (\A d \in Calls : d # c => calls'[d] = calls[d]) /\ TypeInv'
        /\ calls[c].pc # "send"
    BY <1>3, NextEnvelopeFacts DEF NextEnvelope, Moves
  <2>2. QED
    BY <1>3, <2>1
<1>4. CASE SendAcked(c)
  <2>1. /\ calls'[c].pc = "remember" /\ life' = life /\ seq' = seq
        /\ (\A d \in Calls : d # c => calls'[d] = calls[d]) /\ TypeInv'
    BY <1>4, SendAckedFacts DEF SendAcked, Moves
  <2>2. Adds(c, TRUE)
    BY <1>4, AppendAdds DEF SendAcked
  <2>3. QED
    BY <2>1, <2>2
<1>5. CASE SendFails(c)
  <2>1. /\ calls'[c].pc = "failed" /\ life' = life /\ seq' = seq
        /\ (\A d \in Calls : d # c => calls'[d] = calls[d]) /\ TypeInv'
    BY <1>5, SendFailsFacts DEF SendFails, Moves
  <2>2. Adds(c, FALSE) \/ published' = published
    BY <1>5, AppendAdds DEF SendFails
  <2>3. QED
    BY <2>1, <2>2
<1>6. CASE Remember(c)
  <2>1. /\ calls'[c].pc \in {"stamp", "resolve", "ok"} /\ published' = published /\ life' = life
        /\ seq' = seq /\ (\A d \in Calls : d # c => calls'[d] = calls[d]) /\ TypeInv'
        /\ calls[c].pc # "send"
    BY <1>6, RememberFacts DEF Remember, Moves
  <2>2. QED
    BY <2>1
<1>7. QED
  BY <1>1, <1>2, <1>3, <1>4, <1>5, <1>6 DEF StepOf

-----------------------------------------------------------------------------
\* No number twice.

\* Numbers given in this life are at most the last one.
SentBefore ==
  \A i \in Sends : /\ published[i].env.life <= life
                   /\ published[i].env.life = life => published[i].env.seq <= seq

GivenBefore == \A c \in Calls : calls[c].pc = "send" => calls[c].seq <= seq

SentOnce ==
  \A i, j \in Sends :
    published[i].env.life = published[j].env.life /\ published[i].env.seq = published[j].env.seq
      => i = j

GivenOnce ==
  \A c \in Calls : calls[c].pc = "send" =>
    /\ \A i \in Sends : published[i].env.life = life => published[i].env.seq # calls[c].seq
    /\ \A d \in Calls : d # c /\ calls[d].pc = "send" => calls[d].seq # calls[c].seq

SeqInv == TypeInv /\ SentBefore /\ GivenBefore /\ SentOnce /\ GivenOnce

LEMMA SeqInvKept ==
  ASSUME SeqInv, NEW c \in Calls, StepOf(c)
  PROVE  SeqInv'
<1>1. TypeInv /\ seq \in Nat /\ life \in Nat
  BY DEF SeqInv, TypeInv, TypeOK
<1>2. /\ TypeInv' /\ life' = life /\ (\A d \in Calls : d # c => calls'[d] = calls[d])
      /\ calls[c].pc = "send" => calls'[c].pc # "send"
      /\ calls'[c].pc = "send" => calls'[c].seq = seq + 1 /\ seq' = seq + 1 /\ published' = published
      /\ seq' = seq \/ seq' = seq + 1
  BY <1>1, StepSends DEF NextEnvelope, NextSeq
<1>3. \A d \in Calls : calls[d].pc = "send" => calls[d].seq \in Nat
  BY <1>1, HasRequest, RequestFields DEF TypeInv
<1>4. \A i \in Sends : published[i].env.seq \in Nat /\ published[i].env.life \in Nat
  BY <1>1, SentType
<1>5. GivenBefore'
  BY <1>1, <1>2, <1>3 DEF SeqInv, GivenBefore
<1>6. CASE published' = published
  <2>1. Sends' = Sends
    BY <1>6 DEF Sends
  <2>2. SentBefore' /\ SentOnce'
    BY <1>1, <1>2, <1>4, <1>6, <2>1 DEF SeqInv, SentBefore, SentOnce
  <2>3. GivenOnce'
    <3>1. ASSUME NEW d \in Calls, calls'[d].pc = "send", NEW i \in Sends,
                 published[i].env.life = life
          PROVE  published[i].env.seq # calls'[d].seq
      BY <1>1, <1>2, <1>4, <3>1 DEF SeqInv, GivenOnce, SentBefore
    <3>2. ASSUME NEW d \in Calls, calls'[d].pc = "send", NEW b \in Calls, b # d,
                 calls'[b].pc = "send"
          PROVE  calls'[b].seq # calls'[d].seq
      BY <1>1, <1>2, <1>3, <3>2 DEF SeqInv, GivenOnce, GivenBefore
    <3>3. QED
      BY <1>2, <1>6, <2>1, <3>1, <3>2 DEF GivenOnce
  <2>4. QED
    BY <1>2, <1>5, <2>2, <2>3 DEF SeqInv
<1>7. ASSUME NEW acked \in BOOLEAN, Adds(c, acked)
      PROVE  SeqInv'
  <2> DEFINE n == Len(published) + 1
  <2>1. /\ calls[c].pc = "send" /\ Sends' = Sends \cup {n} /\ n \notin Sends
        /\ \A i \in Sends : published'[i] = published[i]
        /\ published'[n].env = EnvelopeOf(c)
    BY <1>7 DEF Adds
  <2> HIDE DEF n
  <2>2. EnvelopeOf(c).seq = calls[c].seq /\ EnvelopeOf(c).life = life
    BY <2>1, <1>1, EnvelopeType DEF Sending
  <2>3. calls[c].seq \in Nat /\ calls[c].seq <= seq
    BY <1>3, <2>1 DEF SeqInv, GivenBefore
  <2>4. SentBefore'
    BY <1>1, <1>2, <1>4, <2>1, <2>2, <2>3 DEF SeqInv, SentBefore
  <2>5. \A i \in Sends : published[i].env.life = life => published[i].env.seq # calls[c].seq
    BY <2>1 DEF SeqInv, GivenOnce
  <2>6. SentOnce'
    BY <2>1, <2>2, <2>5 DEF SeqInv, SentOnce
  <2>7. \A d \in Calls : calls'[d].pc = "send" => d # c /\ calls'[d] = calls[d]
    BY <1>2, <2>1
  <2>8. GivenOnce'
    BY <1>2, <2>1, <2>2, <2>7 DEF SeqInv, GivenOnce
  <2>9. QED
    BY <1>2, <1>5, <2>4, <2>6, <2>8 DEF SeqInv
<1>8. QED
  BY <1>1, <1>6, <1>7, StepSends

LEMMA SeqStarts == Init => SeqInv
<1> SUFFICES ASSUME Init PROVE SeqInv
  OBVIOUS
<1>1. Sends = {} /\ \A c \in Calls : calls[c].pc = "idle"
  BY DEF Init, Sends, Idle
<1>2. QED
  BY <1>1, InitTypes DEF SeqInv, SentBefore, GivenBefore, SentOnce, GivenOnce

LEMMA SeqInvStep ==
  ASSUME SeqInv, [Next]_vars
  PROVE  SeqInv'
<1>1. TypeInv' /\ TypeInv
  BY NextKeepsTypes DEF SeqInv
<1>2. CASE vars' = vars
  <2>1. UNCHANGED <<seq, calls, published, life>>
    BY <1>2 DEF vars
  <2>2. QED
    BY <1>1, <2>1 DEF SeqInv, SentBefore, GivenBefore, SentOnce, GivenOnce, Sends
<1>3. CASE Restart
  <2>1. /\ published' = published /\ life' = life + 1 /\ Sends' = Sends /\ life \in Nat
        /\ \A d \in Calls : calls'[d].pc # "send"
    BY <1>1, <1>3, RestartFacts DEF Restart, Sends, TypeInv, TypeOK
  <2>2. \A i \in Sends : published[i].env.life \in Nat
    BY <1>1, SentType
  <2>3. QED
    BY <1>1, <2>1, <2>2 DEF SeqInv, SentBefore, GivenBefore, SentOnce, GivenOnce
<1>4. CASE Next
  BY <1>2, <1>3, <1>4, NextIs, SeqInvKept
<1>5. QED
  BY <1>2, <1>4

\* No number twice in one life of the process (SeqsUnique).
THEOREM NumbersUnique == Spec => []SeqsUnique
<1>1. SeqInv /\ [Next]_vars => SeqInv'
  BY SeqInvStep
<1>2. SeqInv => SeqsUnique
  BY DEF SeqInv, SentOnce, GivenOnce, SeqsUnique, Sends
<1>3. QED
  BY SeqStarts, <1>1, <1>2, PTL DEF Spec

-----------------------------------------------------------------------------
\* Batches go out in order.

SentOut(c, m) ==
  \E i \in Sends : /\ published[i].acked /\ published[i].env.call = c
                   /\ published[i].env.at = m.at /\ published[i].env.k = m.k

\* A handler at k has left m behind, or has just sent it.
Reached(m, k) == Before(m, k) \/ (k.pc = "remember" /\ m.at = k.at /\ m.k = k.k)

Past(e, k) ==
  /\ Reached(e, k) /\ e.seq <= k.seq
  /\ k.pc = "send" => e.seq < k.seq

\* What a handler has left behind is out, and is all that it has sent.
CursorAt(c, k) ==
  k.pc \in Active =>
    /\ k.seq <= seq
    /\ \A i \in Sends : published[i].env.call = c => Past(published[i].env, k)
    /\ \A m \in Messages(k.batch) : Reached(m, k) => SentOut(c, m)

EndedAt(c, k) == k.pc = "ok" => \A m \in Messages(k.batch) : SentOut(c, m)

Began == \A i \in Sends : calls[published[i].env.call].pc # "idle"

OrderedAt(j, batch) ==
  LET f == published[j].env IN
  /\ \A i \in 1 .. j - 1 : published[i].env.call = f.call =>
       Before(published[i].env, f) /\ published[i].env.seq < f.seq
  /\ \A m \in Messages(batch) : Before(m, f) => Out(f.call, m, j - 1)

Cursors == \A c \in Calls : CursorAt(c, calls[c]) /\ EndedAt(c, calls[c])

Ordered == \A j \in Sends : OrderedAt(j, calls[published[j].env.call].batch)

OrderInv == TypeInv /\ Began /\ Cursors /\ Ordered

LEMMA MessageFields ==
  ASSUME NEW b \in Batches, NEW m \in Messages(b)
  PROVE  /\ m.at \in Nat /\ m.k \in Nat /\ m.at \in 1 .. Len(b)
         /\ m.k \in 1 .. Len(TopicsOf(b[m.at]))
<1>1. PICK i \in DOMAIN b : m \in {[at |-> i, k |-> j] : j \in DOMAIN TopicsOf(b[i])}
  BY DEF Messages
<1>2. PICK j \in DOMAIN TopicsOf(b[i]) : m = [at |-> i, k |-> j]
  BY <1>1
<1>3. DOMAIN b = 1 .. Len(b) /\ DOMAIN TopicsOf(b[i]) = 1 .. Len(TopicsOf(b[i]))
  BY BatchIsSeq, TopicsAreSeq DEF IsSeq
<1>4. m.at = i /\ m.k = j
  BY <1>2
<1>5. QED
  BY <1>3, <1>4

LEMMA OutIsSentOut ==
  ASSUME NEW c, NEW m
  PROVE  Out(c, m, Len(published)) <=> SentOut(c, m)
BY DEF Out, SentOut, Sends

LEMMA SentOutGrows ==
  ASSUME NEW d, NEW m, SentOut(d, m),
         published' = published \/ \E c \in Calls : Adds(c, TRUE) \/ Adds(c, FALSE)
  PROVE  SentOut(d, m)'
<1>1. CASE published' = published
  BY <1>1 DEF SentOut, Sends
<1>2. ASSUME NEW c, NEW acked, Adds(c, acked)
      PROVE  SentOut(d, m)'
  BY <1>2 DEF SentOut, Adds
<1>3. QED
  BY <1>1, <1>2

LEMMA CursorsPrimed ==
  ASSUME \A c \in Calls : \E k : calls'[c] = k /\ CursorAt(c, k)' /\ EndedAt(c, k)'
  PROVE  Cursors'
BY DEF Cursors, CursorAt, EndedAt, Past, Reached, Before, Messages

\* A handler that does nothing stays where it was.
LEMMA CursorStays ==
  ASSUME TypeInv, NEW d \in Calls, NEW k, k = calls[d], CursorAt(d, k), EndedAt(d, k),
         seq' \in {seq, seq + 1},
         \/ published' = published
         \/ \E c \in Calls : c # d /\ (Adds(c, TRUE) \/ Adds(c, FALSE))
  PROVE  CursorAt(d, k)' /\ EndedAt(d, k)'
<1>1. EndedAt(d, k)'
  BY SentOutGrows DEF EndedAt
<1>2. ASSUME k.pc \in Active
      PROVE  CursorAt(d, k)'
  <2>1. k \in Request
    BY <1>2, HasRequest DEF TypeInv, Active, Sending
  <2>2. k.seq \in Nat /\ seq \in Nat
    BY <2>1, RequestFields DEF TypeInv, TypeOK
  <2>3. k.seq <= seq'
    BY <1>2, <2>2 DEF CursorAt
  <2>4. \A m \in Messages(k.batch) : Reached(m, k) => SentOut(d, m)'
    BY <1>2, SentOutGrows DEF CursorAt
  <2>5. \A i \in Sends' : published'[i].env.call = d => Past(published'[i].env, k)
    <3>1. CASE published' = published
      BY <1>2, <3>1 DEF CursorAt, Sends
    <3>2. ASSUME NEW c \in Calls, c # d, NEW acked, Adds(c, acked)
          PROVE  \A i \in Sends' : published'[i].env.call = d => Past(published'[i].env, k)
      <4> DEFINE n == Len(published) + 1
      <4>1. /\ Sends' = Sends \cup {n} /\ published'[n].env = EnvelopeOf(c)
            /\ calls[c].pc = "send" /\ \A i \in Sends : published'[i] = published[i]
        BY <3>2 DEF Adds
      <4> HIDE DEF n
      <4>2. published'[n].env.call = c
        BY <4>1, EnvelopeType DEF Sending
      <4>3. QED
        BY <1>2, <3>2, <4>1, <4>2 DEF CursorAt
    <3>3. QED
      BY <3>1, <3>2
  <2>6. QED
    BY <2>3, <2>4, <2>5 DEF CursorAt, Past, Reached, Before
<1>3. k.pc \notin Active => CursorAt(d, k)'
  BY DEF CursorAt
<1>4. QED
  BY <1>1, <1>2, <1>3

\* The conditions on a handler that moved without sending.
LEMMA CursorMoves ==
  ASSUME NEW c \in Calls, NEW k, calls'[c] = k, published' = published,
         k.pc \in Active =>
           /\ k.seq <= seq'
           /\ \A i \in Sends : published[i].env.call = c => Past(published[i].env, k)
           /\ \A m \in Messages(k.batch) : Reached(m, k) => SentOut(c, m),
         k.pc = "ok" => \A m \in Messages(k.batch) : SentOut(c, m)
  PROVE  CursorAt(c, k)' /\ EndedAt(c, k)'
<1>1. Sends' = Sends /\ \A m : SentOut(c, m)' = SentOut(c, m)
  BY DEF Sends, SentOut
<1>2. QED
  BY <1>1 DEF CursorAt, EndedAt, Past, Reached, Before

LEMMA CursorBegins ==
  ASSUME OrderInv, NEW c \in Calls, NEW b \in Batches, BeginPublish(c, b)
  PROVE  \E k : calls'[c] = k /\ CursorAt(c, k)' /\ EndedAt(c, k)'
<1>1. PICK k : /\ calls'[c] = k /\ k.batch = b /\ k.at = 1 /\ k.k = 1 /\ k.seq = 0
               /\ k.pc = IF b = <<>> THEN "ok" ELSE "resolve"
  BY BeginFacts DEF OrderInv, Moves
<1>2. /\ published' = published /\ seq' \in Nat /\ calls[c].pc = "idle"
  BY DEF BeginPublish, OrderInv, TypeInv, TypeOK
<1>3. \A i \in Sends : published[i].env.call # c
  BY <1>2 DEF OrderInv, Began
<1>4. \A m \in Messages(b) : ~ Reached(m, k) /\ b # <<>>
  <2> SUFFICES ASSUME NEW m \in Messages(b) PROVE ~ Reached(m, k) /\ b # <<>>
    OBVIOUS
  <2>1. m.at \in 1 .. Len(b) /\ m.k \in 1 .. Len(TopicsOf(b[m.at])) /\ m.at \in Nat /\ m.k \in Nat
    BY MessageFields
  <2>2. b # <<>>
    BY <2>1
  <2>3. QED
    BY <1>1, <2>1, <2>2 DEF Reached, Before
<1>5. QED
  BY <1>1, <1>2, <1>3, <1>4, CursorMoves

LEMMA CursorResolves ==
  ASSUME OrderInv, NEW c \in Calls, Resolve(c)
  PROVE  \E k : calls'[c] = k /\ CursorAt(c, k)' /\ EndedAt(c, k)'
<1> DEFINE old == calls[c]
<1>1. PICK k : /\ calls'[c] = k /\ Keeps(old, k)
               /\ \/ k.pc = "failed"
                  \/ k.pc = "stamp" /\ k.seq = old.seq
  BY ResolveFacts DEF OrderInv, Moves
<1>2. /\ published' = published /\ seq' = seq /\ old.pc = "resolve"
      /\ TypeInv
  BY DEF Resolve, OrderInv, TypeInv, TypeOK
<1>3. CursorAt(c, old)
  BY DEF OrderInv, Cursors
<1>4. old.seq \in Nat
  BY <1>2, HasRequest, RequestFields DEF TypeInv
<1>5. \A i \in Sends : published[i].env.seq \in Nat
  BY <1>2, SentType
<1> HIDE DEF old
<1>6. k.pc \in Active =>
        /\ k.seq <= seq'
        /\ \A i \in Sends : published[i].env.call = c => Past(published[i].env, k)
        /\ \A m \in Messages(k.batch) : Reached(m, k) => SentOut(c, m)
  BY <1>1, <1>2, <1>3, <1>4, <1>5 DEF CursorAt, Past, Reached, Before, Keeps, Active, Sending
<1>7. QED
  BY <1>1, <1>2, <1>6, CursorMoves

LEMMA CursorStamps ==
  ASSUME OrderInv, NEW c \in Calls, NextEnvelope(c)
  PROVE  \E k : calls'[c] = k /\ CursorAt(c, k)' /\ EndedAt(c, k)'
<1> DEFINE old == calls[c]
<1>1. PICK k : /\ calls'[c] = k /\ Keeps(old, k)
               /\ k.pc = "send" /\ k.seq = seq + 1
  BY NextEnvelopeFacts DEF OrderInv, Moves
<1>2. /\ published' = published /\ seq' = seq + 1 /\ old.pc = "stamp"
      /\ TypeInv /\ seq \in Nat
  BY DEF NextEnvelope, NextSeq, OrderInv, TypeInv, TypeOK
<1>3. CursorAt(c, old)
  BY DEF OrderInv, Cursors
<1>4. old.seq \in Nat
  BY <1>2, HasRequest, RequestFields DEF TypeInv
<1>5. \A i \in Sends : published[i].env.seq \in Nat
  BY <1>2, SentType
<1> HIDE DEF old
<1>6. k.pc \in Active =>
        /\ k.seq <= seq'
        /\ \A i \in Sends : published[i].env.call = c => Past(published[i].env, k)
        /\ \A m \in Messages(k.batch) : Reached(m, k) => SentOut(c, m)
  BY <1>1, <1>2, <1>3, <1>4, <1>5 DEF CursorAt, Past, Reached, Before, Keeps, Active, Sending
<1>7. QED
  BY <1>1, <1>2, <1>6, CursorMoves

LEMMA CursorSends ==
  ASSUME OrderInv, NEW c \in Calls, SendAcked(c)
  PROVE  \E k : calls'[c] = k /\ CursorAt(c, k)' /\ EndedAt(c, k)'
<1> DEFINE old == calls[c]
           n == Len(published) + 1
           e == EnvelopeOf(c)
<1>1. PICK k : /\ calls'[c] = k /\ Keeps(old, k)
               /\ k.pc = "remember" /\ k.seq = old.seq
  BY SendAckedFacts DEF OrderInv, Moves
<1>2. seq' = seq /\ old.pc = "send" /\ TypeInv
  BY DEF SendAcked, OrderInv
<1>3. CursorAt(c, old)
  BY DEF OrderInv, Cursors
<1>4. old.seq \in Nat
  BY <1>2, HasRequest, RequestFields DEF TypeInv
<1>5. \A i \in Sends : published[i].env.seq \in Nat
  BY <1>2, SentType
<1>6. Adds(c, TRUE)
  BY <1>2, AppendAdds DEF SendAcked
<1>7. /\ Sends' = Sends \cup {n} /\ published'[n].env = e /\ published'[n].acked
      /\ \A i \in Sends : published'[i] = published[i]
  BY <1>6 DEF Adds
<1>8. e.call = c /\ e.at = old.at /\ e.k = old.k /\ e.seq = old.seq
  BY <1>2, EnvelopeType DEF Sending
<1> HIDE DEF old, n, e
<1>9. k.seq <= seq'
  BY <1>1, <1>2, <1>3 DEF CursorAt, Active, Sending
<1>10. \A i \in Sends' : published'[i].env.call = c => Past(published'[i].env, k)
  <2>1. \A i \in Sends : published[i].env.call = c => Past(published[i].env, k)
    BY <1>1, <1>2, <1>3, <1>4, <1>5 DEF CursorAt, Past, Reached, Before, Keeps, Active, Sending
  <2>2. Past(e, k)
    BY <1>1, <1>4, <1>8 DEF Past, Reached, Keeps
  <2>3. QED
    BY <1>7, <2>1, <2>2
<1>11. \A m \in Messages(k.batch) : Reached(m, k) => SentOut(c, m)'
  <2> SUFFICES ASSUME NEW m \in Messages(k.batch), Reached(m, k) PROVE SentOut(c, m)'
    OBVIOUS
  <2>1. CASE Before(m, k)
    <3>1. SentOut(c, m)
      BY <1>1, <1>2, <1>3, <2>1 DEF CursorAt, Reached, Before, Keeps, Active, Sending
    <3>2. QED
      BY <1>6, <3>1, SentOutGrows
  <2>2. CASE m.at = k.at /\ m.k = k.k
    BY <1>1, <1>7, <1>8, <2>2 DEF SentOut, Keeps
  <2>3. QED
    BY <2>1, <2>2 DEF Reached
<1>12. CursorAt(c, k)' /\ EndedAt(c, k)'
  BY <1>1, <1>9, <1>10, <1>11 DEF CursorAt, EndedAt, Past, Reached, Before
<1>13. QED
  BY <1>1, <1>12

\* A topic is remembered: the message is left behind.  What comes next is the
\* next topic of the event, the first of the next event, or the end.
LEMMA CursorRemembers ==
  ASSUME OrderInv, NEW c \in Calls, Remember(c)
  PROVE  \E k : calls'[c] = k /\ CursorAt(c, k)' /\ EndedAt(c, k)'
<1> DEFINE old == calls[c]
           topics == Len(TopicsAt(c))
<1>1. PICK k : /\ calls'[c] = k /\ k.batch = old.batch /\ k.seq = old.seq
               /\ \/ old.k < topics /\ k.pc = "stamp" /\ k.at = old.at /\ k.k = old.k + 1
                  \/ /\ old.k = topics /\ k.pc = "resolve" /\ k.at = old.at + 1 /\ k.k = 1
                  \/ old.k = topics /\ old.at = Len(old.batch) /\ k.pc = "ok"
  BY RememberFacts DEF OrderInv, Moves
<1>2. /\ published' = published /\ seq' = seq /\ old.pc = "remember" /\ TypeInv
  BY DEF Remember, OrderInv
<1>3. CursorAt(c, old)
  BY DEF OrderInv, Cursors
<1>4. /\ old.seq \in Nat /\ old.at \in Nat /\ old.k \in Nat
      /\ old.batch \in Batches /\ IsSeq(old.batch) /\ topics \in Nat
      /\ topics = Len(TopicsOf(old.batch[old.at])) /\ Len(old.batch) \in Nat
  <2>1. old \in Request
    BY <1>2, HasRequest DEF TypeInv
  <2>2. IsSeq(old.batch) /\ IsSeq(TopicsAt(c))
    BY <2>1, RequestFields, BatchIsSeq, TopicsAreSeq DEF TopicsAt
  <2>3. QED
    BY <2>1, <2>2, RequestFields DEF IsSeq, TopicsAt
<1>5. \A i \in Sends : /\ published[i].env.seq \in Nat /\ published[i].env.at \in Nat
                       /\ published[i].env.k \in Nat
  BY <1>2, SentType
<1>6. \A m \in Messages(old.batch) :
        /\ m.at \in Nat /\ m.k \in Nat /\ m.at <= Len(old.batch) /\ m.k >= 1
        /\ m.at = old.at => m.k <= topics
  <2> SUFFICES ASSUME NEW m \in Messages(old.batch)
               PROVE  /\ m.at \in Nat /\ m.k \in Nat /\ m.at <= Len(old.batch) /\ m.k >= 1
                      /\ m.at = old.at => m.k <= topics
    OBVIOUS
  <2>1. /\ m.at \in Nat /\ m.k \in Nat /\ m.at \in 1 .. Len(old.batch)
        /\ m.k \in 1 .. Len(TopicsOf(old.batch[m.at]))
    BY <1>4, MessageFields
  <2>2. IsSeq(TopicsOf(old.batch[m.at]))
    BY TopicsAreSeq
  <2>3. QED
    BY <1>4, <2>1, <2>2 DEF IsSeq
<1> HIDE DEF old, topics
<1>7. /\ old.seq <= seq
      /\ \A i \in Sends : published[i].env.call = c => Past(published[i].env, old)
      /\ \A m \in Messages(old.batch) : Reached(m, old) => SentOut(c, m)
  BY <1>2, <1>3 DEF CursorAt, Active, Sending
<1>8. k.pc \in Active =>
        \A i \in Sends : published[i].env.call = c => Past(published[i].env, k)
  <2> SUFFICES ASSUME k.pc \in Active, NEW i \in Sends, published[i].env.call = c
               PROVE  Past(published[i].env, k)
    OBVIOUS
  <2> DEFINE e == published[i].env
  <2>1. Past(e, old) /\ e.at \in Nat /\ e.k \in Nat /\ e.seq \in Nat
    BY <1>5, <1>7
  <2> HIDE DEF e
  <2>2. e.at < old.at \/ (e.at = old.at /\ e.k <= old.k)
    BY <1>4, <2>1 DEF Past, Reached, Before
  <2>3. Before(e, k)
    BY <1>1, <1>4, <2>1, <2>2 DEF Before, Active, Sending
  <2>4. Past(e, k)
    BY <1>1, <2>1, <2>3 DEF Past, Reached, Active, Sending
  <2>5. QED
    BY <2>4 DEF e
<1>9. k.pc \in Active => \A m \in Messages(k.batch) : Reached(m, k) => SentOut(c, m)
  <2> SUFFICES ASSUME k.pc \in Active, NEW m \in Messages(old.batch), Reached(m, k)
               PROVE  SentOut(c, m)
    BY <1>1
  <2>1. Before(m, k)
    BY <1>1 DEF Reached, Active, Sending
  <2>2. Reached(m, old)
    BY <1>1, <1>2, <1>4, <1>6, <2>1 DEF Reached, Before, Active, Sending
  <2>3. QED
    BY <1>7, <2>2
<1>10. k.pc = "ok" => \A m \in Messages(k.batch) : SentOut(c, m)
  <2> SUFFICES ASSUME k.pc = "ok", NEW m \in Messages(old.batch)
               PROVE  SentOut(c, m)
    BY <1>1
  <2>1. Reached(m, old)
    BY <1>1, <1>2, <1>4, <1>6 DEF Reached, Before
  <2>2. QED
    BY <1>7, <2>1
<1>11. k.pc \in Active => k.seq <= seq'
  BY <1>1, <1>2, <1>7
<1>12. QED
  BY <1>1, <1>2, <1>8, <1>9, <1>10, <1>11, CursorMoves

LEMMA CursorFails ==
  ASSUME OrderInv, NEW c \in Calls, SendFails(c)
  PROVE  \E k : calls'[c] = k /\ CursorAt(c, k)' /\ EndedAt(c, k)'
<1>1. PICK k : calls'[c] = k /\ k.pc = "failed"
  BY SendFailsFacts DEF OrderInv, Moves
<1>2. CursorAt(c, k)' /\ EndedAt(c, k)'
  BY <1>1 DEF CursorAt, EndedAt, Active, Sending
<1>3. QED
  BY <1>1, <1>2

LEMMA CursorsKept ==
  ASSUME OrderInv, NEW c \in Calls, StepOf(c)
  PROVE  Cursors'
<1>1. \E k : calls'[c] = k /\ CursorAt(c, k)' /\ EndedAt(c, k)'
  BY CursorBegins, CursorResolves, CursorStamps, CursorSends, CursorFails, CursorRemembers
  DEF StepOf
<1>2. ASSUME NEW d \in Calls, d # c
      PROVE  \E k : calls'[d] = k /\ CursorAt(d, k)' /\ EndedAt(d, k)'
  <2>1. PICK k : k = calls[d]
    OBVIOUS
  <2>2. CursorAt(d, k) /\ EndedAt(d, k) /\ TypeInv
    BY <2>1 DEF OrderInv, Cursors
  <2>3. /\ calls'[d] = k /\ seq' \in {seq, seq + 1}
        /\ published' = published \/ Adds(c, TRUE) \/ Adds(c, FALSE)
    BY <1>2, <2>1, <2>2, StepSends
  <2>4. QED
    BY <1>2, <2>1, <2>2, <2>3, CursorStays
<1>3. QED
  BY <1>1, <1>2, CursorsPrimed

\* The batch of a handler is that of its request.
LEMMA BatchKept ==
  ASSUME TypeInv, NEW c \in Calls, StepOf(c), NEW d \in Calls, calls[d].pc # "idle"
  PROVE  calls'[d].batch = calls[d].batch /\ calls'[d].pc # "idle"
<1>1. d # c => calls'[d] = calls[d]
  BY StepSends
<1>2. ASSUME d = c
      PROVE  calls'[c].batch = calls[c].batch /\ calls'[c].pc # "idle"
  <2>1. \A b \in Batches : ~ BeginPublish(c, b)
    BY <1>2 DEF BeginPublish
  <2>2. CASE Resolve(c)
    BY <2>2, ResolveFacts DEF Moves, Keeps
  <2>3. CASE NextEnvelope(c)
    BY <2>3, NextEnvelopeFacts DEF Moves, Keeps
  <2>4. CASE SendAcked(c)
    BY <2>4, SendAckedFacts DEF Moves, Keeps
  <2>5. CASE SendFails(c)
    BY <2>5, SendFailsFacts DEF Moves, Keeps
  <2>6. CASE Remember(c)
    BY <2>6, RememberFacts DEF Moves
  <2>7. QED
    BY <2>1, <2>2, <2>3, <2>4, <2>5, <2>6 DEF StepOf
<1>3. QED
  BY <1>1, <1>2

LEMMA BeganKept ==
  ASSUME TypeInv, Began, NEW c \in Calls, StepOf(c)
  PROVE  Began'
<1>1. \A i \in Sends : /\ published[i].env.call \in Calls
                       /\ calls'[published[i].env.call].pc # "idle"
  BY SentType, BatchKept DEF Began
<1>2. CASE published' = published
  BY <1>1, <1>2 DEF Began, Sends
<1>3. ASSUME NEW acked, Adds(c, acked)
      PROVE  Began'
  <2>1. EnvelopeOf(c).call = c /\ calls'[c].pc # "idle"
    BY <1>3, EnvelopeType, BatchKept DEF Adds, Sending
  <2>2. QED
    BY <1>1, <1>3, <2>1 DEF Began, Adds
<1>4. QED
  BY <1>2, <1>3, StepSends

LEMMA OrderedAtStays ==
  ASSUME TypeInv, NEW j \in Sends, NEW batch, OrderedAt(j, batch),
         published' = published \/ \E c \in Calls : Adds(c, TRUE) \/ Adds(c, FALSE)
  PROVE  OrderedAt(j, batch)' /\ published'[j] = published[j]
<1>1. j \in Nat /\ \A i \in 1 .. j - 1 : i \in Sends
  BY DEF Sends
<1>2. published'[j] = published[j] /\ \A i \in 1 .. j - 1 : published'[i] = published[i]
  BY <1>1 DEF Adds
<1>3. ASSUME NEW d, NEW m, Out(d, m, j - 1)
      PROVE  Out(d, m, j - 1)'
  BY <1>2, <1>3 DEF Out
<1>4. QED
  BY <1>2, <1>3 DEF OrderedAt, Before, Messages

LEMMA OrderedPrimed ==
  ASSUME \A j \in Sends' : \E b : /\ calls'[published'[j].env.call].batch = b
                                  /\ OrderedAt(j, b)'
  PROVE  Ordered'
BY DEF Ordered, OrderedAt, Before, Messages

\* The message a handler sends: what comes before it is out.
LEMMA OrderedAtNewest ==
  ASSUME TypeInv, NEW c \in Calls, NEW k, k = calls[c], CursorAt(c, k), NEW acked, Adds(c, acked),
         NEW n, n = Len(published) + 1
  PROVE  OrderedAt(n, k.batch)'
<1>1. PICK e : e = EnvelopeOf(c)
  OBVIOUS
<1>2. /\ k.pc = "send" /\ published'[n].env = e
      /\ \A i \in Sends : published'[i] = published[i]
  BY <1>1 DEF Adds
<1>3. Len(published) \in Nat /\ 1 .. n - 1 = Sends
  BY DEF TypeInv, TypeOK, Sends
<1>4. e.call = c /\ e.at = k.at /\ e.k = k.k /\ e.seq = k.seq
  BY <1>1, <1>2, EnvelopeType DEF Sending
<1>5. /\ \A i \in Sends : published[i].env.call = c => Past(published[i].env, k)
      /\ \A m \in Messages(k.batch) : Reached(m, k) => SentOut(c, m)
  BY <1>2 DEF CursorAt, Active, Sending
<1>6. \A i \in 1 .. n - 1 : published'[i].env.call = c =>
        /\ Before(published'[i].env, e)
        /\ published'[i].env.seq < e.seq
  BY <1>2, <1>3, <1>4, <1>5 DEF Past, Reached, Before
<1>7. \A m \in Messages(k.batch) : Before(m, e) => Out(c, m, n - 1)'
  <2> SUFFICES ASSUME NEW m \in Messages(k.batch), Before(m, e) PROVE Out(c, m, n - 1)'
    OBVIOUS
  <2>1. PICK i \in Sends : /\ published[i].acked /\ published[i].env.call = c
                           /\ published[i].env.at = m.at /\ published[i].env.k = m.k
    BY <1>4, <1>5 DEF Reached, Before, SentOut
  <2>2. QED
    BY <1>2, <1>3, <2>1 DEF Out
<1>8. QED
  BY <1>2, <1>4, <1>6, <1>7 DEF OrderedAt, Before, Messages

\* The messages sent before stay in order, whatever their handlers do next.
LEMMA OrderedStays ==
  ASSUME TypeInv, Began, Ordered, NEW j \in Sends,
         \A d \in Calls : calls[d].pc # "idle" => calls'[d].batch = calls[d].batch,
         published' = published \/ \E c \in Calls : Adds(c, TRUE) \/ Adds(c, FALSE)
  PROVE  \E b : calls'[published'[j].env.call].batch = b /\ OrderedAt(j, b)'
<1>1. PICK d, b : d = published[j].env.call /\ b = calls[d].batch
  OBVIOUS
<1>2. d \in Calls /\ calls[d].pc # "idle" /\ OrderedAt(j, b)
  BY <1>1, SentType DEF Ordered, Began
<1>3. OrderedAt(j, b)' /\ published'[j] = published[j]
  BY <1>2, OrderedAtStays
<1>4. QED
  BY <1>1, <1>2, <1>3

LEMMA OrderedKept ==
  ASSUME OrderInv, NEW c \in Calls, StepOf(c)
  PROVE  Ordered'
<1>1. TypeInv /\ Began /\ Ordered
  BY DEF OrderInv
<1>2. published' = published \/ Adds(c, TRUE) \/ Adds(c, FALSE)
  BY <1>1, StepSends
<1>3. \A d \in Calls : calls[d].pc # "idle" => calls'[d].batch = calls[d].batch
  BY <1>1, BatchKept
<1>4. \A j \in Sends : \E b : calls'[published'[j].env.call].batch = b /\ OrderedAt(j, b)'
  BY <1>1, <1>2, <1>3, OrderedStays
<1>5. CASE published' = published
  <2>1. Sends' = Sends
    BY <1>5 DEF Sends
  <2>2. QED
    BY <1>4, <2>1, OrderedPrimed
<1>6. ASSUME NEW acked, Adds(c, acked)
      PROVE  Ordered'
  <2>1. PICK k, n : k = calls[c] /\ n = Len(published) + 1
    OBVIOUS
  <2>2. /\ calls[c].pc = "send" /\ published'[n].env = EnvelopeOf(c) /\ Sends' = Sends \cup {n}
    BY <1>6, <2>1 DEF Adds
  <2>3. EnvelopeOf(c).call = c /\ calls'[c].batch = k.batch
    BY <1>1, <1>3, <2>1, <2>2, EnvelopeType DEF Sending
  <2>4. CursorAt(c, k)
    BY <2>1 DEF OrderInv, Cursors
  <2>5. OrderedAt(n, k.batch)'
    BY <1>1, <1>6, <2>1, <2>4, OrderedAtNewest
  <2>6. \E b : calls'[published'[n].env.call].batch = b /\ OrderedAt(n, b)'
    BY <2>2, <2>3, <2>5
  <2>7. QED
    BY <1>4, <2>2, <2>6, OrderedPrimed
<1>7. QED
  BY <1>2, <1>5, <1>6

\* A restart fails what it finds at work; nothing else but the clock and the
\* number moves.
LEMMA OrderOverRestart ==
  ASSUME OrderInv, Restart
  PROVE  OrderInv'
<1>1. TypeInv /\ TypeInv' /\ published' = published /\ Sends' = Sends
  BY RestartFacts DEF OrderInv, Restart, Sends
<1>2. \A d \in Calls :
        \/ calls'[d] = calls[d] /\ calls[d].pc \in {"idle", "ok", "failed"}
        \/ calls'[d].pc = "failed" /\ calls'[d].batch = calls[d].batch
  BY <1>1, RestartFacts
<1>3. \A d, m : SentOut(d, m)' = SentOut(d, m)
  BY <1>1 DEF SentOut
<1>4. ASSUME NEW d \in Calls
      PROVE  \E k : calls'[d] = k /\ CursorAt(d, k)' /\ EndedAt(d, k)'
  <2>1. PICK k : k = calls'[d]
    OBVIOUS
  <2>2. k.pc \notin Active /\ (k.pc = "ok" => k = calls[d])
    BY <1>2, <2>1 DEF Active, Sending
  <2>3. k.pc = "ok" => EndedAt(d, k)
    BY <2>2 DEF OrderInv, Cursors
  <2>4. CursorAt(d, k)' /\ EndedAt(d, k)'
    BY <1>3, <2>2, <2>3 DEF CursorAt, EndedAt, Messages
  <2>5. QED
    BY <2>1, <2>4
<1>5. Cursors'
  BY <1>4, CursorsPrimed
<1>6. \A i \in Sends : published[i].env.call \in Calls /\ calls[published[i].env.call].pc # "idle"
  BY <1>1, SentType DEF OrderInv, Began
<1>7. \A d \in Calls : calls[d].pc # "idle" => calls'[d].pc # "idle" /\ calls'[d].batch = calls[d].batch
  BY <1>2
<1>8. Began'
  BY <1>1, <1>6, <1>7 DEF Began
<1>9. Ordered'
  BY <1>1, <1>7, OrderedStays, OrderedPrimed DEF OrderInv
<1>10. QED
  BY <1>1, <1>5, <1>8, <1>9 DEF OrderInv

\* Nothing happens.
LEMMA OrderOverNothing ==
  ASSUME OrderInv, UNCHANGED <<seq, calls, published>>, TypeInv'
  PROVE  OrderInv'
<1>1. TypeInv /\ Sends' = Sends
  BY DEF OrderInv, Sends
<1>2. ASSUME NEW d \in Calls
      PROVE  \E k : calls'[d] = k /\ CursorAt(d, k)' /\ EndedAt(d, k)'
  <2>1. PICK k : k = calls[d]
    OBVIOUS
  <2>2. CursorAt(d, k) /\ EndedAt(d, k)
    BY <2>1 DEF OrderInv, Cursors
  <2>3. QED
    BY <1>1, <2>1, <2>2, CursorStays
<1>3. Cursors'
  BY <1>2, CursorsPrimed
<1>4. Began'
  BY <1>1 DEF OrderInv, Began
<1>5. Ordered'
  BY <1>1, OrderedStays, OrderedPrimed DEF OrderInv
<1>6. QED
  BY <1>3, <1>4, <1>5 DEF OrderInv

LEMMA OrderStarts == Init => OrderInv
<1> SUFFICES ASSUME Init PROVE OrderInv
  OBVIOUS
<1>1. Sends = {} /\ \A c \in Calls : calls[c].pc = "idle"
  BY DEF Init, Sends, Idle
<1>2. QED
  BY <1>1, InitTypes DEF OrderInv, Began, Cursors, Ordered, CursorAt, EndedAt, Active, Sending

LEMMA OrderIsBatchInOrder ==
  ASSUME OrderInv
  PROVE  BatchInOrder
<1>1. TypeInv
  BY DEF OrderInv
<1>2. \A j \in Sends : OrderedAt(j, calls[published[j].env.call].batch)
  BY DEF OrderInv, Ordered
<1>3. \A c \in Calls : calls[c].pc = "ok" =>
        \A m \in Messages(calls[c].batch) : Out(c, m, Len(published))
  BY OutIsSentOut DEF OrderInv, Cursors, EndedAt
<1>4. QED
  BY <1>2, <1>3 DEF BatchInOrder, OrderedAt, Sends

LEMMA NextOrderInv == OrderInv /\ [Next]_vars => OrderInv'
<1> SUFFICES ASSUME OrderInv, [Next]_vars PROVE OrderInv'
  OBVIOUS
<1>1. TypeInv /\ TypeInv'
  BY NextKeepsTypes DEF OrderInv
<1>2. CASE vars' = vars
  <2>1. UNCHANGED <<seq, calls, published>>
    BY <1>2 DEF vars
  <2>2. QED
    BY <1>1, <2>1, OrderOverNothing
<1>3. CASE Restart
  BY <1>3, OrderOverRestart
<1>4. ASSUME NEW c \in Calls, StepOf(c)
      PROVE  OrderInv'
  <2>1. Began' /\ Cursors' /\ Ordered'
    BY <1>1, <1>4, BeganKept, CursorsKept, OrderedKept DEF OrderInv
  <2>2. QED
    BY <1>1, <2>1 DEF OrderInv
<1>5. QED
  BY <1>2, <1>3, <1>4, NextIs

\* A batch goes out once and in order, stops at the first message that failed,
\* and "ok" means that the broker has all of it (BatchInOrder).
THEOREM BatchesInOrder == Spec => []BatchInOrder
<1>1. OrderInv => BatchInOrder
  BY OrderIsBatchInOrder
<1>2. QED
  BY OrderStarts, NextOrderInv, <1>1, PTL DEF Spec

-----------------------------------------------------------------------------
\* A topic gets an event once.

\* A sequence without repetitions.
Distinct(s) == \A i, j \in 1 .. Len(s) : s[i] = s[j] => i = j

LEMMA ShortDistinct ==
  ASSUME NEW a, NEW b, a # b
  PROVE  Distinct(<<>>) /\ Distinct(<<a>>) /\ Distinct(<<a, b>>)
         /\ Distinct(<<a>> \o <<>>) /\ Distinct(<<a>> \o <<b>>)
<1>1. /\ Len(<<>>) = 0 /\ Len(<<a>>) = 1 /\ <<a>>[1] = a
      /\ Len(<<a, b>>) = 2 /\ <<a, b>>[1] = a /\ <<a, b>>[2] = b
  OBVIOUS
<1>2. <<a>> \o <<>> = <<a>> /\ <<a>> \o <<b>> = <<a, b>>
  <2> DEFINE S == {a, b}
  <2>1. /\ <<a>> \in Seq(S) /\ <<b>> \in Seq(S) /\ <<a, b>> \in Seq(S) /\ <<>> \in Seq(S)
        /\ Len(<<b>>) = 1 /\ <<b>>[1] = b
    OBVIOUS
  <2> HIDE DEF S
  <2>2. <<a>> \o <<>> = <<a>>
    BY <2>1, ConcatEmptySeq
  <2>3. /\ <<a>> \o <<b>> \in Seq(S) /\ Len(<<a>> \o <<b>>) = 2
        /\ (<<a>> \o <<b>>)[1] = a /\ (<<a>> \o <<b>>)[2] = b
    BY <1>1, <2>1, ConcatProperties
  <2>4. <<a>> \o <<b>> = <<a, b>>
    <3> DEFINE s == <<a>> \o <<b>>
               t == <<a, b>>
    <3>1. /\ s \in Seq(S) /\ t \in Seq(S) /\ Len(s) = 2 /\ Len(t) = 2
          /\ s[1] = t[1] /\ s[2] = t[2]
      BY <1>1, <2>1, <2>3
    <3> HIDE DEF s, t
    <3>2. \A i \in 1 .. Len(s) : s[i] = t[i]
      BY <3>1
    <3>3. s = t
      BY <3>1, <3>2, SeqEqual
    <3> QED
      BY <3>3 DEF s, t
  <2> QED
    BY <2>2, <2>4
<1>3. Distinct(<<>>) /\ Distinct(<<a>>) /\ Distinct(<<a, b>>)
  BY <1>1 DEF Distinct
<1> QED
  BY <1>2, <1>3

\* An event's topics differ from each other: the two kinds of topics that an
\* event can have are told apart by their first parts.
LEMMA TopicsDiffer ==
  ASSUME NEW e
  PROVE  Distinct(TopicsOf(e))
<1>1. /\ Distinct(<<>>) /\ \A a : Distinct(<<a>>)
      /\ \A a, b : a # b => Distinct(<<a, b>>) /\ Distinct(<<a>> \o <<>>) /\ Distinct(<<a>> \o <<b>>)
  <2>1. "token/new" # "meme/new"
    OBVIOUS
  <2>2. Distinct(<<>>)
    BY <2>1, ShortDistinct
  <2>3. ASSUME NEW a PROVE Distinct(<<a>>)
    <3>1. PICK b : a # b
      <4>1. a # "token/new" \/ a # "meme/new"
        OBVIOUS
      <4> QED
        BY <4>1
    <3> QED
      BY <3>1, ShortDistinct
  <2> QED
    BY <2>2, <2>3, ShortDistinct
<1>2. <<"token/new">> # <<"meme/new">>
  OBVIOUS
<1>3. ASSUME NEW a, NEW b PROVE <<"token_info", a, b>> # <<"token_statistic", a, b>>
  OBVIOUS
<1>4. <<>> \o <<>> = <<>>
  OBVIOUS
<1>5. ASSUME NEW f PROVE Distinct(resolveTopics(f))
  BY <1>1, <1>2, <1>3 DEF resolveTopics
<1> QED
  BY <1>1, <1>5 DEF TopicsOf

\* A message goes to one of the topics of the event that it is of.
TopicRight(e, batch) ==
  /\ e.at \in 1 .. Len(batch) /\ e.k \in 1 .. Len(TopicsOf(batch[e.at]))
  /\ e.topic = TopicsOf(batch[e.at])[e.k]

TopicsRight == \A i \in Sends : TopicRight(published[i].env, calls[published[i].env.call].batch)

LEMMA SentTopicRight ==
  ASSUME TypeInv, NEW c \in Calls, calls[c].pc \in Sending
  PROVE  TopicRight(EnvelopeOf(c), calls[c].batch)
<1>1. CursorOK(calls[c])
  BY DEF TypeInv
<1> QED
  BY <1>1, EnvelopeType DEF CursorOK, Active, TopicRight, TopicsAt

LEMMA TopicsRightKept ==
  ASSUME TypeInv, Began, TopicsRight, NEW c \in Calls, StepOf(c)
  PROVE  TopicsRight'
<1>1. \A i \in Sends : /\ published[i].env.call \in Calls
                       /\ calls'[published[i].env.call].batch = calls[published[i].env.call].batch
  BY SentType, BatchKept DEF Began
<1>2. \A i \in Sends : TopicRight(published[i].env, calls'[published[i].env.call].batch)
  BY <1>1 DEF TopicsRight
<1>3. \A e, b : TopicRight(e, b)' <=> TopicRight(e, b)
  BY DEF TopicRight
<1>4. CASE published' = published
  BY <1>2, <1>4 DEF TopicsRight, Sends, TopicRight
<1>5. ASSUME NEW acked, Adds(c, acked)
      PROVE  TopicsRight'
  <2>1. PICK e, n : e = EnvelopeOf(c) /\ n = Len(published) + 1
    OBVIOUS
  <2>2. /\ calls[c].pc = "send" /\ published'[n].env = e /\ Sends' = Sends \cup {n}
        /\ \A i \in Sends : published'[i] = published[i]
    BY <1>5, <2>1 DEF Adds
  <2>3. e.call = c /\ TopicRight(e, calls[c].batch) /\ calls'[c].batch = calls[c].batch
    BY <2>1, <2>2, EnvelopeType, SentTopicRight, BatchKept DEF Sending
  <2>4. TopicRight(published'[n].env, calls'[published'[n].env.call].batch)
    BY <2>2, <2>3
  <2>5. \A i \in Sends' : TopicRight(published'[i].env, calls'[published'[i].env.call].batch)
    BY <1>2, <2>2, <2>4
  <2> QED
    BY <2>5 DEF TopicsRight, TopicRight
<1> QED
  BY <1>4, <1>5, StepSends

\* A topic's subscribers see an event of a batch at most once.
OncePerTopic ==
  \A i, j \in 1 .. Len(published) :
    /\ published[i].env.call = published[j].env.call /\ published[i].env.at = published[j].env.at
    /\ published[i].env.topic = published[j].env.topic
    => i = j

\* However handlers interleave and whatever fails, a topic gets an event of a
\* batch at most once: an event's topics differ, and each of its messages is
\* sent once (resolveTopics, Publish).
THEOREM TopicsGetEventsOnce == Spec => []OncePerTopic
<1>1. OrderInv /\ TopicsRight => OncePerTopic
  <2> SUFFICES ASSUME OrderInv, TopicsRight, NEW i \in Sends, NEW j \in Sends, i < j,
                      published[i].env.call = published[j].env.call,
                      published[i].env.at = published[j].env.at,
                      published[i].env.topic = published[j].env.topic
               PROVE  FALSE
    <3>1. \A i, j \in Sends : i \in Nat /\ j \in Nat /\ (i < j \/ i = j \/ j < i)
      BY DEF OrderInv, TypeInv, TypeOK, Sends
    <3> QED
      BY <3>1 DEF OncePerTopic, Sends
  <2> DEFINE e == published[i].env
             f == published[j].env
             b == calls[f.call].batch
  <2>1. TopicRight(e, b) /\ TopicRight(f, b)
    BY DEF TopicsRight
  <2>2. e.k = f.k
    <3>1. Distinct(TopicsOf(b[f.at]))
      BY TopicsDiffer
    <3> QED
      BY <2>1, <3>1 DEF TopicRight, Distinct
  <2>3. Before(e, f)
    <3>1. OrderedAt(j, b) /\ i \in 1 .. j - 1
      BY DEF OrderInv, Ordered, Sends
    <3> QED
      BY <3>1 DEF OrderedAt
  <2>4. e.at \in Nat /\ e.k \in Nat
    BY SentType DEF OrderInv, Envelope
  <2> QED
    BY <2>2, <2>3, <2>4 DEF Before
<1>2. Init => TopicsRight
  BY DEF Init, TopicsRight, Sends
<1>3. OrderInv /\ TopicsRight /\ [Next]_vars => TopicsRight'
  <2> SUFFICES ASSUME OrderInv, TopicsRight, [Next]_vars PROVE TopicsRight'
    OBVIOUS
  <2>1. TypeInv /\ Began
    BY DEF OrderInv
  <2>2. CASE vars' = vars
    BY <2>2 DEF vars, TopicsRight, TopicRight, Sends
  <2>3. CASE Restart
    <3>1. published' = published /\ Sends' = Sends
          /\ \A d \in Calls : calls[d].pc # "idle" => calls'[d].batch = calls[d].batch
      BY <2>1, <2>3, RestartFacts DEF Restart, Sends
    <3>2. \A k \in Sends : published[k].env.call \in Calls /\ calls[published[k].env.call].pc # "idle"
      BY <2>1, SentType DEF Began
    <3> QED
      BY <3>1, <3>2 DEF TopicsRight, TopicRight
  <2>4. ASSUME NEW c \in Calls, StepOf(c) PROVE TopicsRight'
    BY <2>1, <2>4, TopicsRightKept
  <2> QED
    BY <2>2, <2>3, <2>4, NextIs
<1>4. OrderInv /\ [Next]_vars => OrderInv'
  BY NextOrderInv
<1> QED
  BY OrderStarts, <1>1, <1>2, <1>3, <1>4, PTL DEF Spec

-----------------------------------------------------------------------------
\* The rings show what was sent.

\* Ring r is ring and e, but for what it has no room for.
OneMore(ring, e, r) ==
  /\ \A i \in 1 .. Len(r) : r[i] = e \/ \E j \in 1 .. Len(ring) : r[i] = ring[j]
  /\ \/ Len(r) = MaxEvents
     \/ /\ Len(ring) # MaxEvents
        /\ \E i \in 1 .. Len(r) : r[i] = e
        /\ \A j \in 1 .. Len(ring) : \E i \in 1 .. Len(r) : r[i] = ring[j]
  /\ (/\ \A i, j \in 1 .. Len(ring) : ring[i] = ring[j] => i = j
      /\ \A i \in 1 .. Len(ring) : ring[i] # e)
     => \A i, j \in 1 .. Len(r) : r[i] = r[j] => i = j

LEMMA RingHolds ==
  ASSUME NEW S, NEW ring \in Seq(S), NEW e \in S, Len(ring) <= MaxEvents, NEW r, r = Ring(ring, e)
  PROVE  OneMore(ring, e, r)
<1>1. MaxEvents \in Nat /\ MaxEvents > 0 /\ Len(ring) \in Nat
  BY MaxEventsAssumption DEF MaxEventsAssumption
<1>2. PICK full : full = Append(ring, e)
  OBVIOUS
<1>3. /\ full \in Seq(S) /\ Len(full) = Len(ring) + 1 /\ full[Len(ring) + 1] = e
      /\ \A i \in 1 .. Len(ring) : full[i] = ring[i]
      /\ \A i \in 1 .. Len(full) : full[i] \in S
  BY <1>2, AppendProperties
<1>4. r = IF Len(full) > MaxEvents
          THEN SubSeq(full, Len(full) - MaxEvents + 1, Len(full)) ELSE full
  BY <1>2 DEF Ring
<1>5. CASE Len(full) > MaxEvents
  <2>1. PICK from : from = Len(full) - MaxEvents + 1
    OBVIOUS
  <2>2. /\ from \in Int /\ Len(full) \in Int /\ from = 2 /\ Len(ring) = MaxEvents
        /\ \A i \in from .. Len(full) : full[i] \in S
    BY <1>1, <1>3, <1>5, <2>1
  <2>3. r = SubSeq(full, from, Len(full))
    BY <1>4, <1>5, <2>1
  <2>4. Len(r) = MaxEvents /\ \A i \in 1 .. MaxEvents : r[i] = full[i + 1]
    <3>1. /\ Len(r) = IF from <= Len(full) THEN Len(full) - from + 1 ELSE 0
          /\ \A i \in 1 .. Len(full) - from + 1 : r[i] = full[from + i - 1]
      BY <2>2, <2>3, SubSeqProperties
    <3>2. QED
      BY <1>1, <1>3, <2>2, <3>1
  <2>5. \A i \in 1 .. MaxEvents : /\ i = MaxEvents => r[i] = e
                                  /\ i < MaxEvents => i + 1 \in 1 .. Len(ring) /\ r[i] = ring[i + 1]
    BY <1>1, <1>3, <2>2, <2>4
  <2>6. \A i \in 1 .. Len(r) : r[i] = e \/ \E j \in 1 .. Len(ring) : r[i] = ring[j]
    <3> SUFFICES ASSUME NEW i \in 1 .. Len(r), r[i] # e
                 PROVE  \E j \in 1 .. Len(ring) : r[i] = ring[j]
      OBVIOUS
    <3>1. i \in 1 .. MaxEvents /\ i # MaxEvents
      BY <2>4, <2>5
    <3>2. i + 1 \in 1 .. Len(ring) /\ r[i] = ring[i + 1]
      BY <1>1, <2>5, <3>1
    <3>3. QED
      BY <3>2
  <2>7. ASSUME \A i, j \in 1 .. Len(ring) : ring[i] = ring[j] => i = j,
               \A i \in 1 .. Len(ring) : ring[i] # e
        PROVE  \A i, j \in 1 .. Len(r) : r[i] = r[j] => i = j
    <3> SUFFICES ASSUME NEW i \in 1 .. MaxEvents, NEW j \in 1 .. MaxEvents, r[i] = r[j]
                 PROVE  i = j
      BY <2>4
    <3>1. i < MaxEvents => i + 1 \in 1 .. Len(ring) /\ r[i] = ring[i + 1] /\ r[i] # e
      BY <2>5, <2>7
    <3>2. j < MaxEvents => j + 1 \in 1 .. Len(ring) /\ r[j] = ring[j + 1] /\ r[j] # e
      BY <2>5, <2>7
    <3>3. (i = MaxEvents => r[i] = e) /\ (j = MaxEvents => r[j] = e)
      BY <2>5
    <3>4. CASE i < MaxEvents /\ j < MaxEvents
      <4>1. i + 1 = j + 1
        BY <2>7, <3>1, <3>2, <3>4
      <4>2. QED
        BY <1>1, <4>1
    <3>5. CASE ~ (i < MaxEvents /\ j < MaxEvents)
      BY <1>1, <3>1, <3>2, <3>3, <3>5
    <3>6. QED
      BY <3>4, <3>5
  <2>8. QED
    BY <2>4, <2>6, <2>7 DEF OneMore
<1>6. CASE ~ (Len(full) > MaxEvents)
  <2>1. /\ Len(r) = Len(ring) + 1 /\ Len(ring) # MaxEvents /\ r[Len(ring) + 1] = e
        /\ \A i \in 1 .. Len(ring) : r[i] = ring[i]
    BY <1>1, <1>3, <1>4, <1>6
  <2>2. QED
    BY <1>1, <2>1 DEF OneMore
<1>7. QED
  BY <1>5, <1>6

Shown(e) == \E i \in Sends : published[i].acked /\ published[i].env = e /\ e.life = life

InRing(t, e) == \E i \in 1 .. Len(remembered[t]) : remembered[t][i] = e

Pending(c, e) == calls[c].pc = "remember" /\ EnvelopeOf(c) = e

RingShown ==
  \A t \in Topics : \A i \in 1 .. Len(remembered[t]) :
    Shown(remembered[t][i]) /\ remembered[t][i].topic = t

RingOnce ==
  \A t \in Topics : \A i, j \in 1 .. Len(remembered[t]) : remembered[t][i] = remembered[t][j] => i = j

PendingShown ==
  \A c \in Calls : \A e \in Envelope : Pending(c, e) => Shown(e) /\ ~ InRing(e.topic, e)

NothingLost ==
  \A e \in Envelope : Shown(e) =>
    \/ Len(remembered[e.topic]) = MaxEvents
    \/ InRing(e.topic, e)
    \/ \E c \in Calls : Pending(c, e)

RecentInv == SeqInv /\ RingShown /\ RingOnce /\ PendingShown /\ NothingLost

LEMMA EnvelopeStays ==
  ASSUME NEW c \in Calls, NEW k, NEW l, k = calls[c], l = calls'[c], Keeps(k, l),
         l.seq = k.seq, life' = life
  PROVE  EnvelopeOf(c)' = EnvelopeOf(c)
BY DEF EnvelopeOf, TopicsAt, TopicsOf, Keeps

LEMMA PendingStays ==
  ASSUME NEW c \in Calls, calls'[c] = calls[c], life' = life, NEW e
  PROVE  Pending(c, e)' <=> Pending(c, e)
<1>1. EnvelopeOf(c)' = EnvelopeOf(c)
  BY EnvelopeStays DEF Keeps
<1>2. QED
  BY <1>1 DEF Pending

LEMMA InRingStays ==
  ASSUME NEW t, remembered'[t] = remembered[t], NEW e
  PROVE  InRing(t, e)' <=> InRing(t, e)
BY DEF InRing

\* Nothing acknowledged is sent, and no ring changes.
LEMMA RecentOverQuiet ==
  ASSUME RecentInv, SeqInv', remembered' = remembered,
         \A e : Shown(e)' <=> Shown(e), \A c \in Calls, e \in Envelope : Pending(c, e)' <=> Pending(c, e)
  PROVE  RecentInv'
<1>1. \A t, e : InRing(t, e)' <=> InRing(t, e)
  BY InRingStays
<1>2. RingShown' /\ RingOnce'
  BY DEF RecentInv, RingShown, RingOnce
<1>3. PendingShown' /\ NothingLost'
  BY <1>1 DEF RecentInv, PendingShown, NothingLost
<1>4. QED
  BY <1>2, <1>3 DEF RecentInv

\* An envelope is acknowledged: it is new, and its handler will remember it.
LEMMA RecentOverSend ==
  ASSUME RecentInv, SeqInv', NEW c \in Calls, SendAcked(c)
  PROVE  RecentInv'
<1>1. /\ TypeInv /\ GivenOnce /\ remembered' = remembered /\ life' = life
      /\ calls[c].pc = "send"
  BY DEF RecentInv, SeqInv, SendAcked
<1>2. PICK e : e = EnvelopeOf(c)
  OBVIOUS
<1>3. /\ e \in Envelope /\ e.topic \in Topics /\ e.life = life /\ e.seq = calls[c].seq
  BY <1>1, <1>2, EnvelopeType DEF Sending
<1>4. Adds(c, TRUE)
  BY <1>1, AppendAdds DEF SendAcked
<1>5. \A f : Shown(f)' <=> Shown(f) \/ f = e
  <2>1. PICK n : n = Len(published) + 1
    OBVIOUS
  <2>2. /\ Sends' = Sends \cup {n} /\ \A i \in Sends : published'[i] = published[i]
        /\ published'[n].env = e /\ published'[n].acked
    BY <1>2, <1>4, <2>1 DEF Adds
  <2>3. QED
    BY <1>1, <1>3, <2>2 DEF Shown
<1>6. ~ Shown(e)
  BY <1>1, <1>3 DEF Shown, GivenOnce
<1>7. ~ InRing(e.topic, e)
  BY <1>3, <1>6 DEF InRing, RecentInv, RingShown
<1>8. \A t, f : InRing(t, f)' <=> InRing(t, f)
  BY <1>1, InRingStays
<1>9. \A d \in Calls : \A f : Pending(d, f)' <=> Pending(d, f) \/ (d = c /\ f = e)
  <2>1. PICK k, l : k = calls[c] /\ l = calls'[c]
    OBVIOUS
  <2>2. /\ l.pc = "remember" /\ Keeps(k, l) /\ l.seq = k.seq
        /\ \A d \in Calls : d # c => calls'[d] = calls[d]
    BY <1>1, <2>1, SendAckedFacts DEF Moves
  <2>3. EnvelopeOf(c)' = e
    BY <1>1, <1>2, <2>1, <2>2, EnvelopeStays
  <2>4. \A f : ~ Pending(c, f) /\ (Pending(c, f)' <=> f = e)
    BY <1>1, <2>1, <2>2, <2>3 DEF Pending
  <2>5. \A d \in Calls : \A f : d # c => (Pending(d, f)' <=> Pending(d, f))
    BY <1>1, <2>2, PendingStays
  <2>6. QED
    BY <2>4, <2>5
<1>10. RingShown' /\ RingOnce'
  BY <1>1, <1>5 DEF RecentInv, RingShown, RingOnce
<1>11. PendingShown' /\ NothingLost'
  BY <1>1, <1>5, <1>7, <1>8, <1>9 DEF RecentInv, PendingShown, NothingLost
<1>12. QED
  BY <1>10, <1>11 DEF RecentInv

\* A handler remembers: its envelope moves into the ring, and what the ring drops
\* it has no room for.
LEMMA RecentOverRemember ==
  ASSUME RecentInv, SeqInv', NEW c \in Calls, Remember(c)
  PROVE  RecentInv'
<1>1. /\ TypeInv /\ published' = published /\ life' = life /\ calls[c].pc = "remember"
  BY DEF RecentInv, SeqInv, Remember
<1>2. PICK e : e = EnvelopeOf(c)
  OBVIOUS
<1>3. /\ e \in Envelope /\ e.topic \in Topics /\ e.call = c
  BY <1>1, <1>2, EnvelopeType DEF Sending
<1>4. PICK t, ring, r : t = e.topic /\ ring = remembered[t] /\ r = Ring(ring, e)
  OBVIOUS
<1>5. ring \in Seq(Envelope) /\ Len(ring) <= MaxEvents /\ t \in Topics
  BY <1>1, <1>3, <1>4 DEF TypeInv, TypeOK
<1>6. remembered'[t] = r /\ \A u \in Topics : u # t => remembered'[u] = remembered[u]
  <2>1. remembered' = [remembered EXCEPT ![t] = r]
    BY <1>1, <1>2, <1>4, RememberFacts
  <2>2. QED
    BY <1>1, <1>5, <2>1 DEF TypeInv, TypeOK
<1>7. Pending(c, e) /\ Shown(e) /\ \A i \in 1 .. Len(ring) : ring[i] # e
  BY <1>1, <1>2, <1>3, <1>4 DEF Pending, RecentInv, PendingShown, InRing
<1>8. \A f : Shown(f)' <=> Shown(f)
  BY <1>1 DEF Shown, Sends
<1>9. \A d \in Calls : \A f : Pending(d, f)' <=> Pending(d, f) /\ d # c
  <2>1. calls'[c].pc # "remember" /\ \A d \in Calls : d # c => calls'[d] = calls[d]
    BY <1>1, RememberFacts DEF Moves
  <2>2. \A d \in Calls : \A f : d # c => (Pending(d, f)' <=> Pending(d, f))
    BY <1>1, <2>1, PendingStays
  <2>3. \A f : ~ Pending(c, f)'
    BY <2>1 DEF Pending
  <2>4. QED
    BY <2>2, <2>3
<1>10. OneMore(ring, e, r)
  BY <1>3, <1>4, <1>5, RingHolds
<1>11. RingShown'
  <2>1. \A i \in 1 .. Len(r) : Shown(r[i]) /\ r[i].topic = t
    BY <1>4, <1>5, <1>7, <1>10 DEF RecentInv, RingShown, OneMore
  <2>2. ASSUME NEW u \in Topics, NEW i \in 1 .. Len(remembered'[u])
        PROVE  Shown(remembered'[u][i]) /\ remembered'[u][i].topic = u
    BY <1>6, <2>1, <2>2 DEF RecentInv, RingShown
  <2>3. ASSUME NEW u \in Topics, NEW i \in 1 .. Len(remembered'[u])
        PROVE  \E f : f = remembered'[u][i] /\ Shown(f)' /\ f.topic = u
    BY <1>8, <2>2, <2>3
  <2>4. QED
    BY <2>3 DEF RingShown, Shown
<1>12. RingOnce'
  <2>1. \A i, j \in 1 .. Len(r) : r[i] = r[j] => i = j
    BY <1>4, <1>5, <1>7, <1>10 DEF RecentInv, RingOnce, OneMore
  <2>2. QED
    BY <1>6, <2>1 DEF RecentInv, RingOnce
<1>13. ASSUME NEW f \in Envelope, f.topic \in Topics
       PROVE  /\ InRing(f.topic, f)' => InRing(f.topic, f) \/ f = e
              /\ InRing(f.topic, f) \/ f = e =>
                   InRing(f.topic, f)' \/ Len(remembered'[f.topic]) = MaxEvents
              /\ Len(remembered[f.topic]) = MaxEvents => Len(remembered'[f.topic]) = MaxEvents
  <2>1. CASE f.topic # t
    BY <1>4, <1>6, <1>13, <2>1, InRingStays
  <2>2. CASE f.topic = t
    <3>1. /\ InRing(t, f)  <=> \E i \in 1 .. Len(ring) : ring[i] = f
          /\ InRing(t, f)' <=> \E i \in 1 .. Len(r) : r[i] = f
      BY <1>4, <1>6 DEF InRing
    <3>2. /\ (\E i \in 1 .. Len(r) : r[i] = f) => (\E i \in 1 .. Len(ring) : ring[i] = f) \/ f = e
          /\ (\E i \in 1 .. Len(ring) : ring[i] = f) \/ f = e =>
               (\E i \in 1 .. Len(r) : r[i] = f) \/ Len(r) = MaxEvents
          /\ Len(ring) = MaxEvents => Len(r) = MaxEvents
      BY <1>10 DEF OneMore
    <3>3. remembered[f.topic] = ring /\ remembered'[f.topic] = r
      BY <1>4, <1>6, <2>2
    <3>4. QED
      BY <2>2, <3>1, <3>2, <3>3
  <2>3. QED
    BY <2>1, <2>2
<1>14. \A f \in Envelope : f.topic \in Topics
  BY DEF Envelope
<1>15. PendingShown'
  <2> SUFFICES ASSUME NEW d \in Calls, NEW f \in Envelope, Pending(d, f)'
               PROVE  Shown(f)' /\ ~ InRing(f.topic, f)'
    BY DEF PendingShown
  <2>1. Pending(d, f) /\ d # c
    BY <1>9
  <2>2. Shown(f) /\ ~ InRing(f.topic, f)
    BY <2>1 DEF RecentInv, PendingShown
  <2>3. f # e
    BY <1>1, <1>3, <2>1, EnvelopeType DEF Pending, Sending
  <2>4. QED
    BY <1>8, <1>13, <1>14, <2>2, <2>3
<1>16. NothingLost'
  <2> SUFFICES ASSUME NEW f \in Envelope, Shown(f)'
               PROVE  \/ Len(remembered'[f.topic]) = MaxEvents
                      \/ InRing(f.topic, f)' \/ \E d \in Calls : Pending(d, f)'
    BY DEF NothingLost
  <2>1. \/ Len(remembered[f.topic]) = MaxEvents
        \/ InRing(f.topic, f) \/ \E d \in Calls : Pending(d, f)
    BY <1>8 DEF RecentInv, NothingLost
  <2>2. Pending(c, f) => f = e
    BY <1>2 DEF Pending
  <2>3. QED
    BY <1>9, <1>13, <1>14, <2>1, <2>2
<1>17. QED
  BY <1>11, <1>12, <1>15, <1>16 DEF RecentInv

\* The steps that neither send with success nor remember.
LEMMA RecentOverOthers ==
  ASSUME RecentInv, SeqInv', NEW c \in Calls, StepOf(c), ~ SendAcked(c), ~ Remember(c)
  PROVE  RecentInv'
<1>1. TypeInv
  BY DEF RecentInv, SeqInv
<1>2. remembered' = remembered /\ calls[c].pc # "remember"
  BY DEF StepOf, BeginPublish, Resolve, NextEnvelope, SendFails
<1>3. published' = published \/ Adds(c, FALSE)
  <2>1. CASE SendFails(c)
    BY <1>1, <2>1, AppendAdds DEF SendFails
  <2>2. CASE ~ SendFails(c)
    BY <2>2 DEF StepOf, BeginPublish, Resolve, NextEnvelope
  <2>3. QED
    BY <2>1, <2>2
<1>4. calls'[c].pc # "remember"
  <2>1. CASE \E b \in Batches : BeginPublish(c, b)
    BY <1>1, <2>1, BeginFacts DEF Moves
  <2>2. CASE Resolve(c)
    BY <1>1, <2>2, ResolveFacts DEF Moves
  <2>3. CASE NextEnvelope(c)
    BY <1>1, <2>3, NextEnvelopeFacts DEF Moves
  <2>4. CASE SendFails(c)
    BY <1>1, <2>4, SendFailsFacts DEF Moves
  <2>5. QED
    BY <2>1, <2>2, <2>3, <2>4 DEF StepOf
<1>5. life' = life /\ \A d \in Calls : d # c => calls'[d] = calls[d]
  BY <1>1, StepSends
<1>6. \A e : Shown(e)' <=> Shown(e)
  <2>1. CASE published' = published
    BY <1>5, <2>1 DEF Shown, Sends
  <2>2. CASE Adds(c, FALSE)
    BY <1>5, <2>2 DEF Shown, Adds
  <2>3. QED
    BY <1>3, <2>1, <2>2
<1>7. \A d \in Calls, e \in Envelope : Pending(d, e)' <=> Pending(d, e)
  <2>1. \A d \in Calls : \A e : d # c => (Pending(d, e)' <=> Pending(d, e))
    BY <1>5, PendingStays
  <2>2. \A e : ~ Pending(c, e) /\ ~ Pending(c, e)'
    BY <1>2, <1>4 DEF Pending
  <2>3. QED
    BY <2>1, <2>2
<1>8. QED
  BY <1>2, <1>6, <1>7, RecentOverQuiet

\* What was sent before a restart was sent in another life.
LEMMA RecentOverRestart ==
  ASSUME RecentInv, SeqInv', Restart
  PROVE  RecentInv'
<1>1. TypeInv /\ SentBefore /\ life \in Nat
  BY DEF RecentInv, SeqInv, TypeInv, TypeOK
<1>2. /\ published' = published /\ life' = life + 1
      /\ \A t \in Topics : remembered'[t] = <<>>
  BY DEF Restart
<1>3. \A e : ~ Shown(e)'
  <2>1. \A i \in Sends : published[i].env.life \in Nat /\ published[i].env.life <= life
    BY <1>1, SentType DEF SentBefore
  <2>2. QED
    BY <1>1, <1>2, <2>1 DEF Shown, Sends
<1>4. \A c \in Calls : \A e : ~ Pending(c, e)'
  BY <1>1, RestartFacts DEF Pending
<1>5. RingShown' /\ RingOnce'
  BY <1>2 DEF RingShown, RingOnce
<1>6. PendingShown' /\ NothingLost'
  BY <1>3, <1>4 DEF PendingShown, NothingLost
<1>7. QED
  BY <1>5, <1>6 DEF RecentInv

\* Counting what a ring shows.
LEMMA CountOnce ==
  ASSUME NEW n \in Nat, NEW S, NEW s, S = {s[i] : i \in 1 .. n},
         \A i, j \in 1 .. n : s[i] = s[j] => i = j
  PROVE  IsFiniteSet(S) /\ Cardinality(S) = n
<1> DEFINE D == 1 .. n
           f == [i \in D |-> s[i]]
<1>1. IsFiniteSet(D) /\ Cardinality(D) = n
  BY FS_Interval
<1>2. f \in Surjection(D, S) /\ f \in Injection(D, S)
  BY DEF Surjection, Injection, IsInjective
<1> HIDE DEF D, f
<1>3. QED
  BY <1>1, <1>2, FS_Surjection

LEMMA FiniteSent ==
  ASSUME TypeInv, NEW J \in SUBSET Sends, NEW S, S = {published[i].env : i \in J}
  PROVE  IsFiniteSet(S)
<1> DEFINE f == [i \in J |-> published[i].env]
<1>1. IsFiniteSet(J)
  <2>1. Len(published) \in Int
    BY DEF TypeInv, TypeOK
  <2>2. IsFiniteSet(Sends)
    BY <2>1, FS_Interval DEF Sends
  <2>3. QED
    BY <2>2, FS_Subset
<1>2. f \in Surjection(J, S)
  BY DEF Surjection
<1> HIDE DEF f
<1>3. QED
  BY <1>1, <1>2, FS_Surjection

\* What Recent and Topics answer: nothing but what this life sent with success,
\* and all of it that the ring has room for (RecentIsComplete).
LEMMA RecentIsRight ==
  ASSUME RecentInv
  PROVE  RecentIsComplete
<1>1. TypeInv /\ MaxEvents \in Nat
  BY MaxEventsAssumption DEF RecentInv, SeqInv, MaxEventsAssumption
<1> SUFFICES ASSUME NEW t \in Topics
             PROVE
    LET kept == {remembered[t][i] : i \in DOMAIN remembered[t]}
        sent == {published[i].env : i \in
                   {j \in DOMAIN published : /\ published[j].acked
                                             /\ published[j].env.topic = t
                                             /\ published[j].env.life = life}}
    IN /\ kept \subseteq sent
       /\ \/ \E c \in Calls : calls[c].pc = "remember" /\ EnvelopeOf(c).topic = t
          \/ Cardinality(sent) <= MaxEvents /\ kept = sent
          \/ Cardinality(sent) > MaxEvents  /\ Cardinality(kept) = MaxEvents
  BY DEF RecentIsComplete
<1> DEFINE J == {j \in DOMAIN published : /\ published[j].acked
                                          /\ published[j].env.topic = t
                                          /\ published[j].env.life = life}
           kept == {remembered[t][i] : i \in DOMAIN remembered[t]}
           sent == {published[i].env : i \in J}
           n == Len(remembered[t])
<1>2. /\ DOMAIN remembered[t] = 1 .. n /\ DOMAIN published = Sends /\ n \in Nat
      /\ n <= MaxEvents
  BY <1>1 DEF TypeInv, TypeOK, Sends
<1>3. kept = {remembered[t][i] : i \in 1 .. n}
  BY <1>2
<1>4. IsFiniteSet(kept) /\ Cardinality(kept) = n
  <2>1. \A i, j \in 1 .. n : remembered[t][i] = remembered[t][j] => i = j
    BY DEF RecentInv, RingOnce
  <2>2. PICK s : s = remembered[t]
    OBVIOUS
  <2>3. kept = {s[i] : i \in 1 .. n} /\ \A i, j \in 1 .. n : s[i] = s[j] => i = j
    BY <1>3, <2>1, <2>2
  <2> HIDE DEF n, kept
  <2>4. QED
    BY <1>2, <2>3, CountOnce
<1>5. J \in SUBSET Sends /\ IsFiniteSet(sent)
  <2>1. J \in SUBSET Sends
    BY <1>2
  <2> HIDE DEF J
  <2>2. QED
    BY <1>1, <2>1, FiniteSent
<1>6. \A e : e \in sent <=> Shown(e) /\ e.topic = t
  <2>1. \A i : i \in J <=> /\ i \in Sends /\ published[i].acked
                           /\ published[i].env.topic = t /\ published[i].env.life = life
    BY <1>2
  <2> HIDE DEF J
  <2>2. QED
    BY <2>1 DEF Shown
<1>7. \A e : e \in kept <=> InRing(t, e)
  BY <1>3 DEF InRing
<1>8. kept \subseteq sent
  BY <1>6, <1>7 DEF InRing, RecentInv, RingShown
<1>9. ASSUME \A c \in Calls : ~ (calls[c].pc = "remember" /\ EnvelopeOf(c).topic = t),
             n # MaxEvents
      PROVE  sent \subseteq kept
  <2> SUFFICES ASSUME NEW e \in sent PROVE e \in kept
    OBVIOUS
  <2>1. Shown(e) /\ e.topic = t
    BY <1>6
  <2>2. e \in Envelope
    BY <1>1, <2>1, SentType DEF Shown
  <2>3. QED
    BY <1>7, <1>9, <2>1, <2>2 DEF RecentInv, NothingLost, Pending
<1> HIDE DEF kept, sent, J, n
<1>10. Cardinality(sent) \in Nat /\ n <= Cardinality(sent)
       /\ (Cardinality(sent) = n => kept = sent)
  BY <1>4, <1>5, <1>8, FS_CardinalityType, FS_Subset
<1>11. \/ \E c \in Calls : calls[c].pc = "remember" /\ EnvelopeOf(c).topic = t
       \/ Cardinality(sent) <= MaxEvents /\ kept = sent
       \/ Cardinality(sent) > MaxEvents  /\ Cardinality(kept) = MaxEvents
  <2>1. CASE n = MaxEvents
    BY <1>1, <1>4, <1>10, <2>1
  <2>2. CASE n # MaxEvents
    <3>1. CASE \E c \in Calls : calls[c].pc = "remember" /\ EnvelopeOf(c).topic = t
      BY <3>1
    <3>2. CASE kept = sent
      BY <1>2, <1>4, <3>2
    <3>3. QED
      BY <1>8, <1>9, <2>2, <3>1, <3>2
  <2>3. QED
    BY <2>1, <2>2
<1>12. QED
  BY <1>8, <1>11 DEF kept, sent, J

\* A topic's ring is true and, but for handlers that have yet to remember,
\* complete (RecentIsComplete).
THEOREM RecentComplete == Spec => []RecentIsComplete
<1>1. Init => RecentInv
  <2> SUFFICES ASSUME Init PROVE RecentInv
    OBVIOUS
  <2>1. Sends = {} /\ (\A c \in Calls : calls[c].pc = "idle") /\ \A t \in Topics : remembered[t] = <<>>
    BY DEF Init, Sends, Idle
  <2>2. SeqInv
    BY SeqStarts
  <2>3. QED
    BY <2>1, <2>2 DEF RecentInv, RingShown, RingOnce, PendingShown, NothingLost, Shown, Pending
<1>2. RecentInv /\ [Next]_vars => RecentInv'
  <2> SUFFICES ASSUME RecentInv, [Next]_vars PROVE RecentInv'
    OBVIOUS
  <2>1. SeqInv'
    BY SeqInvStep DEF RecentInv
  <2>2. CASE vars' = vars
    <3>1. UNCHANGED <<calls, published, remembered, life>>
      BY <2>2 DEF vars
    <3>2. \A e : Shown(e)' <=> Shown(e)
      BY <3>1 DEF Shown, Sends
    <3>3. \A c \in Calls, e \in Envelope : Pending(c, e)' <=> Pending(c, e)
      BY <3>1, PendingStays
    <3>4. QED
      BY <2>1, <3>1, <3>2, <3>3, RecentOverQuiet
  <2>3. ASSUME NEW c \in Calls, StepOf(c)
        PROVE  RecentInv'
    BY <2>1, <2>3, RecentOverSend, RecentOverRemember, RecentOverOthers
  <2>4. QED
    BY <2>1, <2>2, <2>3, NextIs, RecentOverRestart
<1>3. RecentInv => RecentIsComplete
  BY RecentIsRight
<1>4. QED
  BY <1>1, <1>2, <1>3, PTL DEF Spec

-----------------------------------------------------------------------------
\* LiveState.

\* Where the goroutine is in its setup.
StepOK ==
  /\ bridge.pc = "dial" => bridge.step = 1
  /\ bridge.pc = "setup" => bridge.step \in DOMAIN Steps
  /\ bridge.pc = "save" => bridge.step \in 2 .. Len(Steps)
  /\ bridge.pc \in {"read", "publish", "append"} => bridge.step = Len(Steps) + 1

\* The subscriptions of a connection are asked for from the first step of the
\* setup to its end, and none is in effect before.
SubscriptionOK ==
  /\ conn.asked <=> conn.open /\ bridge.step > 1
  /\ conn.subscribed # {} => conn.asked

\* Nobody reports a fill that did not happen.
FillsHappened ==
  /\ stored \cup announced \cup SetOf(bridge.fills) \subseteq SetOf(executed)
  /\ \A i \in DOMAIN conn.inbox :
       conn.inbox[i].channel = "userFills" => SetOf(conn.inbox[i].fills) \subseteq SetOf(executed)

\* The newest version of k is on its way.
OnItsWay(k) ==
  \E i \in DOMAIN conn.inbox : conn.inbox[i].channel = k /\ conn.inbox[i].version = version[k]

\* An older version is followed by the newest one.
NewestLast ==
  \A i \in DOMAIN conn.inbox : conn.inbox[i].channel \in Kinds =>
    /\ conn.inbox[i].channel \in conn.subscribed
    /\ \E j \in i .. Len(conn.inbox) :
         /\ conn.inbox[j].channel = conn.inbox[i].channel
         /\ conn.inbox[j].version = version[conn.inbox[i].channel]

\* The query of snapshot k has been answered and not saved, or saved.
AskedFor(k) == bridge.pc = "save" /\ Steps[bridge.step] = k

Reconciled(k) == \E i \in 1 .. bridge.step - 1 : Steps[i] = k

\* A newer version of k is reported, or is not and on record as missed.
Corrected(k) == OnItsWay(k) \/ k \in missed

\* The answer of a query is the newest version or is followed by it.
AnswerCorrected ==
  \A k \in Kinds : AskedFor(k) => bridge.version = version[k] \/ Corrected(k)

\* So is what a reconciled snapshot shows, but for a late handler.
SnapshotsFollow ==
  \A k \in Kinds : Reconciled(k) => snapshots[k] = version[k] \/ k \in late \/ Corrected(k)

InMessage(f) ==
  \E i \in DOMAIN conn.inbox : /\ conn.inbox[i].channel = "userFills"
                               /\ f \in SetOf(conn.inbox[i].fills)

ToPublish(f) ==
  bridge.pc = "publish" /\ \E i \in DOMAIN bridge.fills : i >= bridge.next /\ bridge.fills[i] = f

ToStore(f) == bridge.pc \in {"publish", "append"} /\ f \in SetOf(bridge.fills)

\* The reconciled fills, not stored yet.
ToSave(f) ==
  bridge.pc = "save" /\ Steps[bridge.step] = "fills" /\ f \in SetOf(bridge.fills)

FillsFollow ==
  \A f \in due : /\ f \in announced \/ InMessage(f) \/ ToPublish(f) \/ ToSave(f)
                 /\ f \in stored \/ InMessage(f) \/ ToStore(f) \/ ToSave(f)

-----------------------------------------------------------------------------
LEMMA InboundFields ==
  ASSUME NEW m \in Message
  PROVE  /\ m.channel \in Kinds \cup {"userFills"}
         /\ m.channel \in Kinds => m.version \in Nat
         /\ m.channel = "userFills" => m.fills \in Seq(Fills)
BY DEF Message, Kinds

LEMMA StepsFields ==
  /\ Len(Steps) = 4 /\ DOMAIN Steps = 1 .. 4
  /\ Steps[1] = "subscribe" /\ Steps[2] = "openOrders" /\ Steps[3] = "account" /\ Steps[4] = "fills"
BY DEF Steps

LEMMA LatestFills ==
  ASSUME NEW n \in Nat, NEW s \in Seq(Fills)
  PROVE  Latest(n, s) \in Seq(Fills) /\ SetOf(Latest(n, s)) \subseteq SetOf(s)
<1> DEFINE m == IF Len(s) > n THEN Len(s) - n + 1 ELSE 1
<1>1. m \in 1 .. Len(s) + 1
  BY LenProperties
<1>2. \A i \in m .. Len(s) : s[i] \in Fills
  BY <1>1, ElementOfSeq
<1>3. Latest(n, s) = SubSeq(s, m, Len(s))
  BY DEF Latest
<1> HIDE DEF m
<1>4. Len(s) \in m - 1 .. Len(s)
  BY <1>1, LenProperties
<1>5. /\ SubSeq(s, m, Len(s)) \in Seq(Fills)
      /\ \A i \in DOMAIN SubSeq(s, m, Len(s)) :
           SubSeq(s, m, Len(s))[i] \in SetOf(s)
  <2>1. /\ SubSeq(s, m, Len(s)) \in Seq(Fills)
        /\ Len(SubSeq(s, m, Len(s))) = Len(s) - m + 1
        /\ \A i \in 1 .. Len(s) - m + 1 : SubSeq(s, m, Len(s))[i] = s[m + i - 1]
    BY <1>1, <1>2, <1>4, SubSeqProperties, LenProperties
  <2>2. QED
    BY <2>1, <1>1, LenProperties DEF SetOf
<1>6. QED
  BY <1>3, <1>5 DEF SetOf

LEMMA Prefixed ==
  ASSUME NEW s \in Seq(Fills), NEW p \in Prefixes(s)
  PROVE  p \subseteq SetOf(s) /\ p \subseteq Fills
<1>1. PICK n \in 0 .. Len(s) : p = SetOf(SubSeq(s, 1, n))
  BY DEF Prefixes
<1>2. /\ Len(SubSeq(s, 1, n)) = n
      /\ \A i \in 1 .. n : SubSeq(s, 1, n)[i] = s[i]
      /\ SubSeq(s, 1, n) \in Seq(Fills)
  BY <1>1, LenProperties, ElementOfSeq, SubSeqProperties
<1>3. QED
  BY <1>1, <1>2, LenProperties, ElementOfSeq DEF SetOf

LEMMA SetOfFills ==
  ASSUME NEW s \in Seq(Fills)
  PROVE  SetOf(s) \subseteq Fills
BY ElementOfSeq, LenProperties DEF SetOf

-----------------------------------------------------------------------------
\* Types.

Connections ==
  [open: BOOLEAN, asked: BOOLEAN, subscribed: SUBSET Channels, inbox: Seq(Message)]

\* Nothing but the inbox changes.
ConnStays ==
  conn'.open = conn.open /\ conn'.asked = conn.asked /\ conn'.subscribed = conn.subscribed

Places == [pc: {"dial", "setup", "save", "read", "publish", "append"}, step: 1 .. 5,
           version: Nat, fills: Seq(Fills), next: Nat]

PlaceInv == LiveTypeOK /\ StepOK /\ SubscriptionOK

LEMMA PlaceFields ==
  ASSUME PlaceInv
  PROVE  /\ version \in [Kinds -> Nat] /\ executed \in Seq(Fills)
         /\ conn = [open |-> conn.open, asked |-> conn.asked, subscribed |-> conn.subscribed,
                    inbox |-> conn.inbox]
         /\ conn.open \in BOOLEAN /\ conn.asked \in BOOLEAN /\ conn.subscribed \subseteq Channels
         /\ conn.inbox \in Seq(Message)
         /\ bridge = [pc |-> bridge.pc, step |-> bridge.step, version |-> bridge.version,
                      fills |-> bridge.fills, next |-> bridge.next]
         /\ bridge.pc \in {"dial", "setup", "save", "read", "publish", "append"}
         /\ bridge.step \in 1 .. 5 /\ bridge.version \in Nat /\ bridge.fills \in Seq(Fills)
         /\ bridge.next \in Nat
         /\ snapshots \in [Kinds -> Nat] /\ stored \subseteq Fills /\ announced \subseteq Fills
         /\ failures \in Nat /\ drops \in Nat /\ hurt \in BOOLEAN /\ late \subseteq Kinds
         /\ missed \subseteq Kinds /\ due \subseteq Fills
BY BoundsAssumption DEF PlaceInv, LiveTypeOK, BoundsAssumption

LEMMA PlaceSets ==
  ASSUME PlaceInv
  PROVE  conn \in Connections /\ bridge \in Places
BY DEF PlaceInv, LiveTypeOK, Connections, Places

LEMMA FailureBound ==
  ASSUME PlaceInv, Failure \/ ReadFailure \/ NoFailure
  PROVE  failures' \in 0 .. MaxFailures /\ hurt' \in BOOLEAN
<1>1. failures \in 0 .. MaxFailures /\ hurt \in BOOLEAN /\ MaxFailures \in Nat
  BY BoundsAssumption DEF PlaceInv, LiveTypeOK, BoundsAssumption
<1>2. failures' \in 0 .. MaxFailures
  BY <1>1 DEF Failure, ReadFailure, NoFailure
<1>3. hurt' \in BOOLEAN
  BY <1>1, Zenon DEF Failure, ReadFailure, NoFailure
<1>4. QED
  BY <1>2, <1>3

LEMMA StepOnFields ==
  ASSUME PlaceInv, bridge.pc \in {"setup", "save"}
  PROVE  /\ StepOn \in Places /\ StepOn.step = bridge.step + 1
         /\ StepOn.pc \in {"setup", "read"} /\ (StepOn.pc = "read" <=> bridge.step = 4)
         /\ bridge.step \in 1 .. 4 /\ StepOn.step \in 2 .. 5
         /\ StepOn.version = bridge.version /\ StepOn.fills = bridge.fills
<1>1. bridge \in Places /\ bridge.step \in 1 .. 4
  BY StepsFields, PlaceSets DEF PlaceInv, StepOK
<1>2. StepOn = [pc |-> IF bridge.step = 4 THEN "read" ELSE "setup", step |-> bridge.step + 1,
                version |-> bridge.version, fills |-> bridge.fills, next |-> bridge.next]
  <2>1. Len(Steps) = 4
    BY StepsFields
  <2>2. bridge = [pc |-> bridge.pc, step |-> bridge.step, version |-> bridge.version,
                  fills |-> bridge.fills, next |-> bridge.next]
    BY <1>1 DEF Places
  <2> DEFINE pc == IF bridge.step = 4 THEN "read" ELSE "setup"
  <2>3. StepOn = [bridge EXCEPT !.step = bridge.step + 1, !.pc = pc]
    BY <2>1 DEF StepOn
  <2> HIDE DEF pc
  <2>4. StepOn = [pc |-> pc, step |-> bridge.step + 1, version |-> bridge.version,
                  fills |-> bridge.fills, next |-> bridge.next]
    BY <2>2, <2>3
  <2>5. QED
    BY <2>4 DEF pc
<1>3. /\ StepOn.step = bridge.step + 1 /\ StepOn.version = bridge.version
      /\ StepOn.fills = bridge.fills /\ StepOn.next = bridge.next
      /\ StepOn.pc = IF bridge.step = 4 THEN "read" ELSE "setup"
  BY <1>2
<1>4. StepOn \in Places
  BY <1>1, <1>2 DEF Places
<1>5. QED
  BY <1>1, <1>3, <1>4

LEMMA PushKeeps ==
  ASSUME PlaceInv, NEW m \in Message, Push(m)
  PROVE  /\ conn' \in Connections
         /\ ConnStays
         /\ m.channel \in conn.subscribed => conn'.inbox = Append(conn.inbox, m)
         /\ m.channel \notin conn.subscribed => conn'.inbox = conn.inbox
<1>1. /\ conn \in Connections
      /\ Append(conn.inbox, m) \in Seq(Message)
  BY AppendProperties DEF PlaceInv, LiveTypeOK, Connections
<1>2. QED
  BY <1>1 DEF Push, Connections, ConnStays

LEMMA NewMessages ==
  /\ \A k \in Kinds, n \in Nat : [channel |-> k, version |-> n] \in Message
  /\ \A s \in Seq(Fills) : [channel |-> "userFills", fills |-> s] \in Message
BY DEF Message

LEMMA ReceivedInbox ==
  ASSUME PlaceInv, conn.inbox # <<>>, conn' = Received
  PROVE  /\ conn' \in Connections
         /\ ConnStays
         /\ Head(conn.inbox) \in Message
         /\ Len(conn.inbox) \in Nat \ {0} /\ DOMAIN conn.inbox = 1 .. Len(conn.inbox)
         /\ DOMAIN conn'.inbox = 1 .. Len(conn.inbox) - 1
         /\ Len(conn'.inbox) = Len(conn.inbox) - 1
         /\ conn.inbox[1] = Head(conn.inbox)
         /\ \A i \in 1 .. Len(conn.inbox) - 1 : conn'.inbox[i] = conn.inbox[i + 1]
<1>1. /\ conn \in Connections
      /\ Tail(conn.inbox) \in Seq(Message) /\ Head(conn.inbox) \in Message
      /\ Len(Tail(conn.inbox)) = Len(conn.inbox) - 1
      /\ \A i \in 1 .. Len(Tail(conn.inbox)) : Tail(conn.inbox)[i] = conn.inbox[i + 1]
      /\ Len(conn.inbox) \in Nat \ {0} /\ DOMAIN conn.inbox = 1 .. Len(conn.inbox)
      /\ DOMAIN Tail(conn.inbox) = 1 .. Len(Tail(conn.inbox))
  BY HeadTailProperties, LenProperties, EmptySeq, PlaceFields DEF PlaceInv, LiveTypeOK, Connections
<1>2. conn'.inbox = Tail(conn.inbox) /\ ConnStays
  BY <1>1 DEF Received, Connections, ConnStays
<1>3. conn' \in Connections
  BY <1>1 DEF Received, Connections
<1>4. QED
  BY <1>1, <1>2, <1>3


\* What is left of a step's types once the connection, the goroutine's place and
\* the counters have theirs.
PlaceRest ==
  /\ version \in [Kinds -> Nat] /\ executed \in Seq(Fills)
  /\ snapshots \in [Kinds -> Nat] /\ stored \subseteq Fills /\ announced \subseteq Fills
  /\ reads \in [Handlers -> [pc: {"idle", "query", "save", "done"}, kind: Kinds,
                             version: Nat, answer: Answers]]
  /\ failures \in 0 .. MaxFailures /\ drops \in 0 .. MaxDrops
  /\ hurt \in BOOLEAN /\ late \subseteq Kinds /\ missed \subseteq Kinds /\ due \subseteq Fills

PlaceIn ==
  /\ bridge.pc = "publish" => bridge.next \in DOMAIN bridge.fills
  /\ StepOK /\ SubscriptionOK

LEMMA PlaceParts ==
  PlaceInv <=> PlaceRest /\ PlaceIn /\ conn \in Connections /\ bridge \in Places
BY DEF PlaceInv, LiveTypeOK, PlaceRest, PlaceIn, Connections, Places

LEMMA PlacePartsNext ==
  PlaceRest' /\ PlaceIn' /\ conn' \in Connections /\ bridge' \in Places => PlaceInv'
BY DEF PlaceInv, LiveTypeOK, PlaceRest, PlaceIn, Connections, Places

LEMMA PlaceStays ==
  ASSUME PlaceInv, UNCHANGED bridge, conn' \in Connections, ConnStays
  PROVE  PlaceIn' /\ bridge' \in Places
BY PlaceParts DEF PlaceIn, StepOK, SubscriptionOK, ConnStays

LEMMA Redialing ==
  ASSUME conn' = Closed, bridge' = Dialing
  PROVE  PlaceIn' /\ conn' \in Connections /\ bridge' \in Places
BY StepsFields, EmptySeq DEF PlaceIn, StepOK, SubscriptionOK, Dialing, Closed, Places, Connections

LEMMA SteppedOn ==
  ASSUME PlaceInv, UNCHANGED conn, bridge.pc = "save" \/ (bridge.pc = "setup" /\ bridge.step > 1),
         \/ bridge' = StepOn
         \/ bridge' = [StepOn EXCEPT !.version = 0]
         \/ bridge' = [StepOn EXCEPT !.fills = <<>>]
  PROVE  PlaceIn' /\ conn' \in Connections /\ bridge' \in Places
<1>0. PlaceIn /\ conn \in Connections /\ bridge \in Places
  BY PlaceParts
<1>1. /\ StepOn \in Places /\ StepOn.step = bridge.step + 1 /\ StepOn.pc \in {"setup", "read"}
      /\ StepOn.pc = "read" <=> bridge.step = 4
      /\ bridge.step \in 2 .. 4
  BY <1>0, StepOnFields, StepsFields DEF PlaceIn, StepOK
<1>2. /\ bridge' \in Places /\ bridge'.step = bridge.step + 1 /\ bridge'.pc \in {"setup", "read"}
      /\ bridge'.pc = "read" <=> bridge.step = 4
  <2> DEFINE b == StepOn
  <2>1. b \in Places /\ <<>> \in Seq(Fills) /\ b = StepOn
    BY <1>1, EmptySeq
  <2>2. bridge' \in {b, [b EXCEPT !.version = 0], [b EXCEPT !.fills = <<>>]}
    BY <2>1
  <2> HIDE DEF b
  <2>3. bridge' \in Places /\ bridge'.step = b.step /\ bridge'.pc = b.pc
    <3>1. /\ b.pc \in {"dial", "setup", "save", "read", "publish", "append"} /\ b.step \in 1 .. 5
          /\ b.version \in Nat /\ b.fills \in Seq(Fills) /\ b.next \in Nat
      BY <2>1 DEF Places
    <3>2. PICK n \in Nat, s \in Seq(Fills) :
            bridge' = [pc |-> b.pc, step |-> b.step, version |-> n, fills |-> s, next |-> b.next]
      <4>1. b = [pc |-> b.pc, step |-> b.step, version |-> b.version, fills |-> b.fills,
                 next |-> b.next]
        BY <2>1 DEF Places
      <4>2. CASE bridge' = b
        BY <3>1, <4>1, <4>2
      <4>3. CASE bridge' = [b EXCEPT !.version = 0]
        <5>1. bridge' = [pc |-> b.pc, step |-> b.step, version |-> 0, fills |-> b.fills,
                         next |-> b.next]
          BY <4>1, <4>3
        <5>2. QED
          BY <3>1, <5>1
      <4>4. CASE bridge' = [b EXCEPT !.fills = <<>>]
        <5>1. bridge' = [pc |-> b.pc, step |-> b.step, version |-> b.version, fills |-> <<>>,
                         next |-> b.next]
          BY <4>1, <4>4
        <5>2. QED
          BY <2>1, <3>1, <5>1
      <4>5. QED
        BY <2>2, <4>2, <4>3, <4>4
    <3>3. QED
      BY <3>1, <3>2 DEF Places
  <2>4. QED
    BY <1>1, <2>1, <2>3
<1>3. PlaceIn'
  BY <1>0, <1>1, <1>2, StepsFields DEF PlaceIn, StepOK, SubscriptionOK
<1>4. QED
  BY <1>0, <1>2, <1>3

LEMMA ReadingOn ==
  ASSUME PlaceInv, UNCHANGED conn, bridge.step = 5, bridge' = ReadOn
  PROVE  PlaceIn' /\ conn' \in Connections /\ bridge' \in Places
<1>0. PlaceIn /\ conn \in Connections /\ bridge \in Places
  BY PlaceParts
<1>1. bridge' \in Places /\ bridge'.step = 5 /\ bridge'.pc = "read"
  BY <1>0, EmptySeq DEF ReadOn, Places
<1>2. QED
  BY <1>0, <1>1, StepsFields DEF PlaceIn, StepOK, SubscriptionOK

LEMMA SavedSnapshot ==
  ASSUME PlaceInv, NEW k \in Kinds, NEW n \in Nat, SaveSnapshot(k, n)
  PROVE  /\ snapshots' \in [Kinds -> Nat] /\ late' \subseteq Kinds
         /\ failures' \in 0 .. MaxFailures /\ hurt' \in BOOLEAN
BY PlaceFields, FailureBound DEF SaveSnapshot

LEMMA ExchangePlaces ==
  ASSUME PlaceInv,
         \/ \E k \in Kinds : Change(k)
         \/ \E f \in Fills : Execute(f)
         \/ \E channel \in Channels : TakeEffect(channel)
         \/ Drop \/ Crash
  PROVE  PlaceInv'
<1>0. PlaceRest /\ PlaceIn /\ conn \in Connections /\ bridge \in Places
  BY PlaceParts
<1>1. ASSUME NEW k \in Kinds, Change(k)
      PROVE  PlaceInv'
  <2>1. [channel |-> k, version |-> version[k] + 1] \in Message /\ version' \in [Kinds -> Nat]
    BY <1>0, <1>1, NewMessages DEF Change, PlaceRest
  <2>2. PlaceIn' /\ conn' \in Connections /\ bridge' \in Places
    BY <1>1, <2>1, PushKeeps, PlaceStays DEF Change
  <2>3. PlaceRest'
    BY <1>0, <1>1, <2>1 DEF Change, rows, PlaceRest
  <2>4. QED
    BY <2>2, <2>3, PlacePartsNext
<1>2. ASSUME NEW f \in Fills, Execute(f)
      PROVE  PlaceInv'
  <2>1. [channel |-> "userFills", fills |-> <<f>>] \in Message /\ executed' \in Seq(Fills)
    <3>1. <<f>> \in Seq(Fills)
      OBVIOUS
    <3>2. executed' \in Seq(Fills)
      BY <1>0, <1>2, AppendProperties DEF Execute, PlaceRest
    <3>3. QED
      BY <3>1, <3>2, NewMessages
  <2>2. PlaceIn' /\ conn' \in Connections /\ bridge' \in Places
    BY <1>2, <2>1, PushKeeps, PlaceStays DEF Execute
  <2>3. PlaceRest'
    BY <1>0, <1>2, <2>1 DEF Execute, rows, PlaceRest
  <2>4. QED
    BY <2>2, <2>3, PlacePartsNext
<1>3. ASSUME Drop
      PROVE  PlaceInv'
  <2>1. PICK n \in 0 .. Len(conn.inbox) :
          conn' = [open |-> FALSE, asked |-> FALSE, subscribed |-> {},
                   inbox |-> SubSeq(conn.inbox, 1, n)]
    BY <1>3 DEF Drop, Closed
  <2>2. SubSeq(conn.inbox, 1, n) \in Seq(Message)
    BY <2>1, PlaceFields, LenProperties, ElementOfSeq, SubSeqProperties
  <2>3. conn' \in Connections /\ ~conn'.open /\ ~conn'.asked /\ conn'.subscribed = {}
    BY <2>1, <2>2 DEF Connections
  <2>4. drops' \in 0 .. MaxDrops
    BY <1>0, <1>3, BoundsAssumption DEF Drop, PlaceRest, BoundsAssumption
  <2>5. PlaceRest' /\ PlaceIn' /\ bridge' \in Places
    BY <1>0, <1>3, <2>3, <2>4 DEF Drop, rows, exchange, reported, PlaceRest, PlaceIn, StepOK, SubscriptionOK
  <2>6. QED
    BY <2>3, <2>5, PlacePartsNext
<1>4. ASSUME Crash
      PROVE  PlaceInv'
  <2>1. drops' \in 0 .. MaxDrops
    BY <1>0, <1>4, BoundsAssumption DEF Crash, PlaceRest, BoundsAssumption
  <2>2. reads' \in [Handlers -> [pc: {"idle", "query", "save", "done"}, kind: Kinds,
                                 version: Nat, answer: Answers]]
    BY <1>4 DEF Crash, IdleRead, Kinds, Answers
  <2>3. PlaceRest'
    BY <1>0, <1>4, <2>1, <2>2 DEF Crash, rows, exchange, reported, PlaceRest
  <2>4. PlaceIn' /\ conn' \in Connections /\ bridge' \in Places
    BY <1>4, Redialing DEF Crash
  <2>5. QED
    BY <2>3, <2>4, PlacePartsNext
<1>5. ASSUME NEW channel \in Channels, TakeEffect(channel)
      PROVE  PlaceInv'
  <2> DEFINE fills == Latest(SnapshotLimit, executed)
             m == [channel |-> "userFills", fills |-> fills]
  <2>1. fills \in Seq(Fills) /\ SetOf(fills) \subseteq Fills
    BY <1>0, LimitAssumption, LatestFills, SetOfFills DEF LimitAssumption, PlaceRest
  <2>2. m \in Message
    BY <2>1, NewMessages
  <2>3. Append(conn.inbox, m) \in Seq(Message)
    BY <1>0, <2>2, AppendProperties DEF Connections
  <2>4. /\ conn.open /\ conn.asked /\ UNCHANGED bridge
        /\ \/ conn' = [conn EXCEPT !.subscribed = conn.subscribed \cup {channel},
                                    !.inbox = Append(conn.inbox, m)]
           \/ conn' = [conn EXCEPT !.subscribed = conn.subscribed \cup {channel}]
        /\ due' = due \cup SetOf(fills) \/ UNCHANGED due
    BY <1>5 DEF TakeEffect
  <2> HIDE DEF fills, m
  <2>5. conn' \in Connections /\ conn'.open /\ conn'.asked
    BY <1>0, <2>3, <2>4 DEF Connections
  <2>6. PlaceIn' /\ bridge' \in Places
    BY <1>0, <2>4, <2>5 DEF PlaceIn, StepOK, SubscriptionOK
  <2>7. due' \subseteq Fills
    BY <1>0, <2>1, <2>4 DEF PlaceRest
  <2>8. PlaceRest'
    BY <1>0, <1>5, <2>7 DEF TakeEffect, rows, exchange, PlaceRest
  <2>9. QED
    BY <2>5, <2>6, <2>8, PlacePartsNext
<1>6. QED
  BY <1>1, <1>2, <1>3, <1>4, <1>5

LEMMA BridgePlaces ==
  ASSUME PlaceInv, BridgeStep
  PROVE  PlaceInv'
<1>0. PlaceRest /\ PlaceIn /\ conn \in Connections /\ bridge \in Places
  BY PlaceParts
<1>1. ASSUME Dial
      PROVE  PlaceInv'
  <2>1. conn' \in Connections /\ ~conn'.asked /\ conn'.subscribed = {}
    BY <1>1, EmptySeq DEF Dial, Closed, Connections
  <2>2. bridge' \in Places /\ bridge'.pc = "setup" /\ bridge'.step = 1
    <3>1. bridge' = [pc |-> "setup", step |-> 1, version |-> 0, fills |-> <<>>, next |-> 1]
      BY <1>1 DEF Dial, Dialing
    <3>2. QED
      BY <3>1, EmptySeq DEF Places
  <2>3. PlaceIn'
    BY <2>1, <2>2, StepsFields DEF PlaceIn, StepOK, SubscriptionOK
  <2>4. PlaceRest'
    BY <1>0, <1>1 DEF Dial, rows, exchange, reported, PlaceRest
  <2>5. QED
    BY <2>1, <2>2, <2>3, <2>4, PlacePartsNext
<1>2. ASSUME Subscribe
      PROVE  PlaceInv'
  <2>1. PlaceRest'
    BY <1>0, <1>2 DEF Subscribe, rows, exchange, reported, PlaceRest
  <2>2. bridge.pc = "setup" /\ bridge.step = 1
    BY <1>0, <1>2, StepsFields DEF Subscribe, PlaceIn, StepOK
  <2>3. StepOn \in Places /\ StepOn.pc = "setup" /\ StepOn.step = 2
    BY <2>2, StepOnFields
  <2>4. CASE conn.open /\ conn' = [conn EXCEPT !.asked = TRUE] /\ bridge' = StepOn
    <3>1. conn' \in Connections /\ conn'.open /\ conn'.asked
      BY <1>0, <2>4 DEF Connections
    <3>2. PlaceIn'
      BY <2>3, <2>4, <3>1, StepsFields DEF PlaceIn, StepOK, SubscriptionOK
    <3>3. QED
      BY <2>1, <2>3, <2>4, <3>1, <3>2, PlacePartsNext
  <2>5. CASE ~conn.open /\ conn' = conn /\ bridge' = StepOn
    <3>1. PlaceIn'
      BY <1>0, <2>3, <2>5, StepsFields DEF PlaceIn, StepOK, SubscriptionOK
    <3>2. QED
      BY <1>0, <2>1, <2>3, <2>5, <3>1, PlacePartsNext
  <2>6. CASE conn' = Closed /\ bridge' = Dialing
    BY <2>1, <2>6, Redialing, PlacePartsNext
  <2>7. QED
    BY <1>2, <2>4, <2>5, <2>6 DEF Subscribe
<1>3. ASSUME Reconcile
      PROVE  PlaceInv'
  <2> DEFINE fills == Latest(ReconcileLimit, executed)
  <2>1. fills \in Seq(Fills) /\ SetOf(fills) \subseteq Fills
    BY <1>0, LimitAssumption, LatestFills, SetOfFills DEF LimitAssumption, PlaceRest
  <2>2. due' \subseteq Fills /\ missed' \subseteq Kinds
    BY <1>0, <1>3, <2>1 DEF Reconcile, reported, PlaceRest
  <2>3. PlaceRest'
    BY <1>0, <1>3, <2>2, FailureBound DEF Reconcile, rows, exchange, PlaceRest
  <2>4. bridge.pc = "setup" /\ bridge.step \in 2 .. 4 /\ UNCHANGED conn
    BY <1>0, <1>3, StepsFields DEF Reconcile, PlaceIn, StepOK
  <2>5. CASE bridge' = StepOn
    BY <2>3, <2>4, <2>5, SteppedOn, PlacePartsNext
  <2>6. CASE \/ bridge' = [bridge EXCEPT !.pc = "save", !.fills = fills]
             \/ /\ Steps[bridge.step] \in Kinds
                /\ bridge' = [bridge EXCEPT !.pc = "save", !.version = version[Steps[bridge.step]]]
    <3>1. Steps[bridge.step] \in Kinds => version[Steps[bridge.step]] \in Nat
      BY <1>0 DEF PlaceRest
    <3> HIDE DEF fills
    <3>2. bridge' \in Places /\ bridge'.pc = "save" /\ bridge'.step = bridge.step
      BY <1>0, <2>1, <2>4, <2>6, <3>1 DEF Places
    <3>3. PlaceIn'
      BY <1>0, <2>4, <3>2, StepsFields DEF PlaceIn, StepOK, SubscriptionOK
    <3>4. QED
      BY <1>0, <2>3, <2>4, <3>2, <3>3, PlacePartsNext
  <2>7. QED
    BY <1>3, <2>5, <2>6 DEF Reconcile
<1>4. ASSUME SaveReconciled
      PROVE  PlaceInv'
  <2>1. bridge.pc = "save" /\ Steps[bridge.step] \in Kinds /\ bridge.version \in Nat
    BY <1>0, <1>4, StepsFields DEF SaveReconciled, PlaceIn, StepOK, Kinds, Places
  <2>2. /\ snapshots' \in [Kinds -> Nat] /\ late' \subseteq Kinds
        /\ failures' \in 0 .. MaxFailures /\ hurt' \in BOOLEAN
    BY <1>4, <2>1, SavedSnapshot DEF SaveReconciled
  <2>3. PlaceRest'
    BY <1>0, <1>4, <2>2 DEF SaveReconciled, exchange, reported, PlaceRest
  <2>4. bridge' = [StepOn EXCEPT !.version = 0]
    BY <1>4 DEF SaveReconciled
  <2>5. UNCHANGED conn
    BY <1>4 DEF SaveReconciled
  <2>6. PlaceIn' /\ conn' \in Connections /\ bridge' \in Places
    BY <2>1, <2>4, <2>5, SteppedOn
  <2>7. QED
    BY <2>3, <2>6, PlacePartsNext
<1>5. ASSUME SaveReconciledFills
      PROVE  PlaceInv'
  <2>1. bridge.fills \in Seq(Fills)
    BY <1>0 DEF Places
  <2>2. stored' \subseteq Fills /\ announced' \subseteq Fills
    BY <1>0, <1>5, <2>1, Prefixed, SetOfFills DEF SaveReconciledFills, PlaceRest
  <2>3. PlaceRest'
    BY <1>0, <1>5, <2>2, FailureBound DEF SaveReconciledFills, exchange, reported, PlaceRest
  <2>4. bridge.pc = "save" /\ bridge' = [StepOn EXCEPT !.fills = <<>>]
    BY <1>5 DEF SaveReconciledFills
  <2>5. UNCHANGED conn
    BY <1>5 DEF SaveReconciledFills
  <2>6. PlaceIn' /\ conn' \in Connections /\ bridge' \in Places
    BY <2>4, <2>5, SteppedOn
  <2>7. QED
    BY <2>3, <2>6, PlacePartsNext
<1>6. ASSUME ReadSnapshot
      PROVE  PlaceInv'
  <2>1. /\ conn' \in Connections /\ Head(conn.inbox) \in Message
        /\ ConnStays
    BY <1>6, ReceivedInbox DEF ReadSnapshot
  <2>2. Head(conn.inbox).channel \in Kinds /\ Head(conn.inbox).version \in Nat
    BY <1>6, <2>1, InboundFields DEF ReadSnapshot
  <2>3. /\ snapshots' \in [Kinds -> Nat] /\ late' \subseteq Kinds
        /\ failures' \in 0 .. MaxFailures /\ hurt' \in BOOLEAN
    BY <1>6, <2>2, SavedSnapshot DEF ReadSnapshot
  <2>4. PlaceRest'
    BY <1>0, <1>6, <2>3 DEF ReadSnapshot, exchange, reported, PlaceRest
  <2>5. PlaceIn' /\ bridge' \in Places
    BY <1>6, <2>1, PlaceStays DEF ReadSnapshot
  <2>6. QED
    BY <2>1, <2>4, <2>5, PlacePartsNext
<1>7. ASSUME ReadFills
      PROVE  PlaceInv'
  <2>1. /\ conn' \in Connections /\ Head(conn.inbox) \in Message
        /\ ConnStays
    BY <1>7, ReceivedInbox DEF ReadFills
  <2>2. Head(conn.inbox).fills \in Seq(Fills)
    BY <1>7, <2>1, InboundFields DEF ReadFills
  <2>3. bridge.pc = "read" /\ bridge.step = 5
    BY <1>0, <1>7, StepsFields DEF ReadFills, PlaceIn, StepOK
  <2>4. /\ bridge' \in Places /\ bridge'.step = 5 /\ bridge'.pc \in {"publish", "append"}
        /\ bridge'.next = 1 /\ bridge'.fills = Head(conn.inbox).fills
        /\ bridge'.pc = "publish" => Head(conn.inbox).fills # <<>>
    BY <1>0, <1>7, <2>2, <2>3 DEF ReadFills, Places
  <2>5. bridge'.pc = "publish" => bridge'.next \in DOMAIN bridge'.fills
    BY <2>2, <2>4, EmptySeq, LenProperties
  <2>6. PlaceIn'
    BY <1>0, <2>1, <2>3, <2>4, <2>5, StepsFields DEF PlaceIn, StepOK, SubscriptionOK, ConnStays
  <2>7. PlaceRest'
    BY <1>0, <1>7 DEF ReadFills, exchange, rows, reported, PlaceRest
  <2>8. QED
    BY <2>1, <2>4, <2>6, <2>7, PlacePartsNext
<1>8. ASSUME PublishFill
      PROVE  PlaceInv'
  <2>1. /\ bridge.pc = "publish" /\ bridge.step = 5 /\ bridge.next \in DOMAIN bridge.fills
        /\ bridge.fills \in Seq(Fills)
    BY <1>0, <1>8, StepsFields DEF PublishFill, PlaceIn, StepOK, Places
  <2>2. /\ bridge.fills[bridge.next] \in Fills /\ DOMAIN bridge.fills = 1 .. Len(bridge.fills)
        /\ Len(bridge.fills) \in Nat
    BY <2>1, ElementOfSeq, LenProperties
  <2>3. announced' \subseteq Fills
    BY <1>0, <1>8, <2>2 DEF PublishFill, PlaceRest
  <2>4. PlaceRest'
    BY <1>0, <1>8, <2>3, FailureBound DEF PublishFill, exchange, rows, reported, PlaceRest
  <2>5. CASE bridge' = ReadOn
    BY <1>0, <1>8, <2>1, <2>4, <2>5, ReadingOn, PlacePartsNext DEF PublishFill
  <2>6. CASE bridge' = [bridge EXCEPT !.next = @ + 1,
                          !.pc = IF bridge.next = Len(bridge.fills) THEN "append" ELSE "publish"]
    <3>1. /\ bridge' \in Places /\ bridge'.step = 5 /\ bridge'.pc \in {"publish", "append"}
          /\ bridge'.fills = bridge.fills /\ bridge'.next = bridge.next + 1
          /\ bridge'.pc = "publish" => bridge.next # Len(bridge.fills)
      <4>1. bridge' = [pc |-> IF bridge.next = Len(bridge.fills) THEN "append" ELSE "publish",
                       step |-> bridge.step, version |-> bridge.version,
                       fills |-> bridge.fills, next |-> bridge.next + 1]
        BY <1>0, <2>6 DEF Places
      <4>2. bridge.version \in Nat /\ bridge.next \in Nat
        BY <1>0 DEF Places
      <4>3. bridge' \in Places
        BY <2>1, <4>1, <4>2 DEF Places
      <4>4. QED
        BY <2>1, <4>1, <4>3
    <3>2. bridge'.pc = "publish" => bridge'.next \in DOMAIN bridge'.fills
      BY <2>1, <2>2, <3>1
    <3>3. PlaceIn' /\ conn' \in Connections
      BY <1>0, <1>8, <2>1, <3>1, <3>2, StepsFields DEF PublishFill, PlaceIn, StepOK, SubscriptionOK
    <3>4. QED
      BY <2>4, <3>1, <3>3, PlacePartsNext
  <2>7. QED
    BY <1>8, <2>5, <2>6 DEF PublishFill
<1>9. ASSUME StoreFills
      PROVE  PlaceInv'
  <2>1. bridge.fills \in Seq(Fills) /\ bridge.pc = "append" /\ bridge.step = 5
    BY <1>0, <1>9, StepsFields DEF StoreFills, PlaceIn, StepOK, Places
  <2>2. stored' \subseteq Fills
    BY <1>0, <1>9, <2>1, Prefixed, SetOfFills DEF StoreFills, PlaceRest
  <2>3. PlaceRest'
    BY <1>0, <1>9, <2>2, FailureBound DEF StoreFills, exchange, reported, PlaceRest
  <2>4. QED
    BY <1>0, <1>9, <2>1, <2>3, ReadingOn, PlacePartsNext DEF StoreFills
<1>10. ASSUME LoseConnection
       PROVE  PlaceInv'
  <2>1. ~conn.open /\ ~conn.asked /\ conn.subscribed = {}
    BY <1>0, <1>10 DEF LoseConnection, PlaceIn, SubscriptionOK
  <2>2. PlaceRest'
    BY <1>0, <1>10 DEF LoseConnection, rows, exchange, reported, PlaceRest
  <2>3. PlaceIn' /\ conn' \in Connections /\ bridge' \in Places
    BY <1>0, <1>10, <2>1, StepsFields, EmptySeq
    DEF LoseConnection, PlaceIn, StepOK, SubscriptionOK, Dialing, Places
  <2>4. QED
    BY <2>2, <2>3, PlacePartsNext
<1>11. QED
  BY <1>1, <1>2, <1>3, <1>4, <1>5, <1>6, <1>7, <1>8, <1>9, <1>10 DEF BridgeStep

LEMMA HandlerPlaces ==
  ASSUME PlaceInv, NEW h \in Handlers,
         (\E k \in Kinds : BeginRead(h, k)) \/ ProviderAnswers(h) \/ Fallback(h) \/ SaveRead(h)
  PROVE  PlaceInv'
<1>0. PlaceRest /\ PlaceIn /\ conn \in Connections /\ bridge \in Places
  BY PlaceParts
<1> DEFINE Read == [pc: {"idle", "query", "save", "done"}, kind: Kinds, version: Nat,
                    answer: Answers]
<1>1. reads \in [Handlers -> Read] /\ reads[h] \in Read
      /\ reads[h].kind \in Kinds /\ reads[h].version \in Nat /\ version[reads[h].kind] \in Nat
  BY <1>0 DEF PlaceRest
<1>2. reads' \in [Handlers -> Read]
  BY <1>1 DEF BeginRead, ProviderAnswers, Fallback, SaveRead, Answers
<1>3. snapshots' \in [Kinds -> Nat] /\ late' \subseteq Kinds
  BY <1>0, <1>1 DEF BeginRead, ProviderAnswers, Fallback, SaveRead, PlaceRest, rows
<1>4. failures' \in 0 .. MaxFailures /\ hurt' \in BOOLEAN
  BY <1>0, FailureBound DEF BeginRead, ProviderAnswers, Fallback, SaveRead, PlaceRest
<1>5. UNCHANGED <<exchange, conn, bridge, stored, announced, drops, reported>>
  BY DEF BeginRead, ProviderAnswers, Fallback, SaveRead, rows, exchange
<1>6. PlaceRest'
  BY <1>0, <1>2, <1>3, <1>4, <1>5 DEF PlaceRest, exchange, reported
<1>7. PlaceIn' /\ conn' \in Connections /\ bridge' \in Places
  BY <1>0, <1>5, PlaceStays DEF ConnStays
<1>8. QED
  BY <1>6, <1>7, PlacePartsNext

LEMMA PlaceKept ==
  ASSUME PlaceInv, [LiveNext]_liveVars
  PROVE  PlaceInv'
<1>1. CASE UNCHANGED liveVars
  <2>1. PlaceRest /\ PlaceIn /\ conn \in Connections /\ bridge \in Places
    BY PlaceParts
  <2>2. PlaceRest' /\ PlaceIn' /\ conn' \in Connections /\ bridge' \in Places
    BY <1>1, <2>1, PlaceStays DEF liveVars, PlaceRest, ConnStays
  <2>3. QED
    BY <2>2, PlacePartsNext
<1>2. QED
  BY <1>1, ExchangePlaces, BridgePlaces, HandlerPlaces DEF LiveNext

-----------------------------------------------------------------------------
\* Messages.

LEMMA InboxSeq ==
  ASSUME PlaceInv
  PROVE  /\ Len(conn.inbox) \in Nat /\ DOMAIN conn.inbox = 1 .. Len(conn.inbox)
         /\ \A i \in DOMAIN conn.inbox : conn.inbox[i] \in Message
BY PlaceFields, LenProperties, ElementOfSeq

LEMMA PushedInbox ==
  ASSUME PlaceInv, NEW m \in Message, Push(m)
  PROVE  /\ Len(conn.inbox) \in Nat /\ DOMAIN conn.inbox = 1 .. Len(conn.inbox)
         /\ ConnStays
         /\ \A i \in DOMAIN conn.inbox : i \in DOMAIN conn'.inbox /\ conn'.inbox[i] = conn.inbox[i]
         /\ m.channel \in conn.subscribed =>
              /\ DOMAIN conn'.inbox = 1 .. Len(conn.inbox) + 1
              /\ Len(conn'.inbox) = Len(conn.inbox) + 1
              /\ conn'.inbox[Len(conn.inbox) + 1] = m
         /\ m.channel \notin conn.subscribed => conn'.inbox = conn.inbox
<1>1. conn.inbox \in Seq(Message) /\ Append(conn.inbox, m) \in Seq(Message)
      /\ Len(conn.inbox) \in Nat /\ DOMAIN conn.inbox = 1 .. Len(conn.inbox)
  BY PlaceFields, AppendProperties, LenProperties
<1>2. /\ Len(Append(conn.inbox, m)) = Len(conn.inbox) + 1
      /\ DOMAIN Append(conn.inbox, m) = 1 .. Len(conn.inbox) + 1
      /\ \A i \in 1 .. Len(conn.inbox) : Append(conn.inbox, m)[i] = conn.inbox[i]
      /\ Append(conn.inbox, m)[Len(conn.inbox) + 1] = m
  BY <1>1, AppendProperties, LenProperties
<1>3. /\ ConnStays
      /\ m.channel \in conn.subscribed => conn'.inbox = Append(conn.inbox, m)
      /\ m.channel \notin conn.subscribed => conn'.inbox = conn.inbox
  BY PushKeeps
<1>4. QED
  BY <1>1, <1>2, <1>3, PlaceFields

LEMMA DroppedInbox ==
  ASSUME PlaceInv, Drop
  PROVE  \A i \in DOMAIN conn'.inbox : i \in DOMAIN conn.inbox /\ conn'.inbox[i] = conn.inbox[i]
<1>1. PICK n \in 0 .. Len(conn.inbox) :
        conn' = [open |-> FALSE, asked |-> FALSE, subscribed |-> {},
                 inbox |-> SubSeq(conn.inbox, 1, n)]
  BY DEF Drop, Closed
<1>2. conn.inbox \in Seq(Message) /\ Len(conn.inbox) \in Nat
      /\ DOMAIN conn.inbox = 1 .. Len(conn.inbox)
  BY PlaceFields, LenProperties
<1>3. \A i \in 1 .. n : conn.inbox[i] \in Message
  BY <1>1, <1>2, ElementOfSeq
<1>4. /\ SubSeq(conn.inbox, 1, n) \in Seq(Message) /\ Len(SubSeq(conn.inbox, 1, n)) = n
      /\ \A i \in 1 .. n : SubSeq(conn.inbox, 1, n)[i] = conn.inbox[i]
  BY <1>1, <1>2, <1>3, SubSeqProperties
<1>5. DOMAIN SubSeq(conn.inbox, 1, n) = 1 .. n
  BY <1>4, LenProperties
<1>6. QED
  BY <1>1, <1>2, <1>4, <1>5

LEMMA Disconnected ==
  ASSUME Drop \/ Crash
  PROVE  ~conn'.open
<1>1. CASE Drop
  <2>1. PICK n \in 0 .. Len(conn.inbox) :
          conn' = [open |-> FALSE, asked |-> FALSE, subscribed |-> {},
                   inbox |-> SubSeq(conn.inbox, 1, n)]
    BY <1>1 DEF Drop, Closed
  <2>2. QED
    BY <2>1
<1>2. CASE Crash
  BY <1>2 DEF Crash, Closed
<1>3. QED
  BY <1>1, <1>2

\* A subscription that takes effect leaves the messages, and may add one of fills.
LEMMA EffectInbox ==
  ASSUME PlaceInv, NEW channel \in Channels, TakeEffect(channel)
  PROVE  /\ Len(conn.inbox) \in Nat /\ DOMAIN conn.inbox = 1 .. Len(conn.inbox)
         /\ conn.open /\ conn.asked /\ conn'.open /\ conn'.asked
         /\ conn.subscribed \subseteq conn'.subscribed
         /\ UNCHANGED <<exchange, bridge, snapshots, stored, announced, hurt, late, missed>>
         /\ \/ conn'.inbox = conn.inbox /\ due' = due
            \/ \E s \in Seq(Fills) :
                 /\ SetOf(s) \subseteq SetOf(executed) /\ due' = due \cup SetOf(s)
                 /\ DOMAIN conn'.inbox = 1 .. Len(conn.inbox) + 1
                 /\ Len(conn'.inbox) = Len(conn.inbox) + 1
                 /\ \A i \in 1 .. Len(conn.inbox) : conn'.inbox[i] = conn.inbox[i]
                 /\ conn'.inbox[Len(conn.inbox) + 1] = [channel |-> "userFills", fills |-> s]
<1> DEFINE fills == Latest(SnapshotLimit, executed)
           m == [channel |-> "userFills", fills |-> fills]
<1>1. fills \in Seq(Fills) /\ SetOf(fills) \subseteq SetOf(executed)
  BY PlaceFields, LimitAssumption, LatestFills DEF LimitAssumption
<1>2. /\ m \in Message /\ conn.inbox \in Seq(Message)
      /\ Len(conn.inbox) \in Nat /\ DOMAIN conn.inbox = 1 .. Len(conn.inbox)
  BY <1>1, NewMessages, PlaceFields, LenProperties
<1>3. /\ Append(conn.inbox, m) \in Seq(Message)
      /\ Len(Append(conn.inbox, m)) = Len(conn.inbox) + 1
      /\ DOMAIN Append(conn.inbox, m) = 1 .. Len(conn.inbox) + 1
      /\ \A i \in 1 .. Len(conn.inbox) : Append(conn.inbox, m)[i] = conn.inbox[i]
      /\ Append(conn.inbox, m)[Len(conn.inbox) + 1] = m
  <2> HIDE DEF m
  <2>1. QED
    BY <1>2, AppendProperties, LenProperties
<1>4. /\ conn.open /\ conn.asked
      /\ UNCHANGED <<exchange, bridge, snapshots, stored, announced, hurt, late, missed>>
  BY DEF TakeEffect, rows
<1>5. conn \in Connections
  BY PlaceSets
<1>6. CASE /\ conn' = [conn EXCEPT !.subscribed = conn.subscribed \cup {channel},
                                   !.inbox = Append(conn.inbox, m)]
           /\ due' = due \cup SetOf(fills)
  <2>1. /\ conn'.inbox = Append(conn.inbox, m) /\ conn'.open = conn.open /\ conn'.asked = conn.asked
        /\ conn'.subscribed = conn.subscribed \cup {channel}
    <3> HIDE DEF m, fills
    <3>1. QED
      BY <1>5, <1>6 DEF Connections
  <2>2. \E s \in Seq(Fills) :
          /\ SetOf(s) \subseteq SetOf(executed) /\ due' = due \cup SetOf(s)
          /\ DOMAIN conn'.inbox = 1 .. Len(conn.inbox) + 1
          /\ Len(conn'.inbox) = Len(conn.inbox) + 1
          /\ \A i \in 1 .. Len(conn.inbox) : conn'.inbox[i] = conn.inbox[i]
          /\ conn'.inbox[Len(conn.inbox) + 1] = [channel |-> "userFills", fills |-> s]
    <3>1. /\ fills \in Seq(Fills)
          /\ SetOf(fills) \subseteq SetOf(executed) /\ due' = due \cup SetOf(fills)
          /\ DOMAIN conn'.inbox = 1 .. Len(conn.inbox) + 1
          /\ Len(conn'.inbox) = Len(conn.inbox) + 1
          /\ \A i \in 1 .. Len(conn.inbox) : conn'.inbox[i] = conn.inbox[i]
          /\ conn'.inbox[Len(conn.inbox) + 1] = [channel |-> "userFills", fills |-> fills]
      <4> HIDE DEF fills
      <4>1. QED
        BY <1>1, <1>3, <1>6, <2>1
    <3> HIDE DEF fills
    <3>2. QED
      BY <3>1
  <2>3. QED
    BY <1>2, <1>4, <2>1, <2>2
<1>7. CASE conn' = [conn EXCEPT !.subscribed = conn.subscribed \cup {channel}] /\ due' = due
  BY <1>2, <1>4, <1>5, <1>7 DEF Connections
<1>8. QED
  BY <1>6, <1>7 DEF TakeEffect

LEMMA SetOfAppend ==
  ASSUME NEW s \in Seq(Fills), NEW f \in Fills
  PROVE  SetOf(Append(s, f)) = SetOf(s) \cup {f}
<1>1. /\ Len(s) \in Nat /\ DOMAIN s = 1 .. Len(s) /\ DOMAIN Append(s, f) = 1 .. Len(s) + 1
      /\ \A i \in 1 .. Len(s) : Append(s, f)[i] = s[i]
      /\ Append(s, f)[Len(s) + 1] = f
  BY AppendProperties, LenProperties
<1>2. QED
  BY <1>1 DEF SetOf

LEMMA SetOfEmpty == SetOf(<<>>) = {}
BY DEF SetOf

LEMMA SetOfOne ==
  ASSUME NEW f
  PROVE  SetOf(<<f>>) = {f}
BY DEF SetOf

LEMMA ElementInSetOf ==
  ASSUME NEW s, NEW i \in DOMAIN s
  PROVE  s[i] \in SetOf(s)
BY DEF SetOf

\* Nothing but messages that were there before.
OldMessages ==
  \A i \in DOMAIN conn'.inbox : \E j \in DOMAIN conn.inbox : conn'.inbox[i] = conn.inbox[j]

LEMMA HappenedNext ==
  ASSUME stored' \cup announced' \cup SetOf(bridge'.fills) \subseteq SetOf(executed'),
         \A i \in DOMAIN conn'.inbox : conn'.inbox[i].channel = "userFills" =>
           SetOf(conn'.inbox[i].fills) \subseteq SetOf(executed')
  PROVE  FillsHappened'
BY Zenon DEF FillsHappened, SetOf

LEMMA OldHappened ==
  ASSUME FillsHappened, OldMessages, UNCHANGED executed,
         stored' \cup announced' \cup SetOf(bridge'.fills) \subseteq SetOf(executed)
  PROVE  FillsHappened'
<1>1. \A i \in DOMAIN conn'.inbox : conn'.inbox[i].channel = "userFills" =>
        SetOf(conn'.inbox[i].fills) \subseteq SetOf(executed')
  BY DEF FillsHappened, OldMessages
<1>2. QED
  BY <1>1, HappenedNext

LEMMA HappenedKept ==
  ASSUME PlaceInv, FillsHappened, [LiveNext]_liveVars
  PROVE  FillsHappened'
<1> DEFINE Seen == stored \cup announced \cup SetOf(bridge.fills)
           Done == SetOf(executed)
<1>0. /\ Seen \subseteq Done
      /\ \A i \in DOMAIN conn.inbox :
           conn.inbox[i].channel = "userFills" => SetOf(conn.inbox[i].fills) \subseteq Done
      /\ bridge.fills \in Seq(Fills) /\ executed \in Seq(Fills) /\ conn.inbox \in Seq(Message)
  BY PlaceFields DEF FillsHappened
<1>a. UNCHANGED conn => OldMessages
  BY DEF OldMessages
<1>1. ASSUME NEW k \in Kinds, Change(k)
      PROVE  FillsHappened'
  <2>1. PICK m \in Message : m = [channel |-> k, version |-> version[k] + 1]
    <3>1. version[k] + 1 \in Nat
      BY PlaceFields
    <3>2. QED
      BY <3>1, NewMessages
  <2>2. m.channel # "userFills" /\ Push(m)
    BY <1>1, <2>1 DEF Change, Kinds
  <2>3. \A i \in DOMAIN conn'.inbox :
          (i \in DOMAIN conn.inbox /\ conn'.inbox[i] = conn.inbox[i]) \/ conn'.inbox[i] = m
    BY <2>2, PushedInbox
  <2>4. UNCHANGED <<executed, bridge, stored, announced>>
    BY <1>1 DEF Change, rows
  <2>5. \A i \in DOMAIN conn'.inbox : conn'.inbox[i].channel = "userFills" =>
          SetOf(conn'.inbox[i].fills) \subseteq SetOf(executed')
    BY <1>0, <2>2, <2>3, <2>4
  <2>6. QED
    BY <1>0, <2>4, <2>5, HappenedNext
<1>2. ASSUME NEW f \in Fills, Execute(f)
      PROVE  FillsHappened'
  <2>1. PICK m \in Message : m = [channel |-> "userFills", fills |-> <<f>>]
    <3>1. <<f>> \in Seq(Fills)
      OBVIOUS
    <3>2. QED
      BY <3>1, NewMessages
  <2>2. SetOf(m.fills) = {f} /\ Push(m)
    BY <1>2, <2>1, SetOfOne DEF Execute
  <2>3. \A i \in DOMAIN conn'.inbox :
          (i \in DOMAIN conn.inbox /\ conn'.inbox[i] = conn.inbox[i]) \/ conn'.inbox[i] = m
    BY <2>2, PushedInbox
  <2>4. UNCHANGED <<bridge, stored, announced>> /\ SetOf(executed') = SetOf(executed) \cup {f}
    BY <1>0, <1>2, SetOfAppend DEF Execute, rows
  <2>5. \A i \in DOMAIN conn'.inbox :
          conn'.inbox[i].channel = "userFills" => SetOf(conn'.inbox[i].fills) \subseteq SetOf(executed')
    BY <1>0, <2>2, <2>3, <2>4
  <2>6. QED
    BY <1>0, <2>4, <2>5, HappenedNext
<1>3. ASSUME Drop
      PROVE  FillsHappened'
  <2>1. OldMessages
    BY <1>3, DroppedInbox DEF OldMessages
  <2>2. UNCHANGED <<executed, bridge, stored, announced>>
    BY <1>3 DEF Drop, rows, exchange, reported
  <2>3. QED
    BY <1>0, <2>1, <2>2, OldHappened
<1>4. ASSUME Crash \/ Dial \/ LoseConnection
      PROVE  FillsHappened'
  <2>1. SetOf(bridge'.fills) = {}
    BY <1>4, SetOfEmpty DEF Crash, Dial, LoseConnection, Dialing
  <2>2. OldMessages
    BY <1>4, <1>a DEF Crash, Dial, LoseConnection, Closed, OldMessages
  <2>3. UNCHANGED <<executed, stored, announced>>
    BY <1>4 DEF Crash, Dial, LoseConnection, rows, exchange
  <2>4. QED
    BY <1>0, <2>1, <2>2, <2>3, OldHappened
<1>5. ASSUME Subscribe
      PROVE  FillsHappened'
  <2>1. UNCHANGED <<executed, stored, announced>>
    BY <1>5 DEF Subscribe, rows, exchange
  <2>2. SetOf(bridge'.fills) \subseteq Done
    <3>1. StepOn.fills = bridge.fills
      BY <1>5, StepOnFields DEF Subscribe
    <3>2. bridge' = StepOn \/ bridge'.fills = <<>>
      BY <1>5 DEF Subscribe, Dialing
    <3>3. QED
      BY <1>0, <3>1, <3>2, SetOfEmpty
  <2>3. OldMessages
    <3>1. conn'.inbox = conn.inbox \/ conn'.inbox = <<>>
      BY <1>5, PlaceSets DEF Subscribe, Connections, Closed
    <3>2. QED
      BY <3>1 DEF OldMessages
  <2>4. QED
    BY <1>0, <2>1, <2>2, <2>3, OldHappened
<1>6. ASSUME Reconcile
      PROVE  FillsHappened'
  <2>1. UNCHANGED <<executed, stored, announced, conn>>
    BY <1>6 DEF Reconcile, rows, exchange
  <2>2. SetOf(bridge'.fills) \subseteq Done
    <3>1. StepOn.fills = bridge.fills
      BY <1>6, StepOnFields DEF Reconcile
    <3>2. bridge'.fills \in {bridge.fills, Latest(ReconcileLimit, executed)}
      BY <1>6, <3>1, PlaceFields DEF Reconcile
    <3>3. QED
      BY <1>0, <3>2, LimitAssumption, LatestFills DEF LimitAssumption
  <2>3. QED
    BY <1>0, <1>a, <2>1, <2>2, OldHappened
<1>7. ASSUME SaveReconciled
      PROVE  FillsHappened'
  <2>1. UNCHANGED <<executed, stored, announced, conn>>
    BY <1>7 DEF SaveReconciled, exchange
  <2>2. bridge'.fills = bridge.fills
    <3>1. StepOn.fills = bridge.fills /\ StepOn \in Places
      BY <1>7, StepOnFields DEF SaveReconciled
    <3>2. QED
      BY <1>7, <3>1 DEF SaveReconciled, Places
  <2>3. QED
    BY <1>0, <1>a, <2>1, <2>2, OldHappened
<1>8. ASSUME SaveReconciledFills
      PROVE  FillsHappened'
  <2>1. UNCHANGED <<executed, conn>>
    BY <1>8 DEF SaveReconciledFills, exchange
  <2>2. stored' \cup announced' \subseteq Done
    BY <1>0, <1>8, Prefixed DEF SaveReconciledFills
  <2>3. SetOf(bridge'.fills) = {}
    <3>1. StepOn \in Places
      BY <1>8, StepOnFields DEF SaveReconciledFills
    <3>2. bridge'.fills = <<>>
      BY <1>8, <3>1 DEF SaveReconciledFills, Places
    <3>3. QED
      BY <3>2, SetOfEmpty
  <2>4. QED
    BY <1>a, <2>1, <2>2, <2>3, OldHappened
<1>9. ASSUME ReadSnapshot
      PROVE  FillsHappened'
  <2>1. OldMessages
    BY <1>9, ReceivedInbox DEF ReadSnapshot, OldMessages
  <2>2. UNCHANGED <<executed, bridge, stored, announced>>
    BY <1>9 DEF ReadSnapshot, exchange
  <2>3. QED
    BY <1>0, <2>1, <2>2, OldHappened
<1>10. ASSUME ReadFills
       PROVE  FillsHappened'
  <2>1. OldMessages
    BY <1>10, ReceivedInbox DEF ReadFills, OldMessages
  <2>2. UNCHANGED <<executed, stored, announced>>
    BY <1>10 DEF ReadFills, exchange, rows
  <2>3. bridge'.fills = Head(conn.inbox).fills
    BY <1>10, PlaceFields DEF ReadFills
  <2>4. conn.inbox # <<>> /\ conn' = Received /\ Head(conn.inbox).channel = "userFills"
    BY <1>10 DEF ReadFills
  <2>5. 1 \in DOMAIN conn.inbox /\ Head(conn.inbox) = conn.inbox[1]
    BY <2>4, ReceivedInbox
  <2>6. SetOf(bridge'.fills) \subseteq Done
    BY <1>0, <2>3, <2>4, <2>5
  <2>7. QED
    BY <1>0, <2>1, <2>2, <2>6, OldHappened
<1>11. ASSUME PublishFill
       PROVE  FillsHappened'
  <2>1. UNCHANGED <<executed, stored, conn>>
    BY <1>11 DEF PublishFill, exchange, rows
  <2>2. bridge.fills[bridge.next] \in SetOf(bridge.fills)
    BY <1>11, ElementInSetOf DEF PublishFill, PlaceInv, LiveTypeOK
  <2>3. announced' \subseteq Done
    BY <1>0, <1>11, <2>2 DEF PublishFill
  <2>4. bridge'.fills = bridge.fills \/ bridge'.fills = <<>>
    BY <1>11, PlaceFields DEF PublishFill, ReadOn
  <2>5. QED
    BY <1>0, <1>a, <2>1, <2>3, <2>4, SetOfEmpty, OldHappened
<1>12. ASSUME StoreFills
       PROVE  FillsHappened'
  <2>1. UNCHANGED <<executed, announced, conn>>
    BY <1>12 DEF StoreFills, exchange
  <2>2. stored' \subseteq Done
    BY <1>0, <1>12, Prefixed DEF StoreFills
  <2>3. bridge'.fills = <<>>
    BY <1>12, PlaceFields DEF StoreFills, ReadOn
  <2>4. QED
    BY <1>0, <1>a, <2>1, <2>2, <2>3, SetOfEmpty, OldHappened
<1>13. ASSUME UNCHANGED <<executed, conn, bridge, stored, announced>>
       PROVE  FillsHappened'
  BY <1>0, <1>a, <1>13, OldHappened
<1>14. ASSUME NEW h \in Handlers,
              (\E k \in Kinds : BeginRead(h, k)) \/ ProviderAnswers(h) \/ Fallback(h) \/ SaveRead(h)
       PROVE  FillsHappened'
  BY <1>13, <1>14 DEF BeginRead, ProviderAnswers, Fallback, SaveRead, rows, exchange
<1>15. ASSUME NEW channel \in Channels, TakeEffect(channel)
       PROVE  FillsHappened'
  <2>1. UNCHANGED <<executed, bridge, stored, announced>>
    BY <1>15, EffectInbox DEF exchange
  <2>2. \A i \in DOMAIN conn'.inbox :
          \/ i \in DOMAIN conn.inbox /\ conn'.inbox[i] = conn.inbox[i]
          \/ SetOf(conn'.inbox[i].fills) \subseteq SetOf(executed)
    <3>1. CASE conn'.inbox = conn.inbox
      BY <3>1
    <3>2. ASSUME NEW s \in Seq(Fills), SetOf(s) \subseteq SetOf(executed),
                 DOMAIN conn'.inbox = 1 .. Len(conn.inbox) + 1,
                 \A i \in 1 .. Len(conn.inbox) : conn'.inbox[i] = conn.inbox[i],
                 conn'.inbox[Len(conn.inbox) + 1] = [channel |-> "userFills", fills |-> s]
          PROVE  \A i \in DOMAIN conn'.inbox :
                   \/ i \in DOMAIN conn.inbox /\ conn'.inbox[i] = conn.inbox[i]
                   \/ SetOf(conn'.inbox[i].fills) \subseteq SetOf(executed)
      <4>1. Len(conn.inbox) \in Nat /\ DOMAIN conn.inbox = 1 .. Len(conn.inbox)
        BY InboxSeq
      <4>2. SetOf(conn'.inbox[Len(conn.inbox) + 1].fills) \subseteq SetOf(executed)
        BY <3>2
      <4>3. QED
        BY <3>2, <4>1, <4>2
    <3>3. QED
      BY <1>15, <3>1, <3>2, EffectInbox
  <2>3. \A i \in DOMAIN conn'.inbox :
          conn'.inbox[i].channel = "userFills" => SetOf(conn'.inbox[i].fills) \subseteq SetOf(executed')
    BY <1>0, <2>1, <2>2
  <2>4. QED
    BY <1>0, <2>1, <2>3, HappenedNext
<1>16. QED
  BY <1>1, <1>2, <1>3, <1>4, <1>5, <1>6, <1>7, <1>8, <1>9, <1>10, <1>11, <1>12, <1>13, <1>14, <1>15
  DEF LiveNext, BridgeStep, liveVars

-----------------------------------------------------------------------------
\* Snapshots: what is not shown yet is on its way, or was missed.

SnapshotInv ==
  /\ conn.open => NewestLast /\ AnswerCorrected
  /\ conn.open /\ ~hurt => SnapshotsFollow

LEMMA StagesNext ==
  ASSUME NEW k
  PROVE  /\ AskedFor(k)' <=> bridge'.pc = "save" /\ Steps[bridge'.step] = k
         /\ Reconciled(k)' <=> \E i \in 1 .. bridge'.step - 1 : Steps[i] = k
BY DEF AskedFor, Reconciled, Steps

LEMMA CorrectedKept ==
  ASSUME NEW k, Corrected(k), version'[k] = version[k], missed \subseteq missed',
         \A i \in DOMAIN conn.inbox : \E j \in DOMAIN conn'.inbox : conn'.inbox[j] = conn.inbox[i]
  PROVE  Corrected(k)'
BY DEF Corrected, OnItsWay

LEMMA CorrectedAfterRead ==
  ASSUME PlaceInv, NEW k, Corrected(k), UNCHANGED <<version, missed>>,
         conn.inbox # <<>>, conn' = Received,
         Head(conn.inbox).channel # k \/ Head(conn.inbox).version # version[k]
  PROVE  Corrected(k)'
<1>1. CASE k \in missed
  BY <1>1 DEF Corrected
<1>2. CASE OnItsWay(k)
  <2>1. PICK i \in DOMAIN conn.inbox :
          conn.inbox[i].channel = k /\ conn.inbox[i].version = version[k]
    BY <1>2 DEF OnItsWay
  <2>2. /\ i \in 1 .. Len(conn.inbox) /\ i # 1 /\ Len(conn.inbox) \in Nat
        /\ DOMAIN conn'.inbox = 1 .. Len(conn.inbox) - 1
        /\ \A j \in 1 .. Len(conn.inbox) - 1 : conn'.inbox[j] = conn.inbox[j + 1]
    BY <2>1, ReceivedInbox
  <2>3. i - 1 \in DOMAIN conn'.inbox /\ conn'.inbox[i - 1] = conn.inbox[i]
    BY <2>2
  <2>4. QED
    BY <2>1, <2>3 DEF Corrected, OnItsWay
<1>3. QED
  BY <1>1, <1>2 DEF Corrected

LEMMA NewestAfterRead ==
  ASSUME PlaceInv, NewestLast, UNCHANGED version, conn.inbox # <<>>, conn' = Received
  PROVE  /\ NewestLast'
         /\ \A k \in Kinds : Head(conn.inbox).channel = k =>
              Head(conn.inbox).version = version[k] \/ Corrected(k)'
<1>1. /\ Len(conn.inbox) \in Nat \ {0} /\ DOMAIN conn.inbox = 1 .. Len(conn.inbox)
      /\ DOMAIN conn'.inbox = 1 .. Len(conn.inbox) - 1
      /\ Len(conn'.inbox) = Len(conn.inbox) - 1 /\ conn.inbox[1] = Head(conn.inbox)
      /\ \A i \in 1 .. Len(conn.inbox) - 1 : conn'.inbox[i] = conn.inbox[i + 1]
      /\ conn'.subscribed = conn.subscribed
  BY ReceivedInbox DEF ConnStays
<1>2. ASSUME NEW i \in DOMAIN conn'.inbox, conn'.inbox[i].channel \in Kinds
      PROVE  /\ conn'.inbox[i].channel \in conn'.subscribed
             /\ \E j \in i .. Len(conn'.inbox) :
                  /\ conn'.inbox[j].channel = conn'.inbox[i].channel
                  /\ conn'.inbox[j].version = version[conn'.inbox[i].channel]
  <2>1. i + 1 \in DOMAIN conn.inbox /\ conn'.inbox[i] = conn.inbox[i + 1]
    BY <1>1, <1>2
  <2>2. conn'.inbox[i].channel \in conn'.subscribed
    BY <1>1, <1>2, <2>1 DEF NewestLast
  <2>3. PICK j \in i + 1 .. Len(conn.inbox) :
          /\ conn.inbox[j].channel = conn'.inbox[i].channel
          /\ conn.inbox[j].version = version[conn'.inbox[i].channel]
    BY <1>2, <2>1 DEF NewestLast
  <2>4. j - 1 \in i .. Len(conn'.inbox) /\ conn'.inbox[j - 1] = conn.inbox[j]
    BY <1>1, <1>2, <2>3
  <2>5. QED
    BY <2>2, <2>3, <2>4
<1>3. NewestLast'
  BY <1>2 DEF NewestLast, Kinds
<1>4. ASSUME NEW k \in Kinds, Head(conn.inbox).channel = k
      PROVE  Head(conn.inbox).version = version[k] \/ Corrected(k)'
  <2>1. PICK j \in 1 .. Len(conn.inbox) :
          conn.inbox[j].channel = k /\ conn.inbox[j].version = version[k]
    BY <1>1, <1>4 DEF NewestLast
  <2>2. CASE j = 1
    BY <1>1, <2>1, <2>2
  <2>3. CASE j # 1
    <3>1. j - 1 \in DOMAIN conn'.inbox /\ conn'.inbox[j - 1] = conn.inbox[j]
      BY <1>1, <2>1, <2>3
    <3>2. QED
      BY <2>1, <3>1 DEF Corrected, OnItsWay
  <2>4. QED
    BY <2>2, <2>3
<1>5. QED
  BY <1>3, <1>4

\* A step that neither loses a message nor changes a version, a stage or a row.
LEMMA SnapshotsIdle ==
  ASSUME SnapshotInv, ~hurt' => ~hurt,
         UNCHANGED <<version, snapshots, late, missed>>,
         conn'.open => conn.open /\ conn'.inbox = conn.inbox
                       /\ conn.subscribed \subseteq conn'.subscribed,
         bridge'.pc # "save" \/ bridge' = bridge,
         \A k \in Kinds : Reconciled(k)' => Reconciled(k) \/ hurt'
  PROVE  SnapshotInv'
<1>1. ASSUME conn'.open
      PROVE  NewestLast' /\ AnswerCorrected'
  <2>1. conn'.inbox = conn.inbox /\ NewestLast /\ AnswerCorrected
        /\ conn.subscribed \subseteq conn'.subscribed
    BY <1>1 DEF SnapshotInv
  <2>2. NewestLast'
    BY <2>1 DEF NewestLast, Kinds
  <2>3. ASSUME NEW k \in Kinds, AskedFor(k)'
        PROVE  bridge'.version = version'[k] \/ Corrected(k)'
    <3>1. bridge' = bridge /\ AskedFor(k)
      BY <2>3, StagesNext DEF AskedFor
    <3>2. QED
      BY <2>1, <3>1, CorrectedKept DEF AnswerCorrected
  <2>4. QED
    BY <2>2, <2>3 DEF AnswerCorrected, Kinds
<1>2. ASSUME conn'.open, ~hurt', NEW k \in Kinds, Reconciled(k)'
      PROVE  snapshots'[k] = version'[k] \/ k \in late' \/ Corrected(k)'
  <2>1. conn'.inbox = conn.inbox /\ SnapshotsFollow /\ Reconciled(k)
    BY <1>2 DEF SnapshotInv
  <2>2. QED
    BY <2>1, CorrectedKept DEF SnapshotsFollow
<1>3. QED
  BY <1>1, <1>2 DEF SnapshotInv, SnapshotsFollow, Kinds

\* A step of the exchange that at most adds a message of fills.
LEMMA SnapshotsPushed ==
  ASSUME SnapshotInv, conn'.open => conn.open, conn.subscribed \subseteq conn'.subscribed,
         UNCHANGED <<version, bridge, snapshots, late, hurt, missed>>,
         Len(conn.inbox) \in Nat, DOMAIN conn.inbox = 1 .. Len(conn.inbox),
         Len(conn'.inbox) \in Nat, Len(conn.inbox) <= Len(conn'.inbox),
         \A i \in DOMAIN conn.inbox : i \in DOMAIN conn'.inbox /\ conn'.inbox[i] = conn.inbox[i],
         \A i \in DOMAIN conn'.inbox : i \in DOMAIN conn.inbox \/ conn'.inbox[i].channel \notin Kinds
  PROVE  SnapshotInv'
<1>1. ASSUME NEW l \in Kinds, Corrected(l)
      PROVE  Corrected(l)'
  BY <1>1, CorrectedKept
<1>2. ASSUME conn'.open, NEW i \in DOMAIN conn'.inbox, conn'.inbox[i].channel \in Kinds
      PROVE  /\ conn'.inbox[i].channel \in conn'.subscribed
             /\ \E j \in i .. Len(conn'.inbox) :
                  /\ conn'.inbox[j].channel = conn'.inbox[i].channel
                  /\ conn'.inbox[j].version = version'[conn'.inbox[i].channel]
  <2>1. i \in DOMAIN conn.inbox /\ conn'.inbox[i] = conn.inbox[i]
    BY <1>2
  <2>2. conn'.inbox[i].channel \in conn'.subscribed
    BY <1>2, <2>1 DEF SnapshotInv, NewestLast
  <2>3. PICK j \in i .. Len(conn.inbox) :
          /\ conn.inbox[j].channel = conn.inbox[i].channel
          /\ conn.inbox[j].version = version[conn.inbox[i].channel]
    BY <1>2, <2>1 DEF SnapshotInv, NewestLast
  <2>4. j \in i .. Len(conn'.inbox) /\ conn'.inbox[j] = conn.inbox[j]
    BY <2>1, <2>3
  <2>5. QED
    BY <2>1, <2>2, <2>3, <2>4
<1>3. conn'.open => NewestLast'
  BY <1>2 DEF NewestLast, Kinds
<1>4. ASSUME conn'.open, NEW l \in Kinds, AskedFor(l)'
      PROVE  bridge'.version = version'[l] \/ Corrected(l)'
  <2>1. AskedFor(l)
    BY <1>4, StagesNext DEF AskedFor
  <2>2. QED
    BY <1>1, <1>4, <2>1 DEF SnapshotInv, AnswerCorrected
<1>5. ASSUME conn'.open, ~hurt', NEW l \in Kinds, Reconciled(l)'
      PROVE  snapshots'[l] = version'[l] \/ l \in late' \/ Corrected(l)'
  <2>1. Reconciled(l)
    BY <1>5, StagesNext DEF Reconciled
  <2>2. QED
    BY <1>1, <1>5, <2>1 DEF SnapshotInv, SnapshotsFollow
<1>6. QED
  BY <1>3, <1>4, <1>5 DEF SnapshotInv, AnswerCorrected, SnapshotsFollow, Kinds

LEMMA SnapshotsChanged ==
  ASSUME PlaceInv, SnapshotInv, NEW k \in Kinds, Change(k)
  PROVE  SnapshotInv'
<1>0. version \in [Kinds -> Nat]
  BY PlaceFields
<1>1. PICK m \in Message : m = [channel |-> k, version |-> version[k] + 1]
  <2>1. version[k] + 1 \in Nat
    BY <1>0
  <2>2. QED
    BY <2>1, NewMessages
<1>2. /\ m.channel = k /\ m.version = version[k] + 1 /\ Push(m)
      /\ version' = [version EXCEPT ![k] = version[k] + 1]
      /\ missed' = IF k \in conn.subscribed THEN missed \ {k}
                   ELSE IF conn.asked THEN missed \cup {k} ELSE missed
      /\ UNCHANGED <<bridge, snapshots, late, hurt>>
  BY <1>1 DEF Change, rows
<1>3. version'[k] = version[k] + 1 /\ \A l \in Kinds \ {k} : version'[l] = version[l]
  BY <1>0, <1>2
<1>4. /\ conn'.open = conn.open /\ conn'.subscribed = conn.subscribed
      /\ Len(conn.inbox) \in Nat /\ DOMAIN conn.inbox = 1 .. Len(conn.inbox)
      /\ \A i \in DOMAIN conn.inbox : i \in DOMAIN conn'.inbox /\ conn'.inbox[i] = conn.inbox[i]
      /\ k \in conn.subscribed =>
           /\ DOMAIN conn'.inbox = 1 .. Len(conn.inbox) + 1
           /\ Len(conn'.inbox) = Len(conn.inbox) + 1
           /\ conn'.inbox[Len(conn.inbox) + 1] = m
      /\ k \notin conn.subscribed => conn'.inbox = conn.inbox
  BY <1>2, PushedInbox DEF ConnStays
<1>5. conn.open => \/ Corrected(k)'
                   \/ ~AskedFor(k) /\ ~Reconciled(k)
  <2>1. CASE k \in conn.subscribed
    BY <1>2, <1>3, <1>4, <2>1 DEF Corrected, OnItsWay
  <2>2. CASE k \notin conn.subscribed /\ conn.asked
    BY <1>2, <2>2 DEF Corrected
  <2>3. CASE ~conn.asked
    <3>1. conn.open => bridge.step = 1
      BY <2>3, PlaceFields DEF PlaceInv, SubscriptionOK
    <3>2. QED
      BY <3>1, StepsFields DEF AskedFor, Reconciled, Kinds
  <2>4. QED
    BY <2>1, <2>2, <2>3
<1>6. ASSUME NEW l \in Kinds \ {k}, Corrected(l)
      PROVE  Corrected(l)'
  <2>1. l \in missed => l \in missed'
    BY <1>2
  <2>2. OnItsWay(l) => OnItsWay(l)'
    BY <1>3, <1>4 DEF OnItsWay
  <2>3. QED
    BY <1>6, <2>1, <2>2 DEF Corrected
<1>7. ASSUME conn'.open, NEW i \in DOMAIN conn'.inbox, conn'.inbox[i].channel \in Kinds
      PROVE  /\ conn'.inbox[i].channel \in conn'.subscribed
             /\ \E j \in i .. Len(conn'.inbox) :
                  /\ conn'.inbox[j].channel = conn'.inbox[i].channel
                  /\ conn'.inbox[j].version = version'[conn'.inbox[i].channel]
  <2>1. CASE conn'.inbox[i].channel = k
    <3>1. k \in conn.subscribed
      BY <1>4, <1>7, <2>1 DEF SnapshotInv, NewestLast
    <3>2. QED
      BY <1>2, <1>3, <1>4, <1>7, <2>1, <3>1
  <2>2. CASE conn'.inbox[i].channel # k
    <3>1. i \in DOMAIN conn.inbox /\ conn'.inbox[i] = conn.inbox[i]
      BY <1>2, <1>4, <1>7, <2>2
    <3>2. conn'.inbox[i].channel \in conn'.subscribed
      BY <1>4, <1>7, <3>1 DEF SnapshotInv, NewestLast
    <3>3. PICK j \in i .. Len(conn.inbox) :
            /\ conn.inbox[j].channel = conn.inbox[i].channel
            /\ conn.inbox[j].version = version[conn.inbox[i].channel]
      BY <1>4, <1>7, <3>1 DEF SnapshotInv, NewestLast
    <3>4. j \in i .. Len(conn'.inbox) /\ conn'.inbox[j] = conn.inbox[j]
      BY <1>4, <3>1, <3>3
    <3>5. QED
      BY <1>3, <1>7, <2>2, <3>1, <3>2, <3>3, <3>4
  <2>3. QED
    BY <2>1, <2>2
<1>8. conn'.open => NewestLast'
  BY <1>7 DEF NewestLast, Kinds
<1>9. ASSUME conn'.open, NEW l \in Kinds, AskedFor(l)'
      PROVE  bridge'.version = version'[l] \/ Corrected(l)'
  <2>1. AskedFor(l)
    BY <1>2, <1>9, StagesNext DEF AskedFor
  <2>2. QED
    BY <1>2, <1>3, <1>4, <1>5, <1>6, <1>9, <2>1 DEF SnapshotInv, AnswerCorrected
<1>10. ASSUME conn'.open, ~hurt', NEW l \in Kinds, Reconciled(l)'
       PROVE  snapshots'[l] = version'[l] \/ l \in late' \/ Corrected(l)'
  <2>1. Reconciled(l)
    BY <1>2, <1>10, StagesNext DEF Reconciled
  <2>2. QED
    BY <1>2, <1>3, <1>4, <1>5, <1>6, <1>10, <2>1 DEF SnapshotInv, SnapshotsFollow
<1>11. QED
  BY <1>8, <1>9, <1>10 DEF SnapshotInv, AnswerCorrected, SnapshotsFollow, Kinds

LEMMA SnapshotsKept ==
  ASSUME PlaceInv, SnapshotInv, [LiveNext]_liveVars
  PROVE  SnapshotInv'
<1>0. hurt \in BOOLEAN /\ version \in [Kinds -> Nat] /\ snapshots \in [Kinds -> Nat]
  BY PlaceFields
<1>a. ASSUME ~conn'.open
      PROVE  SnapshotInv'
  BY <1>a DEF SnapshotInv
<1>b. ASSUME conn' = conn, bridge' = bridge, UNCHANGED <<version, snapshots, late, hurt, missed>>
      PROVE  SnapshotInv'
  BY <1>b, SnapshotsIdle, StagesNext DEF Reconciled
<1>1. ASSUME NEW k \in Kinds, Change(k)
      PROVE  SnapshotInv'
  BY <1>1, SnapshotsChanged
<1>2. ASSUME NEW f \in Fills, Execute(f)
      PROVE  SnapshotInv'
  <2>1. PICK m \in Message : m = [channel |-> "userFills", fills |-> <<f>>]
    <3>1. <<f>> \in Seq(Fills)
      OBVIOUS
    <3>2. QED
      BY <3>1, NewMessages
  <2>2. /\ m.channel \notin Kinds /\ Push(m)
        /\ UNCHANGED <<version, bridge, snapshots, late, hurt, missed>>
    BY <1>2, <2>1 DEF Execute, rows, Kinds
  <2>3. /\ conn'.open = conn.open /\ conn'.subscribed = conn.subscribed
        /\ Len(conn.inbox) \in Nat /\ DOMAIN conn.inbox = 1 .. Len(conn.inbox)
        /\ \A i \in DOMAIN conn.inbox : i \in DOMAIN conn'.inbox /\ conn'.inbox[i] = conn.inbox[i]
        /\ Len(conn'.inbox) \in Nat /\ Len(conn.inbox) <= Len(conn'.inbox)
        /\ \A i \in DOMAIN conn'.inbox : i \in DOMAIN conn.inbox \/ conn'.inbox[i] = m
    BY <2>2, PushedInbox DEF ConnStays
  <2>4. QED
    BY <2>2, <2>3, SnapshotsPushed
<1>3. ASSUME Drop \/ Crash
      PROVE  SnapshotInv'
  <2>1. ~conn'.open
    BY <1>3, Disconnected
  <2>2. QED
    BY <1>a, <2>1
<1>4. ASSUME Dial
      PROVE  SnapshotInv'
  <2>1. conn'.inbox = <<>> /\ bridge'.step = 1 /\ bridge'.pc = "setup"
    BY <1>4 DEF Dial, Closed, Dialing
  <2>2. \A k \in Kinds : ~AskedFor(k)' /\ ~Reconciled(k)'
    BY <2>1, StagesNext
  <2>3. NewestLast'
    BY <2>1 DEF NewestLast, Kinds
  <2>4. QED
    BY <2>2, <2>3 DEF SnapshotInv, AnswerCorrected, SnapshotsFollow, Kinds
<1>5. ASSUME LoseConnection
      PROVE  SnapshotInv'
  BY <1>5, <1>a DEF LoseConnection
<1>6. ASSUME Subscribe
      PROVE  SnapshotInv'
  <2>1. CASE ~conn'.open
    BY <1>a, <2>1
  <2>2. CASE conn'.open
    <3>1. /\ conn.open /\ conn'.inbox = conn.inbox /\ conn'.subscribed = conn.subscribed
          /\ bridge' = StepOn
      BY <1>6, <2>2, PlaceSets DEF Subscribe, Connections, Closed
    <3>2. bridge.step = 1 /\ bridge.pc = "setup"
      BY <1>6, StepsFields DEF Subscribe, PlaceInv, StepOK
    <3>3. bridge'.step = 2 /\ bridge'.pc # "save"
      BY <3>1, <3>2, StepOnFields
    <3>4. \A k \in Kinds : ~Reconciled(k)'
      BY <3>3, StagesNext, StepsFields DEF Kinds
    <3>5. UNCHANGED <<version, snapshots, late, hurt, missed>>
      BY <1>6 DEF Subscribe, rows, exchange, reported
    <3>6. QED
      BY <3>1, <3>3, <3>4, <3>5, SnapshotsIdle
  <2>3. QED
    BY <2>1, <2>2
<1>7. ASSUME Reconcile
      PROVE  SnapshotInv'
  <2> DEFINE c == Steps[bridge.step]
  <2>1. conn' = conn /\ UNCHANGED <<version, snapshots, late>> /\ bridge.pc = "setup"
    BY <1>7 DEF Reconcile, rows, exchange
  <2>2. CASE bridge' = StepOn /\ UNCHANGED reported /\ Failure
    <3>1. bridge'.pc # "save" /\ hurt' /\ UNCHANGED missed
      BY <2>1, <2>2, StepOnFields, Zenon DEF Failure, reported
    <3>2. QED
      BY <2>1, <3>1, SnapshotsIdle
  <2>3. CASE /\ NoFailure
             /\ \/ /\ c = "fills" /\ UNCHANGED missed
                   /\ bridge' = [bridge EXCEPT !.pc = "save",
                                               !.fills = Latest(ReconcileLimit, executed)]
                \/ /\ c \in Kinds /\ missed' = missed \ {c}
                   /\ bridge' = [bridge EXCEPT !.pc = "save", !.version = version[c]]
    <3>1. /\ bridge'.step = bridge.step
          /\ c # "fills" => bridge'.version = version[c]
          /\ \A k \in missed : k # c => k \in missed'
      BY <2>3, PlaceSets DEF Places
    <3>2. hurt' = hurt
      BY <2>3 DEF NoFailure
    <3>3. ASSUME NEW k \in Kinds, AskedFor(k)'
          PROVE  bridge'.version = version'[k] \/ Corrected(k)'
      <4>1. Steps[bridge'.step] = k /\ k # "fills"
        BY <3>3, StagesNext DEF Kinds
      <4>2. bridge'.version = version[k]
        BY <3>1, <4>1
      <4>3. QED
        BY <2>1, <4>2
    <3>4. ASSUME conn'.open, ~hurt', NEW k \in Kinds, Reconciled(k)'
          PROVE  snapshots'[k] = version'[k] \/ k \in late' \/ Corrected(k)'
      <4>0. \E i \in 1 .. bridge'.step - 1 : Steps[i] = k
        BY <3>4, StagesNext
      <4>1. Reconciled(k)
        BY <3>1, <4>0 DEF Reconciled
      <4>2. bridge.step \in 1 .. 4
        BY <2>1, StepsFields DEF PlaceInv, StepOK
      <4>3. k # c
        BY <4>1, <4>2, StepsFields DEF Reconciled, Kinds
      <4>4. Corrected(k) => Corrected(k)'
        BY <2>1, <3>1, <4>3 DEF Corrected, OnItsWay
      <4>5. QED
        BY <2>1, <3>2, <3>4, <4>1, <4>4 DEF SnapshotInv, SnapshotsFollow
    <3>5. conn'.open => NewestLast'
      BY <2>1 DEF SnapshotInv, NewestLast, Kinds
    <3>6. QED
      BY <3>3, <3>4, <3>5 DEF SnapshotInv, AnswerCorrected, SnapshotsFollow, Kinds
  <2>4. QED
    BY <1>7, <2>2, <2>3 DEF Reconcile
<1>8. ASSUME SaveReconciled
      PROVE  SnapshotInv'
  <2> DEFINE c == Steps[bridge.step]
  <2>1. /\ conn' = conn /\ UNCHANGED <<version, missed>> /\ bridge.pc = "save" /\ c # "fills"
        /\ SaveSnapshot(c, bridge.version) /\ bridge' = [StepOn EXCEPT !.version = 0]
    BY <1>8 DEF SaveReconciled, exchange, reported
  <2>2. bridge.step \in {2, 3} /\ c \in Kinds
    BY <2>1, StepsFields DEF PlaceInv, StepOK, Kinds
  <2>3. bridge'.step = bridge.step + 1 /\ bridge'.pc # "save"
    <3>1. /\ StepOn \in Places /\ StepOn.step = bridge.step + 1
          /\ StepOn.pc \in {"setup", "read"}
      BY <2>1, StepOnFields
    <3>2. QED
      BY <2>1, <3>1 DEF Places
  <2>4. CASE UNCHANGED <<snapshots, late>> /\ Failure
    <3>1. hurt'
      BY <2>4, Zenon DEF Failure
    <3>2. QED
      BY <2>1, <2>3, <2>4, <3>1, SnapshotsIdle
  <2>5. CASE /\ snapshots' = [snapshots EXCEPT ![c] = bridge.version] /\ late' = late \ {c}
             /\ NoFailure
    <3>1. hurt' = hurt
      BY <2>5 DEF NoFailure
    <3>2. ASSUME conn'.open, ~hurt', NEW k \in Kinds, Reconciled(k)'
          PROVE  snapshots'[k] = version'[k] \/ k \in late' \/ Corrected(k)'
      <4>1. CASE k = c
        <5>1. AskedFor(k)
          BY <2>1, <4>1 DEF AskedFor
        <5>2. bridge.version = version[k] \/ Corrected(k)
          BY <2>1, <3>2, <5>1 DEF SnapshotInv, AnswerCorrected
        <5>3. snapshots'[k] = bridge.version
          BY <1>0, <2>2, <2>5, <4>1
        <5>4. QED
          BY <2>1, <5>2, <5>3, CorrectedKept
      <4>2. CASE k # c
        <5>1. Reconciled(k)
          BY <2>2, <2>3, <3>2, <4>2, StagesNext DEF Reconciled
        <5>2. snapshots[k] = version[k] \/ k \in late \/ Corrected(k)
          BY <2>1, <3>1, <3>2, <5>1 DEF SnapshotInv, SnapshotsFollow
        <5>3. snapshots'[k] = snapshots[k] /\ (k \in late => k \in late')
          BY <1>0, <2>5, <4>2
        <5>4. QED
          BY <2>1, <5>2, <5>3, CorrectedKept
      <4>3. QED
        BY <4>1, <4>2
    <3>3. conn'.open => NewestLast'
      BY <2>1 DEF SnapshotInv, NewestLast, Kinds
    <3>4. \A k \in Kinds : ~AskedFor(k)'
      BY <2>3, StagesNext
    <3>5. QED
      BY <3>2, <3>3, <3>4 DEF SnapshotInv, AnswerCorrected, SnapshotsFollow, Kinds
  <2>6. QED
    BY <2>1, <2>4, <2>5 DEF SaveSnapshot
<1>9. ASSUME SaveReconciledFills
      PROVE  SnapshotInv'
  <2>1. /\ conn' = conn /\ UNCHANGED <<version, snapshots, late, missed>> /\ bridge.pc = "save"
        /\ Steps[bridge.step] = "fills" /\ bridge' = [StepOn EXCEPT !.fills = <<>>]
        /\ hurt' \/ hurt' = hurt
    BY <1>9, Zenon DEF SaveReconciledFills, exchange, reported, Failure, NoFailure
  <2>2. bridge.step = 4
    BY <2>1, StepsFields DEF PlaceInv, StepOK
  <2>3. bridge'.step = 5 /\ bridge'.pc # "save"
    <3>1. /\ StepOn \in Places /\ StepOn.step = bridge.step + 1
          /\ StepOn.pc \in {"setup", "read"}
      BY <2>1, StepOnFields
    <3>2. QED
      BY <2>1, <2>2, <3>1 DEF Places
  <2>4. \A k \in Kinds : Reconciled(k)' => Reconciled(k)
    BY <2>2, <2>3, StagesNext, StepsFields DEF Reconciled, Kinds
  <2>5. QED
    BY <2>1, <2>3, <2>4, SnapshotsIdle
<1>10. ASSUME ReadSnapshot
      PROVE  SnapshotInv'
  <2> DEFINE m == Head(conn.inbox)
             c == m.channel
  <2>1. /\ conn.inbox # <<>> /\ conn' = Received /\ c \in Kinds /\ SaveSnapshot(c, m.version)
        /\ UNCHANGED <<version, bridge, missed>> /\ bridge.pc = "read"
    BY <1>10 DEF ReadSnapshot, exchange, reported
  <2>2. conn'.open = conn.open
    BY <2>1, ReceivedInbox DEF ConnStays
  <2>3. ASSUME conn'.open
        PROVE  /\ NewestLast'
               /\ \A k \in Kinds : k = c => m.version = version[k] \/ Corrected(k)'
    <3>1. NewestLast /\ UNCHANGED version
      BY <2>1, <2>2, <2>3 DEF SnapshotInv
    <3>2. QED
      BY <2>1, <3>1, NewestAfterRead
  <2>4. \A k \in Kinds : ~AskedFor(k)'
    BY <2>1, StagesNext
  <2>5. ASSUME conn'.open, ~hurt', NEW k \in Kinds, Reconciled(k)'
        PROVE  snapshots'[k] = version'[k] \/ k \in late' \/ Corrected(k)'
    <3>1. /\ snapshots' = [snapshots EXCEPT ![c] = m.version] /\ late' = late \ {c}
          /\ hurt' = hurt
      BY <2>1, <2>5, Zenon DEF SaveSnapshot, Failure, NoFailure
    <3>2. CASE k = c
      BY <1>0, <2>1, <2>3, <2>5, <3>1, <3>2
    <3>3. CASE k # c
      <4>1. Reconciled(k)
        BY <2>1, <2>5, StagesNext DEF Reconciled
      <4>2. snapshots[k] = version[k] \/ k \in late \/ Corrected(k)
        BY <2>2, <2>5, <3>1, <4>1 DEF SnapshotInv, SnapshotsFollow
      <4>3. snapshots'[k] = snapshots[k] /\ (k \in late => k \in late')
        BY <1>0, <3>1, <3>3
      <4>4. QED
        BY <2>1, <3>3, <4>2, <4>3, CorrectedAfterRead
    <3>4. QED
      BY <3>2, <3>3
  <2>6. QED
    BY <2>3, <2>4, <2>5 DEF SnapshotInv, AnswerCorrected, SnapshotsFollow, Kinds
<1>11. ASSUME ReadFills
       PROVE  SnapshotInv'
  <2>1. /\ conn.inbox # <<>> /\ conn' = Received /\ Head(conn.inbox).channel \notin Kinds
        /\ UNCHANGED <<version, snapshots, late, hurt, missed>> /\ bridge.pc = "read"
    BY <1>11 DEF ReadFills, exchange, rows, reported, Kinds
  <2>2. bridge'.pc # "save" /\ bridge'.step = bridge.step
    BY <1>11, PlaceSets DEF ReadFills, Places
  <2>3. conn'.open = conn.open
    BY <2>1, ReceivedInbox DEF ConnStays
  <2>4. conn'.open => NewestLast'
    BY <2>1, <2>3, NewestAfterRead DEF SnapshotInv
  <2>5. \A k \in Kinds : ~AskedFor(k)'
    BY <2>2, StagesNext
  <2>6. ASSUME conn'.open, ~hurt', NEW k \in Kinds, Reconciled(k)'
        PROVE  snapshots'[k] = version'[k] \/ k \in late' \/ Corrected(k)'
    <3>1. Reconciled(k)
      BY <2>2, <2>6, StagesNext DEF Reconciled
    <3>2. snapshots[k] = version[k] \/ k \in late \/ Corrected(k)
      BY <2>1, <2>3, <2>6, <3>1 DEF SnapshotInv, SnapshotsFollow
    <3>3. QED
      BY <2>1, <3>2, CorrectedAfterRead
  <2>7. QED
    BY <2>4, <2>5, <2>6 DEF SnapshotInv, AnswerCorrected, SnapshotsFollow, Kinds
<1>12. ASSUME PublishFill \/ StoreFills
       PROVE  SnapshotInv'
  <2>1. /\ conn' = conn /\ UNCHANGED <<version, snapshots, late, missed>>
        /\ hurt' \/ hurt' = hurt
    BY <1>12, Zenon DEF PublishFill, StoreFills, exchange, rows, reported, Failure, NoFailure
  <2>2. bridge'.pc # "save" /\ bridge'.step = bridge.step
    BY <1>12, PlaceSets DEF PublishFill, StoreFills, ReadOn, Places
  <2>3. \A k \in Kinds : Reconciled(k)' => Reconciled(k)
    BY <2>2, StagesNext DEF Reconciled
  <2>4. QED
    BY <2>1, <2>2, <2>3, SnapshotsIdle
<1>13. ASSUME NEW h \in Handlers,
              (\E k \in Kinds : BeginRead(h, k)) \/ ProviderAnswers(h) \/ Fallback(h)
       PROVE  SnapshotInv'
  BY <1>b, <1>13
  DEF BeginRead, ProviderAnswers, Fallback, ReadFailure, NoFailure, rows, exchange, reported
<1>14. ASSUME NEW h \in Handlers, SaveRead(h)
       PROVE  SnapshotInv'
  <2> DEFINE c == reads[h].kind
             n == reads[h].version
  <2>1. UNCHANGED <<version, conn, bridge, hurt, missed>>
    BY <1>14 DEF SaveRead, exchange, reported, ReadFailure, NoFailure
  <2>2. CASE UNCHANGED <<snapshots, late>>
    BY <1>b, <2>1, <2>2
  <2>3. CASE /\ snapshots' = [snapshots EXCEPT ![c] = n]
             /\ late' = IF n = version[c] THEN late \ {c} ELSE late \cup {c}
    <3>1. c \in Kinds
      BY DEF PlaceInv, LiveTypeOK
    <3>2. ASSUME conn'.open, ~hurt', NEW k \in Kinds, Reconciled(k)'
          PROVE  snapshots'[k] = version'[k] \/ k \in late' \/ Corrected(k)'
      <4>1. CASE k = c
        BY <1>0, <2>1, <2>3, <4>1
      <4>2. CASE k # c
        <5>1. Reconciled(k)
          BY <2>1, <3>2, StagesNext DEF Reconciled
        <5>2. snapshots[k] = version[k] \/ k \in late \/ Corrected(k)
          BY <2>1, <3>2, <5>1 DEF SnapshotInv, SnapshotsFollow
        <5>3. snapshots'[k] = snapshots[k] /\ (k \in late => k \in late')
          BY <1>0, <2>3, <4>2
        <5>4. QED
          BY <2>1, <5>2, <5>3, CorrectedKept
      <4>3. QED
        BY <4>1, <4>2
    <3>3. conn'.open => NewestLast'
      BY <2>1 DEF SnapshotInv, NewestLast, Kinds
    <3>4. ASSUME conn'.open, NEW k \in Kinds, AskedFor(k)'
          PROVE  bridge'.version = version'[k] \/ Corrected(k)'
      <4>1. AskedFor(k)
        BY <2>1, <3>4, StagesNext DEF AskedFor
      <4>2. QED
        BY <2>1, <3>4, <4>1, CorrectedKept DEF SnapshotInv, AnswerCorrected
    <3>5. QED
      BY <3>2, <3>3, <3>4 DEF SnapshotInv, AnswerCorrected, SnapshotsFollow, Kinds
  <2>4. QED
    BY <1>14, <2>2, <2>3 DEF SaveRead
<1>15. CASE UNCHANGED liveVars
  BY <1>b, <1>15 DEF liveVars
<1>16. ASSUME NEW channel \in Channels, TakeEffect(channel)
       PROVE  SnapshotInv'
  <2>1. /\ conn.open /\ conn.subscribed \subseteq conn'.subscribed
        /\ UNCHANGED <<version, bridge, snapshots, late, hurt, missed>>
        /\ Len(conn.inbox) \in Nat /\ DOMAIN conn.inbox = 1 .. Len(conn.inbox)
    BY <1>16, EffectInbox DEF exchange
  <2>2. \/ conn'.inbox = conn.inbox
        \/ \E s \in Seq(Fills) :
             /\ DOMAIN conn'.inbox = 1 .. Len(conn.inbox) + 1
             /\ Len(conn'.inbox) = Len(conn.inbox) + 1
             /\ \A i \in 1 .. Len(conn.inbox) : conn'.inbox[i] = conn.inbox[i]
             /\ conn'.inbox[Len(conn.inbox) + 1] = [channel |-> "userFills", fills |-> s]
    BY <1>16, EffectInbox
  <2>3. /\ Len(conn'.inbox) \in Nat /\ Len(conn.inbox) <= Len(conn'.inbox)
        /\ \A i \in DOMAIN conn.inbox : i \in DOMAIN conn'.inbox /\ conn'.inbox[i] = conn.inbox[i]
        /\ \A i \in DOMAIN conn'.inbox : i \in DOMAIN conn.inbox \/ conn'.inbox[i].channel \notin Kinds
    <3>1. CASE conn'.inbox = conn.inbox
      BY <2>1, <3>1
    <3>2. ASSUME NEW s \in Seq(Fills),
                 DOMAIN conn'.inbox = 1 .. Len(conn.inbox) + 1,
                 Len(conn'.inbox) = Len(conn.inbox) + 1,
                 \A i \in 1 .. Len(conn.inbox) : conn'.inbox[i] = conn.inbox[i],
                 conn'.inbox[Len(conn.inbox) + 1] = [channel |-> "userFills", fills |-> s]
          PROVE  /\ Len(conn'.inbox) \in Nat /\ Len(conn.inbox) <= Len(conn'.inbox)
                 /\ \A i \in DOMAIN conn.inbox : i \in DOMAIN conn'.inbox /\ conn'.inbox[i] = conn.inbox[i]
                 /\ \A i \in DOMAIN conn'.inbox : i \in DOMAIN conn.inbox \/ conn'.inbox[i].channel \notin Kinds
      <4>1. conn'.inbox[Len(conn.inbox) + 1].channel \notin Kinds
        BY <3>2 DEF Kinds
      <4>2. QED
        BY <2>1, <3>2, <4>1
    <3>3. QED
      BY <2>2, <3>1, <3>2
  <2>4. QED
    BY <2>1, <2>3, SnapshotsPushed
<1>17. QED
  BY <1>1, <1>2, <1>3, <1>4, <1>5, <1>6, <1>7, <1>8, <1>9, <1>10, <1>11, <1>12, <1>13, <1>14,
     <1>15, <1>16
  DEF LiveNext, BridgeStep

-----------------------------------------------------------------------------
\* Fills: what was reported and is not announced, or not stored, is on its way or
\* at hand.

FillInv == conn.open /\ ~hurt => FillsFollow

Followed(f) ==
  /\ f \in announced \/ InMessage(f) \/ ToPublish(f) \/ ToSave(f)
  /\ f \in stored \/ InMessage(f) \/ ToStore(f) \/ ToSave(f)

LEMMA FollowedNow ==
  ASSUME FillInv, conn.open, ~hurt, NEW f \in due
  PROVE  Followed(f)
BY DEF FillInv, FillsFollow, Followed

LEMMA FollowNext ==
  ASSUME conn'.open /\ ~hurt' => \A f \in due' : Followed(f)'
  PROVE  FillInv'
BY DEF FillInv, FillsFollow, Followed

LEMMA FillStagesNext ==
  ASSUME NEW f
  PROVE  /\ InMessage(f)' <=> \E i \in DOMAIN conn'.inbox :
              conn'.inbox[i].channel = "userFills" /\ f \in SetOf(conn'.inbox[i].fills)
         /\ ToPublish(f)' <=>
              /\ bridge'.pc = "publish"
              /\ \E i \in DOMAIN bridge'.fills : i >= bridge'.next /\ bridge'.fills[i] = f
         /\ ToStore(f)' <=> bridge'.pc \in {"publish", "append"} /\ f \in SetOf(bridge'.fills)
         /\ ToSave(f)' <=> /\ bridge'.pc = "save" /\ Steps[bridge'.step] = "fills"
                           /\ f \in SetOf(bridge'.fills)
BY DEF InMessage, ToPublish, ToStore, ToSave, SetOf, Steps

\* The goroutine has no fill at hand.
NoneAtHand == \A f \in due : ~ToPublish(f) /\ ~ToStore(f) /\ ~ToSave(f)

MessagesStay ==
  \A i \in DOMAIN conn.inbox : \E j \in DOMAIN conn'.inbox : conn'.inbox[j] = conn.inbox[i]

LEMMA MessageKept ==
  ASSUME NEW f, InMessage(f), MessagesStay
  PROVE  InMessage(f)'
<1>1. PICK i \in DOMAIN conn.inbox : conn.inbox[i].channel = "userFills" /\ f \in SetOf(conn.inbox[i].fills)
  BY DEF InMessage
<1>2. PICK j \in DOMAIN conn'.inbox : conn'.inbox[j] = conn.inbox[i]
  BY <1>1 DEF MessagesStay
<1>3. QED
  BY <1>1, <1>2, FillStagesNext

LEMMA FollowedStays ==
  ASSUME NEW f, Followed(f), UNCHANGED bridge, InMessage(f) => InMessage(f)',
         stored \subseteq stored', announced \subseteq announced'
  PROVE  Followed(f)'
<1>1. /\ ToPublish(f) => ToPublish(f)'
      /\ ToStore(f) => ToStore(f)'
      /\ ToSave(f) => ToSave(f)'
  BY FillStagesNext DEF ToPublish, ToStore, ToSave
<1>2. QED
  BY <1>1 DEF Followed

LEMMA MessageRead ==
  ASSUME PlaceInv, conn.inbox # <<>>, conn' = Received
  PROVE  /\ conn'.open = conn.open
         /\ \A f : InMessage(f) => InMessage(f)' \/ (Head(conn.inbox).channel = "userFills"
                                                    /\ f \in SetOf(Head(conn.inbox).fills))
<1>1. /\ conn'.open = conn.open
      /\ DOMAIN conn.inbox = 1 .. Len(conn.inbox) /\ Len(conn.inbox) \in Nat
      /\ DOMAIN conn'.inbox = 1 .. Len(conn.inbox) - 1 /\ conn.inbox[1] = Head(conn.inbox)
      /\ \A i \in 1 .. Len(conn.inbox) - 1 : conn'.inbox[i] = conn.inbox[i + 1]
  BY ReceivedInbox DEF ConnStays
<1>2. ASSUME NEW f, InMessage(f), ~InMessage(f)'
      PROVE  Head(conn.inbox).channel = "userFills" /\ f \in SetOf(Head(conn.inbox).fills)
  <2>1. PICK i \in DOMAIN conn.inbox :
          conn.inbox[i].channel = "userFills" /\ f \in SetOf(conn.inbox[i].fills)
    BY <1>2 DEF InMessage
  <2>2. CASE i = 1
    BY <1>1, <2>1, <2>2
  <2>3. CASE i # 1
    <3>1. i - 1 \in DOMAIN conn'.inbox /\ conn'.inbox[i - 1] = conn.inbox[i]
      BY <1>1, <2>1, <2>3
    <3>2. QED
      BY <1>2, <2>1, <3>1, FillStagesNext
  <2>4. QED
    BY <2>2, <2>3
<1>3. QED
  BY <1>1, <1>2

\* A step that loses neither a message nor a fill at hand, and reports no fill
\* but in a message or to the goroutine.
LEMMA FillsIdle ==
  ASSUME FillInv, conn'.open => conn.open, ~hurt' => ~hurt,
         stored \subseteq stored', announced \subseteq announced', MessagesStay,
         \A f \in due' : f \in due \/ InMessage(f)' \/ ToSave(f)',
         bridge' = bridge \/ NoneAtHand
  PROVE  FillInv'
<1> SUFFICES ASSUME conn'.open, ~hurt', NEW f \in due'
             PROVE  Followed(f)'
  BY FollowNext
<1>1. CASE InMessage(f)' \/ ToSave(f)'
  BY <1>1 DEF Followed
<1>2. CASE f \in due
  <2>1. Followed(f) /\ (InMessage(f) => InMessage(f)')
    BY <1>2, FollowedNow, MessageKept
  <2>2. CASE bridge' = bridge
    BY <2>1, <2>2, FollowedStays
  <2>3. CASE NoneAtHand
    BY <1>2, <2>1, <2>3 DEF NoneAtHand, Followed
  <2>4. QED
    BY <2>2, <2>3
<1>3. QED
  BY <1>1, <1>2

LEMMA FillsKept ==
  ASSUME PlaceInv, FillInv, [LiveNext]_liveVars
  PROVE  FillInv'
<1>0. conn.open \in BOOLEAN /\ hurt \in BOOLEAN /\ executed \in Seq(Fills) /\ due \subseteq Fills
  BY PlaceFields
<1>a. ASSUME ~conn'.open \/ hurt'
      PROVE  FillInv'
  BY <1>a, FollowNext
<1>b. ASSUME conn' = conn, bridge' = bridge, UNCHANGED <<stored, announced, hurt, due>>
      PROVE  FillInv'
  BY <1>b, FillsIdle DEF MessagesStay
<1>1. ASSUME NEW k \in Kinds, Change(k)
      PROVE  FillInv'
  <2>1. PICK m \in Message : m = [channel |-> k, version |-> version[k] + 1]
    <3>1. version[k] + 1 \in Nat
      BY PlaceFields
    <3>2. QED
      BY <3>1, NewMessages
  <2>2. Push(m) /\ UNCHANGED <<bridge, stored, announced, hurt, due>>
    BY <1>1, <2>1 DEF Change, rows
  <2>3. conn'.open = conn.open /\ MessagesStay
    BY <2>2, PushedInbox DEF ConnStays, MessagesStay
  <2>4. QED
    BY <2>2, <2>3, FillsIdle
<1>2. ASSUME NEW e \in Fills, Execute(e)
      PROVE  FillInv'
  <2>1. PICK m \in Message : m = [channel |-> "userFills", fills |-> <<e>>]
    <3>1. <<e>> \in Seq(Fills)
      OBVIOUS
    <3>2. QED
      BY <3>1, NewMessages
  <2>2. /\ Push(m) /\ UNCHANGED <<bridge, stored, announced, hurt>>
        /\ due' = IF "userFills" \in conn.subscribed THEN due \cup {e} ELSE due
        /\ m.channel = "userFills" /\ SetOf(m.fills) = {e}
    BY <1>2, <2>1, SetOfOne DEF Execute, rows
  <2>3. /\ conn'.open = conn.open /\ MessagesStay
        /\ "userFills" \in conn.subscribed =>
             /\ Len(conn.inbox) + 1 \in DOMAIN conn'.inbox
             /\ conn'.inbox[Len(conn.inbox) + 1] = m
    BY <2>2, PushedInbox DEF ConnStays, MessagesStay
  <2>4. \A f \in due' : f \in due \/ InMessage(f)'
    BY <2>2, <2>3, FillStagesNext
  <2>5. QED
    BY <2>2, <2>3, <2>4, FillsIdle
<1>3. ASSUME Drop \/ Crash
      PROVE  FillInv'
  <2>1. ~conn'.open
    BY <1>3, Disconnected
  <2>2. QED
    BY <1>a, <2>1
<1>4. ASSUME LoseConnection
      PROVE  FillInv'
  BY <1>4, <1>a DEF LoseConnection
<1>5. ASSUME Subscribe
      PROVE  FillInv'
  <2>1. CASE ~conn'.open
    BY <1>a, <2>1
  <2>2. CASE conn'.open
    <3>1. conn.open /\ conn'.inbox = conn.inbox
      BY <1>5, <2>2, PlaceSets DEF Subscribe, Connections, Closed
    <3>2. UNCHANGED <<stored, announced, hurt, due>> /\ NoneAtHand
      BY <1>5 DEF Subscribe, rows, reported, NoneAtHand, ToPublish, ToStore, ToSave
    <3>3. QED
      BY <3>1, <3>2, FillsIdle DEF MessagesStay
  <2>3. QED
    BY <2>1, <2>2
<1>6. ASSUME Reconcile
      PROVE  FillInv'
  <2> DEFINE fills == Latest(ReconcileLimit, executed)
  <2>1. conn' = conn /\ UNCHANGED <<stored, announced>> /\ NoneAtHand
    BY <1>6 DEF Reconcile, rows, NoneAtHand, ToPublish, ToStore, ToSave
  <2>2. hurt' \/ hurt' = hurt
    BY <1>6, Zenon DEF Reconcile, Failure, NoFailure
  <2>3. \A f \in due' : f \in due \/ ToSave(f)'
    <3>1. CASE due' = due
      BY <3>1
    <3>2. CASE /\ Steps[bridge.step] = "fills" /\ due' = due \cup SetOf(fills)
               /\ bridge' = [bridge EXCEPT !.pc = "save", !.fills = fills]
      <4> HIDE DEF fills
      <4>1. bridge'.pc = "save" /\ bridge'.step = bridge.step /\ bridge'.fills = fills
        BY <3>2, PlaceSets DEF Places
      <4>2. QED
        BY <3>2, <4>1, FillStagesNext
    <3>3. QED
      BY <1>6, <3>1, <3>2 DEF Reconcile, reported
  <2>4. QED
    BY <2>1, <2>2, <2>3, FillsIdle DEF MessagesStay
<1>7. ASSUME SaveReconciled
      PROVE  FillInv'
  <2>1. conn' = conn /\ UNCHANGED <<stored, announced, due>> /\ NoneAtHand
    BY <1>7 DEF SaveReconciled, reported, NoneAtHand, ToPublish, ToStore, ToSave
  <2>2. hurt' \/ hurt' = hurt
    BY <1>7, Zenon DEF SaveReconciled, SaveSnapshot, Failure, NoFailure
  <2>3. QED
    BY <2>1, <2>2, FillsIdle DEF MessagesStay
<1>8. ASSUME SaveReconciledFills
      PROVE  FillInv'
  <2>1. conn' = conn /\ UNCHANGED due /\ bridge.pc = "save"
    BY <1>8 DEF SaveReconciledFills, reported
  <2>2. CASE Failure
    BY <1>a, <2>2, Zenon DEF Failure
  <2>3. CASE /\ stored' = stored \cup SetOf(bridge.fills)
             /\ announced' = announced \cup SetOf(bridge.fills)
             /\ NoFailure
    <3>1. hurt' = hurt
      BY <2>3 DEF NoFailure
    <3>2. ASSUME conn'.open, ~hurt', NEW f \in due'
          PROVE  Followed(f)'
      <4>1. Followed(f) /\ (InMessage(f) => InMessage(f)') /\ ~ToPublish(f) /\ ~ToStore(f)
        BY <2>1, <3>1, <3>2, FollowedNow, MessageKept DEF MessagesStay, ToPublish, ToStore
      <4>2. ToSave(f) => f \in stored' /\ f \in announced'
        BY <2>3 DEF ToSave
      <4>3. QED
        BY <2>3, <4>1, <4>2 DEF Followed
    <3>3. QED
      BY <3>2, FollowNext
  <2>4. QED
    BY <1>8, <2>2, <2>3 DEF SaveReconciledFills
<1>9. ASSUME ReadSnapshot
      PROVE  FillInv'
  <2>1. /\ conn.inbox # <<>> /\ conn' = Received /\ Head(conn.inbox).channel \in Kinds
        /\ UNCHANGED <<bridge, stored, announced, due>>
    BY <1>9 DEF ReadSnapshot, reported
  <2>2. hurt' \/ hurt' = hurt
    BY <1>9, Zenon DEF ReadSnapshot, SaveSnapshot, Failure, NoFailure
  <2>3. /\ conn'.open = conn.open
        /\ \A f : InMessage(f) => InMessage(f)' \/ (Head(conn.inbox).channel = "userFills"
                                                    /\ f \in SetOf(Head(conn.inbox).fills))
    BY <2>1, MessageRead
  <2>4. ASSUME conn'.open, ~hurt', NEW f \in due'
        PROVE  Followed(f)'
    <3>1. Followed(f) /\ (InMessage(f) => InMessage(f)')
      BY <2>1, <2>2, <2>3, <2>4, FollowedNow DEF Kinds
    <3>2. QED
      BY <2>1, <3>1, FollowedStays
  <2>5. QED
    BY <2>4, FollowNext
<1>10. ASSUME ReadFills
       PROVE  FillInv'
  <2>1. /\ conn.inbox # <<>> /\ conn' = Received /\ Head(conn.inbox).channel = "userFills"
        /\ UNCHANGED <<stored, announced, hurt, due>> /\ bridge.pc = "read"
    BY <1>10 DEF ReadFills, rows, reported
  <2>2. /\ conn'.open = conn.open
        /\ \A f : InMessage(f) => InMessage(f)' \/ (Head(conn.inbox).channel = "userFills"
                                                    /\ f \in SetOf(Head(conn.inbox).fills))
    BY <2>1, MessageRead
  <2>3. /\ bridge'.fills = Head(conn.inbox).fills /\ bridge'.next = 1
        /\ bridge'.pc = IF Head(conn.inbox).fills = <<>> THEN "append" ELSE "publish"
    BY <1>10, PlaceSets DEF ReadFills, Places
  <2>4. Head(conn.inbox).fills \in Seq(Fills)
    BY <2>1, ReceivedInbox, InboundFields
  <2>5. ASSUME conn'.open, ~hurt', NEW f \in due'
        PROVE  Followed(f)'
    <3>1. Followed(f) /\ ~ToPublish(f) /\ ~ToStore(f) /\ ~ToSave(f)
      BY <2>1, <2>2, <2>5, FollowedNow DEF ToPublish, ToStore, ToSave
    <3>2. CASE InMessage(f)'
      BY <3>2 DEF Followed
    <3>3. CASE f \in SetOf(Head(conn.inbox).fills)
      <4>1. PICK i \in DOMAIN bridge'.fills : bridge'.fills[i] = f
        BY <2>3, <3>3 DEF SetOf
      <4>2. i >= 1 /\ Head(conn.inbox).fills # <<>>
        BY <2>3, <2>4, <4>1, LenProperties, EmptySeq
      <4>3. ToPublish(f)' /\ ToStore(f)'
        BY <2>3, <3>3, <4>1, <4>2, FillStagesNext
      <4>4. QED
        BY <4>3 DEF Followed
    <3>4. CASE ~InMessage(f)
      BY <2>1, <3>1, <3>4 DEF Followed
    <3>5. QED
      BY <2>2, <3>2, <3>3, <3>4
  <2>6. QED
    BY <2>5, FollowNext
<1>11. ASSUME PublishFill
       PROVE  FillInv'
  <2>1. conn' = conn /\ UNCHANGED <<stored, due>> /\ bridge.pc = "publish"
    BY <1>11 DEF PublishFill, rows, reported
  <2>2. CASE Failure
    BY <1>a, <2>2, Zenon DEF Failure
  <2>3. CASE /\ announced' = announced \cup {bridge.fills[bridge.next]}
             /\ bridge' = [bridge EXCEPT !.next = @ + 1,
                             !.pc = IF bridge.next = Len(bridge.fills) THEN "append" ELSE "publish"]
             /\ NoFailure
    <3>1. /\ bridge'.fills = bridge.fills /\ bridge'.next = bridge.next + 1
          /\ bridge'.pc = IF bridge.next = Len(bridge.fills) THEN "append" ELSE "publish"
      BY <2>3, PlaceSets DEF Places
    <3>2. /\ bridge.next \in 1 .. Len(bridge.fills) /\ Len(bridge.fills) \in Nat
          /\ DOMAIN bridge.fills = 1 .. Len(bridge.fills)
      BY <2>1, PlaceFields, LenProperties DEF PlaceInv, LiveTypeOK
    <3>3. hurt' = hurt
      BY <2>3 DEF NoFailure
    <3>4. ASSUME conn'.open, ~hurt', NEW f \in due'
          PROVE  Followed(f)'
      <4>1. Followed(f) /\ (InMessage(f) => InMessage(f)') /\ ~ToSave(f)
        BY <2>1, <3>3, <3>4, FollowedNow, MessageKept DEF MessagesStay, ToSave
      <4>2. ToStore(f) => ToStore(f)'
        BY <3>1, FillStagesNext DEF ToStore
      <4>3. ToPublish(f) => f \in announced' \/ ToPublish(f)'
        <5>1. SUFFICES ASSUME ToPublish(f), f # bridge.fills[bridge.next]
                       PROVE  ToPublish(f)'
          BY <2>3
        <5>2. PICK i \in DOMAIN bridge.fills : i >= bridge.next /\ bridge.fills[i] = f
          BY <5>1 DEF ToPublish
        <5>3. i >= bridge.next + 1 /\ bridge.next # Len(bridge.fills)
          BY <3>2, <5>1, <5>2
        <5>4. QED
          BY <3>1, <5>2, <5>3, FillStagesNext
      <4>4. QED
        BY <2>1, <2>3, <4>1, <4>2, <4>3 DEF Followed
    <3>5. QED
      BY <3>4, FollowNext
  <2>4. QED
    BY <1>11, <2>2, <2>3 DEF PublishFill
<1>12. ASSUME StoreFills
       PROVE  FillInv'
  <2>1. conn' = conn /\ UNCHANGED <<announced, due>> /\ bridge.pc = "append"
    BY <1>12 DEF StoreFills, reported
  <2>2. CASE Failure
    BY <1>a, <2>2, Zenon DEF Failure
  <2>3. CASE stored' = stored \cup SetOf(bridge.fills) /\ NoFailure
    <3>1. hurt' = hurt
      BY <2>3 DEF NoFailure
    <3>2. ASSUME conn'.open, ~hurt', NEW f \in due'
          PROVE  Followed(f)'
      <4>1. Followed(f) /\ (InMessage(f) => InMessage(f)') /\ ~ToPublish(f) /\ ~ToSave(f)
        BY <2>1, <3>1, <3>2, FollowedNow, MessageKept DEF MessagesStay, ToPublish, ToSave
      <4>2. ToStore(f) => f \in stored'
        BY <2>3 DEF ToStore
      <4>3. QED
        BY <2>1, <2>3, <4>1, <4>2 DEF Followed
    <3>3. QED
      BY <3>2, FollowNext
  <2>4. QED
    BY <1>12, <2>2, <2>3 DEF StoreFills
<1>13. ASSUME NEW h \in Handlers,
              (\E k \in Kinds : BeginRead(h, k)) \/ ProviderAnswers(h) \/ Fallback(h) \/ SaveRead(h)
       PROVE  FillInv'
  BY <1>b, <1>13
  DEF BeginRead, ProviderAnswers, Fallback, SaveRead, ReadFailure, NoFailure, rows, reported
<1>14. CASE UNCHANGED liveVars
  BY <1>b, <1>14 DEF liveVars
<1>15. ASSUME NEW channel \in Channels, TakeEffect(channel)
       PROVE  FillInv'
  <2>1. conn.open /\ UNCHANGED <<bridge, stored, announced, hurt>>
    BY <1>15, EffectInbox
  <2>2. Len(conn.inbox) \in Nat /\ DOMAIN conn.inbox = 1 .. Len(conn.inbox)
    BY InboxSeq
  <2>3. CASE conn'.inbox = conn.inbox /\ due' = due
    BY <2>1, <2>3, FillsIdle DEF MessagesStay
  <2>4. ASSUME NEW s \in Seq(Fills), due' = due \cup SetOf(s),
               DOMAIN conn'.inbox = 1 .. Len(conn.inbox) + 1,
               \A i \in 1 .. Len(conn.inbox) : conn'.inbox[i] = conn.inbox[i],
               conn'.inbox[Len(conn.inbox) + 1] = [channel |-> "userFills", fills |-> s]
        PROVE  FillInv'
    <3>1. MessagesStay
      BY <2>2, <2>4 DEF MessagesStay
    <3>2. /\ Len(conn.inbox) + 1 \in DOMAIN conn'.inbox
          /\ conn'.inbox[Len(conn.inbox) + 1].channel = "userFills"
          /\ conn'.inbox[Len(conn.inbox) + 1].fills = s
      BY <2>2, <2>4
    <3>3. ASSUME NEW f \in SetOf(s) PROVE InMessage(f)'
      BY <3>2, FillStagesNext
    <3>4. \A f \in due' : f \in due \/ InMessage(f)'
      BY <2>4, <3>3
    <3>5. QED
      BY <2>1, <3>1, <3>4, FillsIdle
  <2>5. QED
    BY <1>15, <2>3, <2>4, EffectInbox
<1>16. ASSUME Dial
       PROVE  FillInv'
  BY <1>16, FollowNext DEF Dial
<1>17. QED
  BY <1>1, <1>2, <1>3, <1>4, <1>5, <1>6, <1>7, <1>8, <1>9, <1>10, <1>11, <1>12, <1>13, <1>14,
     <1>15, <1>16
  DEF LiveNext, BridgeStep

-----------------------------------------------------------------------------
LiveInv == PlaceInv /\ FillsHappened /\ SnapshotInv /\ FillInv

LEMMA LiveInvStarts ==
  ASSUME LiveInit
  PROVE  LiveInv
<1>1. PlaceInv
  <2>1. bridge = Dialing /\ conn = Closed /\ Dialing \in Places /\ Closed \in Connections
    BY EmptySeq DEF LiveInit, Dialing, Closed, Places, Connections
  <2>2. IdleRead \in [pc: {"idle", "query", "save", "done"}, kind: Kinds,
                      version: Nat, answer: Answers]
    BY DEF IdleRead, Kinds, Answers
  <2>3. PlaceRest
    <3>1. version \in [Kinds -> Nat] /\ snapshots \in [Kinds -> Nat]
      BY DEF LiveInit
    <3>2. /\ executed \in Seq(Fills)
          /\ failures \in 0 .. MaxFailures /\ drops \in 0 .. MaxDrops
      BY EmptySeq, BoundsAssumption DEF LiveInit, BoundsAssumption
    <3>3. reads \in [Handlers -> [pc: {"idle", "query", "save", "done"}, kind: Kinds,
                                  version: Nat, answer: Answers]]
      BY <2>2 DEF LiveInit
    <3>4. /\ stored \subseteq Fills /\ announced \subseteq Fills /\ hurt \in BOOLEAN
          /\ late \subseteq Kinds /\ missed \subseteq Kinds /\ due \subseteq Fills
      BY DEF LiveInit
    <3>5. QED
      BY <3>1, <3>2, <3>3, <3>4 DEF PlaceRest
  <2>4. PlaceIn
    BY <2>1, StepsFields DEF PlaceIn, StepOK, SubscriptionOK, Dialing, Closed
  <2>5. QED
    BY <2>1, <2>3, <2>4, PlaceParts
<1>2. /\ ~conn.open /\ conn.inbox = <<>> /\ bridge.fills = <<>>
      /\ stored = {} /\ announced = {}
  BY DEF LiveInit, Closed, Dialing
<1>3. FillsHappened
  BY <1>2, SetOfEmpty DEF FillsHappened
<1>4. QED
  BY <1>1, <1>2, <1>3 DEF LiveInv, SnapshotInv, FillInv

\* The invariant under everything LiveState shows: on an open connection an old
\* snapshot is followed by a newer one or is on record as missed, and a reported
\* fill is stored and announced or is on its way.
THEOREM LiveInvariant == LiveSpec => []LiveInv
<1>1. LiveInit => LiveInv
  BY LiveInvStarts
<1>2. LiveInv /\ [LiveNext]_liveVars => LiveInv'
  BY PlaceKept, HappenedKept, SnapshotsKept, FillsKept DEF LiveInv
<1>3. QED
  BY <1>1, <1>2, PTL DEF LiveSpec

\* Every reachable state has its declared types, whatever the connection, the
\* goroutine and the handlers do: in particular a goroutine that publishes fills
\* has one to publish (publishUserFills).
THEOREM LiveTypeCorrect == LiveSpec => []LiveTypeOK
<1>1. LiveInv => LiveTypeOK
  BY DEF LiveInv, PlaceInv
<1>2. QED
  BY <1>1, LiveInvariant, PTL

LEMMA QuietCatchesUp ==
  ASSUME LiveInv
  PROVE  QuietIsCaughtUp
<1> SUFFICES ASSUME bridge.pc = "read", conn.subscribed = Channels, conn.inbox = <<>>, ~hurt
             PROVE  CaughtUp
  BY DEF QuietIsCaughtUp
<1>1. bridge.step = 5 /\ conn.open
  BY StepsFields DEF LiveInv, PlaceInv, StepOK, SubscriptionOK, Channels
<1>2. /\ \A k \in Kinds : ~OnItsWay(k) /\ Reconciled(k)
      /\ \A f : ~InMessage(f) /\ ~ToPublish(f) /\ ~ToStore(f) /\ ~ToSave(f)
  BY <1>1, StepsFields DEF OnItsWay, Reconciled, InMessage, ToPublish, ToStore, ToSave, Kinds
<1>3. \A k \in Kinds : snapshots[k] = version[k] \/ k \in late \/ k \in missed
  BY <1>1, <1>2 DEF LiveInv, SnapshotInv, SnapshotsFollow, Corrected
<1>4. \A f \in due : f \in announced /\ f \in stored
  BY <1>1, <1>2 DEF LiveInv, FillInv, FillsFollow
<1>5. stored \subseteq SetOf(executed) /\ announced \subseteq SetOf(executed)
  BY DEF LiveInv, FillsHappened
<1>6. QED
  BY <1>3, <1>4, <1>5 DEF CaughtUp

\* For any fills, handlers, limits of the reconciliation and of the snapshot,
\* failures and lost connections, and whenever the exchange acts on each
\* subscription: a connection on which nothing failed, all is in effect and
\* nothing is left to read has brought the read model up to date, but for a
\* snapshot a handler wrote back late and for a change the exchange had no reason
\* to report (runUserOnce: subscribe, reconcile, read).
THEOREM QuietCaughtUp == LiveSpec => []QuietIsCaughtUp
<1>1. LiveInv => QuietIsCaughtUp
  BY QuietCatchesUp
<1>2. QED
  BY <1>1, LiveInvariant, PTL
=================================================================================
