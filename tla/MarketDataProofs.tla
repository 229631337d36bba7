--------------------------- MODULE MarketDataProofs ---------------------------
(***************************************************************************)
(* Proofs about MarketData for any number of handlers, indexers, tokens and *)
(* blocks and either store: what can block the memory store, and that the   *)
(* checkpoint never runs ahead of the transactions.                         *)
(***************************************************************************)
EXTENDS MarketData, SequenceTheorems, TLAPS

Covered(n) == \A b \in 1 .. n : Listed(b)

\* What a call knows: the state it relies on when it writes or answers.
CallOK(k) ==
  /\ k.pc \in {"wait", "read", "waitInner", "inner"} => k.op \notin Writes
  /\ k.pc \in {"waitInner", "inner"} => k.op # "checkpoint"
  /\ k.pc \in {"drain", "write"} => k.op \in Writes
  /\ k.client # None => k.op \in {"checkpoint", "append", "save"}
  /\ k.op = "upsert" => k.token \in Tokens
  /\ k.op = "append" =>
       /\ k.block \in Blocks /\ k.token = TokenOf[k.block]
       /\ k.client # None => /\ indexers[k.client].stage = "append"
                             /\ k.block = indexers[k.client].block + 1
       /\ k.pc = "answer" /\ k.reply # "error" => Listed(k.block)
  /\ k.op = "save" => Covered(k.block)
  /\ k.op = "checkpoint" /\ k.pc = "answer" /\ k.reply # "error" => Covered(k.block)

\* What an indexer knows at each stage.
IndexerOK(x) ==
  /\ x.stage = "append" => Covered(x.block)
  /\ x.stage = "save" => x.block + 1 \in Blocks /\ Covered(x.block + 1)

CallsOK == \A c \in Calls : CallOK(calls[c])

IndexersOK == \A i \in Indexers : IndexerOK(indexers[i])

OneCall == \A c, d \in Calls :
             calls[c].client # None /\ calls[c].client = calls[d].client => c = d

IInv == TypeOK /\ NoGap /\ CallsOK /\ IndexersOK /\ OneCall

-----------------------------------------------------------------------------
LEMMA SetOfPrepend ==
  ASSUME NEW S, NEW x \in S, NEW s \in Seq(S)
  PROVE  SetOf(<<x>> \o s) = {x} \cup SetOf(s)
<1> DEFINE t == <<x>> \o s
<1>1. t \in Seq(S) /\ Len(t) = Len(s) + 1 /\ t[1] = x
  OBVIOUS
<1>2. \A n \in 1 .. Len(s) : t[n + 1] = s[n]
  OBVIOUS
<1>4. DOMAIN t = 1 .. Len(s) + 1 /\ DOMAIN s = 1 .. Len(s) /\ Len(s) \in Nat
  OBVIOUS
<1>3. \A n \in DOMAIN t : n = 1 \/ (n - 1 \in 1 .. Len(s) /\ t[n] = s[n - 1])
  <2>1. SUFFICES ASSUME NEW n \in DOMAIN t, n # 1
                 PROVE  n - 1 \in 1 .. Len(s) /\ t[n] = s[n - 1]
    OBVIOUS
  <2>2. n \in Int /\ n - 1 \in 1 .. Len(s)
    BY <1>4, <2>1
  <2>3. QED
    BY <1>2, <2>2
<1> HIDE DEF t
<1>5. SetOf(t) \subseteq {x} \cup SetOf(s)
  BY <1>1, <1>3, <1>4 DEF SetOf
<1>6. x \in SetOf(t)
  BY <1>1, <1>4 DEF SetOf
<1>7. SetOf(s) \subseteq SetOf(t)
  <2>1. SUFFICES ASSUME NEW n \in DOMAIN s PROVE s[n] \in SetOf(t)
    BY DEF SetOf
  <2>2. n + 1 \in DOMAIN t /\ t[n + 1] = s[n]
    BY <1>2, <1>4
  <2>3. QED
    BY <2>2 DEF SetOf
<1>8. QED
  BY <1>5, <1>6, <1>7 DEF t

LEMMA Constants ==
  /\ MaxBlock \in Nat
  /\ None \notin Indexers
  /\ \A b \in Blocks : TokenOf[b] \in Tokens /\ b \in 0 .. MaxBlock
  /\ \A n \in 0 .. MaxBlock : 1 .. n \subseteq Blocks
BY MarketAssumption DEF MarketAssumption, Blocks

LEMMA InitIInv == Init => IInv
<1> SUFFICES ASSUME Init PROVE IInv
  OBVIOUS
<1>1. TypeOK
  <2>1. txs \in [Tokens -> Seq(0 .. MaxBlock)]
    <3>1. 0 \in 0 .. MaxBlock
      BY Constants
    <3>2. <<0>> \in Seq(0 .. MaxBlock) /\ <<>> \in Seq(0 .. MaxBlock)
      BY <3>1
    <3>3. QED
      BY <3>2 DEF Init
  <2>2. Idle \in Call
    BY Constants DEF Idle, Call, Pcs, Ops, ClientOps, Writes
  <2>3. StartOver \in [stage: Stages, block: 0 .. MaxBlock]
    BY Constants DEF StartOver, Stages
  <2>4. QED
    BY <2>1, <2>2, <2>3, Constants, MarketAssumption DEF Init, TypeOK, MarketAssumption
<1>2. NoGap
  BY DEF Init, NoGap
<1>3. CallsOK
  BY DEF Init, CallsOK, CallOK, Idle
<1>4. IndexersOK
  BY DEF Init, IndexersOK, IndexerOK, StartOver
<1>5. OneCall
  BY DEF Init, OneCall, Idle
<1>6. QED
  BY <1>1, <1>2, <1>3, <1>4, <1>5 DEF IInv

\* Predicates that only look at the transactions.
LEMMA CoveredKept ==
  ASSUME UNCHANGED txs, NEW n
  PROVE  Covered(n)' <=> Covered(n)
BY DEF Covered, Listed

\* A step that moves one call on and leaves the rest alone.
LEMMA MoveKeeps ==
  ASSUME IInv, NEW c \in Calls, NEW new \in Call, CallOK(new),
         calls' = [calls EXCEPT ![c] = new],
         new.client \in {calls[c].client, None} \/ ~Working(new.client),
         UNCHANGED <<store, tokens, txs, checkpoint, indexers>>,
         failures' \in 0 .. MaxFailures
  PROVE  IInv'
<1>1. TypeOK'
  BY DEF IInv, TypeOK
<1>2. NoGap'
  BY DEF IInv, NoGap, Listed
<1>3. \A d \in Calls : calls'[d] = IF d = c THEN new ELSE calls[d]
  BY DEF IInv, TypeOK
<1>4. \A k : CallOK(k) => CallOK(k)'
  BY CoveredKept DEF CallOK, Listed
<1>5. CallsOK'
  BY <1>3, <1>4 DEF IInv, CallsOK
<1>6. IndexersOK'
  BY CoveredKept DEF IInv, IndexersOK, IndexerOK
<1>7. OneCall'
  BY <1>3 DEF IInv, OneCall, Working
<1>8. QED
  BY <1>1, <1>2, <1>5, <1>6, <1>7 DEF IInv

-----------------------------------------------------------------------------
\* What a write does: nothing stored gets lost, and the checkpoint stays behind.
LEMMA ChangeKeeps ==
  ASSUME IInv, NEW c \in Calls, calls[c].op \in Ops, Change(c)
  PROVE  /\ tokens' \subseteq Tokens
         /\ txs' \in [Tokens -> Seq(0 .. MaxBlock)]
         /\ checkpoint' \in 0 .. MaxBlock
         /\ \A b \in Blocks : Listed(b) => Listed(b)'
         /\ \A b \in Blocks : calls[c].op = "append" /\ calls[c].block = b => Listed(b)'
         /\ NoGap'
<1> DEFINE k == calls[c]
<1>1. CallOK(k) /\ k \in Call /\ TypeOK
  BY DEF IInv, CallsOK, TypeOK
<1>2. tokens' \subseteq Tokens
  BY <1>1 DEF Change, CallOK, TypeOK
<1>3. CASE k.op = "append"
  <2>1. k.block \in Blocks /\ k.token = TokenOf[k.block] /\ k.token \in Tokens
    BY <1>1, <1>3, Constants DEF CallOK
  <2>2. k.block \in 0 .. MaxBlock /\ txs[k.token] \in Seq(0 .. MaxBlock)
    BY <1>1, <2>1, Constants DEF TypeOK
  <2>3. <<k.block>> \o txs[k.token] \in Seq(0 .. MaxBlock)
    BY <2>2
  <2>4. txs' = [txs EXCEPT ![k.token] = <<k.block>> \o @] /\ checkpoint' = checkpoint
    BY <1>3 DEF Change
  <2>5. txs' \in [Tokens -> Seq(0 .. MaxBlock)]
    BY <1>1, <2>3, <2>4 DEF TypeOK
  <2>6. SetOf(txs'[k.token]) = {k.block} \cup SetOf(txs[k.token])
    <3>1. txs'[k.token] = <<k.block>> \o txs[k.token]
      BY <1>1, <2>1, <2>4 DEF TypeOK
    <3>2. SetOf(<<k.block>> \o txs[k.token]) = {k.block} \cup SetOf(txs[k.token])
      BY <2>2, SetOfPrepend
    <3>3. QED
      BY <3>1, <3>2
  <2>7. \A t \in Tokens : t # k.token => txs'[t] = txs[t]
    BY <1>1, <2>4 DEF TypeOK
  <2>8. \A b \in Blocks : Listed(b) => Listed(b)'
    BY <2>6, <2>7, Constants DEF Listed
  <2>9. \A b \in Blocks : k.block = b => Listed(b)'
    BY <2>1, <2>6 DEF Listed
  <2>10. NoGap'
    BY <1>1, <2>4, <2>8, Constants DEF IInv, NoGap, TypeOK
  <2>11. QED
    BY <1>1, <1>2, <2>4, <2>5, <2>8, <2>9, <2>10 DEF TypeOK
<1>4. CASE k.op # "append"
  <2>1. UNCHANGED txs
    BY <1>4 DEF Change
  <2>2. \A b : Listed(b) <=> Listed(b)'
    BY <2>1 DEF Listed
  <2>3. checkpoint' \in 0 .. MaxBlock /\ NoGap'
    <3>1. CASE k.op = "save"
      BY <1>1, <2>2, <3>1 DEF Change, CallOK, Covered, NoGap, Call
    <3>2. CASE k.op # "save"
      BY <1>1, <2>2, <3>2 DEF Change, IInv, NoGap, TypeOK
    <3>3. QED
      BY <3>1, <3>2
  <2>4. QED
    BY <1>1, <1>2, <1>4, <2>1, <2>2, <2>3 DEF TypeOK
<1>5. QED
  BY <1>3, <1>4

\* More transactions: what was covered and what calls and indexers knew remains.
LEMMA GrowthKeeps ==
  ASSUME IInv, \A b \in Blocks : Listed(b) => Listed(b)', UNCHANGED indexers
  PROVE  /\ \A n \in 0 .. MaxBlock : Covered(n) => Covered(n)'
         /\ \A k \in Call : CallOK(k) => CallOK(k)'
         /\ IndexersOK'
<1>1. \A n \in 0 .. MaxBlock : Covered(n) => Covered(n)'
  BY Constants DEF Covered
<1>2. ASSUME NEW k \in Call, CallOK(k) PROVE CallOK(k)'
  <2>1. k.block \in 0 .. MaxBlock
    BY DEF Call
  <2>2. QED
    BY <1>1, <1>2, <2>1 DEF CallOK
<1>3. IndexersOK'
  <2>1. SUFFICES ASSUME NEW i \in Indexers PROVE IndexerOK(indexers[i])'
    BY DEF IndexersOK
  <2>2. IndexerOK(indexers[i]) /\ indexers[i].block \in 0 .. MaxBlock
    BY DEF IInv, IndexersOK, TypeOK
  <2>3. indexers[i].block + 1 \in Blocks => indexers[i].block + 1 \in 0 .. MaxBlock
    BY Constants
  <2>4. QED
    BY <1>1, <2>2, <2>3 DEF IndexerOK
<1>4. QED
  BY <1>1, <1>2, <1>3

-----------------------------------------------------------------------------
\* One lemma per action.

LEMMA TypedCalls ==
  ASSUME IInv, NEW c \in Calls
  PROVE  /\ calls[c] \in Call /\ CallOK(calls[c]) /\ calls[c].op \in Ops
         /\ checkpoint \in 0 .. MaxBlock /\ Covered(checkpoint)
         /\ failures \in 0 .. MaxFailures
BY DEF IInv, TypeOK, CallsOK, Call, NoGap, Covered

LEMMA Failed ==
  ASSUME IInv, Fail
  PROVE  failures' \in 0 .. MaxFailures
BY MarketAssumption DEF IInv, TypeOK, Fail, MarketAssumption

\* The lock and the reads, and every statement that does not write.
LEMMA LockKeeps ==
  ASSUME IInv, NEW c \in Calls, LockRead(c) \/ LockWrite(c) \/ Drained(c)
  PROVE  IInv'
<1> DEFINE new(p) == [calls[c] EXCEPT !.pc = p]
<1>1. PICK p \in Pcs : /\ calls' = [calls EXCEPT ![c] = new(p)]
                       /\ \/ p \in {"read", "wait"} /\ calls[c].op \notin Writes
                          \/ p \in {"write", "drain"} /\ calls[c].op \in Writes
  BY TypedCalls DEF LockRead, LockWrite, Drained, Goto, Pcs, CallOK
<1>2. new(p) \in Call /\ new(p).client = calls[c].client
  BY TypedCalls DEF Call
<1>3. CallOK(new(p))
  BY <1>1, TypedCalls DEF CallOK, Call
<1>4. UNCHANGED <<store, tokens, txs, checkpoint, indexers, failures>>
  BY DEF LockRead, LockWrite, Drained, rows
<1>5. QED
  BY <1>1, <1>2, <1>3, <1>4, TypedCalls, MoveKeeps

LEMMA ReadStoredKeeps ==
  ASSUME IInv, NEW c \in Calls, ReadStored(c)
  PROVE  IInv'
<1> DEFINE new == [calls[c] EXCEPT !.pc = "answer", !.reply = Found(c),
                     !.block = IF calls[c].op = "checkpoint" THEN checkpoint ELSE @]
<1>1. new \in Call /\ new.client = calls[c].client
  BY TypedCalls DEF Call, Pcs, Found
<1>2. CallOK(new)
  BY TypedCalls DEF ReadStored, CallOK, Call, Writes
<1>3. calls' = [calls EXCEPT ![c] = new]
  BY DEF ReadStored
<1>4. UNCHANGED <<store, tokens, txs, checkpoint, indexers, failures>>
  BY DEF ReadStored, rows
<1>5. QED
  BY <1>1, <1>2, <1>3, <1>4, TypedCalls, MoveKeeps

LEMMA ReadNothingKeeps ==
  ASSUME IInv, NEW c \in Calls, ReadNothing(c)
  PROVE  IInv'
<1> DEFINE new(p) == [calls[c] EXCEPT !.pc = p]
<1>1. PICK p \in {"inner", "waitInner"} : calls' = [calls EXCEPT ![c] = new(p)]
  BY DEF ReadNothing, Goto
<1>2. new(p) \in Call /\ new(p).client = calls[c].client
  BY TypedCalls DEF Call, Pcs
<1>3. CallOK(new(p))
  BY <1>1, TypedCalls DEF ReadNothing, NeedsToken, CallOK, Call
<1>4. UNCHANGED <<store, tokens, txs, checkpoint, indexers, failures>>
  BY DEF ReadNothing, rows
<1>5. QED
  BY <1>1, <1>2, <1>3, <1>4, TypedCalls, MoveKeeps

LEMMA ReadTokenKeeps ==
  ASSUME IInv, NEW c \in Calls, ReadToken(c)
  PROVE  IInv'
<1> DEFINE new(a) == [calls[c] EXCEPT !.pc = "answer", !.reply = a]
<1>1. PICK a \in {"generated", "ok"} : calls' = [calls EXCEPT ![c] = new(a)]
  BY DEF ReadToken, Reply
<1>2. new(a) \in Call /\ new(a).client = calls[c].client
  BY TypedCalls DEF Call, Pcs
<1>3. CallOK(new(a))
  BY <1>1, TypedCalls DEF ReadToken, CallOK, Call, Writes
<1>4. UNCHANGED <<store, tokens, txs, checkpoint, indexers, failures>>
  BY DEF ReadToken, rows
<1>5. QED
  BY <1>1, <1>2, <1>3, <1>4, TypedCalls, MoveKeeps

LEMMA ErrorKeeps ==
  ASSUME IInv, NEW c \in Calls, calls[c].pc = "ask", Reply(c, "error"),
         UNCHANGED <<store, tokens, txs, checkpoint, indexers>>,
         failures' \in 0 .. MaxFailures
  PROVE  IInv'
<1> DEFINE new == [calls[c] EXCEPT !.pc = "answer", !.reply = "error"]
<1>1. new \in Call /\ new.client = calls[c].client
  BY TypedCalls DEF Call, Pcs
<1>2. CallOK(new)
  BY TypedCalls DEF CallOK, Call
<1>3. calls' = [calls EXCEPT ![c] = new]
  BY DEF Reply
<1>4. QED
  BY <1>1, <1>2, <1>3, MoveKeeps

\* The writes: the memory store's wakes the readers that wait, a statement does not.
LEMMA WritesKeep ==
  ASSUME IInv, NEW c \in Calls, NEW new \in Call, Change(c),
         new.pc = "answer", new.op = calls[c].op, new.client = calls[c].client,
         new.token = calls[c].token,
         new.block = IF calls[c].op = "checkpoint" THEN checkpoint ELSE calls[c].block,
         calls' \in [Calls -> Call], calls'[c] = new,
         \A d \in Calls \ {c} : /\ CallOK(calls'[d])
                                /\ calls'[d].client = calls[d].client,
         UNCHANGED <<store, indexers, failures>>
  PROVE  IInv'
<1>1. \A b \in Blocks : Listed(b) => Listed(b)'
  BY ChangeKeeps, TypedCalls
<1>2. TypeOK' /\ NoGap'
  BY ChangeKeeps, TypedCalls DEF IInv, TypeOK
<1>3. IndexersOK'
  BY <1>1, GrowthKeeps
<1>4. CallsOK'
  <2>1. SUFFICES ASSUME NEW d \in Calls PROVE CallOK(calls[d])'
    BY DEF CallsOK
  <2>2. CASE d # c
    <3>1. calls'[d] \in Call /\ CallOK(calls'[d])
      BY <2>2
    <3>2. PICK k \in Call : k = calls'[d] /\ CallOK(k)
      BY <3>1
    <3>3. CallOK(k)'
      BY <1>1, <3>2, GrowthKeeps
    <3>4. QED
      BY <3>2, <3>3 DEF CallOK
  <2>3. CASE d = c
    <3>1. CallOK(new)'
      <4>1. CallOK(calls[c]) /\ new.block \in 0 .. MaxBlock
        BY TypedCalls DEF Call
      <4>2. \A n \in 0 .. MaxBlock : Covered(n) => Covered(n)'
        BY <1>1, GrowthKeeps
      <4>3. new.op = "append" => new.block \in Blocks /\ Listed(new.block)'
        <5>1. \A b \in Blocks : calls[c].op = "append" /\ calls[c].block = b => Listed(b)'
          BY ChangeKeeps, TypedCalls
        <5>2. QED
          BY <4>1, <5>1 DEF CallOK
      <4>4. new.op \in {"save", "checkpoint"} => Covered(new.block)'
        BY <4>1, <4>2, TypedCalls DEF CallOK
      <4>5. QED
        BY <4>1, <4>3, <4>4 DEF CallOK
    <3>2. QED
      BY <2>3, <3>1 DEF CallOK
  <2>4. QED
    BY <2>2, <2>3
<1>5. OneCall'
  <2>1. \A d \in Calls : calls'[d].client = calls[d].client
    OBVIOUS
  <2>2. QED
    BY <2>1 DEF IInv, OneCall
<1>6. QED
  BY <1>2, <1>3, <1>4, <1>5 DEF IInv

LEMMA WriteKeeps ==
  ASSUME IInv, NEW c \in Calls, Write(c)
  PROVE  IInv'
<1> DEFINE new == [calls[c] EXCEPT !.pc = "answer", !.reply = "ok"]
<1>1. new \in Call /\ new.op = calls[c].op /\ new.client = calls[c].client
      /\ new.token = calls[c].token /\ new.block = calls[c].block /\ new.pc = "answer"
  BY TypedCalls DEF Call, Pcs
<1>2. calls[c].op # "checkpoint"
  BY TypedCalls DEF Write, CallOK, Writes
<1>3. ASSUME NEW d \in Calls
      PROVE  /\ Admitted(d) \in Call /\ Admitted(d).client = calls[d].client
             /\ CallOK(Admitted(d))
  <2>1. CASE calls[d].pc = "wait"
    BY <2>1, TypedCalls DEF Admitted, Call, Pcs, CallOK
  <2>2. CASE calls[d].pc = "waitInner"
    BY <2>2, TypedCalls DEF Admitted, Call, Pcs, CallOK
  <2>3. CASE calls[d].pc \notin {"wait", "waitInner"}
    BY <2>3, TypedCalls DEF Admitted
  <2>4. QED
    BY <2>1, <2>2, <2>3
<1>4. /\ calls' \in [Calls -> Call] /\ calls'[c] = new
      /\ \A d \in Calls \ {c} : calls'[d] = Admitted(d)
  BY <1>1, <1>3 DEF Write
<1>5. Change(c) /\ UNCHANGED <<store, indexers, failures>>
  BY DEF Write
<1>6. new.block = IF calls[c].op = "checkpoint" THEN checkpoint ELSE calls[c].block
  BY <1>1, <1>2
<1>7. \A d \in Calls \ {c} : CallOK(calls'[d]) /\ calls'[d].client = calls[d].client
  BY <1>3, <1>4
<1> HIDE DEF new
<1>8. QED
  BY <1>1, <1>4, <1>5, <1>6, <1>7, WritesKeep

LEMMA StatementKeeps ==
  ASSUME IInv, NEW c \in Calls, Statement(c)
  PROVE  IInv'
<1>1. calls[c].pc = "ask" /\ UNCHANGED <<store, indexers, failures>>
  BY DEF Statement, Enters
<1>2. CASE Refused(c)
  BY <1>1, <1>2, ErrorKeeps, TypedCalls DEF Statement, rows
<1>3. CASE ~Refused(c)
  <2> DEFINE new == [calls[c] EXCEPT !.pc = "answer", !.reply = Found(c),
                       !.block = IF calls[c].op = "checkpoint" THEN checkpoint ELSE @]
  <2>1. /\ new \in Call /\ new.op = calls[c].op /\ new.client = calls[c].client
        /\ new.token = calls[c].token /\ new.pc = "answer"
        /\ new.block = IF calls[c].op = "checkpoint" THEN checkpoint ELSE calls[c].block
    BY TypedCalls DEF Call, Pcs, Found
  <2>2. calls' = [calls EXCEPT ![c] = new] /\ Change(c)
    BY <1>3 DEF Statement
  <2>3. calls' \in [Calls -> Call] /\ calls'[c] = new
    BY <2>1, <2>2 DEF IInv, TypeOK
  <2>4. \A d \in Calls \ {c} : calls'[d] = calls[d] /\ CallOK(calls[d])
    BY <2>2, TypedCalls DEF IInv, TypeOK
  <2>5. QED
    BY <1>1, <2>1, <2>2, <2>3, <2>4, WritesKeep
<1>4. QED
  BY <1>2, <1>3

LEMMA IdleCall == Idle \in Call /\ CallOK(Idle) /\ Idle.client = None
<1>1. Idle \in Call
  BY Constants DEF Idle, Call, Pcs, Ops, ClientOps
<1>2. QED
  BY <1>1 DEF Idle, CallOK

LEMMA AskKeeps ==
  ASSUME IInv, NEW c \in Calls, NEW op \in ClientOps, NEW t \in Tokens, Ask(c, op, t)
  PROVE  IInv'
<1> DEFINE new == [Idle EXCEPT !.pc = "ask", !.op = op, !.token = t]
<1>1. new \in Call
  BY IdleCall DEF Call, Pcs, Ops
<1>2. new.pc = "ask" /\ new.op = op /\ new.token = t /\ new.client = None
  BY IdleCall DEF Call
<1>3. CallOK(new)
  BY <1>2 DEF CallOK, ClientOps, Writes
<1>4. calls' = [calls EXCEPT ![c] = new]
  BY DEF Ask
<1>5. UNCHANGED <<store, tokens, txs, checkpoint, indexers, failures>>
  BY DEF Ask, rows
<1> HIDE DEF new
<1>6. QED
  BY <1>1, <1>2, <1>3, <1>4, <1>5, TypedCalls, MoveKeeps

LEMMA IndexKeeps ==
  ASSUME IInv, NEW c \in Calls, NEW i \in Indexers, Index(i, c)
  PROVE  IInv'
<1> DEFINE new(op, t, b) == [pc |-> "ask", op |-> op, token |-> t, block |-> b,
                             client |-> i, reply |-> "none"]
           next == indexers[i].block + 1
<1>1. /\ indexers[i] \in [stage: Stages, block: 0 .. MaxBlock]
      /\ IndexerOK(indexers[i]) /\ ~Working(i)
      /\ UNCHANGED <<store, tokens, txs, checkpoint, indexers, failures>>
  BY DEF IInv, TypeOK, IndexersOK, Index, rows
<1>2. PICK op, t, b : /\ calls' = [calls EXCEPT ![c] = new(op, t, b)]
                     /\ new(op, t, b) \in Call /\ CallOK(new(op, t, b))
  <2>1. \A op, t, b : Post(i, c, op, t, b) => calls' = [calls EXCEPT ![c] = new(op, t, b)]
    BY DEF Post, Idle
  <2>2. CASE Post(i, c, "checkpoint", None, 0)
    <3>1. new("checkpoint", None, 0) \in Call
      BY Constants DEF Call, Pcs, Ops
    <3>2. CallOK(new("checkpoint", None, 0))
      BY DEF CallOK, Writes
    <3>3. QED
      BY <2>1, <2>2, <3>1, <3>2
  <2>3. CASE /\ indexers[i].stage = "append" /\ next \in Blocks
             /\ Post(i, c, "append", TokenOf[next], next)
    <3>1. TokenOf[next] \in Tokens /\ next \in 0 .. MaxBlock
      BY <2>3, Constants
    <3>2. new("append", TokenOf[next], next) \in Call
      BY <3>1 DEF Call, Pcs, Ops, Writes
    <3>3. CallOK(new("append", TokenOf[next], next))
      BY <2>3 DEF CallOK, Writes
    <3>4. QED
      BY <2>1, <2>3, <3>2, <3>3
  <2>4. CASE /\ indexers[i].stage = "save" /\ next \in Blocks
             /\ Post(i, c, "save", None, next)
    <3>1. next \in 0 .. MaxBlock /\ Covered(next)
      BY <1>1, <2>4, Constants DEF IndexerOK
    <3>2. new("save", None, next) \in Call
      BY <3>1 DEF Call, Pcs, Ops, Writes
    <3>3. CallOK(new("save", None, next))
      BY <3>1 DEF CallOK, Writes
    <3>4. QED
      BY <2>1, <2>4, <3>2, <3>3
  <2>5. QED
    BY <2>2, <2>3, <2>4 DEF Index
<1>3. QED
  BY <1>1, <1>2, TypedCalls, MoveKeeps

\* An indexer that hears an answer, or gives up on one, has no other call.
LEMMA OthersKeep ==
  ASSUME IInv, NEW c \in Calls, NEW new \in Call, CallOK(new),
         new.client = None, calls' = [calls EXCEPT ![c] = new],
         indexers' \in [Indexers -> [stage: Stages, block: 0 .. MaxBlock]],
         \A i \in Indexers : IndexerOK(indexers'[i]),
         \A i \in Indexers : i # calls[c].client => indexers'[i] = indexers[i],
         UNCHANGED <<store, tokens, txs, checkpoint>>,
         failures' \in 0 .. MaxFailures
  PROVE  IInv'
<1>1. \A d \in Calls : calls'[d] = IF d = c THEN new ELSE calls[d]
  BY DEF IInv, TypeOK
<1>2. TypeOK' /\ NoGap' /\ OneCall'
  BY <1>1 DEF IInv, TypeOK, NoGap, Listed, OneCall
<1>3. IndexersOK'
  BY CoveredKept DEF IndexersOK, IndexerOK
<1>4. ASSUME NEW d \in Calls PROVE CallOK(calls[d])'
  <2>1. CASE d = c
    <3>1. calls'[d] = new
      BY <1>1, <2>1
    <3>2. QED
      BY <3>1, CoveredKept DEF CallOK, Listed
  <2>2. CASE d # c
    <3>1. calls'[d] = calls[d] /\ CallOK(calls[d])
      BY <1>1, <2>2, TypedCalls
    <3>2. calls[d].client # None => indexers'[calls[d].client] = indexers[calls[d].client]
      BY <2>2, TypedCalls DEF IInv, OneCall, Call
    <3>3. QED
      BY <3>1, <3>2, CoveredKept DEF CallOK, Listed
  <2>3. QED
    BY <2>1, <2>2
<1>5. QED
  BY <1>2, <1>3, <1>4 DEF IInv, CallsOK

LEMMA StartedOver ==
  StartOver \in [stage: Stages, block: 0 .. MaxBlock] /\ IndexerOK(StartOver)
BY Constants DEF StartOver, Stages, IndexerOK

LEMMA AnswerKeeps ==
  ASSUME IInv, NEW c \in Calls, Answer(c)
  PROVE  IInv'
<1> DEFINE k == calls[c]
<1>1. /\ k \in Call /\ CallOK(k)
      /\ calls' = [calls EXCEPT ![c] = Idle] /\ k.pc = "answer"
      /\ UNCHANGED <<store, tokens, txs, checkpoint, failures>>
  BY TypedCalls DEF Answer, rows
<1>2. ASSUME NEW i \in Indexers, i = k.client
      PROVE  /\ Told(i, k) \in [stage: Stages, block: 0 .. MaxBlock]
             /\ IndexerOK(Told(i, k))
  <2>1. k.block \in 0 .. MaxBlock /\ k.op \in {"checkpoint", "append", "save"}
    BY <1>1, <1>2, Constants DEF Call, CallOK
  <2>2. indexers[i] \in [stage: Stages, block: 0 .. MaxBlock] /\ IndexerOK(indexers[i])
    BY DEF IInv, TypeOK, IndexersOK
  <2>3. CASE k.reply = "error"
    <3>1. Told(i, k) = StartOver
      BY <2>3 DEF Told
    <3>2. QED
      BY <3>1, StartedOver
  <2>4. CASE k.reply # "error" /\ k.op \in {"checkpoint", "save"}
    <3>1. Told(i, k) = [stage |-> "append", block |-> k.block]
      BY <2>4 DEF Told
    <3>2. Covered(k.block)
      BY <1>1, <2>4 DEF CallOK
    <3>3. QED
      BY <2>1, <3>1, <3>2 DEF IndexerOK, Stages
  <2>5. CASE k.reply # "error" /\ k.op = "append"
    <3>1. Told(i, k) = [stage |-> "save", block |-> indexers[i].block]
      BY <2>5 DEF Told
    <3>2. /\ k.block \in Blocks /\ Listed(k.block) /\ indexers[i].stage = "append"
          /\ k.block = indexers[i].block + 1
      BY <1>1, <1>2, <2>5, Constants DEF CallOK
    <3>3. Covered(indexers[i].block) /\ indexers[i].block \in 0 .. MaxBlock
      BY <2>2, <3>2 DEF IndexerOK
    <3>4. Covered(indexers[i].block + 1)
      <4>1. \A b \in 1 .. indexers[i].block + 1 :
              b \in 1 .. indexers[i].block \/ b = indexers[i].block + 1
        BY <3>3
      <4>2. QED
        BY <3>2, <3>3, <4>1 DEF Covered
    <3>5. QED
      BY <3>1, <3>2, <3>3, <3>4 DEF IndexerOK, Stages
  <2>6. QED
    BY <2>1, <2>3, <2>4, <2>5
<1>3. indexers' = [i \in Indexers |-> IF i = k.client THEN Told(i, k) ELSE indexers[i]]
  BY DEF Answer
<1>4. /\ indexers' \in [Indexers -> [stage: Stages, block: 0 .. MaxBlock]]
      /\ \A i \in Indexers : IndexerOK(indexers'[i])
      /\ \A i \in Indexers : i # calls[c].client => indexers'[i] = indexers[i]
  BY <1>2, <1>3 DEF IInv, TypeOK, IndexersOK
<1>5. QED
  BY <1>1, <1>4, IdleCall, TypedCalls, OthersKeep

LEMMA AbandonKeeps ==
  ASSUME IInv, NEW c \in Calls, NEW i \in Indexers, Abandon(i, c)
  PROVE  IInv'
<1> DEFINE new == [calls[c] EXCEPT !.client = None]
<1>1. new \in Call /\ new.client = None
  BY TypedCalls DEF Call
<1>2. CallOK(new)
  BY TypedCalls DEF CallOK, Call
<1>3. /\ calls' = [calls EXCEPT ![c] = new] /\ calls[c].client = i
      /\ indexers' = [indexers EXCEPT ![i] = StartOver]
      /\ UNCHANGED <<store, tokens, txs, checkpoint>>
      /\ failures' \in 0 .. MaxFailures
  BY Failed DEF Abandon, rows
<1>4. /\ indexers' \in [Indexers -> [stage: Stages, block: 0 .. MaxBlock]]
      /\ \A j \in Indexers : IndexerOK(indexers'[j])
      /\ \A j \in Indexers : j # calls[c].client => indexers'[j] = indexers[j]
  BY <1>3, StartedOver DEF IInv, TypeOK, IndexersOK
<1> HIDE DEF new
<1>5. QED
  BY <1>1, <1>2, <1>3, <1>4, OthersKeep

LEMMA CrashKeeps ==
  ASSUME IInv, Crash
  PROVE  IInv'
<1>1. /\ \A c \in Calls : calls'[c] = Idle
      /\ UNCHANGED <<store, tokens, txs, checkpoint>>
      /\ failures' \in 0 .. MaxFailures
      /\ \A i \in Indexers : indexers'[i] \in {StartOver, indexers[i]}
  BY Failed DEF Crash, rows
<1>2. TypeOK'
  BY <1>1, IdleCall, StartedOver DEF IInv, TypeOK, Crash
<1>3. NoGap' /\ OneCall'
  BY <1>1, IdleCall DEF IInv, NoGap, Listed, OneCall
<1>4. CallsOK'
  BY <1>1 DEF CallsOK, CallOK, Idle
<1>5. IndexersOK'
  <2>1. \A i \in Indexers : IndexerOK(indexers'[i])
    BY <1>1, StartedOver DEF IInv, IndexersOK
  <2>2. QED
    BY <1>1, <2>1, CoveredKept DEF IndexersOK, IndexerOK
<1>6. QED
  BY <1>2, <1>3, <1>4, <1>5 DEF IInv

-----------------------------------------------------------------------------
LEMMA StepKeeps == IInv /\ [Next]_vars => IInv'
<1> SUFFICES ASSUME IInv, [Next]_vars PROVE IInv'
  OBVIOUS
<1>1. CASE UNCHANGED vars
  <2>1. UNCHANGED <<store, tokens, txs, checkpoint, calls, indexers, failures>>
    BY <1>1 DEF vars, rows
  <2>2. QED
    BY <2>1, CoveredKept
       DEF IInv, TypeOK, NoGap, Listed, CallsOK, CallOK, IndexersOK, IndexerOK, OneCall
<1>2. ASSUME NEW c \in Calls, Step(c) PROVE IInv'
  <2>1. CASE StatementFails(c)
    BY <2>1, Failed, ErrorKeeps DEF StatementFails, Enters, rows
  <2>2. QED
    BY <1>2, <2>1, LockKeeps, ReadStoredKeeps, ReadNothingKeeps, ReadTokenKeeps,
       WriteKeeps, StatementKeeps, AnswerKeeps DEF Step
<1>3. ASSUME NEW c \in Calls, LockWrite(c) PROVE IInv'
  BY <1>3, LockKeeps
<1>4. ASSUME NEW c \in Calls, NEW a \in Asked, Ask(c, a[1], a[2]) PROVE IInv'
  <2>1. a[1] \in ClientOps /\ a[2] \in Tokens
    BY MarketAssumption DEF MarketAssumption
  <2>2. QED
    BY <1>4, <2>1, AskKeeps
<1>5. ASSUME NEW c \in Calls, NEW i \in Indexers, Index(i, c) \/ Abandon(i, c)
      PROVE  IInv'
  BY <1>5, IndexKeeps, AbandonKeeps
<1>6. CASE Crash
  BY <1>6, CrashKeeps
<1>7. QED
  BY <1>1, <1>2, <1>3, <1>4, <1>5, <1>6 DEF Next

\* The variables keep their types (TypeOK): a checkpoint is a block of the chain
\* and a list of transactions a sequence, whatever overlaps, fails or restarts.
THEOREM TypeCorrect == Spec => []TypeOK
<1>1. Init => IInv
  BY InitIInv
<1>2. IInv /\ [Next]_vars => IInv'
  BY StepKeeps
<1>3. IInv => TypeOK
  BY DEF IInv
<1>4. QED
  BY <1>1, <1>2, <1>3, PTL DEF Spec

\* The checkpoint never runs ahead of the transactions (NoGap), for any number of
\* indexers that overlap, abandon requests and start over, although SaveCheckpoint
\* overwrites without a look and saves arrive late.
THEOREM NoGapInSpec == Spec => []NoGap
<1>1. Init => IInv
  BY InitIInv
<1>2. IInv /\ [Next]_vars => IInv'
  BY StepKeeps
<1>3. IInv => NoGap
  BY DEF IInv
<1>4. QED
  BY <1>1, <1>2, <1>3, PTL DEF Spec

-----------------------------------------------------------------------------
\* Readers that wait for the lock wait for a writer.
Waits(d) == calls[d].pc \in {"wait", "waitInner"}

WaitersOK == (\E d \in Calls : Waits(d)) => Writers # {}

\* What a step does to the lock: it moves one call, or wakes or drops them all.
LEMMA LockSteps ==
  ASSUME TypeOK, WaitersOK, [Next]_vars
  PROVE  WaitersOK'
<1> DEFINE holds(d) == calls[d].pc \in {"drain", "write"}
<1>1. SUFFICES ASSUME NEW d \in Calls, Waits(d)'
               PROVE  \E w \in Calls : calls'[w].pc \in {"drain", "write"}
  BY DEF WaitersOK, Writers
<1>2. ASSUME NEW c \in Calls, NEW new, calls' = [calls EXCEPT ![c] = new],
             ~holds(c) \/ new.pc \in {"drain", "write"},
             new.pc \in {"wait", "waitInner"} => Writers # {} \/ Waits(c)
      PROVE  \E w \in Calls : calls'[w].pc \in {"drain", "write"}
  <2>1. \A e \in Calls : calls'[e] = IF e = c THEN new ELSE calls[e]
    BY <1>2 DEF TypeOK
  <2>2. Writers # {}
    BY <1>1, <1>2, <2>1 DEF WaitersOK, Waits
  <2>3. PICK w \in Calls : holds(w)
    BY <2>2 DEF Writers
  <2>4. QED
    BY <1>2, <2>1, <2>3
<1>3. CASE UNCHANGED vars
  BY <1>1, <1>3 DEF vars, WaitersOK, Waits, Writers
<1>4. ASSUME NEW c \in Calls, LockRead(c) \/ ReadNothing(c)
      PROVE  \E w \in Calls : calls'[w].pc \in {"drain", "write"}
  <2>1. PICK p : /\ calls' = [calls EXCEPT ![c] = [calls[c] EXCEPT !.pc = p]]
                 /\ p \in {"wait", "waitInner"} => Writers # {}
                 /\ ~holds(c)
    BY <1>4 DEF LockRead, ReadNothing, Goto, Enters
  <2> DEFINE new == [calls[c] EXCEPT !.pc = p]
  <2>2. new.pc = p
    BY DEF TypeOK, Call
  <2> HIDE DEF new
  <2>3. calls' = [calls EXCEPT ![c] = new]
    BY <2>1 DEF new
  <2>4. QED
    BY <1>2, <2>1, <2>2, <2>3
<1>5. ASSUME NEW c \in Calls, LockWrite(c) \/ Drained(c)
      PROVE  \E w \in Calls : calls'[w].pc \in {"drain", "write"}
  <2>1. PICK p \in {"drain", "write"} : calls' = [calls EXCEPT ![c].pc = p]
    BY <1>5 DEF LockWrite, Drained, Goto
  <2>2. calls'[c].pc = p
    BY <2>1 DEF TypeOK, Call
  <2>3. QED
    BY <2>2
<1>6. ASSUME NEW c \in Calls, ReadStored(c) \/ ReadToken(c) \/ Statement(c)
                               \/ StatementFails(c) \/ Answer(c)
      PROVE  \E w \in Calls : calls'[w].pc \in {"drain", "write"}
  <2>1. ~holds(c)
    BY <1>6 DEF ReadStored, ReadToken, Statement, StatementFails, Answer, Enters
  <2>2. PICK new : calls' = [calls EXCEPT ![c] = new] /\ new.pc \in {"answer", "idle"}
    BY <1>6 DEF ReadStored, ReadToken, Statement, StatementFails, Answer, Reply, Idle,
                TypeOK, Call
  <2>3. QED
    BY <1>2, <2>1, <2>2
<1>7. ASSUME NEW c \in Calls, Write(c)
      PROVE  \E w \in Calls : calls'[w].pc \in {"drain", "write"}
  <2>1. ~Waits(d)'
    <3>1. CASE d = c
      BY <1>7, <3>1 DEF Write, Waits, TypeOK, Call
    <3>2. CASE d # c
      <4>1. calls'[d] = Admitted(d) /\ calls[d] \in Call
        BY <1>7, <3>2 DEF Write, TypeOK
      <4>2. Admitted(d).pc \notin {"wait", "waitInner"}
        BY <4>1 DEF Admitted, Call
      <4>3. QED
        BY <4>1, <4>2 DEF Waits
    <3>3. QED
      BY <3>1, <3>2
  <2>2. QED
    BY <1>1, <2>1
<1>8. ASSUME NEW c \in Calls, NEW i \in Indexers, Index(i, c) \/ Abandon(i, c)
      PROVE  \E w \in Calls : calls'[w].pc \in {"drain", "write"}
  <2>1. CASE Index(i, c)
    <3>1. PICK new : calls' = [calls EXCEPT ![c] = new] /\ new.pc = "ask" /\ ~holds(c)
      BY <2>1 DEF Index, Post, Idle
    <3>2. QED
      BY <1>2, <3>1
  <2>2. CASE Abandon(i, c)
    <3> DEFINE new == [calls[c] EXCEPT !.client = None]
    <3>1. calls' = [calls EXCEPT ![c] = new] /\ new.pc = calls[c].pc
      BY <2>2 DEF Abandon, TypeOK, Call
    <3> HIDE DEF new
    <3>2. QED
      BY <1>2, <3>1 DEF Waits
  <2>3. QED
    BY <1>8, <2>1, <2>2
<1>9. ASSUME NEW c \in Calls, NEW a \in Asked, Ask(c, a[1], a[2])
      PROVE  \E w \in Calls : calls'[w].pc \in {"drain", "write"}
  <2>1. PICK new : calls' = [calls EXCEPT ![c] = new] /\ new.pc = "ask" /\ ~holds(c)
    BY <1>9 DEF Ask, Idle
  <2>2. QED
    BY <1>2, <2>1
<1>10. CASE Crash
  BY <1>1, <1>10 DEF Crash, Idle, Waits
<1>11. QED
  BY <1>3, <1>4, <1>5, <1>6, <1>7, <1>8, <1>9, <1>10 DEF Next, Step

LEMMA OnlyNested == WaitersOK => OnlyNestedReadsBlock
<1>1. SUFFICES ASSUME WaitersOK, \E c \in Calls : Blocked(c),
                      \A c \in Calls : calls[c].pc = "idle" \/ Blocked(c)
               PROVE  Stuck
  BY DEF OnlyNestedReadsBlock
<1>2. PICK w \in Calls : calls[w].pc \in {"drain", "write"}
  BY <1>1 DEF Blocked, WaitersOK, Waits, Writers, Enters
<1>3. PICK r \in Calls : calls[r].pc \in {"read", "waitInner", "inner"}
  BY <1>1, <1>2 DEF Blocked, Readers, Enters
<1>4. calls[r].pc = "waitInner"
  BY <1>1, <1>3 DEF Blocked, Enters
<1>5. QED
  BY <1>4 DEF Stuck

\* Whatever requests overlap, if all of them wait for the lock of the memory
\* store then one is a nested read behind a writer (OnlyNestedReadsBlock).
THEOREM OnlyNestedReadsBlockInSpec == Spec => []OnlyNestedReadsBlock
<1>1. Init => WaitersOK
  BY DEF Init, WaitersOK, Waits, Idle
<1>2. TypeOK /\ WaitersOK /\ [Next]_vars => WaitersOK'
  BY LockSteps
<1>3. Spec => []TypeOK
  BY TypeCorrect
<1>4. WaitersOK => OnlyNestedReadsBlock
  BY OnlyNested
<1>5. QED
  BY <1>1, <1>2, <1>3, <1>4, PTL DEF Spec
===============================================================================
