------------------------------ MODULE MarketData ------------------------------
(***************************************************************************)
(* internal/marketdata: HTTP handlers read tokens, candles and transactions *)
(* while an indexer posts tokens, transactions and its checkpoint.  Each    *)
(* handler is one call of the store.  MemoryStore holds a sync.RWMutex over *)
(* every method, and OHLC and Transactions, when they have nothing stored   *)
(* for a token, call GetToken, which takes the read lock a second time: the *)
(* lock is modelled as the Go runtime implements it (a writer that waits    *)
(* keeps new readers out).  PostgresStore runs one statement.               *)
(*                                                                         *)
(* Indexers are external: clients of the /v1/indexer routes that load the   *)
(* checkpoint, post the next transaction, save the next checkpoint, and     *)
(* start over from the stored checkpoint after an error.                    *)
(***************************************************************************)
EXTENDS Naturals, Sequences, FiniteSets

CONSTANTS
  Calls,       \* handler goroutines
  Indexers,    \* indexer processes of one source
  Tokens,      \* token keys: chain and address
  Seeded,      \* the tokens NewMemoryStore starts with
  Alike,       \* token -> others with its address or symbol, on any chain
  Asked,       \* the requests of other clients: operation and token
  MaxBlock,    \* how many blocks the indexed chain has
  TokenOf,     \* block -> the token its transaction is about
  MaxFailures, \* bound on failed statements, abandoned requests and crashes
  None         \* no client

Blocks == 1 .. MaxBlock

ClientOps == {"list", "ohlc1m", "ohlc", "transactions", "upsert"}

Writes == {"upsert", "append", "save"}

Ops == ClientOps \cup Writes \cup {"checkpoint"}

MarketAssumption ==
  /\ MaxBlock \in Nat /\ MaxFailures \in Nat /\ None \notin Indexers
  /\ Seeded \subseteq Tokens /\ Alike \in [Tokens -> SUBSET Tokens]
  /\ TokenOf \in [Blocks -> Tokens] /\ Asked \subseteq ClientOps \X Tokens
ASSUME MarketAssumption

VARIABLES
  store,       \* "memory" or "postgres": which Store main.go wired
  tokens,      \* the tokens stored
  txs,         \* token -> its transactions, newest first; 0 is a seeded one
  checkpoint,  \* the last block of the source, 0 before the first save
  calls,       \* goroutine -> where it is and what it was asked
  indexers,    \* indexer -> its stage, and the block it got to
  failures     \* failures so far

rows == <<tokens, txs, checkpoint>>

vars == <<store, rows, calls, indexers, failures>>

\* "ask": about to enter the store.  Readers: "wait" for the lock, "read" with
\* it, "waitInner" for it again, "inner" with it twice.  Writers: "drain" the
\* readers, "write" alone.
Pcs == {"idle", "ask", "wait", "read", "waitInner", "inner", "drain", "write", "answer"}

Call == [pc: Pcs, op: Ops, token: Tokens \cup {None}, block: 0 .. MaxBlock,
         client: Indexers \cup {None}, reply: {"none", "ok", "generated", "notFound", "error"}]

Idle == [pc |-> "idle", op |-> "list", token |-> None, block |-> 0,
         client |-> None, reply |-> "none"]

Stages == {"load", "append", "save"}

TypeOK ==
  /\ store \in {"memory", "postgres"} /\ tokens \subseteq Tokens
  /\ txs \in [Tokens -> Seq(0 .. MaxBlock)] /\ checkpoint \in 0 .. MaxBlock
  /\ calls \in [Calls -> Call]
  /\ indexers \in [Indexers -> [stage: Stages, block: 0 .. MaxBlock]]
  /\ failures \in 0 .. MaxFailures

StartOver == [stage |-> "load", block |-> 0]

\* Only MemoryStore is seeded.
Init ==
  /\ store \in {"memory", "postgres"}
  /\ tokens = IF store = "memory" THEN Seeded ELSE {}
  /\ txs = [t \in Tokens |-> IF t \in tokens THEN <<0>> ELSE <<>>]
  /\ checkpoint = 0
  /\ calls = [c \in Calls |-> Idle]
  /\ indexers = [i \in Indexers |-> StartOver]
  /\ failures = 0

SetOf(s) == {s[n] : n \in DOMAIN s}

Listed(b) == b \in SetOf(txs[TokenOf[b]])

Fail == failures < MaxFailures /\ failures' = failures + 1

-----------------------------------------------------------------------------
\* The lock.  Who holds or wants it is told by where the goroutines are.

Readers == {c \in Calls : calls[c].pc \in {"read", "waitInner", "inner"}}

\* A writer that has the mutex of the writers; readers that come now wait.
Writers == {c \in Calls : calls[c].pc \in {"drain", "write"}}

Goto(c, pc) == calls' = [calls EXCEPT ![c].pc = pc]

Reply(c, reply) == calls' = [calls EXCEPT ![c].pc = "answer", ![c].reply = reply]

Enters(c, s) == calls[c].pc = "ask" /\ store = s

\* RLock.
LockRead(c) ==
  /\ Enters(c, "memory") /\ calls[c].op \notin Writes
  /\ Goto(c, IF Writers = {} THEN "read" ELSE "wait")
  /\ UNCHANGED <<store, rows, indexers, failures>>

\* Lock: one writer at a time, which then waits for the readers to leave.
LockWrite(c) ==
  /\ Enters(c, "memory") /\ calls[c].op \in Writes /\ Writers = {}
  /\ Goto(c, IF Readers = {} THEN "write" ELSE "drain")
  /\ UNCHANGED <<store, rows, indexers, failures>>

Drained(c) ==
  /\ calls[c].pc = "drain" /\ Readers = {}
  /\ Goto(c, "write")
  /\ UNCHANGED <<store, rows, indexers, failures>>

-----------------------------------------------------------------------------
\* The methods.

\* Whether a read has to look the token up, having nothing stored for it.
\* Candles are stored for the seeded tokens only, one per minute.
NeedsToken(c) ==
  \/ calls[c].op = "ohlc"
  \/ calls[c].op = "ohlc1m" /\ calls[c].token \notin Seeded
  \/ calls[c].op = "transactions" /\ txs[calls[c].token] = <<>>

\* The answer with what is stored: ErrNotFound before the first save.
Found(c) == IF calls[c].op = "checkpoint" /\ checkpoint = 0 THEN "notFound" ELSE "ok"

\* Copies what is stored and releases the lock.
ReadStored(c) ==
  /\ calls[c].pc = "read" /\ ~NeedsToken(c)
  /\ calls' = [calls EXCEPT ![c].pc = "answer", ![c].reply = Found(c),
                 ![c].block = IF calls[c].op = "checkpoint" THEN checkpoint ELSE @]
  /\ UNCHANGED <<store, rows, indexers, failures>>

\* Finds nothing and calls GetToken, whose RLock waits if a writer does.
ReadNothing(c) ==
  /\ calls[c].pc = "read" /\ NeedsToken(c)
  /\ Goto(c, IF Writers = {} THEN "inner" ELSE "waitInner")
  /\ UNCHANGED <<store, rows, indexers, failures>>

\* GetToken takes the token asked for or any other with that address or symbol,
\* on any chain; candles or transactions are made up for it, whether or not it
\* has some stored, and none if there is no such token.
ReadToken(c) ==
  /\ calls[c].pc = "inner"
  /\ Reply(c, IF ({calls[c].token} \cup Alike[calls[c].token]) \cap tokens # {}
              THEN "generated" ELSE "ok")
  /\ UNCHANGED <<store, rows, indexers, failures>>

\* Broken variant: a checkpoint is saved as the block to go on with.
ChangeOffByOne(c) ==
  /\ tokens' = IF calls[c].op = "upsert" THEN tokens \cup {calls[c].token} ELSE tokens
  /\ txs' = IF calls[c].op = "append"
            THEN [txs EXCEPT ![calls[c].token] = <<calls[c].block>> \o @] ELSE txs
  /\ checkpoint' = IF calls[c].op = "save" THEN calls[c].block + 1 ELSE checkpoint

\* Broken variant: a checkpoint that is there is kept.
ChangeKeepsCheckpoint(c) ==
  /\ tokens' = IF calls[c].op = "upsert" THEN tokens \cup {calls[c].token} ELSE tokens
  /\ txs' = IF calls[c].op = "append"
            THEN [txs EXCEPT ![calls[c].token] = <<calls[c].block>> \o @] ELSE txs
  /\ checkpoint' = IF calls[c].op = "save" /\ checkpoint = 0 THEN calls[c].block ELSE checkpoint

\* What a write does to the rows.
Change(c) ==
  /\ tokens' = IF calls[c].op = "upsert" THEN tokens \cup {calls[c].token} ELSE tokens
  /\ txs' = IF calls[c].op = "append"
            THEN [txs EXCEPT ![calls[c].token] = <<calls[c].block>> \o @] ELSE txs
  /\ checkpoint' = IF calls[c].op = "save" THEN calls[c].block ELSE checkpoint

\* Broken variant: Unlock wakes no reader.
AdmittedNever(d) == calls[d]

\* Unlock lets every reader that waits in.
Admitted(d) == CASE calls[d].pc = "wait"      -> [calls[d] EXCEPT !.pc = "read"]
                 [] calls[d].pc = "waitInner" -> [calls[d] EXCEPT !.pc = "inner"]
                 [] OTHER                     -> calls[d]

Write(c) ==
  /\ calls[c].pc = "write"
  /\ Change(c)
  /\ calls' = [d \in Calls |-> IF d = c THEN [calls[c] EXCEPT !.pc = "answer", !.reply = "ok"]
                               ELSE Admitted(d)]
  /\ UNCHANGED <<store, indexers, failures>>

\* The unique index on chain, hash and log index refuses a transaction it has.
Refused(c) == calls[c].op = "append" /\ calls[c].block \in SetOf(txs[calls[c].token])

\* One statement of PostgresStore.
Statement(c) ==
  /\ Enters(c, "postgres")
  /\ IF Refused(c) THEN Reply(c, "error") /\ UNCHANGED rows
     ELSE /\ Change(c)
          /\ calls' = [calls EXCEPT ![c].pc = "answer", ![c].reply = Found(c),
                         ![c].block = IF calls[c].op = "checkpoint" THEN checkpoint ELSE @]
  /\ UNCHANGED <<store, indexers, failures>>

\* Broken variant: the error of a statement is dropped.
StatementFailsQuietly(c) ==
  /\ Enters(c, "postgres") /\ Fail
  /\ Reply(c, "ok")
  /\ UNCHANGED <<store, rows, indexers>>

StatementFails(c) ==
  /\ Enters(c, "postgres") /\ Fail
  /\ Reply(c, "error")
  /\ UNCHANGED <<store, rows, indexers>>

-----------------------------------------------------------------------------
\* The clients.

\* A browser: a read, or a token someone lists.
Ask(c, op, t) ==
  /\ calls[c].pc = "idle"
  /\ calls' = [calls EXCEPT ![c] = [Idle EXCEPT !.pc = "ask", !.op = op, !.token = t]]
  /\ UNCHANGED <<store, rows, indexers, failures>>

Working(i) == \E c \in Calls : calls[c].client = i

Post(i, c, op, t, b) ==
  calls' = [calls EXCEPT ![c] = [Idle EXCEPT !.pc = "ask", !.op = op, !.token = t,
                                             !.block = b, !.client = i]]

\* An indexer's next request.
Index(i, c) ==
  LET next == indexers[i].block + 1 IN
  /\ calls[c].pc = "idle" /\ ~Working(i)
  /\ \/ indexers[i].stage = "load"   /\ Post(i, c, "checkpoint", None, 0)
     \/ indexers[i].stage = "append" /\ next \in Blocks /\ Post(i, c, "append", TokenOf[next], next)
     \/ indexers[i].stage = "save"   /\ next \in Blocks /\ Post(i, c, "save", None, next)
  /\ UNCHANGED <<store, rows, indexers, failures>>

\* What an indexer does with an answer; it takes "notFound" for block 0.
Told(i, call) ==
  IF call.reply = "error" THEN StartOver
  ELSE IF call.op = "append" THEN [stage |-> "save", block |-> indexers[i].block]
  ELSE [stage |-> "append", block |-> call.block]

Answer(c) ==
  /\ calls[c].pc = "answer"
  /\ calls' = [calls EXCEPT ![c] = Idle]
  /\ indexers' = [i \in Indexers |-> IF i = calls[c].client THEN Told(i, calls[c])
                                     ELSE indexers[i]]
  /\ UNCHANGED <<store, rows, failures>>

\* A request times out, or its answer is lost: the handler goes on by itself.
Abandon(i, c) ==
  /\ calls[c].client = i /\ Fail
  /\ calls' = [calls EXCEPT ![c].client = None]
  /\ indexers' = [indexers EXCEPT ![i] = StartOver]
  /\ UNCHANGED <<store, rows>>

\* The service restarts; with the memory store another behaviour begins.
Crash ==
  /\ store = "postgres" /\ Fail
  /\ calls' = [c \in Calls |-> Idle]
  /\ indexers' = [i \in Indexers |-> IF Working(i) THEN StartOver ELSE indexers[i]]
  /\ UNCHANGED <<store, rows>>

-----------------------------------------------------------------------------
Step(c) ==
  \/ LockRead(c) \/ Drained(c) \/ ReadStored(c) \/ ReadNothing(c) \/ ReadToken(c)
  \/ Write(c) \/ Statement(c) \/ StatementFails(c) \/ Answer(c)

Next ==
  \/ \E c \in Calls : \/ Step(c) \/ LockWrite(c)
                      \/ \E a \in Asked : Ask(c, a[1], a[2])
                      \/ \E i \in Indexers : Index(i, c) \/ Abandon(i, c)
  \/ Crash

Spec == Init /\ [][Next]_vars

\* Goroutines are scheduled; a sync.Mutex hands itself to a goroutine that has
\* waited long; a request gets a goroutine of its own; indexers go on.
FairSpec ==
  /\ Spec
  /\ \A c \in Calls : WF_vars(Step(c)) /\ SF_vars(LockWrite(c))
  /\ \A i \in Indexers : SF_vars(\E c \in Calls : Index(i, c))

-----------------------------------------------------------------------------
\* A reader holds the lock and asks for it again behind a writer, which waits
\* for that reader (Transactions and OHLC calling GetToken).
Stuck == \E c \in Calls : calls[c].pc = "waitInner"

Blocked(c) ==
  \/ calls[c].pc \in {"wait", "waitInner"}
  \/ calls[c].pc = "drain" /\ Readers # {}
  \/ Enters(c, "memory") /\ calls[c].op \in Writes /\ Writers # {}

\* If every request that was made waits for the lock, it is because of a nested
\* read: no other mix of readers and writers can block the memory store.
OnlyNestedReadsBlock ==
  (\E c \in Calls : Blocked(c)) /\ (\A c \in Calls : calls[c].pc = "idle" \/ Blocked(c))
    => Stuck

\* A checkpoint, although saves are blind, late ones arrive after newer ones and
\* two indexers may overlap, never runs ahead of the transactions
\* (AppendTransaction before SaveCheckpoint).
NoGap == \A b \in 1 .. checkpoint : Listed(b)

\* The indexers reach the end of the chain, whatever is repeated or comes late,
\* except that a nested read stops the memory store for good, and that Postgres
\* refuses a transaction whose first answer was lost, which no indexer can tell
\* from a failure (AppendTransaction's one kind of error).
CatchesUp ==
  store = "memory" \/ [](failures = 0) => <>(checkpoint = MaxBlock \/ Stuck)
===============================================================================
