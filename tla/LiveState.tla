------------------------------- MODULE LiveState -------------------------------
(***************************************************************************)
(* The read model of one exchange user in internal/hypertrader: snapshots   *)
(* of the open orders and of the account, and the fills.  The websocket     *)
(* bridge's goroutine for that user writes it (subscribe, reconcile through *)
(* the provider, then one message after the other, and again from the start *)
(* after a disconnect), and so does every handler that reads through the    *)
(* provider.  Nothing orders the two.  The exchange is external: it acts on *)
(* a subscription some time after the bridge wrote its frame, and the       *)
(* bridge does not wait for the acknowledgement.  Versions stand for the    *)
(* contents of a snapshot.  The order updates of the same connection are in *)
(* HyperOrders.  What the module shares by name with StreamBridge, through  *)
(* which the bridge publishes, is called Live... here.                      *)
(***************************************************************************)
EXTENDS Naturals, Sequences

CONSTANTS
  Fills,           \* the executions the exchange may report
  Handlers,        \* handler goroutines reading open orders or the account
  ReconcileLimit,  \* StreamBridgeConfig.ReconcileLimit
  SnapshotLimit,   \* the fills of the snapshot a subscription begins with
  EmptyAccounts,   \* versions of the account without balance and positions
  MaxChanges,      \* bound on the changes of the snapshots
  MaxFailures,     \* bound on failing calls of provider, store and broker
  MaxDrops         \* bound on lost connections and crashes

LimitAssumption == ReconcileLimit \in Nat \ {0} /\ SnapshotLimit \in Nat
BoundsAssumption == MaxFailures \in Nat /\ MaxDrops \in Nat
ASSUME LimitAssumption
ASSUME BoundsAssumption

VARIABLES
  version,    \* the exchange: the current version of each snapshot
  executed,   \* the exchange: the fills so far
  conn,       \* the connection: [open, asked, subscribed, inbox]
  bridge,     \* the user's goroutine: [pc, step, version, fills, next]
  snapshots,  \* hyper_open_order_snapshots, hyper_account_snapshots: 0 when absent
  stored,     \* hyper_fills
  announced,  \* the fills published to the user's topic
  reads,      \* handler -> its read
  failures,   \* failing calls so far
  drops,      \* lost connections and crashes so far
  hurt,       \* whether a call failed since the bridge dialed
  late,       \* snapshots last written by a handler whose answer was out of date
  missed,     \* snapshots that changed before this connection reported them and
              \* after, or without, their reconciliation
  due         \* the fills reported since the bridge dialed

exchange == <<version, executed>>
rows == <<snapshots, stored>>
reported == <<missed, due>>
liveVars == <<version, executed, conn, bridge, snapshots, stored, announced, reads,
              failures, drops, hurt, late, missed, due>>

Kinds == {"openOrders", "account"}

\* What the bridge subscribes to.
Channels == Kinds \cup {"userFills"}

\* Broken variant: reconcile first, then subscribe.
StepsSubscribeLast == <<"openOrders", "account", "fills", "subscribe">>

\* runUserOnce before its read loop: the subscriptions, then reconcileUser.
Steps == <<"subscribe", "openOrders", "account", "fills">>

SetOf(s) == {s[i] : i \in DOMAIN s}

\* A message of the connection: a new snapshot, or fills.
Message == [channel: Kinds, version: Nat] \cup [channel: {"userFills"}, fills: Seq(Fills)]

\* Where a read's answer comes from.
Answers == {"none", "provider", "snapshot", "seeded", "error"}

LiveTypeOK ==
  /\ version \in [Kinds -> Nat] /\ executed \in Seq(Fills)
  /\ conn \in [open: BOOLEAN, asked: BOOLEAN, subscribed: SUBSET Channels, inbox: Seq(Message)]
  /\ bridge \in [pc: {"dial", "setup", "save", "read", "publish", "append"}, step: 1 .. 5,
                 version: Nat, fills: Seq(Fills), next: Nat]
  /\ bridge.pc = "publish" => bridge.next \in DOMAIN bridge.fills
  /\ snapshots \in [Kinds -> Nat] /\ stored \subseteq Fills /\ announced \subseteq Fills
  /\ reads \in [Handlers -> [pc: {"idle", "query", "save", "done"}, kind: Kinds,
                             version: Nat, answer: Answers]]
  /\ failures \in 0 .. MaxFailures /\ drops \in 0 .. MaxDrops
  /\ hurt \in BOOLEAN /\ late \subseteq Kinds /\ missed \subseteq Kinds /\ due \subseteq Fills

Closed == [open |-> FALSE, asked |-> FALSE, subscribed |-> {}, inbox |-> <<>>]

Dialing == [pc |-> "dial", step |-> 1, version |-> 0, fills |-> <<>>, next |-> 1]

IdleRead == [pc |-> "idle", kind |-> "account", version |-> 0, answer |-> "none"]

LiveInit ==
  /\ version = [k \in Kinds |-> 1] /\ executed = <<>>
  /\ conn = Closed /\ bridge = Dialing
  /\ snapshots = [k \in Kinds |-> 0] /\ stored = {} /\ announced = {}
  /\ reads = [h \in Handlers |-> IdleRead]
  /\ failures = 0 /\ drops = 0 /\ hurt = FALSE /\ late = {} /\ missed = {} /\ due = {}

-----------------------------------------------------------------------------
\* The exchange, external.

Push(message) ==
  conn' = IF message.channel \in conn.subscribed
          THEN [conn EXCEPT !.inbox = Append(@, message)] ELSE conn

Change(k) ==
  /\ version["openOrders"] + version["account"] < MaxChanges + 2
  /\ version' = [version EXCEPT ![k] = @ + 1]
  /\ Push([channel |-> k, version |-> version[k] + 1])
  /\ missed' = IF k \in conn.subscribed THEN missed \ {k}
               ELSE IF conn.asked THEN missed \cup {k} ELSE missed
  /\ UNCHANGED <<executed, bridge, rows, announced, reads, failures, drops, hurt, late, due>>

Execute(f) ==
  /\ f \notin SetOf(executed)
  /\ executed' = Append(executed, f)
  /\ Push([channel |-> "userFills", fills |-> <<f>>])
  /\ due' = IF "userFills" \in conn.subscribed THEN due \cup {f} ELSE due
  /\ UNCHANGED <<version, bridge, rows, announced, reads, failures, drops, hurt, late, missed>>

\* The most recent fills, at most n.
Latest(n, s) == SubSeq(s, IF Len(s) > n THEN Len(s) - n + 1 ELSE 1, Len(s))

\* The exchange acts on a subscription frame.  The fills begin with a snapshot.
TakeEffect(channel) ==
  LET fills == Latest(SnapshotLimit, executed) IN
  /\ conn.open /\ conn.asked /\ channel \notin conn.subscribed
  /\ \/ /\ channel = "userFills"
        /\ conn' = [conn EXCEPT !.subscribed = @ \cup {channel},
                     !.inbox = Append(@, [channel |-> "userFills", fills |-> fills])]
        /\ due' = due \cup SetOf(fills)
     \/ /\ channel \in Kinds
        /\ conn' = [conn EXCEPT !.subscribed = @ \cup {channel}]
        /\ UNCHANGED due
  /\ UNCHANGED <<exchange, bridge, rows, announced, reads, failures, drops, hurt, late, missed>>

\* The connection drops; what had arrived may still be read.
Drop ==
  /\ conn.open /\ drops < MaxDrops /\ drops' = drops + 1
  /\ \E n \in 0 .. Len(conn.inbox) :
       conn' = [Closed EXCEPT !.inbox = SubSeq(conn.inbox, 1, n)]
  /\ UNCHANGED <<exchange, bridge, rows, announced, reads, failures, hurt, late, reported>>

\* The process dies; the database stays.
Crash ==
  /\ drops < MaxDrops /\ drops' = drops + 1
  /\ conn' = Closed /\ bridge' = Dialing
  /\ reads' = [h \in Handlers |-> IdleRead]
  /\ UNCHANGED <<exchange, rows, announced, failures, hurt, late, reported>>

Failure == /\ failures < MaxFailures /\ failures' = failures + 1
           /\ hurt' = TRUE

\* A handler's own failing call.
ReadFailure == failures < MaxFailures /\ failures' = failures + 1 /\ UNCHANGED hurt

NoFailure == UNCHANGED <<failures, hurt>>

-----------------------------------------------------------------------------
\* The bridge's goroutine.

\* runUserLoop comes round and runUserOnce dials.
Dial ==
  /\ bridge.pc = "dial"
  /\ conn' = [Closed EXCEPT !.open = TRUE]
  /\ bridge' = [Dialing EXCEPT !.pc = "setup"]
  /\ hurt' = FALSE /\ missed' = {} /\ due' = {}
  /\ UNCHANGED <<exchange, rows, announced, reads, failures, drops, late>>

\* The next step of the setup, or the read loop.
StepOn == [bridge EXCEPT !.step = @ + 1,
                         !.pc = IF bridge.step = Len(Steps) THEN "read" ELSE "setup"]

\* The frames of all the subscriptions are written.  Nothing waits for them to
\* take effect, and on a lost connection the writes may or may not fail.
Subscribe ==
  /\ bridge.pc = "setup" /\ Steps[bridge.step] = "subscribe"
  /\ \/ conn.open /\ conn' = [conn EXCEPT !.asked = TRUE] /\ bridge' = StepOn
     \/ ~conn.open /\ conn' = conn /\ bridge' = StepOn
     \/ ~conn.open /\ conn' = Closed /\ bridge' = Dialing
  /\ UNCHANGED <<exchange, rows, announced, reads, failures, drops, hurt, late, reported>>

\* A query of reconcileUser, answered or failed.
Reconcile ==
  LET step  == Steps[bridge.step]
      fills == Latest(ReconcileLimit, executed)
  IN /\ bridge.pc = "setup" /\ step # "subscribe"
     /\ \/ /\ step = "fills" /\ bridge' = [bridge EXCEPT !.pc = "save", !.fills = fills]
           /\ due' = due \cup SetOf(fills) /\ UNCHANGED missed
           /\ NoFailure
        \/ /\ step \in Kinds /\ bridge' = [bridge EXCEPT !.pc = "save", !.version = version[step]]
           /\ missed' = missed \ {step} /\ UNCHANGED due
           /\ NoFailure
        \/ bridge' = StepOn /\ UNCHANGED reported /\ Failure
     /\ UNCHANGED <<exchange, conn, rows, announced, reads, drops, late>>

\* SaveOpenOrdersSnapshot and SaveAccountSnapshot: the last writer wins.
SaveSnapshot(k, n) ==
  \/ snapshots' = [snapshots EXCEPT ![k] = n] /\ late' = late \ {k} /\ NoFailure
  \/ UNCHANGED <<snapshots, late>> /\ Failure

\* The save of a reconciled snapshot.
SaveReconciled ==
  /\ bridge.pc = "save" /\ Steps[bridge.step] # "fills"
  /\ SaveSnapshot(Steps[bridge.step], bridge.version)
  /\ bridge' = [StepOn EXCEPT !.version = 0]
  /\ UNCHANGED <<exchange, conn, stored, announced, reads, drops, reported>>

\* AppendFills is an upsert per fill: a failure may leave the first of them.
Prefixes(fills) == {SetOf(SubSeq(fills, 1, n)) : n \in 0 .. Len(fills)}

\* The reconciled fills are stored, then published, each whatever happens to
\* the others.
SaveReconciledFills ==
  /\ bridge.pc = "save" /\ Steps[bridge.step] = "fills"
  /\ \/ /\ stored' = stored \cup SetOf(bridge.fills)
        /\ announced' = announced \cup SetOf(bridge.fills)
        /\ NoFailure
     \/ /\ \E s \in Prefixes(bridge.fills) : stored' = stored \cup s
        /\ \E s \in SUBSET SetOf(bridge.fills) : announced' = announced \cup s
        /\ Failure
  /\ bridge' = [StepOn EXCEPT !.fills = <<>>]
  /\ UNCHANGED <<exchange, conn, snapshots, reads, drops, late, reported>>

Received == [conn EXCEPT !.inbox = Tail(@)]

\* publishOpenOrders, publishClearinghouseState: save, then publish.
ReadSnapshot ==
  /\ bridge.pc = "read" /\ conn.inbox # <<>> /\ Head(conn.inbox).channel \in Kinds
  /\ conn' = Received
  /\ SaveSnapshot(Head(conn.inbox).channel, Head(conn.inbox).version)
  /\ UNCHANGED <<exchange, bridge, stored, announced, reads, drops, reported>>

\* Broken variant: the first fill is taken without a look at the length.
ReadFillsUnchecked ==
  /\ bridge.pc = "read" /\ conn.inbox # <<>> /\ Head(conn.inbox).channel = "userFills"
  /\ conn' = Received
  /\ bridge' = [bridge EXCEPT !.fills = Head(conn.inbox).fills, !.next = 1, !.pc = "publish"]
  /\ UNCHANGED <<exchange, rows, announced, reads, failures, drops, hurt, late, reported>>

ReadFills ==
  /\ bridge.pc = "read" /\ conn.inbox # <<>> /\ Head(conn.inbox).channel = "userFills"
  /\ conn' = Received
  /\ bridge' = [bridge EXCEPT !.fills = Head(conn.inbox).fills, !.next = 1,
                              !.pc = IF Head(conn.inbox).fills = <<>> THEN "append" ELSE "publish"]
  /\ UNCHANGED <<exchange, rows, announced, reads, failures, drops, hurt, late, reported>>

ReadOn == [bridge EXCEPT !.pc = "read", !.fills = <<>>, !.next = 1]

\* Fills are published one by one before any is stored; the first that fails
\* ends the message.
PublishFill ==
  /\ bridge.pc = "publish"
  /\ \/ /\ announced' = announced \cup {bridge.fills[bridge.next]}
        /\ bridge' = [bridge EXCEPT !.next = @ + 1,
                        !.pc = IF bridge.next = Len(bridge.fills) THEN "append" ELSE "publish"]
        /\ NoFailure
     \/ bridge' = ReadOn /\ Failure /\ UNCHANGED announced
  /\ UNCHANGED <<exchange, conn, rows, reads, drops, late, reported>>

StoreFills ==
  /\ bridge.pc = "append"
  /\ \/ stored' = stored \cup SetOf(bridge.fills) /\ NoFailure
     \/ (\E s \in Prefixes(bridge.fills) : stored' = stored \cup s) /\ Failure
  /\ bridge' = ReadOn
  /\ UNCHANGED <<exchange, conn, snapshots, announced, reads, drops, late, reported>>

\* ReadJSON returns an error.
LoseConnection ==
  /\ bridge.pc = "read" /\ ~conn.open /\ conn.inbox = <<>>
  /\ bridge' = Dialing
  /\ UNCHANGED <<exchange, conn, rows, announced, reads, failures, drops, hurt, late, reported>>

BridgeStep ==
  \/ Dial \/ Subscribe \/ Reconcile \/ SaveReconciled \/ SaveReconciledFills
  \/ ReadSnapshot \/ ReadFills \/ PublishFill \/ StoreFills \/ LoseConnection

-----------------------------------------------------------------------------
\* Handlers: Service.OpenOrders and Service.Account.

BeginRead(h, k) ==
  /\ reads[h].pc = "idle"
  /\ reads' = [reads EXCEPT ![h].pc = "query", ![h].kind = k]
  /\ UNCHANGED <<exchange, conn, bridge, rows, announced, failures, drops, hurt, late, reported>>

\* Account takes an answer with neither balance nor positions for none.
Empty(k) == k = "account" /\ version[k] \in EmptyAccounts

ProviderAnswers(h) ==
  /\ reads[h].pc = "query" /\ ~Empty(reads[h].kind)
  /\ reads' = [reads EXCEPT ![h].pc = "save", ![h].version = version[reads[h].kind]]
  /\ UNCHANGED <<exchange, conn, bridge, rows, announced, failures, drops, hurt, late, reported>>

\* The provider fails, or the account it answers is empty: the snapshot answers,
\* else the account is made up from the seeded symbols and the open orders are an
\* error.
Fallback(h) ==
  LET k == reads[h].kind IN
  /\ reads[h].pc = "query" /\ (ReadFailure \/ (Empty(k) /\ NoFailure))
  /\ reads' = [reads EXCEPT ![h].pc = "done",
                 ![h].answer = IF snapshots[k] # 0 THEN "snapshot"
                               ELSE IF k = "account" THEN "seeded" ELSE "error"]
  /\ UNCHANGED <<exchange, conn, bridge, rows, announced, drops, late, reported>>

\* The answer is saved, if the store lets it, and returned.
SaveRead(h) ==
  LET k == reads[h].kind
      n == reads[h].version
  IN /\ reads[h].pc = "save"
     /\ \/ /\ snapshots' = [snapshots EXCEPT ![k] = n]
           /\ late' = IF n = version[k] THEN late \ {k} ELSE late \cup {k}
           /\ NoFailure
        \/ UNCHANGED <<snapshots, late>> /\ ReadFailure
     /\ reads' = [reads EXCEPT ![h].pc = "done", ![h].answer = "provider"]
     /\ UNCHANGED <<exchange, conn, bridge, stored, announced, drops, reported>>

LiveNext ==
  \/ \E k \in Kinds : Change(k)
  \/ \E f \in Fills : Execute(f)
  \/ \E channel \in Channels : TakeEffect(channel)
  \/ Drop \/ Crash \/ BridgeStep
  \/ \E h \in Handlers, k \in Kinds : BeginRead(h, k)
  \/ \E h \in Handlers : ProviderAnswers(h) \/ Fallback(h) \/ SaveRead(h)

LiveSpec == LiveInit /\ [][LiveNext]_liveVars

\* runUserLoop retries for ever and its goroutine is never held up for good; the
\* exchange acts on every subscription of a connection that lasts.
FairSpec == /\ LiveSpec /\ WF_liveVars(BridgeStep)
            /\ WF_liveVars(\E channel \in Channels : TakeEffect(channel))

-----------------------------------------------------------------------------
\* The read model shows the exchange's state and every fill reported to the
\* bridge, but for a snapshot that a handler wrote back late and for a change the
\* exchange never reported: one after the reconciliation's answer and before the
\* subscription took effect.
CaughtUp ==
  /\ conn.subscribed = Channels
  /\ \A k \in Kinds : snapshots[k] = version[k] \/ k \in late \/ k \in missed
  /\ due \subseteq stored /\ stored \subseteq SetOf(executed)
  /\ due \subseteq announced /\ announced \subseteq SetOf(executed)

\* When nothing failed on a connection whose subscriptions are in effect and
\* there is no message left to read, the read model is caught up whatever was
\* lost before (runUserOnce: subscribe, reconcile, read).
QuietIsCaughtUp ==
  bridge.pc = "read" /\ conn.subscribed = Channels /\ conn.inbox = <<>> /\ ~hurt => CaughtUp

\* Once calls stop failing, the next connection repairs the read model.
ReconnectRepairs ==
  (failures = MaxFailures /\ bridge.pc = "dial") ~> CaughtUp
===============================================================================
