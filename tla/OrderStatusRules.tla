--------------------------- MODULE OrderStatusRules ---------------------------
(***************************************************************************)
(* The status vocabulary of futures orders and the two pure functions every *)
(* writer of an order row goes through: normalising what the exchange says, *)
(* and merging it with what the row already holds                           *)
(* (internal/hypertrader/service.go).                                       *)
(***************************************************************************)

\* Exchange words for an order that is alive (the first case of the switch).
OpenWords == {"", "ok", "order", "open", "resting", "submitted", "triggered"}

\* Exchange words that are, or contain, "cancel"; those that are "failed", or
\* contain "reject"; and the answer to a lookup of an id it has never seen.
CancelWords  == {"cancelled", "canceled", "marginCanceled", "selfTradeCanceled"}
RejectWords  == {"rejected", "failed", "tickRejected"}
UnknownWords == {"unknown", "unknownOid"}

\* Any other word.
OtherWords == {"expired"}

RawStatuses == OpenWords \cup {"filled"} \cup CancelWords \cup RejectWords
                         \cup UnknownWords \cup OtherWords

\* What a row's status column may hold: a word nobody knows is kept as it is.
RowStatuses == {"pending", "submitted", "filled", "cancelled", "failed", "unknown"}
                 \cup OtherWords

\* Broken variants: the exchange's words are stored as they are, and whatever is
\* no cancel, refusal or unknown id counts as filled.
normalizeNothing(raw) == raw
normalizeByDefaultFilled(raw) ==
  CASE raw \in CancelWords  -> "cancelled"
    [] raw \in RejectWords  -> "failed"
    [] raw \in UnknownWords -> "unknown"
    [] OTHER                -> "filled"

normalizeProviderOrderStatus(raw) ==
  CASE raw \in OpenWords    -> "submitted"
    [] raw = "filled"       -> "filled"
    [] raw \in CancelWords  -> "cancelled"
    [] raw \in RejectWords  -> "failed"
    [] raw \in UnknownWords -> "unknown"
    [] OTHER                -> raw

terminalOrderStatus(status) ==
  status \in {"cancelled", "filled", "failed", "rejected"}

mergeSyncedOrderStatus(current, next) ==
  IF next = "" \/ (terminalOrderStatus(current) /\ next = "submitted")
  THEN current
  ELSE next
===============================================================================
