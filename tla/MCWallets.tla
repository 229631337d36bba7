------------------------------ MODULE MCWallets ------------------------------
(* Small instances of Wallets for TLC. *)
EXTENDS Wallets

CONSTANTS w1, w2, u, v, c1, c2

Create(user, key, name) == [op |-> "create", user |-> user, key |-> key, name |-> name, order |-> 0]

Reorder(user, items) == [op |-> "reorder", user |-> user, items |-> items]

\* Two orders of the same wallets, which either may not have yet, an order of
\* one of them by its owner and by another user, and the other requests.
SomeRequests ==
  { Create(u, "k1", ""), Create(u, "k2", "a"),
    Reorder(u, << <<w1, 1>>, <<w2, 2>> >>), Reorder(u, << <<w2, 1>>, <<w1, 2>> >>),
    Reorder(u, << <<w2, 3>> >>), Reorder(v, << <<w1, 3>> >>),
    [op |-> "rename", user |-> u, id |-> w1, name |-> "a"],
    [op |-> "rename", user |-> v, id |-> w1, name |-> ""],
    [op |-> "whitelist", user |-> u, key |-> "k1", label |-> "a"],
    [op |-> "event", user |-> u, risk |-> ""] }
===============================================================================
