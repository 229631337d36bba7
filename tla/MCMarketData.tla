----------------------------- MODULE MCMarketData -----------------------------
(* Small instances of MarketData for TLC. *)
EXTENDS MarketData

CONSTANTS old, new, c1, c2, c3, i1, i2

\* The indexed token is not seeded: its first readers find nothing.
NewTokens == [b \in Blocks |-> new]

\* Both tokens have the same symbol, so that GetToken finds either for the other.
SameSymbol == [t \in Tokens |-> Tokens \ {t}]

\* Someone lists the new token; its page shows transactions.
Requests == { <<"upsert", new>>, <<"transactions", new>>, <<"ohlc1m", old>> }
===============================================================================
