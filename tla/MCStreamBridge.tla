--------------------------- MODULE MCStreamBridge ---------------------------
(* A small instance of StreamBridge for TLC. *)
EXTENDS StreamBridge, TLC

CONSTANTS c1, c2

Event(type, user, chain, token, meme) ==
  [type |-> type, topic |-> "", user |-> user, chain |-> chain, token |-> token,
   bucket |-> "", meme |-> meme]

OrderUpdated == Event("hypertrader.order.updated", "u1", "", "", FALSE)

\* Two topics, under a chain that is normalised to that of StatisticOnly.
TokenUpdated == Event("market.token.updated", "", "SOL", "t1", FALSE)

StatisticOnly == Event("market.token.statistic_updated", "", "501", "t1", FALSE)

MemeCreated == Event("market.token.created", "", "", "t1", TRUE)

NoChain == Event("market.transaction.created", "", "", "t1", FALSE)

\* One event with two topics and one more on the second; twice the same topic;
\* an event that resolves to no topic in the middle.
ModelBatches ==
  { <<TokenUpdated, StatisticOnly>>, <<OrderUpdated, OrderUpdated>>,
    <<MemeCreated, NoChain, OrderUpdated>> }

Symmetry == Permutations(Calls)
=============================================================================
