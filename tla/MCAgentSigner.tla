---------------------------- MODULE MCAgentSigner ----------------------------
(* A small instance of AgentSigner for TLC. *)
EXTENDS AgentSigner, TLC

CONSTANTS c1, c2, a1, a2, u1

Default == [actions |-> {"order", "cancel", "updateLeverage"}, symbols |-> {}, maxLeverage |-> 2]

\* Nothing asked, and only orders of one symbol with leverage up to 1.
AskedPolicies ==
  { [actions |-> {}, symbols |-> {}, maxLeverage |-> 0],
    [actions |-> {"submitOrder"}, symbols |-> {"BTC"}, maxLeverage |-> 1] }

AskedRequests ==
  { [action |-> "order",          symbol |-> "BTC", leverage |-> 0],
    [action |-> "updateLeverage", symbol |-> "ETH", leverage |-> 2] }

Symmetry == Permutations(Calls) \cup Permutations(Agents)
=============================================================================
