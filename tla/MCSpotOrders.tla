----------------------------- MODULE MCSpotOrders -----------------------------
(* A small instance of SpotOrders for TLC. *)
EXTENDS SpotOrdersPlacement, TLC

CONSTANTS c1, c2, c3, o1, o2, o3, u, v, r

\* In tenths of a unit: a request that is repeated, another user's with the same
\* id whose output is rounded up to more than it asks for, and one without an id
\* whose fee is rounded up.
MCInputs == { [user |-> u, req |-> r,    amount |-> 50014, bps |-> 1],
              [user |-> v, req |-> r,    amount |-> 6,     bps |-> 5000],
              [user |-> u, req |-> None, amount |-> 1667,  bps |-> 0],
              [user |-> u, req |-> None, amount |-> 1667,  bps |-> 5001] }

MCStatuses == {"confirmed", "cancelled", "unknown"}

Symmetry == Permutations(Calls) \cup Permutations(OrderIds)
===============================================================================
