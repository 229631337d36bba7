-------------------------- MODULE SpotOrdersPlacement --------------------------
(***************************************************************************)
(* SpotOrders implements OrderPlacement too: here an order is placed when    *)
(* its row is stored.                                                       *)
(***************************************************************************)
EXTENDS SpotOrders

PlacedFor == [r \in Users \X Reqs |-> OrdersOf(r[1], r[2])]

Promise == INSTANCE OrderPlacement
             WITH Requests <- Users \X Reqs, Placements <- OrderIds, placed <- PlacedFor

\* A request leads to one stored order, which no retry, crash or update takes
\* back or replaces (CreateOrder of either store).
StoresOnce == Promise!Spec
===============================================================================
