------------------------- MODULE HyperOrdersPlacement -------------------------
(***************************************************************************)
(* HyperOrders implements OrderPlacement: the requests of the abstract      *)
(* specification are the pairs of a user id and a clientRequestId, and the  *)
(* n-th time the exchange receives the order of a row is one placement for  *)
(* the row's request.                                                       *)
(***************************************************************************)
EXTENDS HyperOrders

Requests == {<<in.user, in.req>> : in \in {i \in Inputs : i.user # None /\ i.req # None}}

RequestOf(o) == <<orders[o].input.user, orders[o].input.req>>

PlacedFor == [r \in Requests |->
                UNION { {o} \X (1 .. exch[o].sent) :
                        o \in {p \in Stored : RequestOf(p) = r} }]

Promise == INSTANCE OrderPlacement
             WITH Placements <- OrderIds \X {1}, placed <- PlacedFor

\* Every step of the handlers, the bridge, the exchange and the crashes is a
\* placement of a request never placed before, or none at all.
PlacesOnce == Promise!Spec
===============================================================================
