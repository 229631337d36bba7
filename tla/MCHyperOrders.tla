---------------------------- MODULE MCHyperOrders ----------------------------
(* Small instances of HyperOrders for TLC. *)
EXTENDS HyperOrders, TLC

CONSTANTS c1, c2, o1, o2, x1

\* A request, and its repetition without cloid and address.
RetriedInputs ==
  { [user |-> "u", address |-> "a",  req |-> "r", cloid |-> TRUE],
    [user |-> "u", address |-> None, req |-> "r", cloid |-> FALSE] }

\* One order.
OneInput == { [user |-> "u", address |-> "a", req |-> "r", cloid |-> TRUE] }

\* What a status request may name: nothing, or an order the row is not of, by its
\* provider order id.
NoName    == [poid |-> "", cloid |-> None]
OwnNames  == {NoName}
OtherName == {NoName, [NoName EXCEPT !.poid = x1]}

Symmetry == Permutations(Calls) \cup Permutations(OrderIds)
==============================================================================
