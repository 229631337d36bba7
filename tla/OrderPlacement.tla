---------------------------- MODULE OrderPlacement ----------------------------
(***************************************************************************)
(* What CreateOrder promises a user, whatever happens inside: a request     *)
(* leads to at most one order on the exchange, and one that was placed is   *)
(* never taken back or replaced by another.                                 *)
(***************************************************************************)
CONSTANTS Requests,    \* what a user may ask for, each any number of times
          Placements   \* orders that can be on the exchange

VARIABLE placed        \* request -> the orders the exchange received for it

Init == placed = [r \in Requests |-> {}]

Place(r, p) ==
  /\ placed[r] = {}
  /\ placed' = [placed EXCEPT ![r] = {p}]

Next == \E r \in Requests, p \in Placements : Place(r, p)

Spec == Init /\ [][Next]_placed
===============================================================================
