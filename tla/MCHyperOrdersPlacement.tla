------------------------ MODULE MCHyperOrdersPlacement ------------------------
(* Small instances of HyperOrdersPlacement for TLC. *)
EXTENDS HyperOrdersPlacement, MCHyperOrders
===============================================================================
