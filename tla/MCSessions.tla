------------------------------ MODULE MCSessions ------------------------------
(* A small instance of Sessions for TLC. *)
EXTENDS Sessions, TLC

CONSTANTS c1, c2, c3, c4, s1

Symmetry == Permutations(Calls)
===============================================================================
