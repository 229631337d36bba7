------------------------------ MODULE MCLiveState ------------------------------
(* A small instance of LiveState for TLC. *)
EXTENDS LiveState

CONSTANTS f1, f2, h1
===============================================================================
