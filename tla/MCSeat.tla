------------------------------- MODULE MCSeat -------------------------------
(* Two actors and few steps, for which log is watched; one actor and more   *)
(* steps, for a log left and come back to, and for the redials.             *)
EXTENDS Seat
=============================================================================
