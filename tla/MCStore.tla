------------------------------ MODULE MCStore ------------------------------
(* Store with two subscriptions of one log, one of which has a reader.     *)
EXTENDS Store
=============================================================================
