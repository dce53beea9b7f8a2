------------------------------ MODULE MCAgent ------------------------------
(* Agent with two logs, short of one entry or two each, and a buffer of one *)
(* that overflows at every chance.                                          *)
EXTENDS Agent
=============================================================================
