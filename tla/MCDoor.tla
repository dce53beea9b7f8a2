------------------------------- MODULE MCDoor -------------------------------
(* Door two ways: two joiners, an invited and two racing openers over a     *)
(* budget of none or one and two changes of the people there are; and two   *)
(* joiners of one name (Names).                                             *)
EXTENDS Door
=============================================================================
