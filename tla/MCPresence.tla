----------------------------- MODULE MCPresence -----------------------------
(* Three connections of two participants, one of which takes no              *)
(* announcement, and a promotion.                                            *)
EXTENDS Presence

CONSTANTS a1, b1, b2, ann, bob

MCOwner == [c \in Conns |-> IF c = a1 THEN ann ELSE bob]
=============================================================================
