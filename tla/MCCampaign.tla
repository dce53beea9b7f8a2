----------------------------- MODULE MCCampaign -----------------------------
(* The single writer with two openers of one directory, one subscription   *)
(* of each kind and one watch; the commands that are handed to it; and the *)
(* formulas of a ruleset.  The three share no variable: in a behaviour one *)
(* of them moves, and the others are as they are left.  Where nothing is   *)
(* commanded any more nothing has to happen, so those behaviours may       *)
(* stand; the campaign may not.                                            *)
EXTENDS Campaign, MCCommands

VARIABLE part
mcvars == <<vars, commands, source, part>>

Written(units, max) == UNION {[1 .. n -> units] : n \in 1 .. max}

\* Templates that are formulas of what is bound, and what may be bound.
Templates == {t \in Written({Hole, "2", "d", "*", "+", " ", "(", ")"}, 5) :
                Hole \in ToSet(t) /\ Parse(Spliced(t, Marker)) # Refused}
Bounds == {t \in Written({"1", "+", "d", " ", "(", ")"}, 4) : Parse(t) # Refused}

MCInit ==
  /\ Init
  /\ \/ part = "campaign" /\ Idle /\ Unread
     \/ part = "commands" /\ Began /\ Unread
     \/ part = "formulas" /\ Idle /\ source \in [text : Templates, bound : Bounds]

MCNext ==
  \/ part = "campaign" /\ Next /\ UNCHANGED <<commands, source, part>>
  \/ part = "commands" /\ CommandsNext /\ UNCHANGED <<vars, source, part>>
  \/ part # "campaign" /\ UNCHANGED mcvars

MCSpec == MCInit /\ [][MCNext]_mcvars
=============================================================================
