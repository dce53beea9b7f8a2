----------------------------- MODULE MCDelivery -----------------------------
(* What a log comes to say, and the goroutines of a connection that carries *)
(* one.  The two share no variable, and each is checked alone: in a         *)
(* behaviour one of them moves and the other, which is left in a state      *)
(* where nothing fair is enabled, does not.                                 *)
EXTENDS MCPerceive, Connection

ASSUME SheetsAreWithinBounds

VARIABLE half
mcvars == <<vars, connection, half>>

\* A connection that was refused a seat.
Refused ==
  /\ sock = [open |-> FALSE, mute |-> FALSE]
  /\ outCh = 0 /\ due = 0
  /\ serve = "over" /\ pump = "unborn" /\ writer = "unborn" /\ pinger = "unborn"
  /\ parked = FALSE /\ credential = "good" /\ rejudge = FALSE /\ ended = FALSE

MCInit == Init /\ \/ half = "logs" /\ Refused
                  \/ half = "connection" /\ ConnectionInit /\ alphabet = Board

MCNext == /\ UNCHANGED half
          /\ \/ half = "logs" /\ Next /\ UNCHANGED connection
             \/ half = "connection" /\ ConnectionNext /\ UNCHANGED vars

MCSpec == MCInit /\ [][MCNext]_mcvars /\ ConnectionFairness
=============================================================================
