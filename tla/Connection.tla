----------------------------- MODULE Connection -----------------------------
(***************************************************************************)
(* The goroutines of one connection, and how they end together: serve's    *)
(* read loop, the pump, the writer and the pinger of                       *)
(* internal/gateway/server.go and keepalive.go, with a presence fan-out of *)
(* another connection that may be parked on this one's queue.              *)
(*                                                                         *)
(* What is queued is a number of frames; what the frames say is Seat.tla's *)
(* and what commands do is Commands.tla's.  A lookup of the credential     *)
(* answers here: one that fails operationally keeps the connection.        *)
(***************************************************************************)
EXTENDS Integers

CONSTANTS Buffer,    \* the capacity of outCh
          MaxFrames  \* bound: frames one turn of the pump queues

ASSUME ConnectionAssumption == Buffer \in Nat \ {0} /\ MaxFrames \in Nat \ {0}

VARIABLES sock,       \* the socket is open, and whether its peer has stopped reading
          outCh,      \* frames queued
          serve, pump, writer, pinger, \* where each goroutine is
          due,        \* frames the pump has yet to queue this turn
          parked,     \* another's fan-out is parked on outCh, holding its mutex
          credential, \* "told": removed, and the connections rejudged
          rejudge,    \* a signal waits in pc.rejudge
          ended       \* the stream of entries is closed

connection == <<sock, outCh, serve, pump, writer, pinger, due, parked, credential, rejudge, ended>>

ConnectionInit ==
  /\ sock = [open |-> TRUE, mute |-> FALSE]
  /\ outCh = 0 /\ due = 0
  /\ serve = "seating" /\ pump = "unborn" /\ writer = "unborn" /\ pinger = "unborn"
  /\ parked = FALSE /\ credential = "good" /\ rejudge = FALSE /\ ended = FALSE

Present == serve \in {"announcing", "reading", "answering"}   \* in the registry
Closing == serve \in {"stopping", "flushing", "over"}         \* and the pump is told to stop
Flush   == serve \in {"flushing", "over"}
TokenGone    == credential # "good"
Room    == outCh < Buffer

Queue == outCh' = outCh + 1
Close == sock' = [sock EXCEPT !.open = FALSE]

-----------------------------------------------------------------------------
(* serve.                                                                  *)

\* A seat, and its writer; or none, and a reasoned close.
Seat ==
  /\ serve = "seating"
  /\ \/ serve' = "heading" /\ writer' = "waiting" /\ UNCHANGED sock
     \/ serve' = "over" /\ Close /\ UNCHANGED writer
  /\ UNCHANGED <<outCh, pump, pinger, due, parked, credential, rejudge, ended>>

\* The head is queued before anything else, or could not be encoded.
QueueHead ==
  /\ serve = "heading"
  /\ \/ Room /\ Queue /\ serve' = "joining"
     \/ serve' = "flushing" /\ UNCHANGED outCh
  /\ UNCHANGED <<sock, pump, writer, pinger, due, parked, credential, rejudge, ended>>

\* The snapshot waits for room as long as a budget; the pump begins.  Only a
\* participant's first connection is announced.
Join ==
  /\ serve = "joining"
  /\ (Room /\ Queue) \/ UNCHANGED outCh
  /\ pump' = "opening"
  /\ \/ serve' = "announcing" /\ UNCHANGED pinger
     \/ serve' = "reading" /\ pinger' = "waiting"
  /\ UNCHANGED <<sock, writer, due, parked, credential, rejudge, ended>>

\* To the others, one fan-out at a time; each send has a budget.
AnnounceSelf ==
  /\ serve = "announcing" /\ ~parked
  /\ serve' = "reading" /\ pinger' = "waiting"
  /\ UNCHANGED <<sock, outCh, pump, writer, due, parked, credential, rejudge, ended>>

\* A frame is a command to answer, is malformed, or comes of a credential gone.
ReadCommand ==
  /\ serve = "reading" /\ sock.open
  /\ serve' \in IF TokenGone THEN {"leaving"} ELSE {"answering", "leaving"}
  /\ UNCHANGED <<sock, outCh, pump, writer, pinger, due, parked, credential, rejudge, ended>>

ReadError ==
  /\ serve = "reading" /\ ~sock.open
  /\ serve' = "leaving"
  /\ UNCHANGED <<sock, outCh, pump, writer, pinger, due, parked, credential, rejudge, ended>>

\* Mutation: an answer waits for room alone.
AnswerForRoom ==
  /\ serve = "answering"
  /\ Room /\ Queue /\ serve' = "reading"
  /\ UNCHANGED <<sock, pump, writer, pinger, due, parked, credential, rejudge, ended>>

Answer ==
  /\ serve = "answering"
  /\ \/ Room /\ Queue /\ serve' = "reading"
     \/ writer = "done" /\ serve' = "leaving" /\ UNCHANGED outCh
  /\ UNCHANGED <<sock, pump, writer, pinger, due, parked, credential, rejudge, ended>>

\* shutdown: presence is left, which frees a fan-out parked here; the departure is
\* announced behind any other fan-out; then closing is set and the pump stopped.
Depart ==
  /\ serve = "leaving" /\ ~parked
  /\ serve' = "stopping"
  /\ UNCHANGED <<sock, outCh, pump, writer, pinger, due, parked, credential, rejudge, ended>>

StopPump ==
  /\ serve = "stopping" /\ pump = "done"
  /\ serve' = "flushing"
  /\ UNCHANGED <<sock, outCh, pump, writer, pinger, due, parked, credential, rejudge, ended>>

FlushWriter ==
  /\ serve = "flushing" /\ writer = "done"
  /\ serve' = "over" /\ Close
  /\ UNCHANGED <<outCh, pump, writer, pinger, due, parked, credential, rejudge, ended>>

-----------------------------------------------------------------------------
(* The pump.                                                               *)

\* Nothing is closed under a shutdown, which closes with its own reason.
CloseUnlessClosing == IF Closing THEN UNCHANGED sock ELSE Close

PumpEnds == pump' = "done" /\ due' = 0

\* A turn: the credential is judged, and there is something to queue or nothing.
\* A pump that begins takes a turn, and so does one that is woken.
Turn ==
  /\ \/ TokenGone /\ PumpEnds /\ CloseUnlessClosing
     \/ ~TokenGone /\ due' \in 0 .. MaxFrames /\ UNCHANGED sock
        /\ pump' = IF due' = 0 THEN "waiting" ELSE "sending"
  /\ UNCHANGED <<outCh, serve, writer, pinger, parked, credential, ended>>

Open == pump = "opening" /\ Turn /\ UNCHANGED rejudge

\* An append, a promotion, a perch, or an entry.
Wake == pump = "waiting" /\ Turn /\ UNCHANGED rejudge

Rejudge == pump = "waiting" /\ rejudge /\ rejudge' = FALSE /\ Turn

\* deliver and queueFrame: stop at the first failure, and close for one of ours.
QueueFrame ==
  /\ pump = "sending"
  /\ \/ /\ Room /\ Queue /\ due' = due - 1 /\ UNCHANGED sock
        /\ pump' = IF due = 1 THEN "waiting" ELSE "sending"
     \/ writer = "done" /\ PumpEnds /\ UNCHANGED <<sock, outCh>>
     \/ PumpEnds /\ CloseUnlessClosing /\ UNCHANGED outCh
  /\ UNCHANGED <<serve, writer, pinger, parked, credential, rejudge, ended>>

\* Mutation: a stream that ended ends its pump, and leaves the socket open.
LostUnclosed ==
  /\ pump = "waiting" /\ ended
  /\ PumpEnds /\ UNCHANGED sock
  /\ UNCHANGED <<outCh, serve, writer, pinger, parked, credential, rejudge, ended>>

\* lost: the stream ended, by the store's drop or the campaign's close.
Lost ==
  /\ pump = "waiting" /\ ended
  /\ PumpEnds /\ CloseUnlessClosing
  /\ UNCHANGED <<outCh, serve, writer, pinger, parked, credential, rejudge, ended>>

Stop ==
  /\ pump = "waiting" /\ Closing
  /\ PumpEnds
  /\ UNCHANGED <<sock, outCh, serve, writer, pinger, parked, credential, rejudge, ended>>

-----------------------------------------------------------------------------
(* The writer and the pinger.                                              *)

\* writeUntilFlushed takes a frame; told to flush, it drains what is queued.
Take ==
  /\ writer \in {"waiting", "draining"} /\ outCh > 0
  /\ outCh' = outCh - 1
  /\ writer' = IF writer = "waiting" THEN "writing" ELSE "last"
  /\ UNCHANGED <<sock, serve, pump, pinger, due, parked, credential, rejudge, ended>>

FlushArm ==
  /\ writer = "waiting" /\ Flush
  /\ writer' = "draining"
  /\ UNCHANGED <<sock, outCh, serve, pump, pinger, due, parked, credential, rejudge, ended>>

Drained ==
  /\ writer = "draining" /\ outCh = 0
  /\ writer' = "done"
  /\ UNCHANGED <<sock, outCh, serve, pump, pinger, due, parked, credential, rejudge, ended>>

Busy == writer \in {"writing", "last"}

\* Mutation: a write has no timeout.
WriteUnbounded ==
  /\ Busy
  /\ \/ /\ sock.open /\ ~sock.mute /\ UNCHANGED sock
        /\ writer' = IF writer = "writing" THEN "waiting" ELSE "draining"
     \/ writer' = "done" /\ ~sock.open /\ UNCHANGED sock
  /\ UNCHANGED <<outCh, serve, pump, pinger, due, parked, credential, rejudge, ended>>

\* A write the socket takes; or one that fails, or times out, which closes it.
Write ==
  /\ Busy
  /\ \/ /\ sock.open /\ ~sock.mute /\ UNCHANGED sock
        /\ writer' = IF writer = "writing" THEN "waiting" ELSE "draining"
     \/ writer' = "done" /\ Close
  /\ UNCHANGED <<outCh, serve, pump, pinger, due, parked, credential, rejudge, ended>>

\* A tick while a frame is being written is skipped.
Tick ==
  /\ pinger = "waiting" /\ ~Busy
  /\ pinger' = "pinging"
  /\ UNCHANGED <<sock, outCh, serve, pump, writer, due, parked, credential, rejudge, ended>>

\* A pong is read by the reader while it reads; a ping that could not be sent says
\* nothing of the peer.
Pong ==
  /\ pinger = "pinging"
  /\ sock.open => ~sock.mute /\ serve = "reading"
  /\ pinger' = "waiting"
  /\ UNCHANGED <<sock, outCh, serve, pump, writer, due, parked, credential, rejudge, ended>>

\* No pong by the deadline: the socket is closed, and its owner left to find it so.
Reap ==
  /\ pinger = "pinging" /\ sock.open
  /\ pinger' = "done" /\ Close
  /\ UNCHANGED <<outCh, serve, pump, writer, due, parked, credential, rejudge, ended>>

StopPing ==
  /\ pinger = "waiting" /\ serve = "over"
  /\ pinger' = "done"
  /\ UNCHANGED <<sock, outCh, serve, pump, writer, due, parked, credential, rejudge, ended>>

-----------------------------------------------------------------------------
(* The others: a fan-out, a removal, the stream and the peer.              *)

Park ==
  /\ Present /\ ~parked
  /\ parked' = TRUE
  /\ UNCHANGED <<sock, outCh, serve, pump, writer, pinger, due, credential, rejudge, ended>>

\* There was room, the connection left, or the budget ran out.
Unpark ==
  /\ parked /\ parked' = FALSE
  /\ (Room /\ Queue) \/ UNCHANGED outCh
  /\ UNCHANGED <<sock, serve, pump, writer, pinger, due, credential, rejudge, ended>>

\* A removal revokes the credential, and then signals the connections it finds.
Revoke ==
  /\ credential = "good" /\ credential' = "revoked"
  /\ UNCHANGED <<sock, outCh, serve, pump, writer, pinger, due, parked, rejudge, ended>>

SignalRemoved ==
  /\ credential = "revoked" /\ credential' = "told"
  /\ rejudge' = (rejudge \/ Present)
  /\ UNCHANGED <<sock, outCh, serve, pump, writer, pinger, due, parked, ended>>

EndStream ==
  /\ ~ended /\ ended' = TRUE
  /\ UNCHANGED <<sock, outCh, serve, pump, writer, pinger, due, parked, credential, rejudge>>

\* The peer closes, or stops reading and never reads again.
PeerCloses ==
  /\ sock.open /\ Close
  /\ UNCHANGED <<outCh, serve, pump, writer, pinger, due, parked, credential, rejudge, ended>>

PeerStalls ==
  /\ sock.open /\ ~sock.mute /\ sock' = [sock EXCEPT !.mute = TRUE]
  /\ UNCHANGED <<outCh, serve, pump, writer, pinger, due, parked, credential, rejudge, ended>>

-----------------------------------------------------------------------------
ConnectionNext ==
  \/ Seat \/ QueueHead \/ Join \/ AnnounceSelf \/ ReadCommand \/ ReadError \/ Answer
  \/ Depart \/ StopPump \/ FlushWriter
  \/ Open \/ Wake \/ Rejudge \/ QueueFrame \/ Lost \/ Stop
  \/ Take \/ FlushArm \/ Drained \/ Write \/ Tick \/ Pong \/ Reap \/ StopPing
  \/ Park \/ Unpark \/ Revoke \/ SignalRemoved \/ EndStream \/ PeerCloses \/ PeerStalls

\* A goroutine that can move does.  A select chooses among its ready arms at
\* random, and a mutex starves nobody: strong fairness for an arm that others
\* compete with.  Nothing is asked of commands, wakes and peers.
ConnectionFairness ==
  /\ WF_connection(Seat) /\ WF_connection(QueueHead) /\ WF_connection(Join)
  /\ SF_connection(AnnounceSelf) /\ WF_connection(ReadError) /\ WF_connection(Answer)
  /\ WF_connection(Depart) /\ WF_connection(StopPump) /\ WF_connection(FlushWriter)
  /\ WF_connection(Open) /\ SF_connection(Rejudge) /\ WF_connection(QueueFrame)
  /\ SF_connection(Lost) /\ SF_connection(Stop)
  /\ WF_connection(Take) /\ SF_connection(FlushArm) /\ WF_connection(Drained)
  /\ WF_connection(Write) /\ SF_connection(Tick) /\ WF_connection(Pong \/ Reap)
  /\ SF_connection(StopPing) /\ WF_connection(Unpark) /\ WF_connection(SignalRemoved)

-----------------------------------------------------------------------------
(* The property.                                                           *)

AllOver == /\ serve = "over" /\ ~sock.open /\ ~parked
        /\ \A g \in {pump, writer, pinger} : g \in {"unborn", "done"}

\* However a connection comes to its end, all of it ends: when its socket is
\* closed, its peer stops reading, its participant is removed, its stream is
\* ended or its pump has stopped, the read loop, pump, writer and pinger all
\* return, though each may be parked on the others and on a fan-out.
TeardownEnds ==
  (~sock.open \/ sock.mute \/ credential = "told" \/ ended \/ pump = "done") ~> AllOver
=============================================================================
