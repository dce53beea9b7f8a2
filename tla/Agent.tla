------------------------------- MODULE Agent -------------------------------
(***************************************************************************)
(* The agent's MCP server and the Go client it is seated by:               *)
(* internal/mcp/server.go and internal/harness/client.go.                  *)
(*                                                                         *)
(* A run keeps one connection: a pump drains what it is sent into the      *)
(* history of one log, and dials again when it ends; tool calls, each in a *)
(* goroutine of its own, send commands on the connection they find and     *)
(* wait for the answer; a reader per connection hands answers to their     *)
(* callers and the rest to the pump, through a buffer.                     *)
(*                                                                         *)
(* The gateway's end is external here: a seat that sends a log in order    *)
(* from a cursor, may move to a log and start it again, and answers (see   *)
(* Seat.tla for why).  The participant is sent the world, or watches logs, *)
(* for the whole run.                                                      *)
(***************************************************************************)
EXTENDS Integers, Sequences, FiniteSets

CONSTANTS Calls,     \* tool calls, one command each
          Logs,      \* the characters' logs
          World,     \* the world's log
          Nobody,    \* the log of nobody: "", in which nothing is written
          Buffer,    \* the capacity of Events()
          MaxHead,   \* bound: the entries each log comes to have
          MaxDials,  \* bound: connections dialled
          MaxMoves,  \* bound: how often a seat moves
          MaxWire    \* bound: frames under way on one connection

ASSUME AgentAssumption ==
  /\ {Buffer, MaxDials, MaxWire} \subseteq Nat \ {0} /\ {MaxHead, MaxMoves} \subseteq Nat
  /\ World \notin Logs /\ Nobody \notin Logs \cup {World}

VARIABLES
  seated, \* "world" or "log": what the participant's role is sent
  conns,  \* conns[g]: the connection and the client of dial g
  dials, moves, \* how many there were
  calls,  \* calls[k]: where call k is, on which connection, and its channel
  agent,  \* the fields of mcp.Server that mu guards
  pump,   \* where the pump is
  run     \* where Run is, and whether its cancel came too late for the guard

vars == <<seated, conns, dials, moves, calls, agent, pump, run>>

Dials == 1 .. MaxDials
Written == Logs \cup {World}

Entry(l, n) == [type |-> "entry", log |-> l, seq |-> n]
SwitchTo(l) == [type |-> "switch", log |-> l]
Result(k)   == [type |-> "result", call |-> k]

Deliveries == [type : {"entry"}, log : Written, seq : 1 .. MaxHead]
                \cup [type : {"switch"}, log : Logs \cup {Nobody}]
Frames == Deliveries \cup [type : {"result"}, call : Calls]

\* A reader reads; hands over a result it has claimed; closes the channels of
\* the calls it took off a torn-down client; is done.
Readers == {"reading", "replying", "unblocking", "done"}

NoSeat == [log |-> Nobody, next |-> 1]
Undialled == [open |-> FALSE, seat |-> NoSeat, asked |-> {}, wire |-> <<>>,
              reader |-> "done", claimed |-> {}, closed |-> TRUE, pending |-> {},
              events |-> <<>>, over |-> TRUE]

Conn == [open : BOOLEAN, seat : [log : Written \cup {Nobody}, next : 1 .. MaxHead + 1],
         asked : SUBSET Calls, wire : Seq(Frames), reader : Readers, claimed : SUBSET Calls,
         closed : BOOLEAN, pending : SUBSET Calls, events : Seq(Deliveries), over : BOOLEAN]

TypeOK ==
  /\ seated \in {"world", "log"}
  /\ conns \in [Dials -> Conn]
  /\ \A g \in Dials : Len(conns[g].events) <= Buffer
  /\ dials \in Dials /\ moves \in 0 .. MaxMoves
  /\ calls \in [Calls -> [at : {"idle", "held", "registered", "waiting", "returned"},
                          on : 0 .. MaxDials, chan : {"empty", "full", "closed"}]]
  /\ agent \in [client : 0 .. MaxDials, history : Seq([log : Written, seq : 1 .. MaxHead]),
                lastSeq : 0 .. MaxHead, log : Logs \cup {Nobody}, told : BOOLEAN]
  /\ pump \in {"drain", "lost", "dialling", "guard", "install", "stopped"}
  /\ run \in [at : {"serving", "cancelled", "closing", "over"}, on : 0 .. MaxDials, late : BOOLEAN]

\* A seat on log l that sends its entries from n on, its switch sent first.
Opened(l, n) ==
  [Undialled EXCEPT !.open = TRUE, !.reader = "reading", !.closed = FALSE, !.over = FALSE,
                    !.seat = [log |-> l, next |-> n],
                    !.wire = IF l = World THEN <<>> ELSE <<SwitchTo(l)>>]

\* What the gateway opens for a client that names a log and a cursor: the
\* cursor is honoured in the world, and in the log named if it may be watched.
Openings(log, after) ==
  IF seated = "world" THEN {Opened(World, after + 1)}
  ELSE {Opened(l, 1) : l \in Logs \cup {Nobody}}
         \cup {Opened(l, after + 1) : l \in {log} \ {Nobody}}

\* Run has dialled and begun its pump.
Init ==
  /\ seated \in {"world", "log"}
  /\ \E c \in Openings(Nobody, 0) : conns = [g \in Dials |-> IF g = 1 THEN c ELSE Undialled]
  /\ dials = 1 /\ moves = 0
  /\ calls = [k \in Calls |-> [at |-> "idle", on |-> 0, chan |-> "empty"]]
  /\ agent = [client |-> 1, history |-> <<>>, lastSeq |-> 0, log |-> Nobody, told |-> FALSE]
  /\ pump = "drain"
  /\ run = [at |-> "serving", on |-> 0, late |-> FALSE]

On(g, c) == conns' = [conns EXCEPT ![g] = c]
Says(k, at, chan) == calls' = [calls EXCEPT ![k].at = at, ![k].chan = chan]
Returns(k) == calls' = [calls EXCEPT ![k] = [at |-> "returned", on |-> 0, chan |-> "empty"]]

\* A channel nobody reads any more is of no interest.
Puts(S, chan) ==
  calls' = [k \in Calls |-> IF k \in S /\ calls[k].at # "returned"
                            THEN [calls[k] EXCEPT !.chan = chan] ELSE calls[k]]

\* A connection that is closed: the gateway's end is gone with it.
Shut(c) == [c EXCEPT !.open = FALSE, !.asked = {}, !.seat = NoSeat]

-----------------------------------------------------------------------------
(* The gateway and the network.                                            *)

\* An entry written while the agent is connected is one sent later.
Sends(g, c) ==
  /\ conns[g].open /\ Len(conns[g].wire) < MaxWire
  /\ On(g, c)
  /\ UNCHANGED <<seated, dials, calls, agent, pump, run>>

SendEntry(g) ==
  LET s == conns[g].seat
  IN  /\ s.log # Nobody /\ s.next <= MaxHead
      /\ Sends(g, [conns[g] EXCEPT !.wire = Append(@, Entry(s.log, s.next)), !.seat.next = @ + 1])
      /\ UNCHANGED moves

\* To another log, or to the one it is on by way of another: from entry 1.
MoveSeat(g, l) ==
  /\ seated = "log" /\ moves < MaxMoves
  /\ moves' = moves + 1
  /\ Sends(g, [conns[g] EXCEPT !.wire = Append(@, SwitchTo(l)), !.seat = [log |-> l, next |-> 1]])

Answer(g, k) ==
  /\ k \in conns[g].asked
  /\ Sends(g, [conns[g] EXCEPT !.wire = Append(@, Result(k)), !.asked = @ \ {k}])
  /\ UNCHANGED moves

\* The gateway ends the connection, or the network does.
Break(g) ==
  /\ conns[g].open
  /\ On(g, Shut(conns[g]))
  /\ UNCHANGED <<seated, dials, moves, calls, agent, pump, run>>

-----------------------------------------------------------------------------
(* harness.Client: the reader.                                             *)

Reads(g, c) ==
  /\ conns[g].reader = "reading"
  /\ On(g, c)
  /\ UNCHANGED <<seated, dials, moves, calls, agent, pump, run>>

\* teardown's part under mu.
TornDown(c) ==
  [c EXCEPT !.closed = TRUE, !.claimed = c.pending, !.pending = {},
            !.reader = "unblocking", !.wire = <<>>]

\* deliverResult's part under mu: nobody waits for a result nobody registered.
Claimed(c, k) ==
  IF k \in c.pending
  THEN [c EXCEPT !.pending = @ \ {k}, !.claimed = {k}, !.reader = "replying"]
  ELSE c

\* Mutation: a full buffer ends the reader and tears nothing down.
DeliveredOrNot(c, f) ==
  IF Len(c.events) < Buffer THEN [c EXCEPT !.events = Append(@, f)]
  ELSE [c EXCEPT !.reader = "unblocking", !.wire = <<>>]

\* deliverEvent: the buffer has room, or the client is torn down.
Delivered(c, f) ==
  IF Len(c.events) < Buffer THEN [c EXCEPT !.events = Append(@, f)] ELSE TornDown(c)

ReadFrame(g) ==
  /\ conns[g].wire # <<>>
  /\ LET f == Head(conns[g].wire)
         c == [conns[g] EXCEPT !.wire = Tail(@)]
     IN  Reads(g, IF f.type = "result" THEN Claimed(c, f.call) ELSE Delivered(c, f))

\* The connection has ended, whatever of it was still to be read.
ReadError(g) == ~conns[g].open /\ Reads(g, TornDown(conns[g]))

\* ch <- res: the channel holds one.
Reply(g) ==
  /\ conns[g].reader = "replying"
  /\ Puts(conns[g].claimed, "full")
  /\ On(g, [conns[g] EXCEPT !.reader = "reading", !.claimed = {}])
  /\ UNCHANGED <<seated, dials, moves, agent, pump, run>>

Unblock(g, k) ==
  /\ conns[g].reader = "unblocking" /\ k \in conns[g].claimed
  /\ Puts({k}, "closed")
  /\ On(g, [conns[g] EXCEPT !.claimed = @ \ {k}])
  /\ UNCHANGED <<seated, dials, moves, agent, pump, run>>

\* The connection is closed, if it was the buffer, and then Events().
EndReader(g) ==
  /\ conns[g].reader = "unblocking" /\ conns[g].claimed = {}
  /\ On(g, [Shut(conns[g]) EXCEPT !.reader = "done", !.over = TRUE])
  /\ UNCHANGED <<seated, dials, moves, calls, agent, pump, run>>

-----------------------------------------------------------------------------
(* A tool call: handlerFor and SendCommand.                                *)

Steps(k, from) == calls[k].at = from /\ UNCHANGED <<seated, dials, moves, agent, pump, run>>

Hold(k) ==
  /\ run.at # "over"
  /\ Steps(k, "idle")
  /\ IF agent.client = 0 THEN Returns(k)
     ELSE calls' = [calls EXCEPT ![k].at = "held", ![k].on = agent.client]
  /\ UNCHANGED conns

\* Mutation: a call registers with a client whether or not it is torn down.
RegisterAnyway(k) ==
  LET g == calls[k].on
  IN  /\ Steps(k, "held")
      /\ On(g, [conns[g] EXCEPT !.pending = @ \cup {k}]) /\ Says(k, "registered", "empty")

\* Under mu: a client torn down takes no more.
Register(k) ==
  LET g == calls[k].on
  IN  /\ Steps(k, "held")
      /\ IF conns[g].closed
         THEN Returns(k) /\ UNCHANGED conns
         ELSE /\ On(g, [conns[g] EXCEPT !.pending = @ \cup {k}])
              /\ Says(k, "registered", "empty")

Leaves(k, c) ==
  /\ On(calls[k].on, [c EXCEPT !.pending = @ \ {k}])
  /\ Returns(k)

Write(k) ==
  LET g == calls[k].on
  IN  /\ Steps(k, "registered")
      /\ IF conns[g].open
         THEN /\ On(g, [conns[g] EXCEPT !.asked = @ \cup {k}])
              /\ Says(k, "waiting", calls[k].chan)
         ELSE Leaves(k, conns[g])

\* A context that ends in the write takes the whole connection with it.
WriteCancelled(k) ==
  /\ Steps(k, "registered")
  /\ Leaves(k, Shut(conns[calls[k].on]))

Receive(k) ==
  /\ Steps(k, "waiting") /\ calls[k].chan # "empty"
  /\ Returns(k)
  /\ UNCHANGED conns

GiveUp(k) == Steps(k, "waiting") /\ Leaves(k, conns[calls[k].on])

-----------------------------------------------------------------------------
(* The pump.                                                               *)

Goes(from, to) == pump = from /\ pump' = to

\* A switch to the log held keeps what is held; any other discards it.
RecordSwitch(l) ==
  IF agent.told /\ agent.log = l THEN agent
  ELSE [agent EXCEPT !.history = <<>>, !.lastSeq = 0, !.log = l, !.told = TRUE]

\* Mutation: an entry already held is kept again.
RecordEventAgain(l, n) ==
  [agent EXCEPT !.history = Append(@, [log |-> l, seq |-> n]), !.lastSeq = n]

RecordEvent(l, n) ==
  IF n <= agent.lastSeq THEN agent
  ELSE [agent EXCEPT !.history = Append(@, [log |-> l, seq |-> n]), !.lastSeq = n]

Drain ==
  LET g == agent.client
  IN  /\ pump = "drain" /\ conns[g].events # <<>>
      /\ LET f == Head(conns[g].events)
         IN  agent' = IF f.type = "switch" THEN RecordSwitch(f.log) ELSE RecordEvent(f.log, f.seq)
      /\ On(g, [conns[g] EXCEPT !.events = Tail(@)])
      /\ UNCHANGED <<seated, dials, moves, calls, pump, run>>

Others == <<seated, dials, moves, calls, conns>>

\* Events() is closed: the connection is gone.
Lose ==
  /\ Goes("drain", "lost")
  /\ conns[agent.client].over /\ conns[agent.client].events = <<>>
  /\ agent' = [agent EXCEPT !.client = 0]
  /\ UNCHANGED <<Others, run>>

Cancelled == run.at # "serving"

\* Mutation: a pump whose connection is gone ends.
LookUpOnce ==
  /\ Goes("lost", "stopped")
  /\ UNCHANGED <<Others, agent, run>>

\* The pump's look at its context, and redial's.
LookUp ==
  /\ Goes("lost", IF Cancelled THEN "stopped" ELSE "dialling")
  /\ UNCHANGED <<Others, agent, run>>

\* A dial that names what is held.  One that fails is tried again.
Dial ==
  /\ dials < MaxDials
  /\ Goes("dialling", "guard")
  /\ dials' = dials + 1
  /\ \E c \in Openings(agent.log, agent.lastSeq) : On(dials + 1, c)
  /\ UNCHANGED <<seated, moves, calls, agent, run>>

DialCancelled ==
  /\ Cancelled /\ Goes("dialling", "stopped")
  /\ UNCHANGED <<Others, agent, run>>

\* Mutation: a dial that succeeds is installed whatever became of the run.
GuardNothing ==
  /\ Goes("guard", "install")
  /\ UNCHANGED <<Others, agent, run>>

\* A run cancelled while it dialled: the connection is closed here.
Guard ==
  /\ Goes("guard", IF Cancelled THEN "stopped" ELSE "install")
  /\ IF Cancelled THEN On(dials, Shut(conns[dials])) ELSE UNCHANGED conns
  /\ UNCHANGED <<seated, dials, moves, calls, agent, run>>

Install ==
  /\ Goes("install", "drain")
  /\ agent' = [agent EXCEPT !.client = dials]
  /\ UNCHANGED <<Others, run>>

Pump == Drain \/ Lose \/ LookUp \/ Dial \/ DialCancelled \/ Guard \/ Install

-----------------------------------------------------------------------------
(* Run's end: the deferred calls, last in first out.                       *)

\* The session is over, or its context; the pump's context is cancelled.
Cancel ==
  /\ run.at = "serving"
  /\ run' = [at |-> "cancelled", on |-> 0, late |-> pump = "install"]
  /\ UNCHANGED <<Others, agent, pump>>

\* The client found is closed ...
CloseClient ==
  /\ run.at = "cancelled"
  /\ IF agent.client = 0 THEN run' = [run EXCEPT !.at = "over"] /\ UNCHANGED conns
     ELSE /\ run' = [run EXCEPT !.at = "closing", !.on = agent.client]
          /\ On(agent.client, Shut(conns[agent.client]))
  /\ UNCHANGED <<seated, dials, moves, calls, agent, pump>>

\* ... which waits for its reader.
Closed ==
  /\ run.at = "closing" /\ conns[run.on].reader = "done"
  /\ run' = [run EXCEPT !.at = "over"]
  /\ UNCHANGED <<Others, agent, pump>>

-----------------------------------------------------------------------------
Reader(g) == ReadFrame(g) \/ ReadError(g) \/ Reply(g) \/ (\E k \in Calls : Unblock(g, k))
               \/ EndReader(g)
Caller(k) == Register(k) \/ Write(k) \/ Receive(k)

Next == \/ \E g \in Dials : \/ SendEntry(g) \/ Break(g) \/ Reader(g)
                            \/ \E l \in Logs \cup {Nobody} : MoveSeat(g, l)
                            \/ \E k \in Calls : Answer(g, k)
        \/ \E k \in Calls : Hold(k) \/ Caller(k) \/ WriteCancelled(k) \/ GiveUp(k)
        \/ Pump \/ Cancel \/ CloseClient \/ Closed

Spec == Init /\ [][Next]_vars

\* Goroutines that can run do; a seat sends what it has; a dial is answered.
\* No command need be, nor need a call give up, a seat move or a run end.
FairSpec == /\ Spec
            /\ \A g \in Dials : WF_vars(Reader(g)) /\ WF_vars(SendEntry(g))
            /\ \A k \in Calls : WF_vars(Caller(k))
            /\ WF_vars(Pump) /\ WF_vars(CloseClient) /\ WF_vars(Closed)

-----------------------------------------------------------------------------
(* Properties.                                                             *)

\* What get_state and get_events_since read is one log from its first entry,
\* without a gap or an entry twice, however often the seat moves, sends a log
\* again or the connection is dialled anew (recordSwitch, recordEvent, redial).
HistoryIsOneLog ==
  LET log == IF seated = "world" THEN World ELSE agent.log
  IN  /\ agent.history = [i \in 1 .. agent.lastSeq |-> [log |-> log, seq |-> i]]
      /\ seated = "log" /\ ~agent.told => agent.history = <<>>

\* A call waiting for an answer that has not come is registered with a client
\* that is not torn down, or in its reader's hands (SendCommand, teardown).
WaitersAreKnown ==
  \A k \in Calls :
    LET c == conns[calls[k].on]
    IN  calls[k].at \in {"registered", "waiting"} /\ calls[k].chan = "empty"
          => k \in c.claimed \/ (k \in c.pending /\ ~c.closed)

\* A call on a connection that ends returns, whether it found, registered with
\* or waited on its client as the reader tore it down, or the buffer overflowed.
CallsReturn ==
  \A k \in Calls :
    calls[k].at # "idle" /\ calls[k].on # 0 /\ ~conns[calls[k].on].open
      ~> calls[k].at = "returned"

\* A run that goes on comes to hold the whole of the log it is sent, whatever
\* overflows and breaks, unless the bound on dials is reached.
CatchesUp ==
  LET held == agent.client # 0 /\ conns[agent.client].open
      seat == conns[agent.client].seat
      complete == /\ held
                  /\ seat.log # Nobody => agent.lastSeq = MaxHead
                  /\ seated = "log" => agent.told /\ agent.log = seat.log
  IN  <>[](Cancelled \/ (dials = MaxDials /\ ~held) \/ complete)

\* A run that has ended leaves no connection open, though it was dialling as it
\* was cancelled, unless the cancel came between redial's look at the context
\* and its setClient.
ClosedInTheEnd ==
  run.at = "over" ~> run.late \/ \A g \in Dials : ~conns[g].open
=============================================================================
