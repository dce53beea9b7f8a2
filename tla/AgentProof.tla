----------------------------- MODULE AgentProof -----------------------------
(***************************************************************************)
(* Theorems about Agent, for any number of calls, logs and dials: its      *)
(* types, that no call is left waiting for an answer nobody will bring, and*)
(* that what the agent reads is one log from its first entry.              *)
(*                                                                         *)
(* A call that waits is registered with a client not yet torn down, or its *)
(* reader has it in hand.  What makes this inductive is the reader: one    *)
(* that is reading has nobody in hand, so what it then takes off the       *)
(* client, to answer or to unblock, loses nobody; and a client is torn     *)
(* down exactly when its reader has left its loop, so Register, which asks *)
(* the client, learns what the reader has done.                            *)
(*                                                                         *)
(* The history is the work of three: what the seat has still to send, what *)
(* is on the wire, and what waits in the reader's buffer.  Each entry there*)
(* follows one before it on the way, or a switch to its log, or what the   *)
(* agent holds; handing the agent the first of them keeps that of the rest.*)
(***************************************************************************)
EXTENDS Agent, SequenceTheorems, TLAPS

\* A connection as its reader and its callers keep it.
Orderly(c) ==
  /\ c \in Conn
  /\ Len(c.events) <= Buffer
  /\ c.reader = "reading" => c.claimed = {}
  /\ c.closed <=> c.reader \in {"unblocking", "done"}

CallRecord == [at : {"idle", "held", "registered", "waiting", "returned"},
               on : 0 .. MaxDials, chan : {"empty", "full", "closed"}]

HeldEntry == [log : Written, seq : 1 .. MaxHead]
AgentRecord == [client : 0 .. MaxDials, history : Seq(HeldEntry),
                lastSeq : 0 .. MaxHead, log : Logs \cup {Nobody}, told : BOOLEAN]

\* A call in progress has a connection, and one that was dialled.
Placed(r, n) == r.on <= n /\ (r.at \in {"held", "registered", "waiting"} => r.on # 0)

\* Of call k, whose record is r and whose connection c: if it waits for an
\* answer, there is somebody to bring it one.
Known(k, r, c) ==
  r.at \in {"registered", "waiting"} /\ r.chan = "empty"
    => k \in c.claimed \/ (k \in c.pending /\ ~c.closed)

ConnInv == conns \in [Dials -> Conn] /\ \A g \in Dials : Orderly(conns[g])
CallInv == calls \in [Calls -> CallRecord] /\ \A k \in Calls : Placed(calls[k], dials)
KnownInv == \A k \in Calls : Known(k, calls[k], conns[calls[k].on])
RestInv ==
  /\ seated \in {"world", "log"}
  /\ dials \in Dials /\ moves \in 0 .. MaxMoves
  /\ agent \in AgentRecord /\ agent.client <= dials
  /\ pump \in {"drain", "lost", "dialling", "guard", "install", "stopped"}
  /\ pump = "drain" => agent.client # 0
  /\ run \in [at : {"serving", "cancelled", "closing", "over"}, on : 0 .. MaxDials, late : BOOLEAN]
  /\ run.at = "closing" => run.on # 0

IInv == ConnInv /\ CallInv /\ KnownInv /\ RestInv

\* The invariant is what the properties say, and more.
LEMMA IInvSays == IInv => TypeOK /\ WaitersAreKnown
BY DEF IInv, ConnInv, CallInv, KnownInv, RestInv, Orderly, TypeOK, CallRecord,
       HeldEntry, AgentRecord, Known, WaitersAreKnown

-----------------------------------------------------------------------------
(* Connections.                                                            *)

LEMMA Bounds == Buffer \in Nat \ {0} /\ MaxDials \in Nat \ {0} /\ MaxHead \in Nat /\ 1 \in Dials
                /\ 0 \notin Dials /\ World \in Written /\ Nobody \notin Written
BY AgentAssumption DEF Dials, Written

LEMMA UndialledOrderly == Orderly(Undialled)
BY Bounds DEF Undialled, Orderly, Conn, NoSeat, Readers

LEMMA OpenedOrderly ==
  ASSUME NEW l \in Written \cup {Nobody}, NEW n \in 1 .. MaxHead + 1
  PROVE  Orderly(Opened(l, n))
<1>1. SwitchTo(l) \in Frames \/ l = World
  BY DEF SwitchTo, Frames, Deliveries, Written
<1> DEFINE s == [log |-> l, next |-> n]
           w == IF l = World THEN <<>> ELSE <<SwitchTo(l)>>
<1>2. w \in Seq(Frames)
  BY <1>1
<1>3. Undialled \in Conn /\ Undialled.claimed = {} /\ Len(Undialled.events) <= Buffer
  BY UndialledOrderly, Bounds DEF Orderly, Undialled
<1>4. s \in [log : Written \cup {Nobody}, next : 1 .. MaxHead + 1]
  OBVIOUS
<1>5. Opened(l, n) = [Undialled EXCEPT !.open = TRUE, !.reader = "reading", !.closed = FALSE,
                                       !.over = FALSE, !.seat = s, !.wire = w]
  BY DEF Opened
<1> HIDE DEF s, w
<1>6. Opened(l, n) \in Conn
  BY <1>2, <1>3, <1>4, <1>5 DEF Conn, Readers
<1>7. /\ Opened(l, n).reader = "reading" /\ ~Opened(l, n).closed
      /\ Opened(l, n).claimed = {} /\ Opened(l, n).events = Undialled.events
  BY <1>3, <1>5 DEF Conn
<1> QED
  BY <1>3, <1>6, <1>7 DEF Orderly

LEMMA OpeningsOrderly ==
  ASSUME NEW log \in Logs \cup {Nobody}, NEW after \in 0 .. MaxHead,
         NEW c \in Openings(log, after)
  PROVE  Orderly(c)
<1>1. after + 1 \in 1 .. MaxHead + 1 /\ 1 \in 1 .. MaxHead + 1
  BY Bounds
<1>2. PICK l \in Written \cup {Nobody}, n \in 1 .. MaxHead + 1 : c = Opened(l, n)
  BY <1>1, Bounds DEF Openings, Written
<1> QED
  BY <1>2, OpenedOrderly DEF Written

\* A torn-down client has whom it had: who was registered is in hand.
LEMMA TornDownOrderly ==
  ASSUME NEW c, Orderly(c)
  PROVE  /\ Orderly(TornDown(c))
         /\ TornDown(c).claimed = c.pending
<1> DEFINE w == <<>>
<1>1. w \in Seq(Frames) /\ c \in Conn /\ Len(c.events) <= Buffer
  BY DEF Orderly
<1>2. TornDown(c) = [c EXCEPT !.closed = TRUE, !.claimed = c.pending, !.pending = {},
                              !.reader = "unblocking", !.wire = w]
  BY DEF TornDown
<1> HIDE DEF w
<1>3. TornDown(c) \in Conn
  BY <1>1, <1>2 DEF Conn, Readers
<1>4. /\ TornDown(c).closed /\ TornDown(c).claimed = c.pending
      /\ TornDown(c).reader = "unblocking" /\ TornDown(c).events = c.events
  BY <1>1, <1>2 DEF Conn
<1> QED
  BY <1>1, <1>3, <1>4 DEF Orderly

-----------------------------------------------------------------------------
(* What a step does to one connection and to some of the calls.            *)

\* A connection replaced by an orderly one leaves them all orderly.
LEMMA OnOrderly ==
  ASSUME ConnInv, NEW g \in Dials, NEW c, Orderly(c), On(g, c)
  PROVE  ConnInv' /\ conns'[g] = c /\ \A h \in Dials \ {g} : conns'[h] = conns[h]
BY DEF ConnInv, On, Orderly

\* A step that leaves the calls alone, and of one connection loses nobody.
LEMMA OnKnows ==
  ASSUME ConnInv, CallInv, KnownInv, NEW g \in Dials, NEW c, Orderly(c), On(g, c), UNCHANGED calls,
         \A k \in Calls : \/ k \in conns[g].claimed \/ (k \in conns[g].pending /\ ~conns[g].closed)
                          => k \in c.claimed \/ (k \in c.pending /\ ~c.closed)
  PROVE  ConnInv' /\ KnownInv'
<1>1. ConnInv' /\ conns'[g] = c /\ \A h \in Dials \ {g} : conns'[h] = conns[h]
  BY OnOrderly
<1>2. ASSUME NEW k \in Calls PROVE Known(k, calls'[k], conns'[calls'[k].on])
  <2>1. calls[k].at \in {"registered", "waiting"} => calls[k].on \in Dials
    BY DEF CallInv, CallRecord, Placed, Dials
  <2>2. Known(k, calls[k], conns[calls[k].on])
    BY DEF KnownInv
  <2> QED BY <1>1, <2>1, <2>2 DEF Known
<1> QED BY <1>1, <1>2 DEF KnownInv

\* A step that puts the record of one call, whose connection loses nobody else.
LEMMA CallKnows ==
  ASSUME ConnInv, CallInv, KnownInv, UNCHANGED dials,
         NEW k \in Calls, calls[k].on \in Dials, NEW r \in CallRecord, Placed(r, dials),
         r.at = "returned" \/ r.on = calls[k].on, calls' = [calls EXCEPT ![k] = r],
         NEW c, Orderly(c), On(calls[k].on, c), Known(k, r, c),
         \A j \in Calls \ {k} :
           LET d == conns[calls[k].on]
           IN  j \in d.claimed \/ (j \in d.pending /\ ~d.closed)
                 => j \in c.claimed \/ (j \in c.pending /\ ~c.closed)
  PROVE  ConnInv' /\ CallInv' /\ KnownInv'
<1>1. ConnInv' /\ conns'[calls[k].on] = c /\ \A h \in Dials \ {calls[k].on} : conns'[h] = conns[h]
  BY OnOrderly
<1>2. CallInv' /\ calls'[k] = r /\ \A j \in Calls \ {k} : calls'[j] = calls[j]
  BY DEF CallInv
<1>3. ASSUME NEW j \in Calls PROVE Known(j, calls'[j], conns'[calls'[j].on])
  <2>1. calls[j].at \in {"registered", "waiting"} => calls[j].on \in Dials
    BY DEF CallInv, CallRecord, Placed, Dials
  <2>2. Known(j, calls[j], conns[calls[j].on])
    BY DEF KnownInv
  <2>3. CASE j = k
    BY <1>1, <1>2, <2>3 DEF Known
  <2>4. CASE j # k
    BY <1>1, <1>2, <2>1, <2>2, <2>4 DEF Known
  <2> QED BY <2>3, <2>4
<1> QED BY <1>1, <1>2, <1>3 DEF KnownInv

\* A step that puts the record of one call that does not wait.
LEMMA CallQuiet ==
  ASSUME ConnInv, CallInv, KnownInv, UNCHANGED <<dials, conns>>,
         NEW k \in Calls, NEW r \in CallRecord, Placed(r, dials),
         r.at \notin {"registered", "waiting"}, calls' = [calls EXCEPT ![k] = r]
  PROVE  ConnInv' /\ CallInv' /\ KnownInv'
<1>1. ConnInv'
  BY DEF ConnInv
<1>2. CallInv' /\ calls'[k] = r /\ \A j \in Calls \ {k} : calls'[j] = calls[j]
  BY DEF CallInv
<1>3. ASSUME NEW j \in Calls PROVE Known(j, calls'[j], conns'[calls'[j].on])
  <2>1. Known(j, calls[j], conns[calls[j].on])
    BY DEF KnownInv
  <2> QED BY <1>2, <2>1 DEF Known
<1> QED BY <1>1, <1>2, <1>3 DEF KnownInv

\* A reader that answers or unblocks those it had in hand, and lets them go.
LEMMA PutsKnows ==
  ASSUME ConnInv, CallInv, KnownInv, UNCHANGED dials, NEW g \in Dials,
         NEW S \in (SUBSET Calls), NEW chan \in {"full", "closed"}, Puts(S, chan),
         NEW c, Orderly(c), On(g, c),
         c.claimed = conns[g].claimed \ S, c.pending = conns[g].pending, c.closed = conns[g].closed
  PROVE  ConnInv' /\ CallInv' /\ KnownInv'
<1>1. ConnInv' /\ conns'[g] = c /\ \A h \in Dials \ {g} : conns'[h] = conns[h]
  BY OnOrderly
<1>2. ASSUME NEW j \in Calls
      PROVE  /\ calls'[j] \in CallRecord
             /\ calls'[j].at = calls[j].at /\ calls'[j].on = calls[j].on
             /\ j \in S /\ calls[j].at # "returned" => calls'[j].chan # "empty"
             /\ j \notin S => calls'[j] = calls[j]
  <2>1. calls[j] \in CallRecord
    BY DEF CallInv
  <2>2. calls'[j] = IF j \in S /\ calls[j].at # "returned" THEN [calls[j] EXCEPT !.chan = chan]
                    ELSE calls[j]
    BY DEF Puts
  <2> QED BY <2>1, <2>2 DEF CallRecord
<1>3. CallInv'
  <2>1. calls' \in [Calls -> CallRecord]
    BY <1>2 DEF Puts
  <2> QED BY <1>2, <2>1 DEF CallInv, Placed
<1>4. ASSUME NEW j \in Calls PROVE Known(j, calls'[j], conns'[calls'[j].on])
  <2>1. calls[j].at \in {"registered", "waiting"} => calls[j].on \in Dials
    BY DEF CallInv, CallRecord, Placed, Dials
  <2>2. Known(j, calls[j], conns[calls[j].on])
    BY DEF KnownInv
  <2>3. CASE j \in S
    BY <1>2, <2>3 DEF Known
  <2>4. CASE j \notin S
    BY <1>1, <1>2, <2>1, <2>2, <2>4 DEF Known
  <2> QED BY <2>3, <2>4
<1> QED BY <1>1, <1>3, <1>4 DEF KnownInv

\* Closing a connection takes nobody from its client.
LEMMA ShutOrderly ==
  ASSUME NEW c, Orderly(c)
  PROVE  /\ Orderly(Shut(c))
         /\ Shut(c).claimed = c.claimed /\ Shut(c).pending = c.pending /\ Shut(c).closed = c.closed
<1>1. NoSeat \in [log : Written \cup {Nobody}, next : 1 .. MaxHead + 1] /\ c \in Conn
  BY Bounds DEF NoSeat, Orderly
<1>2. Shut(c) \in Conn /\ Shut(c).reader = c.reader /\ Shut(c).events = c.events
  BY <1>1 DEF Shut, Conn
<1>3. Shut(c).claimed = c.claimed /\ Shut(c).pending = c.pending /\ Shut(c).closed = c.closed
  BY <1>1 DEF Shut, Conn
<1> QED BY <1>2, <1>3 DEF Orderly

-----------------------------------------------------------------------------
(* The actions.                                                            *)

\* The connection of a call in progress.
LEMMA OnIsDialled ==
  ASSUME CallInv, NEW k \in Calls, calls[k].at \in {"held", "registered", "waiting"}
  PROVE  calls[k].on \in Dials
BY DEF CallInv, CallRecord, Placed, Dials

LEMMA SendsKeep ==
  ASSUME IInv, NEW g \in Dials, NEW c, Orderly(c), Sends(g, c), moves' \in 0 .. MaxMoves,
         c.claimed = conns[g].claimed, c.pending = conns[g].pending, c.closed = conns[g].closed
  PROVE  IInv'
<1>1. ConnInv' /\ KnownInv'
  BY OnKnows DEF Sends, IInv
<1>2. CallInv' /\ RestInv'
  BY DEF Sends, IInv, CallInv, RestInv
<1> QED BY <1>1, <1>2 DEF IInv

LEMMA GatewayKeeps ==
  ASSUME IInv, NEW g \in Dials,
         \/ SendEntry(g) \/ Break(g)
         \/ \E l \in Logs \cup {Nobody} : MoveSeat(g, l)
         \/ \E k \in Calls : Answer(g, k)
  PROVE  IInv'
<1> DEFINE c == conns[g]
<1>0. Orderly(c) /\ c \in Conn
  BY DEF IInv, ConnInv, Orderly
<1> HIDE DEF c
<1>1. CASE SendEntry(g)
  <2> DEFINE w == Append(c.wire, Entry(c.seat.log, c.seat.next))
             d == [c EXCEPT !.wire = w, !.seat.next = c.seat.next + 1]
  <2>1. c.seat.log \in Written /\ c.seat.next \in 1 .. MaxHead
    BY <1>0, <1>1 DEF SendEntry, Conn, c
  <2>2. w \in Seq(Frames)
    BY <1>0, <2>1 DEF Conn, Entry, Frames, Deliveries
  <2>3. Sends(g, d) /\ UNCHANGED moves
    BY <1>1 DEF SendEntry, c
  <2>4. c.seat.next + 1 \in 1 .. MaxHead + 1
    BY <2>1, Bounds
  <2> HIDE DEF w
  <2>5. Orderly(d) /\ d.claimed = c.claimed /\ d.pending = c.pending /\ d.closed = c.closed
    BY <1>0, <2>2, <2>4 DEF Orderly, Conn
  <2> QED BY <2>3, <2>5, SendsKeep DEF c, IInv, RestInv
<1>2. CASE Break(g)
  <2>1. ConnInv' /\ KnownInv'
    BY <1>0, <1>2, ShutOrderly, OnKnows DEF Break, IInv, c
  <2> QED BY <1>2, <2>1 DEF Break, IInv, CallInv, RestInv
<1>3. ASSUME NEW l \in Logs \cup {Nobody}, MoveSeat(g, l) PROVE IInv'
  <2> DEFINE w == Append(c.wire, SwitchTo(l))
             s == [log |-> l, next |-> 1]
             d == [c EXCEPT !.wire = w, !.seat = s]
  <2>1. w \in Seq(Frames)
    BY <1>0 DEF Conn, SwitchTo, Frames, Deliveries
  <2>2. s \in [log : Written \cup {Nobody}, next : 1 .. MaxHead + 1]
    BY Bounds DEF Written
  <2>3. Sends(g, d) /\ moves' = moves + 1 /\ moves < MaxMoves
    BY <1>3 DEF MoveSeat, c
  <2> HIDE DEF w, s
  <2>4. Orderly(d) /\ d.claimed = c.claimed /\ d.pending = c.pending /\ d.closed = c.closed
    BY <1>0, <2>1, <2>2 DEF Orderly, Conn
  <2>5. moves' \in 0 .. MaxMoves
    BY <2>3, AgentAssumption DEF IInv, RestInv
  <2> QED BY <2>3, <2>4, <2>5, SendsKeep DEF c
<1>4. ASSUME NEW k \in Calls, Answer(g, k) PROVE IInv'
  <2> DEFINE w == Append(c.wire, Result(k))
             d == [c EXCEPT !.wire = w, !.asked = c.asked \ {k}]
  <2>1. w \in Seq(Frames)
    BY <1>0 DEF Conn, Result, Frames
  <2>2. Sends(g, d) /\ UNCHANGED moves
    BY <1>4 DEF Answer, c
  <2> HIDE DEF w
  <2>3. Orderly(d) /\ d.claimed = c.claimed /\ d.pending = c.pending /\ d.closed = c.closed
    BY <1>0, <2>1 DEF Orderly, Conn
  <2> QED BY <2>2, <2>3, SendsKeep DEF c, IInv, RestInv
<1> QED BY <1>1, <1>2, <1>3, <1>4

LEMMA ReaderKeeps ==
  ASSUME IInv, NEW g \in Dials, Reader(g)
  PROVE  IInv'
<1> DEFINE c == conns[g]
<1>0. Orderly(c) /\ c \in Conn
  BY DEF IInv, ConnInv, Orderly
<1> HIDE DEF c
<1>a. ASSUME NEW d, Orderly(d), Reads(g, d),
             \A k \in Calls : k \in c.pending => k \in d.claimed \/ (k \in d.pending /\ ~d.closed)
      PROVE  IInv'
  <2>1. c.claimed = {}
    BY <1>0, <1>a DEF Reads, Orderly, c
  <2>2. ConnInv' /\ KnownInv'
    BY <1>a, <2>1, OnKnows DEF Reads, IInv, c
  <2> QED BY <1>a, <2>2 DEF Reads, IInv, CallInv, RestInv
<1>1. CASE ReadFrame(g)
  <2> DEFINE f == Head(c.wire)
             w == Tail(c.wire)
             d == [c EXCEPT !.wire = w]
  <2>1. f \in Frames /\ w \in Seq(Frames)
    BY <1>0, <1>1 DEF ReadFrame, Conn, c
  <2>2. Reads(g, IF f.type = "result" THEN Claimed(d, f.call) ELSE Delivered(d, f))
    BY <1>1 DEF ReadFrame, c
  <2>3. c.reader = "reading" /\ c.claimed = {} /\ ~c.closed
    BY <1>0, <2>2 DEF Reads, Orderly, c
  <2> HIDE DEF f, w
  <2>4. /\ Orderly(d) /\ d.claimed = {} /\ d.pending = c.pending /\ ~d.closed
        /\ d.reader = "reading" /\ d.events = c.events
    BY <1>0, <2>1, <2>3 DEF Orderly, Conn
  <2> HIDE DEF d
  <2>5. CASE f.type = "result"
    <3> DEFINE e == Claimed(d, f.call)
    <3>1. f.call \in Calls
      BY <2>1, <2>5 DEF Frames, Deliveries
    <3>2. CASE f.call \in d.pending
      <4>1. e = [d EXCEPT !.pending = d.pending \ {f.call}, !.claimed = {f.call}, !.reader = "replying"]
        BY <3>2 DEF Claimed
      <4> HIDE DEF e
      <4>2. /\ e \in Conn /\ e.pending = d.pending \ {f.call} /\ e.claimed = {f.call}
            /\ e.reader = "replying" /\ e.closed = d.closed /\ e.events = d.events
        BY <2>4, <3>1, <4>1 DEF Orderly, Conn, Readers
      <4>3. Orderly(e)
        BY <2>4, <4>2 DEF Orderly
      <4> QED BY <1>a, <2>2, <2>4, <2>5, <4>2, <4>3 DEF e
    <3>3. CASE f.call \notin d.pending
      <4>1. e = d
        BY <3>3 DEF Claimed
      <4> QED BY <1>a, <2>2, <2>4, <2>5, <4>1
    <3> QED BY <3>2, <3>3
  <2>6. CASE f.type # "result"
    <3>1. f \in Deliveries
      BY <2>1, <2>6 DEF Frames
    <3>2. CASE Len(d.events) < Buffer
      <4> DEFINE v == Append(d.events, f)
                 e == [d EXCEPT !.events = v]
      <4>1. Reads(g, e)
        BY <2>2, <2>6, <3>2 DEF Delivered
      <4>2. v \in Seq(Deliveries) /\ Len(v) <= Buffer
        BY <2>4, <3>1, <3>2, Bounds DEF Orderly, Conn
      <4> HIDE DEF v
      <4>3. /\ e \in Conn /\ e.pending = d.pending /\ e.claimed = d.claimed
            /\ e.reader = d.reader /\ e.closed = d.closed /\ e.events = v
        BY <2>4, <4>2 DEF Orderly, Conn
      <4> HIDE DEF e
      <4>4. Orderly(e)
        BY <2>4, <4>2, <4>3 DEF Orderly
      <4> QED BY <1>a, <2>4, <4>1, <4>3, <4>4
    <3>3. CASE ~(Len(d.events) < Buffer)
      <4>1. Reads(g, TornDown(d))
        BY <2>2, <2>6, <3>3 DEF Delivered
      <4> QED BY <1>a, <2>4, <4>1, TornDownOrderly
    <3> QED BY <3>2, <3>3
  <2> QED BY <2>5, <2>6
<1>2. CASE ReadError(g)
  BY <1>0, <1>2, <1>a, TornDownOrderly DEF ReadError, c
<1>b. ASSUME NEW S \in (SUBSET Calls), NEW chan \in {"full", "closed"}, NEW d, Puts(S, chan),
             On(g, d), Orderly(d), UNCHANGED <<seated, dials, moves, agent, pump, run>>,
             d.claimed = c.claimed \ S, d.pending = c.pending, d.closed = c.closed
      PROVE  IInv'
  <2>1. ConnInv' /\ CallInv' /\ KnownInv'
    BY <1>b, PutsKnows DEF IInv, c
  <2> QED BY <1>b, <2>1 DEF IInv, RestInv
<1>3. CASE Reply(g)
  <2> DEFINE d == [c EXCEPT !.reader = "reading", !.claimed = {}]
  <2>1. c.reader = "replying" /\ Puts(c.claimed, "full") /\ On(g, d)
    BY <1>3 DEF Reply, c
  <2>2. /\ d \in Conn /\ d.claimed = {} /\ d.pending = c.pending /\ d.closed = c.closed
        /\ d.reader = "reading" /\ d.events = c.events
    BY <1>0 DEF Conn, Readers
  <2> HIDE DEF d
  <2>3. Orderly(d) /\ c.claimed \in (SUBSET Calls)
    BY <1>0, <2>1, <2>2 DEF Orderly, Conn
  <2> QED BY <1>3, <1>b, <2>1, <2>2, <2>3 DEF Reply
<1>4. ASSUME NEW k \in Calls, Unblock(g, k) PROVE IInv'
  <2> DEFINE d == [c EXCEPT !.claimed = c.claimed \ {k}]
  <2>1. c.reader = "unblocking" /\ Puts({k}, "closed") /\ On(g, d)
    BY <1>4 DEF Unblock, c
  <2>2. /\ d \in Conn /\ d.claimed = c.claimed \ {k} /\ d.pending = c.pending /\ d.closed = c.closed
        /\ d.reader = c.reader /\ d.events = c.events
    BY <1>0 DEF Conn
  <2> HIDE DEF d
  <2>3. Orderly(d)
    BY <1>0, <2>1, <2>2 DEF Orderly
  <2> QED BY <1>4, <1>b, <2>1, <2>2, <2>3 DEF Unblock
<1>5. CASE EndReader(g)
  <2> DEFINE s == Shut(c)
             d == [s EXCEPT !.reader = "done", !.over = TRUE]
  <2>1. c.reader = "unblocking" /\ c.closed /\ On(g, d)
    BY <1>0, <1>5 DEF EndReader, Orderly, c
  <2>2. /\ Orderly(s) /\ s \in Conn /\ s.claimed = c.claimed /\ s.pending = c.pending
        /\ s.closed = c.closed
    BY <1>0, ShutOrderly DEF Orderly
  <2> HIDE DEF s
  <2>3. /\ d \in Conn /\ d.claimed = c.claimed /\ d.pending = c.pending /\ d.closed = c.closed
        /\ d.reader = "done" /\ d.events = s.events
    BY <2>2 DEF Conn, Readers
  <2> HIDE DEF d
  <2>4. Orderly(d)
    BY <2>1, <2>2, <2>3 DEF Orderly
  <2>5. ConnInv' /\ KnownInv'
    BY <1>5, <2>1, <2>3, <2>4, OnKnows DEF EndReader, IInv, c
  <2> QED BY <1>5, <2>5 DEF EndReader, IInv, CallInv, RestInv
<1> QED BY <1>1, <1>2, <1>3, <1>4, <1>5 DEF Reader

LEMMA CallKeeps ==
  ASSUME IInv, NEW k \in Calls, Hold(k) \/ Caller(k) \/ WriteCancelled(k) \/ GiveUp(k)
  PROVE  IInv'
<1> DEFINE o == calls[k]
           c == conns[o.on]
           quiet == [at |-> "returned", on |-> 0, chan |-> "empty"]
<1>0. o \in CallRecord /\ Placed(o, dials)
  BY DEF IInv, CallInv
<1>1. ASSUME o.at \in {"held", "registered", "waiting"} PROVE o.on \in Dials /\ Orderly(c) /\ c \in Conn
  BY <1>1, OnIsDialled DEF IInv, ConnInv, Orderly
<1>2. quiet \in CallRecord /\ Placed(quiet, dials) /\ quiet.at = "returned" /\ quiet.on = 0
  BY Bounds DEF CallRecord, Placed, IInv, RestInv, Dials
<1> HIDE DEF o, c, quiet
<1>a. ASSUME ConnInv', CallInv', KnownInv', UNCHANGED <<seated, dials, moves, agent, pump, run>>
      PROVE  IInv'
  BY <1>a DEF IInv, RestInv
<1>b. ASSUME Returns(k), UNCHANGED <<conns, seated, dials, moves, agent, pump, run>> PROVE IInv'
  <2>1. calls' = [calls EXCEPT ![k] = quiet]
    BY <1>b DEF Returns, quiet
  <2>2. ConnInv' /\ CallInv' /\ KnownInv'
    BY <1>2, <1>b, <2>1, CallQuiet DEF IInv
  <2> QED BY <1>a, <1>b, <2>2
<1>c. ASSUME o.at \in {"held", "registered", "waiting"}, NEW d, Leaves(k, d), Orderly(d),
             d.claimed = c.claimed, d.pending = c.pending, d.closed = c.closed,
             UNCHANGED <<seated, dials, moves, agent, pump, run>>
      PROVE  IInv'
  <2> DEFINE e == [d EXCEPT !.pending = d.pending \ {k}]
  <2>1. On(calls[k].on, e) /\ calls' = [calls EXCEPT ![k] = quiet]
    BY <1>c DEF Leaves, Returns, o, quiet
  <2>2. /\ e \in Conn /\ e.pending = d.pending \ {k} /\ e.claimed = d.claimed
        /\ e.reader = d.reader /\ e.closed = d.closed /\ e.events = d.events
    BY <1>c DEF Orderly, Conn
  <2> HIDE DEF e
  <2>3. Orderly(e)
    BY <1>c, <2>2 DEF Orderly
  <2>4. ConnInv' /\ CallInv' /\ KnownInv'
    BY <1>1, <1>2, <1>c, <2>1, <2>2, <2>3, CallKnows DEF IInv, Known, c, o
  <2> QED BY <1>a, <1>c, <2>4
<1>3. CASE Hold(k)
  <2>1. o.at = "idle" /\ UNCHANGED <<conns, seated, dials, moves, agent, pump, run>>
    BY <1>3 DEF Hold, Steps, o
  <2>2. CASE agent.client = 0
    BY <1>3, <1>b, <2>1, <2>2 DEF Hold
  <2>3. CASE agent.client # 0
    <3> DEFINE r == [o EXCEPT !.at = "held", !.on = agent.client]
    <3>1. calls' = [calls EXCEPT ![k] = r]
      BY <1>3, <2>3 DEF Hold, o, IInv, CallInv
    <3>2. agent.client \in 0 .. MaxDials /\ agent.client <= dials
      BY DEF IInv, RestInv, AgentRecord
    <3>3. r \in CallRecord /\ r.at = "held" /\ r.on = agent.client
      BY <1>0, <3>2 DEF CallRecord
    <3> HIDE DEF r
    <3>4. ConnInv' /\ CallInv' /\ KnownInv'
      BY <2>1, <2>3, <3>1, <3>2, <3>3, CallQuiet DEF IInv, Placed
    <3> QED BY <1>a, <2>1, <3>4
  <2> QED BY <2>2, <2>3
<1>4. CASE Register(k)
  <2>1. o.at = "held" /\ UNCHANGED <<seated, dials, moves, agent, pump, run>>
    BY <1>4 DEF Register, Steps, o
  <2>2. CASE c.closed
    BY <1>4, <1>b, <2>1, <2>2 DEF Register, c, o
  <2>3. CASE ~c.closed
    <3> DEFINE r == [o EXCEPT !.at = "registered", !.chan = "empty"]
               d == [c EXCEPT !.pending = c.pending \cup {k}]
    <3>1. On(calls[k].on, d) /\ Says(k, "registered", "empty")
      BY <1>4, <2>3 DEF Register, c, o
    <3>2. calls' = [calls EXCEPT ![k] = r]
      BY <3>1 DEF Says, o, IInv, CallInv
    <3>3. r \in CallRecord /\ r.at = "registered" /\ r.on = o.on
      BY <1>0 DEF CallRecord
    <3>4. /\ d \in Conn /\ d.pending = c.pending \cup {k} /\ d.claimed = c.claimed
          /\ d.reader = c.reader /\ d.closed = c.closed /\ d.events = c.events
      BY <1>1, <2>1 DEF Conn
    <3> HIDE DEF r, d
    <3>5. Orderly(d)
      BY <1>1, <2>1, <3>4 DEF Orderly
    <3>6. Placed(r, dials)
      BY <1>0, <2>1, <3>3 DEF Placed
    <3>7. Known(k, r, d)
      BY <2>3, <3>4 DEF Known
    <3>8. ConnInv' /\ CallInv' /\ KnownInv'
      BY <1>1, <2>1, <3>1, <3>2, <3>3, <3>4, <3>5, <3>6, <3>7, CallKnows DEF IInv, c, o
    <3> QED BY <1>a, <2>1, <3>8
  <2> QED BY <2>2, <2>3
<1>5. CASE Write(k)
  <2>1. o.at = "registered" /\ UNCHANGED <<seated, dials, moves, agent, pump, run>>
    BY <1>5 DEF Write, Steps, o
  <2>2. CASE c.open
    <3> DEFINE r == [o EXCEPT !.at = "waiting"]
               d == [c EXCEPT !.asked = c.asked \cup {k}]
    <3>1. On(calls[k].on, d) /\ Says(k, "waiting", o.chan)
      BY <1>5, <2>2 DEF Write, c, o
    <3>2. calls' = [calls EXCEPT ![k] = [o EXCEPT !.at = "waiting", !.chan = o.chan]]
      BY <3>1 DEF Says, o, IInv, CallInv
    <3>3. r \in CallRecord /\ r.at = "waiting" /\ r.on = o.on /\ r.chan = o.chan
      BY <1>0 DEF CallRecord
    <3>4. r = [o EXCEPT !.at = "waiting", !.chan = o.chan]
      BY <1>0 DEF CallRecord
    <3>5. /\ d \in Conn /\ d.pending = c.pending /\ d.claimed = c.claimed
          /\ d.reader = c.reader /\ d.closed = c.closed /\ d.events = c.events
      BY <1>1, <2>1 DEF Conn
    <3>6. calls' = [calls EXCEPT ![k] = r]
      BY <3>2, <3>4
    <3> HIDE DEF r, d
    <3>7. Orderly(d)
      BY <1>1, <2>1, <3>5 DEF Orderly
    <3>8. Placed(r, dials)
      BY <1>0, <2>1, <3>3 DEF Placed
    <3>9. Known(k, r, d)
      BY <2>1, <3>3, <3>5 DEF Known, IInv, KnownInv, c, o
    <3>10. ConnInv' /\ CallInv' /\ KnownInv'
      BY <1>1, <2>1, <3>1, <3>3, <3>5, <3>6, <3>7, <3>8, <3>9, CallKnows DEF IInv, c, o
    <3> QED BY <1>a, <2>1, <3>10
  <2>3. CASE ~c.open
    <3>1. Leaves(k, c)
      BY <1>5, <2>3 DEF Write, c, o
    <3> QED BY <1>1, <1>c, <2>1, <3>1
  <2> QED BY <2>2, <2>3
<1>6. CASE WriteCancelled(k)
  <2>1. o.at = "registered" /\ UNCHANGED <<seated, dials, moves, agent, pump, run>> /\ Leaves(k, Shut(c))
    BY <1>6 DEF WriteCancelled, Steps, c, o
  <2> QED BY <1>1, <1>c, <2>1, ShutOrderly
<1>7. CASE Receive(k)
  BY <1>7, <1>b DEF Receive, Steps
<1>8. CASE GiveUp(k)
  <2>1. o.at = "waiting" /\ UNCHANGED <<seated, dials, moves, agent, pump, run>> /\ Leaves(k, c)
    BY <1>8 DEF GiveUp, Steps, c, o
  <2> QED BY <1>1, <1>c, <2>1
<1> QED BY <1>3, <1>4, <1>5, <1>6, <1>7, <1>8 DEF Caller

\* What recordSwitch and recordEvent make of the agent is an agent, of one client.
LEMMA AgentPuts ==
  ASSUME agent \in AgentRecord
  PROVE  /\ \A l \in Logs \cup {Nobody} :
              RecordSwitch(l) \in AgentRecord /\ RecordSwitch(l).client = agent.client
         /\ \A l \in Written, n \in 1 .. MaxHead :
              RecordEvent(l, n) \in AgentRecord /\ RecordEvent(l, n).client = agent.client
         /\ \A g \in 0 .. MaxDials :
              [agent EXCEPT !.client = g] \in AgentRecord /\ [agent EXCEPT !.client = g].client = g
<1>1. ASSUME NEW l \in Logs \cup {Nobody}
      PROVE  RecordSwitch(l) \in AgentRecord /\ RecordSwitch(l).client = agent.client
  <2> DEFINE h == <<>>
             a == [agent EXCEPT !.history = h, !.lastSeq = 0, !.log = l, !.told = TRUE]
  <2>1. h \in Seq(HeldEntry) /\ 0 \in 0 .. MaxHead
    BY Bounds
  <2>2. RecordSwitch(l) = IF agent.told /\ agent.log = l THEN agent ELSE a
    BY DEF RecordSwitch
  <2> HIDE DEF h
  <2>3. a \in AgentRecord /\ a.client = agent.client
    BY <2>1 DEF AgentRecord
  <2> HIDE DEF a
  <2> QED BY <2>2, <2>3
<1>2. ASSUME NEW l \in Written, NEW n \in 1 .. MaxHead
      PROVE  RecordEvent(l, n) \in AgentRecord /\ RecordEvent(l, n).client = agent.client
  <2> DEFINE h == Append(agent.history, [log |-> l, seq |-> n])
             a == [agent EXCEPT !.history = h, !.lastSeq = n]
  <2>1. h \in Seq(HeldEntry) /\ n \in 0 .. MaxHead
    BY DEF AgentRecord, HeldEntry
  <2>2. RecordEvent(l, n) = IF n <= agent.lastSeq THEN agent ELSE a
    BY DEF RecordEvent
  <2> HIDE DEF h
  <2>3. a \in AgentRecord /\ a.client = agent.client
    BY <2>1 DEF AgentRecord
  <2> HIDE DEF a
  <2> QED BY <2>2, <2>3
<1>3. ASSUME NEW g \in 0 .. MaxDials
      PROVE  [agent EXCEPT !.client = g] \in AgentRecord /\ [agent EXCEPT !.client = g].client = g
  BY DEF AgentRecord
<1> QED BY <1>1, <1>2, <1>3

LEMMA PumpKeeps ==
  ASSUME IInv, Pump
  PROVE  IInv'
<1>0. agent \in AgentRecord /\ agent.client \in 0 .. MaxDials /\ agent.client <= dials /\ dials \in Dials
  BY DEF IInv, RestInv, AgentRecord
<1>a. ASSUME UNCHANGED <<conns, calls, dials>> PROVE ConnInv' /\ CallInv' /\ KnownInv'
  BY <1>a DEF IInv, ConnInv, CallInv, KnownInv
<1>1. CASE Drain
  <2> DEFINE g == agent.client
             c == conns[g]
             f == Head(c.events)
             w == Tail(c.events)
             d == [c EXCEPT !.events = w]
  <2>1. g \in Dials /\ Orderly(c) /\ c \in Conn
    BY <1>0, <1>1 DEF Drain, IInv, RestInv, ConnInv, Orderly, Dials
  <2>2. /\ c.events # <<>> /\ On(g, d) /\ UNCHANGED <<seated, dials, moves, calls, pump, run>>
        /\ agent' = IF f.type = "switch" THEN RecordSwitch(f.log) ELSE RecordEvent(f.log, f.seq)
    BY <1>1 DEF Drain
  <2> HIDE DEF c
  <2>3. f \in Deliveries /\ w \in Seq(Deliveries) /\ Len(w) <= Buffer
    BY <2>1, <2>2, Bounds DEF Orderly, Conn
  <2> HIDE DEF f, w
  <2>4. /\ d \in Conn /\ d.pending = c.pending /\ d.claimed = c.claimed
        /\ d.reader = c.reader /\ d.closed = c.closed /\ d.events = w
    BY <2>1, <2>3 DEF Conn
  <2> HIDE DEF d
  <2>5. Orderly(d)
    BY <2>1, <2>3, <2>4 DEF Orderly
  <2>6. ConnInv' /\ KnownInv'
    BY <2>1, <2>2, <2>4, <2>5, OnKnows DEF IInv, c
  <2>7. agent' \in AgentRecord /\ agent'.client = agent.client
    <3>1. CASE f.type = "switch"
      <4>1. f.log \in Logs \cup {Nobody}
        BY <2>3, <3>1 DEF Deliveries
      <4> QED BY <1>0, <2>2, <3>1, <4>1, AgentPuts
    <3>2. CASE f.type # "switch"
      <4>1. f.log \in Written /\ f.seq \in 1 .. MaxHead
        BY <2>3, <3>2 DEF Deliveries
      <4> QED BY <1>0, <2>2, <3>2, <4>1, AgentPuts
    <3> QED BY <3>1, <3>2
  <2>8. CallInv' /\ RestInv'
    BY <1>0, <2>2, <2>7 DEF IInv, CallInv, RestInv
  <2> QED BY <2>6, <2>8 DEF IInv
<1>2. CASE Lose
  <2>1. agent' \in AgentRecord /\ agent'.client = 0
    BY <1>0, <1>2, AgentPuts, Bounds DEF Lose
  <2>2. RestInv'
    BY <1>0, <1>2, <2>1, Bounds DEF Lose, Goes, Others, IInv, RestInv, Dials
  <2> QED BY <1>2, <1>a, <2>2 DEF Lose, Others, IInv
<1>3. CASE LookUp
  <2>1. RestInv'
    BY <1>3 DEF LookUp, Goes, Others, IInv, RestInv
  <2> QED BY <1>3, <1>a, <2>1 DEF LookUp, Others, IInv
<1>4. CASE Dial
  <2>1. /\ dials < MaxDials /\ dials' = dials + 1 /\ pump' = "guard"
        /\ UNCHANGED <<seated, moves, calls, agent, run>>
    BY <1>4 DEF Dial, Goes
  <2>2. dials + 1 \in Dials /\ dials' \in Dials
    BY <1>0, <2>1, Bounds DEF Dials
  <2>3. PICK c \in Openings(agent.log, agent.lastSeq) : On(dials + 1, c)
    BY <1>4 DEF Dial
  <2>4. Orderly(c)
    BY <1>0, <2>3, OpeningsOrderly DEF AgentRecord
  <2>5. ConnInv' /\ \A h \in Dials \ {dials + 1} : conns'[h] = conns[h]
    BY <2>2, <2>3, <2>4, OnOrderly DEF IInv
  <2>6. CallInv'
    BY <1>0, <2>1 DEF IInv, CallInv, Placed, CallRecord, Dials
  <2>7. ASSUME NEW k \in Calls PROVE Known(k, calls'[k], conns'[calls'[k].on])
    <3>1. Known(k, calls[k], conns[calls[k].on]) /\ calls'[k] = calls[k]
      BY <2>1 DEF IInv, KnownInv
    <3>2. calls[k].at \in {"registered", "waiting"} => calls[k].on \in Dials \ {dials + 1}
      BY <1>0 DEF IInv, CallInv, CallRecord, Placed, Dials
    <3> QED BY <2>5, <3>1, <3>2 DEF Known
  <2>8. RestInv'
    BY <1>0, <2>1, <2>2 DEF IInv, RestInv, Dials
  <2> QED BY <2>5, <2>6, <2>7, <2>8 DEF IInv, KnownInv
<1>5. CASE DialCancelled
  <2>1. RestInv'
    BY <1>5 DEF DialCancelled, Goes, Others, IInv, RestInv
  <2> QED BY <1>5, <1>a, <2>1 DEF DialCancelled, Others, IInv
<1>6. CASE Guard
  <2>1. CallInv' /\ RestInv'
    BY <1>6 DEF Guard, Goes, IInv, CallInv, RestInv
  <2>2. CASE Cancelled
    <3>1. On(dials, Shut(conns[dials])) /\ UNCHANGED calls
      BY <1>6, <2>2 DEF Guard
    <3>2. Orderly(conns[dials])
      BY <1>0 DEF IInv, ConnInv
    <3>3. ConnInv' /\ KnownInv'
      BY <1>0, <3>1, <3>2, ShutOrderly, OnKnows DEF IInv
    <3> QED BY <2>1, <3>3 DEF IInv
  <2>3. CASE ~Cancelled
    BY <1>6, <1>a, <2>1, <2>3 DEF Guard, IInv
  <2> QED BY <2>2, <2>3
<1>7. CASE Install
  <2>1. agent' \in AgentRecord /\ agent'.client = dials
    BY <1>0, <1>7, AgentPuts DEF Install, Dials
  <2>2. RestInv'
    BY <1>0, <1>7, <2>1 DEF Install, Goes, Others, IInv, RestInv, Dials
  <2> QED BY <1>7, <1>a, <2>2 DEF Install, Others, IInv
<1> QED BY <1>1, <1>2, <1>3, <1>4, <1>5, <1>6, <1>7 DEF Pump

LEMMA RunKeeps ==
  ASSUME IInv, Cancel \/ CloseClient \/ Closed
  PROVE  IInv'
<1> DEFINE Runs == [at : {"serving", "cancelled", "closing", "over"}, on : 0 .. MaxDials, late : BOOLEAN]
<1>0. run \in Runs /\ agent.client \in 0 .. MaxDials
  BY DEF IInv, RestInv, AgentRecord
<1>a. ASSUME UNCHANGED <<conns, calls, dials>> PROVE ConnInv' /\ CallInv' /\ KnownInv'
  BY <1>a DEF IInv, ConnInv, CallInv, KnownInv
<1>b. ASSUME run' \in Runs, run'.at = "closing" => run'.on # 0,
             UNCHANGED <<seated, dials, moves, agent, pump>>
      PROVE  RestInv'
  BY <1>b DEF IInv, RestInv
<1>1. CASE Cancel
  <2>1. run' \in Runs /\ run'.at # "closing"
    BY <1>1, Bounds DEF Cancel
  <2> QED BY <1>1, <1>a, <1>b, <2>1 DEF Cancel, Others, IInv
<1>2. CASE CloseClient
  <2>1. CASE agent.client = 0
    <3>1. run' \in Runs /\ run'.at # "closing"
      BY <1>0, <1>2, <2>1 DEF CloseClient
    <3> QED BY <1>2, <1>a, <1>b, <2>1, <3>1 DEF CloseClient, IInv
  <2>2. CASE agent.client # 0
    <3>1. run' \in Runs /\ run'.on # 0
      BY <1>0, <1>2, <2>2 DEF CloseClient
    <3>2. agent.client \in Dials /\ On(agent.client, Shut(conns[agent.client]))
      BY <1>0, <1>2, <2>2 DEF CloseClient, Dials
    <3>3. Orderly(conns[agent.client])
      BY <3>2 DEF IInv, ConnInv
    <3>4. ConnInv' /\ KnownInv'
      BY <1>2, <3>2, <3>3, ShutOrderly, OnKnows DEF CloseClient, IInv
    <3> QED BY <1>2, <1>b, <3>1, <3>4 DEF CloseClient, IInv, CallInv
  <2> QED BY <2>1, <2>2
<1>3. CASE Closed
  <2>1. run' \in Runs /\ run'.at # "closing"
    BY <1>0, <1>3 DEF Closed
  <2> QED BY <1>3, <1>a, <1>b, <2>1 DEF Closed, Others, IInv
<1> QED BY <1>1, <1>2, <1>3

-----------------------------------------------------------------------------
(* The theorems.                                                           *)

LEMMA InitKeeps == Init => IInv
<1> SUFFICES ASSUME Init PROVE IInv
  OBVIOUS
<1>1. PICK c \in Openings(Nobody, 0) : conns = [g \in Dials |-> IF g = 1 THEN c ELSE Undialled]
  BY DEF Init
<1>2. Orderly(c) /\ Orderly(Undialled)
  BY Bounds, OpeningsOrderly, UndialledOrderly
<1>3. ConnInv
  BY <1>1, <1>2 DEF ConnInv, Orderly
<1>4. CallInv /\ KnownInv
  BY Bounds DEF Init, CallInv, CallRecord, Placed, KnownInv, Known, Dials
<1>5. RestInv
  <2> DEFINE h == <<>>
  <2>1. h \in Seq(HeldEntry)
    OBVIOUS
  <2>2. agent = [client |-> 1, history |-> h, lastSeq |-> 0, log |-> Nobody, told |-> FALSE]
    BY DEF Init
  <2> HIDE DEF h
  <2>3. agent \in AgentRecord /\ agent.client = 1
    BY <2>1, <2>2, Bounds DEF AgentRecord, Dials
  <2> QED BY <2>3, Bounds, AgentAssumption DEF Init, RestInv, Dials
<1> QED BY <1>3, <1>4, <1>5 DEF IInv

LEMMA NextKeeps == IInv /\ [Next]_vars => IInv'
<1> SUFFICES ASSUME IInv, [Next]_vars PROVE IInv'
  OBVIOUS
<1>1. CASE Next
  BY <1>1, GatewayKeeps, ReaderKeeps, CallKeeps, PumpKeeps, RunKeeps DEF Next
<1>2. CASE UNCHANGED vars
  BY <1>2 DEF vars, IInv, ConnInv, CallInv, KnownInv, RestInv
<1> QED BY <1>1, <1>2

\* The invariant holds of the agent, its client and its calls.
THEOREM IInvHolds == Spec => []IInv
BY InitKeeps, NextKeeps, PTL DEF Spec

\* Every reachable state of Server and Client is of its type: the buffer never
\* holds more than its capacity.
THEOREM TypeCorrect == Spec => []TypeOK
BY IInvHolds, IInvSays, PTL

\* However many commands are sent, and whenever the reader tears the client
\* down (SendCommand, deliverResult, teardown), a caller that waits is one its
\* reader will answer or unblock.
THEOREM NobodyIsForgotten == Spec => []WaitersAreKnown
BY IInvHolds, IInvSays, PTL

-----------------------------------------------------------------------------
(* What is on its way to the agent.  Of the frames of a connection that the *)
(* pump has still to be handed, in the order it will be, each entry must be *)
(* one the agent will not find out of place when it gets there, from what   *)
(* it holds now: that is what a seat, a reader and a redial each keep.      *)

\* What the pump will be handed of a connection: its reader's buffer and, of a
\* client not torn down, the wire.
Stream(c) == IF c.closed THEN c.events ELSE c.events \o c.wire

\* The log the agent holds, and how much of it.
Held == [log |-> IF seated = "world" THEN World ELSE agent.log, seq |-> agent.lastSeq]

\* The switches of S from position j, and before i, are to l.
OnlyTo(S, j, i, l) == \A h \in j .. i - 1 : S[h].type = "switch" => S[h].log = l

\* Entry n of log l may come at position i of S, to an agent that holds p: what
\* it follows is earlier in S, or held.
Backed(S, i, l, n, p) ==
  \/ \E j \in 1 .. i - 1 : /\ S[j] = Entry(l, n - 1) \/ (n = 1 /\ S[j] = SwitchTo(l))
                           /\ OnlyTo(S, j, i, l)
  \/ l = p.log /\ n <= p.seq + 1 /\ OnlyTo(S, 1, i, l)

InOrder(S, p) ==
  \A i \in 1 .. Len(S) : S[i].type = "entry" => Backed(S, i, S[i].log, S[i].seq, p)

Unswitched(S) == \A i \in 1 .. Len(S) : S[i].type # "switch"

\* A connection of a participant of role s, to an agent that holds p; its seat's
\* next entry is one that may come after all that is on its way.
InStep(c, s, p) ==
  /\ InOrder(Stream(c), p)
  /\ s = "world" => Unswitched(Stream(c))
  /\ c.open /\ ~c.closed /\ c.seat.log # Nobody
       => Backed(Stream(c), Len(Stream(c)) + 1, c.seat.log, c.seat.next, p)

\* The newest connection is the one the pump drains, or will.
HistInv ==
  /\ HistoryIsOneLog
  /\ seated = "log" /\ ~agent.told => agent.lastSeq = 0
  /\ ~agent.told => agent.log = Nobody
  /\ pump = "drain" => agent.client = dials
  /\ pump \in {"drain", "guard", "install"} => InStep(conns[dials], seated, Held)

\* Where a frame goes, from the wire to the buffer and from the buffer to the
\* pump, the two together are the sequence they were, or one of them less.
LEMMA TwoQueues ==
  ASSUME NEW X, NEW E \in Seq(X), NEW W \in Seq(X)
  PROVE  /\ E \o W \in Seq(X) /\ Len(E \o W) = Len(E) + Len(W)
         /\ \A i \in 1 .. Len(E) : (E \o W)[i] = E[i]
         /\ \A f \in X : E \o Append(W, f) = Append(E \o W, f)
         /\ W # <<>> =>
              /\ Append(E, Head(W)) \o Tail(W) = E \o W
              /\ Len(E \o Tail(W)) = Len(E \o W) - 1 /\ E \o Tail(W) \in Seq(X)
              /\ Len(E) + 1 \in 1 .. Len(E \o W) /\ (E \o W)[Len(E) + 1] = Head(W)
              /\ \A h \in 1 .. Len(E \o Tail(W)) :
                   (E \o Tail(W))[h] = IF h < Len(E) + 1 THEN (E \o W)[h] ELSE (E \o W)[h + 1]
         /\ E # <<>> => /\ E \o W # <<>> /\ (E \o W)[1] = Head(E)
                        /\ Tail(E) \o W = Tail(E \o W)
<1> DEFINE Both(u, v, s) ==
             /\ s \in Seq(X) /\ Len(s) = Len(u) + Len(v)
             /\ \A i \in 1 .. Len(u) + Len(v) : s[i] = IF i <= Len(u) THEN u[i] ELSE v[i - Len(u)]
<1>1. \A u, v \in Seq(X) : Both(u, v, u \o v)
  BY ConcatProperties
<1>2. Len(E) \in Nat /\ Len(W) \in Nat
  OBVIOUS
<1>3. ASSUME NEW f \in X PROVE E \o Append(W, f) = Append(E \o W, f)
  <2>1. <<f>> \in Seq(X)
    OBVIOUS
  <2>2. E \o W \in Seq(X)
    BY ConcatProperties
  <2> QED BY <2>1, <2>2, AppendIsConcat, ConcatAssociative
<1>4. ASSUME W # <<>>
      PROVE  /\ Append(E, Head(W)) \o Tail(W) = E \o W
             /\ Len(E \o Tail(W)) = Len(E \o W) - 1 /\ E \o Tail(W) \in Seq(X)
             /\ Len(E) + 1 \in 1 .. Len(E \o W) /\ (E \o W)[Len(E) + 1] = Head(W)
             /\ \A h \in 1 .. Len(E \o Tail(W)) :
                  (E \o Tail(W))[h] = IF h < Len(E) + 1 THEN (E \o W)[h] ELSE (E \o W)[h + 1]
  <2> DEFINE t == Tail(W)
             a == Append(E, Head(W))
             s == E \o W
             u == a \o t
             v == E \o t
  <2>1. /\ t \in Seq(X) /\ Len(t) = Len(W) - 1 /\ Head(W) = W[1] /\ W[1] \in X /\ Len(W) >= 1
        /\ \A i \in 1 .. Len(t) : t[i] = W[i + 1]
    BY <1>4, HeadTailProperties
  <2>2. /\ a \in Seq(X) /\ Len(a) = Len(E) + 1 /\ a[Len(E) + 1] = W[1]
        /\ \A i \in 1 .. Len(E) : a[i] = E[i]
    BY <2>1, AppendProperties
  <2>3. Both(E, W, s) /\ Both(a, t, u) /\ Both(E, t, v)
    BY <1>1, <2>1, <2>2
  <2> HIDE DEF t, a, s, u, v
  <2>4. ASSUME NEW i \in 1 .. Len(s) PROVE u[i] = s[i]
    <3>0. /\ s[i] = IF i <= Len(E) THEN E[i] ELSE W[i - Len(E)]
          /\ u[i] = IF i <= Len(E) + 1 THEN a[i] ELSE t[i - (Len(E) + 1)]
          /\ i \in 1 .. Len(E) + Len(W)
      <4>1. i \in 1 .. Len(E) + Len(W) /\ i \in 1 .. Len(a) + Len(t)
        BY <1>2, <2>1, <2>2, <2>3
      <4> QED BY <2>2, <2>3, <4>1
    <3>1. CASE i <= Len(E)
      <4>1. i \in 1 .. Len(E) /\ i <= Len(E) + 1
        BY <1>2, <3>0, <3>1
      <4> QED BY <2>2, <3>0, <3>1, <4>1
    <3>2. CASE i = Len(E) + 1
      <4>1. i - Len(E) = 1 /\ ~(i <= Len(E)) /\ i <= Len(E) + 1
        BY <1>2, <3>2
      <4> QED BY <2>2, <3>0, <3>2, <4>1
    <3>3. CASE i > Len(E) + 1
      <4>1. i - (Len(E) + 1) \in 1 .. Len(t) /\ (i - (Len(E) + 1)) + 1 = i - Len(E)
            /\ ~(i <= Len(E)) /\ ~(i <= Len(E) + 1)
        BY <1>2, <2>1, <3>0, <3>3
      <4> QED BY <2>1, <3>0, <4>1
    <3> QED BY <1>2, <3>0, <3>1, <3>2, <3>3
  <2>5. u = s
    <3>1. Len(u) = Len(s)
      BY <1>2, <2>1, <2>2, <2>3
    <3> QED BY <2>3, <2>4, <3>1, SeqEqual
  <2>6. ASSUME NEW h \in 1 .. Len(v) PROVE v[h] = IF h < Len(E) + 1 THEN s[h] ELSE s[h + 1]
    <3>0. /\ s[h] = IF h <= Len(E) THEN E[h] ELSE W[h - Len(E)]
          /\ s[h + 1] = IF h + 1 <= Len(E) THEN E[h + 1] ELSE W[(h + 1) - Len(E)]
          /\ v[h] = IF h <= Len(E) THEN E[h] ELSE t[h - Len(E)]
          /\ h \in 1 .. Len(E) + Len(t)
      <4>1. h \in 1 .. Len(E) + Len(W) /\ h + 1 \in 1 .. Len(E) + Len(W) /\ h \in 1 .. Len(E) + Len(t)
        BY <1>2, <2>1, <2>3
      <4> QED BY <2>3, <4>1
    <3>1. CASE h <= Len(E)
      <4>1. h < Len(E) + 1
        BY <1>2, <3>1
      <4> QED BY <3>0, <3>1, <4>1
    <3>2. CASE ~(h <= Len(E))
      <4>1. h - Len(E) \in 1 .. Len(t) /\ (h - Len(E)) + 1 = (h + 1) - Len(E)
            /\ ~(h < Len(E) + 1) /\ ~(h + 1 <= Len(E))
        BY <1>2, <2>1, <3>0, <3>2
      <4> QED BY <2>1, <3>0, <3>2, <4>1
    <3> QED BY <3>1, <3>2
  <2>7. Len(E) + 1 \in 1 .. Len(s) /\ s[Len(E) + 1] = W[1]
    <3>1. Len(E) + 1 \in 1 .. Len(E) + Len(W) /\ ~(Len(E) + 1 <= Len(E)) /\ (Len(E) + 1) - Len(E) = 1
      BY <1>2, <2>1
    <3> QED BY <2>3, <3>1
  <2> QED BY <1>2, <2>1, <2>3, <2>5, <2>6, <2>7 DEF t, a, s, u, v
<1>5. ASSUME E # <<>>
      PROVE  /\ E \o W # <<>> /\ (E \o W)[1] = Head(E)
             /\ Tail(E) \o W = Tail(E \o W)
  <2> DEFINE t == Tail(E)
             s == E \o W
             u == t \o W
             v == Tail(s)
  <2>1. /\ t \in Seq(X) /\ Len(t) = Len(E) - 1 /\ Head(E) = E[1] /\ Len(E) >= 1
        /\ \A i \in 1 .. Len(t) : t[i] = E[i + 1]
    BY <1>5, HeadTailProperties
  <2>2. Both(E, W, s) /\ Both(t, W, u)
    BY <1>1, <2>1
  <2>3. s # <<>> /\ s[1] = E[1]
    <3> HIDE DEF s
    <3> QED BY <1>2, <2>1, <2>2
  <2>4. v \in Seq(X) /\ Len(v) = Len(s) - 1 /\ \A i \in 1 .. Len(v) : v[i] = s[i + 1]
    <3> HIDE DEF s
    <3> QED BY <2>2, <2>3, HeadTailProperties
  <2> HIDE DEF t, s, u, v
  <2>5. ASSUME NEW i \in 1 .. Len(v) PROVE u[i] = v[i]
    <3>1. CASE i <= Len(t)
      BY <1>2, <2>1, <2>2, <2>4, <3>1
    <3>2. CASE ~(i <= Len(t))
      <4>1. i - Len(t) = (i + 1) - Len(E) /\ ~(i + 1 <= Len(E))
        BY <1>2, <2>1, <2>2, <2>4, <3>2
      <4> QED BY <1>2, <2>1, <2>2, <2>4, <3>2, <4>1
    <3> QED BY <3>1, <3>2
  <2>6. Len(u) = Len(v)
    BY <1>2, <2>1, <2>2, <2>4
  <2>7. u = v
    BY <2>2, <2>4, <2>5, <2>6, SeqEqual
  <2> QED BY <2>1, <2>3, <2>7 DEF t, s, u, v
<1>6. /\ E \o W \in Seq(X) /\ Len(E \o W) = Len(E) + Len(W)
      /\ \A i \in 1 .. Len(E) : (E \o W)[i] = E[i]
  <2> DEFINE s == E \o W
  <2>1. Both(E, W, s)
    BY <1>1
  <2> HIDE DEF s
  <2>2. \A i \in 1 .. Len(E) : i \in 1 .. Len(E) + Len(W) /\ i <= Len(E)
    BY <1>2
  <2> QED BY <1>2, <2>1, <2>2 DEF s
<1> QED BY <1>3, <1>4, <1>5, <1>6

\* What may come at a position depends on what comes before it.
LEMMA BackedBefore ==
  ASSUME NEW S, NEW T, NEW m \in Nat, \A h \in 1 .. m : T[h] = S[h],
         NEW i \in 1 .. m + 1, NEW l, NEW n, NEW p, Backed(S, i, l, n, p)
  PROVE  Backed(T, i, l, n, p)
<1>1. \A j, h \in Int : j \in 1 .. i - 1 /\ h \in j .. i - 1 => h \in 1 .. m
  OBVIOUS
<1>2. \A j \in Int : j \in 1 .. i - 1 => j \in 1 .. m
  OBVIOUS
<1>3. ASSUME NEW j \in 1 .. i, OnlyTo(S, j, i, l) PROVE OnlyTo(T, j, i, l)
  BY <1>3 DEF OnlyTo
<1> QED BY <1>2, <1>3 DEF Backed

\* A part of a stream in order, from its beginning, is in order.
LEMMA PartInOrder ==
  ASSUME NEW S \in Seq(Frames), NEW T \in Seq(Frames), NEW p, Len(T) <= Len(S),
         \A h \in 1 .. Len(T) : T[h] = S[h]
  PROVE  (InOrder(S, p) => InOrder(T, p)) /\ (Unswitched(S) => Unswitched(T))
<1>1. Len(T) \in Nat /\ Len(S) \in Nat
  OBVIOUS
<1>2. ASSUME InOrder(S, p), NEW i \in 1 .. Len(T), T[i].type = "entry"
      PROVE  Backed(T, i, T[i].log, T[i].seq, p)
  <2>1. i \in 1 .. Len(S) /\ T[i] = S[i] /\ i \in 1 .. Len(T) + 1
    BY <1>1
  <2>2. Backed(S, i, S[i].log, S[i].seq, p)
    BY <1>2, <2>1 DEF InOrder
  <2> QED BY <1>1, <2>1, <2>2, BackedBefore
<1>3. \A i \in 1 .. Len(T) : i \in 1 .. Len(S)
  BY <1>1
<1> QED BY <1>2, <1>3 DEF InOrder, Unswitched

\* A frame that may come last.
LEMMA LongerInOrder ==
  ASSUME NEW S \in Seq(Frames), NEW f \in Frames, NEW p,
         f.type = "entry" => Backed(S, Len(S) + 1, f.log, f.seq, p)
  PROVE  /\ InOrder(S, p) => InOrder(Append(S, f), p)
         /\ Unswitched(S) /\ f.type # "switch" => Unswitched(Append(S, f))
<1> DEFINE T == Append(S, f)
<1>1. /\ Len(S) \in Nat /\ Len(T) = Len(S) + 1 /\ T[Len(S) + 1] = f
      /\ \A h \in 1 .. Len(S) : T[h] = S[h]
  OBVIOUS
<1> HIDE DEF T
<1>2. ASSUME InOrder(S, p), NEW i \in 1 .. Len(T), T[i].type = "entry"
      PROVE  Backed(T, i, T[i].log, T[i].seq, p)
  <2>1. i \in 1 .. Len(S) + 1
    BY <1>1
  <2>2. Backed(S, i, T[i].log, T[i].seq, p)
    <3>1. CASE i = Len(S) + 1
      BY <1>1, <1>2, <3>1
    <3>2. CASE i # Len(S) + 1
      <4>1. i \in 1 .. Len(S)
        BY <1>1, <2>1, <3>2
      <4> QED BY <1>1, <1>2, <4>1 DEF InOrder
    <3> QED BY <3>1, <3>2
  <2> QED BY <1>1, <2>1, <2>2, BackedBefore
<1>3. \A i \in 1 .. Len(T) : i \in 1 .. Len(S) \/ i = Len(S) + 1
  BY <1>1
<1> QED BY <1>1, <1>2, <1>3 DEF InOrder, Unswitched, T

\* What the last frame of a stream lets come after it.
LEMMA NextIsBacked ==
  ASSUME NEW S \in Seq(Frames), NEW f \in Frames, NEW l, NEW n, NEW p,
         \/ f = Entry(l, n - 1)
         \/ n = 1 /\ f = SwitchTo(l)
         \/ f.type = "result" /\ Backed(S, Len(S) + 1, l, n, p)
  PROVE  Backed(Append(S, f), Len(S) + 2, l, n, p)
<1> DEFINE T == Append(S, f)
<1>1. /\ Len(S) \in Nat /\ Len(T) = Len(S) + 1 /\ T[Len(S) + 1] = f
      /\ \A h \in 1 .. Len(S) : T[h] = S[h]
  OBVIOUS
<1> HIDE DEF T
<1>2. CASE f = Entry(l, n - 1) \/ (n = 1 /\ f = SwitchTo(l))
  <2>1. Len(S) + 1 \in 1 .. (Len(S) + 2) - 1
    BY <1>1
  <2>2. OnlyTo(T, Len(S) + 1, Len(S) + 2, l)
    <3>1. \A h \in (Len(S) + 1) .. (Len(S) + 2) - 1 : h = Len(S) + 1
      BY <1>1
    <3> QED BY <1>1, <1>2, <3>1 DEF OnlyTo, Entry, SwitchTo
  <2> QED BY <1>1, <1>2, <2>1, <2>2 DEF Backed, T
<1>3. CASE f.type = "result" /\ Backed(S, Len(S) + 1, l, n, p)
  <2>1. Backed(T, Len(S) + 1, l, n, p)
    <3>1. Len(S) + 1 \in 1 .. Len(S) + 1
      BY <1>1
    <3> QED BY <1>1, <1>3, <3>1, BackedBefore
  <2>2. ASSUME NEW j \in 1 .. Len(S) + 1, OnlyTo(T, j, Len(S) + 1, l)
        PROVE  OnlyTo(T, j, Len(S) + 2, l)
    <3>1. \A h \in j .. (Len(S) + 2) - 1 : h \in j .. (Len(S) + 1) - 1 \/ h = Len(S) + 1
      BY <1>1
    <3> QED BY <1>1, <1>3, <2>2, <3>1 DEF OnlyTo
  <2>3. \A j \in 1 .. (Len(S) + 1) - 1 : j \in 1 .. (Len(S) + 2) - 1 /\ j \in 1 .. Len(S) + 1
    BY <1>1
  <2> QED BY <1>1, <2>1, <2>2, <2>3 DEF Backed, T
<1> QED BY <1>2, <1>3

\* A result is nobody's entry and nobody's switch: without it a stream is in
\* order as it was.
LEMMA WithoutResult ==
  ASSUME NEW S \in Seq(Frames), NEW T \in Seq(Frames), NEW r \in 1 .. Len(S), NEW p,
         S[r].type = "result", Len(T) = Len(S) - 1,
         \A h \in 1 .. Len(T) : T[h] = IF h < r THEN S[h] ELSE S[h + 1]
  PROVE  /\ InOrder(S, p) => InOrder(T, p)
         /\ Unswitched(S) => Unswitched(T)
         /\ \A l, n : Backed(S, Len(S) + 1, l, n, p) => Backed(T, Len(T) + 1, l, n, p)
<1>0. Len(S) \in Nat /\ Len(T) \in Nat /\ r \in Nat /\ r >= 1 /\ r <= Len(S)
  OBVIOUS
<1>1. ASSUME NEW i \in 1 .. Len(S) + 1, i # r, NEW l, NEW n, Backed(S, i, l, n, p)
      PROVE  Backed(T, IF i < r THEN i ELSE i - 1, l, n, p)
  <2> DEFINE k == IF i < r THEN i ELSE i - 1
  <2>1. ASSUME NEW j \in 1 .. i, j # r \/ j = 1, OnlyTo(S, j, i, l)
        PROVE  OnlyTo(T, IF j <= r THEN j ELSE j - 1, k, l)
    <3> SUFFICES ASSUME NEW h \in (IF j <= r THEN j ELSE j - 1) .. k - 1, T[h].type = "switch"
                 PROVE  T[h].log = l
      BY DEF OnlyTo
    <3>1. h \in 1 .. Len(T)
      BY <1>0, <1>1
    <3>2. CASE h < r
      <4>1. h \in j .. i - 1
        BY <1>0, <1>1, <3>2
      <4> QED BY <2>1, <3>1, <3>2, <4>1 DEF OnlyTo
    <3>3. CASE ~(h < r)
      <4>1. h + 1 \in j .. i - 1
        BY <1>0, <1>1, <3>3
      <4> QED BY <2>1, <3>1, <3>3, <4>1 DEF OnlyTo
    <3> QED BY <3>2, <3>3
  <2>2. CASE \E j \in 1 .. i - 1 : /\ S[j] = Entry(l, n - 1) \/ (n = 1 /\ S[j] = SwitchTo(l))
                                   /\ OnlyTo(S, j, i, l)
    <3>1. PICK j \in 1 .. i - 1 : /\ S[j] = Entry(l, n - 1) \/ (n = 1 /\ S[j] = SwitchTo(l))
                                  /\ OnlyTo(S, j, i, l)
      BY <2>2
    <3> DEFINE m == IF j <= r THEN j ELSE j - 1
    <3>2. j # r
      BY <3>1 DEF Entry, SwitchTo
    <3>3. m \in 1 .. k - 1 /\ m \in 1 .. Len(T) /\ j \in 1 .. i
      BY <1>0, <1>1, <3>2
    <3>4. T[m] = S[j]
      BY <1>0, <3>2, <3>3
    <3>5. OnlyTo(T, m, k, l)
      BY <2>1, <3>1, <3>2, <3>3
    <3> HIDE DEF m, k
    <3>6. \E j_1 \in 1 .. k - 1 : /\ T[j_1] = Entry(l, n - 1) \/ (n = 1 /\ T[j_1] = SwitchTo(l))
                                  /\ OnlyTo(T, j_1, k, l)
      BY <3>1, <3>3, <3>4, <3>5
    <3> QED BY <3>6 DEF Backed, k
  <2>3. CASE l = p.log /\ n <= p.seq + 1 /\ OnlyTo(S, 1, i, l)
    <3>1. OnlyTo(T, 1, k, l)
      BY <1>0, <2>1, <2>3
    <3> QED BY <2>3, <3>1 DEF Backed
  <2> QED BY <1>1, <2>2, <2>3 DEF Backed
<1>2. ASSUME InOrder(S, p), NEW h \in 1 .. Len(T), T[h].type = "entry"
      PROVE  Backed(T, h, T[h].log, T[h].seq, p)
  <2>1. CASE h < r
    <3>1. h \in 1 .. Len(S) /\ h \in 1 .. Len(S) + 1 /\ T[h] = S[h]
      BY <1>0, <2>1
    <3> QED BY <1>1, <1>2, <2>1, <3>1 DEF InOrder
  <2>2. CASE ~(h < r)
    <3>1. h + 1 \in 1 .. Len(S) /\ h + 1 \in 1 .. Len(S) + 1 /\ T[h] = S[h + 1]
          /\ h + 1 # r /\ ~(h + 1 < r) /\ (h + 1) - 1 = h
      BY <1>0, <2>2
    <3>2. Backed(S, h + 1, T[h].log, T[h].seq, p)
      BY <1>2, <3>1 DEF InOrder
    <3> QED BY <1>1, <3>1, <3>2
  <2> QED BY <2>1, <2>2
<1>3. ASSUME NEW l, NEW n, Backed(S, Len(S) + 1, l, n, p)
      PROVE  Backed(T, Len(T) + 1, l, n, p)
  <2>1. Len(S) + 1 \in 1 .. Len(S) + 1 /\ Len(S) + 1 # r /\ ~(Len(S) + 1 < r)
        /\ (Len(S) + 1) - 1 = Len(T) + 1
    BY <1>0
  <2> QED BY <1>1, <1>3, <2>1
<1>4. \A h \in 1 .. Len(T) : h \in 1 .. Len(S) /\ h + 1 \in 1 .. Len(S)
  BY <1>0
<1> QED BY <1>2, <1>3, <1>4 DEF InOrder, Unswitched

\* An agent that held p holds q once it has been handed f.
Takes(f, p, q) ==
  /\ f.type = "entry" =>
       (f.log = p.log /\ f.seq <= p.seq + 1 => q.log = p.log /\ q.seq >= p.seq /\ q.seq >= f.seq)
  /\ f.type = "switch" => q.log = f.log /\ q.seq >= 0 /\ (f.log = p.log => q.seq >= p.seq)

\* What is left of a stream once its first frame has been handed over.
LEMMA RestInOrder ==
  ASSUME NEW S \in Seq(Frames), S # <<>>, NEW p, NEW q, p.seq \in Nat, q.seq \in Nat,
         Takes(S[1], p, q), S[1] \in Deliveries, InOrder(S, p)
  PROVE  /\ InOrder(Tail(S), q)
         /\ Unswitched(S) => Unswitched(Tail(S))
         /\ \A l, n : n \in Nat /\ Backed(S, Len(S) + 1, l, n, p) => Backed(Tail(S), Len(Tail(S)) + 1, l, n, q)
<1> DEFINE T == Tail(S)
           f == S[1]
<1>0. /\ Len(S) \in Nat /\ Len(S) >= 1 /\ T \in Seq(Frames) /\ Len(T) = Len(S) - 1 /\ Len(T) \in Nat
      /\ \A h \in 1 .. Len(T) : T[h] = S[h + 1]
  BY HeadTailProperties
<1>1. f.type = "entry" => f.log = p.log /\ f.seq <= p.seq + 1
  <2>1. f.type = "entry" => Backed(S, 1, f.log, f.seq, p)
    BY <1>0 DEF InOrder
  <2>2. \A j \in 1 .. 1 - 1 : FALSE
    OBVIOUS
  <2> QED BY <2>1, <2>2 DEF Backed
<1>2. f.type \in {"entry", "switch"} /\ (f.type = "entry" => f.seq \in Nat)
  BY DEF Deliveries
<1> HIDE DEF T, f
<1>3. ASSUME NEW i \in 2 .. Len(S) + 1, NEW l, NEW n \in Int, Backed(S, i, l, n, p)
      PROVE  Backed(T, i - 1, l, n, q)
  <2>1. ASSUME NEW j \in 1 .. i - 1, OnlyTo(S, j, i, l)
        PROVE  OnlyTo(T, IF j = 1 THEN 1 ELSE j - 1, i - 1, l)
    <3> SUFFICES ASSUME NEW h \in (IF j = 1 THEN 1 ELSE j - 1) .. (i - 1) - 1, T[h].type = "switch"
                 PROVE  T[h].log = l
      BY DEF OnlyTo
    <3>1. h \in 1 .. Len(T) /\ h + 1 \in j .. i - 1
      BY <1>0
    <3> QED BY <1>0, <2>1, <3>1 DEF OnlyTo
  <2>2. CASE \E j \in 1 .. i - 1 : /\ S[j] = Entry(l, n - 1) \/ (n = 1 /\ S[j] = SwitchTo(l))
                                   /\ OnlyTo(S, j, i, l)
    <3>1. PICK j \in 1 .. i - 1 : /\ S[j] = Entry(l, n - 1) \/ (n = 1 /\ S[j] = SwitchTo(l))
                                  /\ OnlyTo(S, j, i, l)
      BY <2>2
    <3>2. CASE j = 1
      <4>1. OnlyTo(T, 1, i - 1, l)
        BY <2>1, <3>1, <3>2
      <4>2. l = q.log /\ n <= q.seq + 1
        <5>1. f = Entry(l, n - 1) \/ (n = 1 /\ f = SwitchTo(l))
          BY <3>1, <3>2 DEF f
        <5>2. CASE f = Entry(l, n - 1)
          <6>1. f.type = "entry" /\ f.log = l /\ f.seq = n - 1
            BY <5>2 DEF Entry
          <6>2. q.log = p.log /\ q.seq >= f.seq
            BY <1>1, <6>1 DEF Takes, f
          <6> QED BY <1>1, <6>1, <6>2
        <5>3. CASE n = 1 /\ f = SwitchTo(l)
          <6>1. f.type = "switch" /\ f.log = l
            BY <5>3 DEF SwitchTo
          <6> QED BY <5>3, <6>1 DEF Takes, f
        <5> QED BY <5>1, <5>2, <5>3
      <4> QED BY <4>1, <4>2 DEF Backed
    <3>3. CASE j # 1
      <4>1. j - 1 \in 1 .. (i - 1) - 1 /\ j - 1 \in 1 .. Len(T) /\ (j - 1) + 1 = j
        BY <1>0, <3>3
      <4>2. T[j - 1] = S[j]
        BY <1>0, <4>1
      <4>3. OnlyTo(T, j - 1, i - 1, l)
        BY <2>1, <3>1, <3>3
      <4>4. \E k \in 1 .. (i - 1) - 1 : /\ T[k] = Entry(l, n - 1) \/ (n = 1 /\ T[k] = SwitchTo(l))
                                        /\ OnlyTo(T, k, i - 1, l)
        BY <3>1, <4>1, <4>2, <4>3
      <4> QED BY <4>4 DEF Backed
    <3> QED BY <3>2, <3>3
  <2>3. CASE l = p.log /\ n <= p.seq + 1 /\ OnlyTo(S, 1, i, l)
    <3>1. 1 \in 1 .. i - 1
      BY <1>0
    <3>2. OnlyTo(T, 1, i - 1, l)
      BY <2>1, <2>3, <3>1
    <3>3. l = q.log /\ n <= q.seq + 1
      <4>1. CASE f.type = "entry"
        <5>1. q.log = p.log /\ q.seq >= p.seq
          BY <1>1, <4>1 DEF Takes, f
        <5> QED BY <2>3, <5>1
      <4>2. CASE f.type = "switch"
        <5>1. f.log = l
          BY <2>3, <3>1, <4>2 DEF OnlyTo, f
        <5>2. q.log = f.log /\ q.seq >= p.seq
          BY <2>3, <4>2, <5>1 DEF Takes, f
        <5> QED BY <2>3, <5>1, <5>2
      <4> QED BY <1>2, <4>1, <4>2
    <3> QED BY <3>2, <3>3 DEF Backed
  <2> QED BY <1>3, <2>2, <2>3 DEF Backed
<1>4. ASSUME NEW h \in 1 .. Len(T), T[h].type = "entry"
      PROVE  Backed(T, h, T[h].log, T[h].seq, q)
  <2>1. h + 1 \in 2 .. Len(S) + 1 /\ h + 1 \in 1 .. Len(S) /\ T[h] = S[h + 1] /\ (h + 1) - 1 = h
    BY <1>0
  <2>2. Backed(S, h + 1, T[h].log, T[h].seq, p)
    BY <1>4, <2>1 DEF InOrder
  <2>3. T[h].seq \in Int
    <3>1. T[h] \in Frames
      BY <1>0
    <3> QED BY <1>4, <3>1 DEF Frames, Deliveries
  <2> QED BY <1>3, <2>1, <2>2, <2>3
<1>5. ASSUME NEW l, NEW n \in Nat, Backed(S, Len(S) + 1, l, n, p)
      PROVE  Backed(T, Len(T) + 1, l, n, q)
  <2>1. Len(S) + 1 \in 2 .. Len(S) + 1 /\ (Len(S) + 1) - 1 = Len(T) + 1
    BY <1>0
  <2> QED BY <1>3, <1>5, <2>1
<1>6. \A h \in 1 .. Len(T) : h + 1 \in 1 .. Len(S)
  BY <1>0
<1> QED BY <1>0, <1>4, <1>5, <1>6 DEF InOrder, Unswitched, T

\* A connection's frames, and the stream of them.
LEMMA StreamIsFrames ==
  ASSUME NEW c \in Conn
  PROVE  /\ c.events \in Seq(Frames) /\ c.wire \in Seq(Frames) /\ Stream(c) \in Seq(Frames)
         /\ c.closed => Stream(c) = c.events
         /\ ~c.closed => Stream(c) = c.events \o c.wire
<1>1. c.events \in Seq(Deliveries) /\ c.wire \in Seq(Frames) /\ Deliveries \subseteq Frames
  BY DEF Conn, Frames
<1>2. c.events \in Seq(Frames)
  BY <1>1
<1> QED BY <1>1, <1>2, ConcatProperties DEF Stream

\* The same on its way, from a seat that is where it was or is gone.
LEMMA SameInStep ==
  ASSUME NEW c, NEW d, NEW s, NEW p, InStep(c, s, p), Stream(d) = Stream(c),
         d.open /\ ~d.closed => c.open /\ ~c.closed /\ d.seat = c.seat
  PROVE  InStep(d, s, p)
BY DEF InStep

\* A client torn down is left with what its buffer holds.
LEMMA TornInStep ==
  ASSUME NEW c \in Conn, NEW d \in Conn, NEW s, NEW p, InStep(c, s, p),
         d.closed, d.events = c.events
  PROVE  InStep(d, s, p)
<1>1. c.events \in Seq(Frames) /\ c.wire \in Seq(Frames) /\ Stream(c) \in Seq(Frames)
  BY StreamIsFrames
<1>2. Stream(d) = c.events /\ (Stream(c) = c.events \/ Stream(c) = c.events \o c.wire)
  BY StreamIsFrames
<1> DEFINE E == c.events
           S == Stream(c)
<1>3. Len(E) <= Len(S) /\ \A h \in 1 .. Len(E) : E[h] = S[h]
  <2>1. CASE S = E
    BY <1>1, <2>1
  <2>2. CASE S = E \o c.wire
    <3> DEFINE W == c.wire
    <3>1. S = E \o W /\ E \in Seq(Frames) /\ W \in Seq(Frames)
      BY <1>1, <2>2
    <3> HIDE DEF E, S, W
    <3>2. Len(S) = Len(E) + Len(W) /\ \A h \in 1 .. Len(E) : S[h] = E[h]
      BY <3>1, TwoQueues
    <3> QED BY <3>1, <3>2
  <2> QED BY <1>2, <2>1, <2>2
<1>4. (InOrder(S, p) => InOrder(E, p)) /\ (Unswitched(S) => Unswitched(E))
  BY <1>1, <1>3, PartInOrder
<1> QED BY <1>2, <1>4 DEF InStep

\* A frame more on the wire.
LEMMA SentInStep ==
  ASSUME NEW c \in Conn, NEW d \in Conn, NEW s, NEW p, NEW f \in Frames, InStep(c, s, p), c.open,
         d.closed = c.closed, d.events = c.events, d.wire = Append(c.wire, f),
         f.type = "entry" => f = Entry(c.seat.log, c.seat.next) /\ c.seat.log # Nobody,
         s = "world" => f.type # "switch",
         d.seat.log # Nobody =>
           \/ f = Entry(d.seat.log, d.seat.next - 1)
           \/ d.seat.next = 1 /\ f = SwitchTo(d.seat.log)
           \/ f.type = "result" /\ d.seat = c.seat
  PROVE  InStep(d, s, p)
<1>1. CASE c.closed
  <2>1. Stream(d) = Stream(c)
    BY <1>1, StreamIsFrames
  <2> QED BY <1>1, <2>1, SameInStep
<1>2. CASE ~c.closed
  <2> DEFINE S == Stream(c)
  <2>1. S \in Seq(Frames) /\ Len(S) \in Nat
    <3>1. S \in Seq(Frames)
      BY StreamIsFrames
    <3> HIDE DEF S
    <3> QED BY <3>1
  <2>2. Stream(d) = Append(S, f)
    <3> DEFINE E == c.events
               W == c.wire
    <3>1. /\ E \in Seq(Frames) /\ W \in Seq(Frames)
          /\ S = E \o W /\ Stream(d) = E \o Append(W, f)
      BY <1>2, StreamIsFrames DEF Stream
    <3> HIDE DEF E, W, S
    <3> QED BY <3>1, TwoQueues
  <2>3. Len(Append(S, f)) + 1 = Len(S) + 2
    BY <2>1
  <2>4. f.type = "entry" => Backed(S, Len(S) + 1, f.log, f.seq, p)
    BY <1>2 DEF InStep, Entry
  <2>5. d.seat.log # Nobody => Backed(Append(S, f), Len(S) + 2, d.seat.log, d.seat.next, p)
    <3>1. f.type = "result" /\ d.seat = c.seat /\ d.seat.log # Nobody
            => Backed(S, Len(S) + 1, d.seat.log, d.seat.next, p)
      BY <1>2 DEF InStep
    <3> HIDE DEF S
    <3> QED BY <2>1, <3>1, NextIsBacked
  <2>6. /\ InOrder(S, p) => InOrder(Append(S, f), p)
        /\ Unswitched(S) /\ f.type # "switch" => Unswitched(Append(S, f))
    <3> HIDE DEF S
    <3> QED BY <2>1, <2>4, LongerInOrder
  <2> QED BY <2>2, <2>3, <2>5, <2>6 DEF InStep
<1> QED BY <1>1, <1>2

\* A delivery read, from the wire into the buffer.
LEMMA ReadInStep ==
  ASSUME NEW c \in Conn, NEW d \in Conn, NEW s, NEW p, InStep(c, s, p), c.wire # <<>>,
         ~c.closed, ~d.closed, d.open = c.open, d.seat = c.seat,
         d.events = Append(c.events, Head(c.wire)), d.wire = Tail(c.wire)
  PROVE  InStep(d, s, p)
<1>1. Stream(d) = Stream(c)
  <2> DEFINE E == c.events
             W == c.wire
  <2>1. /\ E \in Seq(Frames) /\ W \in Seq(Frames) /\ W # <<>>
        /\ Stream(c) = E \o W /\ Stream(d) = Append(E, Head(W)) \o Tail(W)
    BY StreamIsFrames DEF Stream
  <2> HIDE DEF E, W
  <2> QED BY <2>1, TwoQueues
<1> QED BY <1>1, SameInStep

\* A result read: the wire is without it.
LEMMA ResultInStep ==
  ASSUME NEW c \in Conn, NEW d \in Conn, NEW s, NEW p, InStep(c, s, p), c.wire # <<>>,
         Head(c.wire).type = "result", ~c.closed, ~d.closed, d.open = c.open, d.seat = c.seat,
         d.events = c.events, d.wire = Tail(c.wire)
  PROVE  InStep(d, s, p)
<1> DEFINE E == c.events
           W == c.wire
           S == E \o W
           T == E \o Tail(W)
<1>1. E \in Seq(Frames) /\ W \in Seq(Frames) /\ W # <<>> /\ Stream(c) = S /\ Stream(d) = T
  BY StreamIsFrames
<1>2. /\ InOrder(S, p) => InOrder(T, p)
      /\ Unswitched(S) => Unswitched(T)
      /\ \A l, n : Backed(S, Len(S) + 1, l, n, p) => Backed(T, Len(T) + 1, l, n, p)
  <2>1. Head(W).type = "result"
    OBVIOUS
  <2> HIDE DEF E, W
  <2>2. /\ S \in Seq(Frames) /\ T \in Seq(Frames) /\ Len(T) = Len(S) - 1
        /\ Len(E) + 1 \in 1 .. Len(S) /\ S[Len(E) + 1] = Head(W)
        /\ \A h \in 1 .. Len(T) : T[h] = IF h < Len(E) + 1 THEN S[h] ELSE S[h + 1]
    BY <1>1, TwoQueues
  <2> HIDE DEF S, T
  <2> QED BY <2>1, <2>2, WithoutResult
<1> QED BY <1>1, <1>2 DEF InStep

\* A delivery handed to the pump.
LEMMA DrainedInStep ==
  ASSUME NEW c \in Conn, NEW d \in Conn, NEW s, NEW p, NEW q, InStep(c, s, p), c.events # <<>>,
         d.closed = c.closed, d.open = c.open, d.seat = c.seat,
         d.events = Tail(c.events), d.wire = c.wire,
         p.seq \in Nat, q.seq \in Nat, Takes(Head(c.events), p, q)
  PROVE  InStep(d, s, q)
<1> DEFINE E == c.events
           W == c.wire
           S == Stream(c)
<1>1. /\ E \in Seq(Frames) /\ W \in Seq(Frames) /\ E # <<>>
      /\ S = IF c.closed THEN E ELSE E \o W
      /\ Stream(d) = IF c.closed THEN Tail(E) ELSE Tail(E) \o W
      /\ E \in Seq(Deliveries)
  BY StreamIsFrames DEF Conn, Stream
<1>2. Head(E) = E[1] /\ E[1] \in Deliveries
  BY <1>1
<1>3. S \in Seq(Frames) /\ S # <<>> /\ S[1] = Head(E) /\ Stream(d) = Tail(S)
  <2> HIDE DEF E, W, S
  <2>1. E \o W \in Seq(Frames) /\ E \o W # <<>> /\ (E \o W)[1] = Head(E)
        /\ Tail(E) \o W = Tail(E \o W)
    BY <1>1, TwoQueues
  <2> QED BY <1>1, <1>2, <2>1
<1>4. /\ InOrder(S, p) => InOrder(Tail(S), q)
      /\ Unswitched(S) => Unswitched(Tail(S))
      /\ InOrder(S, p) => \A l, n : n \in Nat /\ Backed(S, Len(S) + 1, l, n, p)
                                      => Backed(Tail(S), Len(Tail(S)) + 1, l, n, q)
  <2> HIDE DEF S
  <2>1. InOrder(S, p)
    BY DEF InStep, S
  <2> QED BY <1>2, <1>3, <2>1, RestInOrder
<1>5. c.seat.next \in Nat
  BY Bounds DEF Conn
<1> QED BY <1>3, <1>4, <1>5 DEF InStep

\* What a gateway opens for an agent that names what it holds is in step with it.
LEMMA OpeningsInStep ==
  ASSUME NEW p, p.seq \in 0 .. MaxHead, seated \in {"world", "log"},
         seated = "world" => p.log = World,
         NEW log \in Logs \cup {Nobody}, seated = "log" => p.log = log,
         NEW c \in Openings(log, p.seq)
  PROVE  InStep(c, seated, p)
<1> DEFINE w(l) == IF l = World THEN <<>> ELSE <<SwitchTo(l)>>
<1>1. ASSUME NEW l, NEW n
      PROVE  /\ Stream(Opened(l, n)) = <<>> \o w(l) /\ ~Opened(l, n).closed /\ Opened(l, n).open
             /\ Opened(l, n).seat.log = l /\ Opened(l, n).seat.next = n
  BY DEF Stream, Opened, Undialled
<1>2. World # Nobody /\ World \notin Logs
  BY AgentAssumption
<1>3. CASE seated = "world"
  <2>1. c = Opened(World, p.seq + 1)
    BY <1>3 DEF Openings
  <2>2. Stream(c) = <<>>
    BY <1>1, <2>1
  <2>3. Backed(<<>>, 1, World, p.seq + 1, p)
    BY <1>3 DEF Backed, OnlyTo
  <2> QED BY <1>1, <2>1, <2>2, <2>3 DEF InStep, InOrder, Unswitched
<1>4. CASE seated = "log"
  <2>1. PICK l \in Logs \cup {Nobody}, n \in Nat :
          c = Opened(l, n) /\ (n = 1 \/ (l = p.log /\ n = p.seq + 1))
    <3>1. p.seq + 1 \in Nat /\ 1 \in Nat /\ seated # "world"
      BY <1>4, Bounds
    <3>2. PICK l \in Logs \cup {Nobody} : c = Opened(l, 1) \/ (l = log /\ c = Opened(l, p.seq + 1))
      BY <3>1 DEF Openings
    <3> QED BY <1>4, <3>1, <3>2
  <2> DEFINE S == <<SwitchTo(l)>>
  <2>2. Stream(c) = S
    BY <1>1, <1>2, <2>1
  <2>3. Len(S) = 1 /\ S[1] = SwitchTo(l)
    OBVIOUS
  <2> HIDE DEF S
  <2>4. OnlyTo(S, 1, 2, l)
    BY <2>3 DEF OnlyTo, SwitchTo
  <2>5. Backed(S, 2, l, n, p)
    <3>1. 1 \in 1 .. 2 - 1
      OBVIOUS
    <3> QED BY <2>1, <2>3, <2>4, <3>1 DEF Backed
  <2>6. InOrder(S, p)
    BY <2>3 DEF InOrder, SwitchTo
  <2> QED BY <1>1, <1>4, <2>1, <2>2, <2>3, <2>5, <2>6 DEF InStep
<1> QED BY <1>3, <1>4

-----------------------------------------------------------------------------
(* The actions, and what is on its way.                                    *)

\* A step that puts one connection and leaves the agent and its pump alone.
LEMMA OneInStep ==
  ASSUME IInv, IInv', HistInv, NEW g \in Dials, NEW d, On(g, d),
         UNCHANGED <<seated, dials, agent, pump>>,
         d \in Conn /\ InStep(conns[g], seated, Held) => InStep(d, seated, Held)
  PROVE  HistInv'
<1>1. conns'[g] = d /\ d \in Conn /\ \A h \in Dials \ {g} : conns'[h] = conns[h]
  BY DEF On, IInv, ConnInv
<1>2. dials \in Dials /\ Held' = Held
  BY DEF IInv, RestInv, Held
<1>3. InStep(conns[dials], seated, Held) => InStep(conns'[dials], seated, Held)
  <2>1. CASE dials = g
    BY <1>1, <2>1
  <2>2. CASE dials # g
    BY <1>1, <1>2, <2>2
  <2> QED BY <2>1, <2>2
<1> QED BY <1>2, <1>3 DEF HistInv, HistoryIsOneLog

\* A step that leaves what the history is of alone.
LEMMA NothingInStep ==
  ASSUME HistInv, UNCHANGED <<seated, conns, dials, agent, pump>>
  PROVE  HistInv'
<1>1. Held' = Held
  BY DEF Held
<1> QED BY <1>1 DEF HistInv, HistoryIsOneLog

\* A connection shut, whatever else of it changed but its queues.
LEMMA ShutInStep ==
  ASSUME NEW c \in Conn, NEW d, NEW s, NEW p, InStep(c, s, p),
         d.closed = c.closed, d.events = c.events, d.wire = c.wire,
         ~d.open \/ (d.open = c.open /\ d.seat = c.seat)
  PROVE  InStep(d, s, p)
<1>1. Stream(d) = Stream(c)
  BY DEF Stream
<1> QED BY <1>1, SameInStep

LEMMA GatewayInStep ==
  ASSUME IInv, IInv', HistInv, NEW g \in Dials,
         \/ SendEntry(g) \/ Break(g)
         \/ \E l \in Logs \cup {Nobody} : MoveSeat(g, l)
         \/ \E k \in Calls : Answer(g, k)
  PROVE  HistInv'
<1> DEFINE c == conns[g]
<1>0. c \in Conn /\ seated \in {"world", "log"}
  BY DEF IInv, ConnInv, RestInv
<1> HIDE DEF c
<1>1. CASE SendEntry(g)
  <2> DEFINE f == Entry(c.seat.log, c.seat.next)
             w == Append(c.wire, f)
             d == [c EXCEPT !.wire = w, !.seat.next = c.seat.next + 1]
  <2>1. c.seat.log \in Written /\ c.seat.log # Nobody /\ c.seat.next \in 1 .. MaxHead /\ c.open
    BY <1>0, <1>1 DEF SendEntry, Sends, Conn, c
  <2>2. f \in Frames /\ f.type = "entry"
    BY <2>1 DEF Entry, Frames, Deliveries
  <2>3. On(g, d) /\ UNCHANGED <<seated, dials, agent, pump>>
    BY <1>1 DEF SendEntry, Sends, c
  <2>4. /\ d.closed = c.closed /\ d.events = c.events /\ d.wire = w
        /\ d.seat.log = c.seat.log /\ d.seat.next - 1 = c.seat.next
    <3> HIDE DEF w
    <3> QED BY <1>0, <2>1, Bounds DEF Conn
  <2> HIDE DEF d
  <2>5. ASSUME d \in Conn, InStep(c, seated, Held) PROVE InStep(d, seated, Held)
    BY <1>0, <2>1, <2>2, <2>4, <2>5, SentInStep
  <2> QED BY <2>3, <2>5, OneInStep DEF c
<1>2. CASE Break(g)
  <2>1. On(g, Shut(c)) /\ UNCHANGED <<seated, dials, agent, pump>>
    BY <1>2 DEF Break, c
  <2>2. /\ Shut(c).closed = c.closed /\ Shut(c).events = c.events /\ Shut(c).wire = c.wire
        /\ ~Shut(c).open
    BY <1>0 DEF Shut, Conn
  <2>3. ASSUME InStep(c, seated, Held) PROVE InStep(Shut(c), seated, Held)
    BY <1>0, <2>2, <2>3, ShutInStep
  <2> QED BY <2>1, <2>3, OneInStep DEF c
<1>3. ASSUME NEW l \in Logs \cup {Nobody}, MoveSeat(g, l) PROVE HistInv'
  <2> DEFINE f == SwitchTo(l)
             w == Append(c.wire, f)
             s == [log |-> l, next |-> 1]
             d == [c EXCEPT !.wire = w, !.seat = s]
  <2>1. seated = "log" /\ c.open /\ On(g, d) /\ UNCHANGED <<seated, dials, agent, pump>>
    BY <1>3 DEF MoveSeat, Sends, c
  <2>2. f \in Frames /\ f.type = "switch"
    BY DEF SwitchTo, Frames, Deliveries
  <2>3. d.closed = c.closed /\ d.events = c.events /\ d.wire = w /\ d.seat = s
    <3> HIDE DEF w, s
    <3> QED BY <1>0 DEF Conn
  <2>4. d.seat.next = 1 /\ f = SwitchTo(d.seat.log)
    BY <2>3
  <2> HIDE DEF d, f, s
  <2>5. ASSUME d \in Conn, InStep(c, seated, Held) PROVE InStep(d, seated, Held)
    BY <1>0, <2>1, <2>2, <2>3, <2>4, <2>5, SentInStep
  <2> QED BY <2>1, <2>5, OneInStep DEF c
<1>4. ASSUME NEW k \in Calls, Answer(g, k) PROVE HistInv'
  <2> DEFINE f == Result(k)
             w == Append(c.wire, f)
             d == [c EXCEPT !.wire = w, !.asked = c.asked \ {k}]
  <2>1. c.open /\ On(g, d) /\ UNCHANGED <<seated, dials, agent, pump>>
    BY <1>4 DEF Answer, Sends, c
  <2>2. f \in Frames /\ f.type = "result"
    BY DEF Result, Frames
  <2>3. d.closed = c.closed /\ d.events = c.events /\ d.wire = w /\ d.seat = c.seat
    <3> HIDE DEF w
    <3> QED BY <1>0 DEF Conn
  <2> HIDE DEF d
  <2>4. ASSUME d \in Conn, InStep(c, seated, Held) PROVE InStep(d, seated, Held)
    BY <1>0, <2>1, <2>2, <2>3, <2>4, SentInStep
  <2> QED BY <2>1, <2>4, OneInStep DEF c
<1> QED BY <1>1, <1>2, <1>3, <1>4

LEMMA ReaderInStep ==
  ASSUME IInv, IInv', HistInv, NEW g \in Dials, Reader(g)
  PROVE  HistInv'
<1> DEFINE c == conns[g]
<1>0. c \in Conn /\ Orderly(c)
  BY DEF IInv, ConnInv
<1> HIDE DEF c
<1>a. ASSUME NEW d, On(g, d), UNCHANGED <<seated, dials, agent, pump>>,
             d.closed = c.closed, d.events = c.events, d.wire = c.wire,
             ~d.open \/ (d.open = c.open /\ d.seat = c.seat)
      PROVE  HistInv'
  <2>1. ASSUME InStep(c, seated, Held) PROVE InStep(d, seated, Held)
    BY <1>0, <1>a, <2>1, ShutInStep
  <2> QED BY <1>a, <2>1, OneInStep DEF c
<1>1. CASE ReadFrame(g)
  <2> DEFINE f == Head(c.wire)
             w == Tail(c.wire)
             d == [c EXCEPT !.wire = w]
  <2>1. c.wire # <<>> /\ f \in Frames /\ w \in Seq(Frames)
    BY <1>0, <1>1 DEF ReadFrame, Conn, c
  <2>2. Reads(g, IF f.type = "result" THEN Claimed(d, f.call) ELSE Delivered(d, f))
    BY <1>1 DEF ReadFrame, c
  <2>3. c.reader = "reading" /\ ~c.closed
    BY <1>0, <2>2 DEF Reads, Orderly, c
  <2>4. /\ d \in Conn /\ d.wire = w /\ ~d.closed /\ d.events = c.events
        /\ d.open = c.open /\ d.seat = c.seat
    <3> HIDE DEF w
    <3> QED BY <1>0, <2>1, <2>3 DEF Conn
  <2> HIDE DEF d
  <2>5. CASE f.type = "result"
    <3> DEFINE e == Claimed(d, f.call)
    <3>1. On(g, e) /\ UNCHANGED <<seated, dials, agent, pump>>
      BY <2>2, <2>5 DEF Reads
    <3>2. /\ e.wire = w /\ ~e.closed /\ e.events = c.events /\ e.open = c.open /\ e.seat = c.seat
      <4> HIDE DEF w
      <4> QED BY <2>4 DEF Claimed, Conn
    <3> HIDE DEF e
    <3>3. ASSUME e \in Conn, InStep(c, seated, Held) PROVE InStep(e, seated, Held)
      BY <1>0, <2>1, <2>3, <2>5, <3>2, <3>3, ResultInStep
    <3> QED BY <3>1, <3>3, OneInStep DEF c
  <2>6. CASE f.type # "result"
    <3> DEFINE e == Delivered(d, f)
    <3>1. On(g, e) /\ UNCHANGED <<seated, dials, agent, pump>>
      BY <2>2, <2>6 DEF Reads
    <3>2. CASE Len(d.events) < Buffer
      <4> DEFINE v == Append(d.events, f)
      <4>1. e = [d EXCEPT !.events = v]
        BY <3>2 DEF Delivered
      <4>2. e.wire = w /\ ~e.closed /\ e.events = v /\ e.open = c.open /\ e.seat = c.seat
        <5> HIDE DEF v, w, e
        <5> QED BY <2>4, <4>1 DEF Conn
      <4>3. v = Append(c.events, f)
        BY <2>4
      <4> HIDE DEF e, v
      <4>4. ASSUME e \in Conn, InStep(c, seated, Held) PROVE InStep(e, seated, Held)
        BY <1>0, <2>1, <2>3, <4>2, <4>3, <4>4, ReadInStep
      <4> QED BY <3>1, <4>4, OneInStep DEF c
    <3>3. CASE ~(Len(d.events) < Buffer)
      <4>1. e = TornDown(d)
        BY <3>3 DEF Delivered
      <4>2. e.closed /\ e.events = c.events
        BY <2>4, <4>1 DEF TornDown, Conn
      <4> HIDE DEF e
      <4>3. ASSUME e \in Conn, InStep(c, seated, Held) PROVE InStep(e, seated, Held)
        BY <1>0, <4>2, <4>3, TornInStep
      <4> QED BY <3>1, <4>3, OneInStep DEF c
    <3> QED BY <3>2, <3>3
  <2> QED BY <2>5, <2>6
<1>2. CASE ReadError(g)
  <2> DEFINE e == TornDown(c)
  <2>1. On(g, e) /\ UNCHANGED <<seated, dials, agent, pump>>
    BY <1>2 DEF ReadError, Reads, c
  <2>2. e.closed /\ e.events = c.events
    BY <1>0 DEF TornDown, Conn
  <2> HIDE DEF e
  <2>3. ASSUME e \in Conn, InStep(c, seated, Held) PROVE InStep(e, seated, Held)
    BY <1>0, <2>2, <2>3, TornInStep
  <2> QED BY <2>1, <2>3, OneInStep DEF c
<1>3. CASE Reply(g)
  <2> DEFINE d == [c EXCEPT !.reader = "reading", !.claimed = {}]
  <2>1. On(g, d) /\ UNCHANGED <<seated, dials, agent, pump>>
    BY <1>3 DEF Reply, c
  <2>2. d.closed = c.closed /\ d.events = c.events /\ d.wire = c.wire /\ d.open = c.open /\ d.seat = c.seat
    BY <1>0 DEF Conn
  <2> HIDE DEF d
  <2> QED BY <1>a, <2>1, <2>2
<1>4. ASSUME NEW k \in Calls, Unblock(g, k) PROVE HistInv'
  <2> DEFINE d == [c EXCEPT !.claimed = c.claimed \ {k}]
  <2>1. On(g, d) /\ UNCHANGED <<seated, dials, agent, pump>>
    BY <1>4 DEF Unblock, c
  <2>2. d.closed = c.closed /\ d.events = c.events /\ d.wire = c.wire /\ d.open = c.open /\ d.seat = c.seat
    BY <1>0 DEF Conn
  <2> HIDE DEF d
  <2> QED BY <1>a, <2>1, <2>2
<1>5. CASE EndReader(g)
  <2> DEFINE d == [Shut(c) EXCEPT !.reader = "done", !.over = TRUE]
  <2>1. On(g, d) /\ UNCHANGED <<seated, dials, agent, pump>>
    BY <1>5 DEF EndReader, c
  <2>2. d.closed = c.closed /\ d.events = c.events /\ d.wire = c.wire /\ ~d.open
    BY <1>0 DEF Conn, Shut
  <2> HIDE DEF d
  <2> QED BY <1>a, <2>1, <2>2
<1> QED BY <1>1, <1>2, <1>3, <1>4, <1>5 DEF Reader

LEMMA CallInStep ==
  ASSUME IInv, IInv', HistInv, NEW k \in Calls, Hold(k) \/ Caller(k) \/ WriteCancelled(k) \/ GiveUp(k)
  PROVE  HistInv'
<1> DEFINE g == calls[k].on
           c == conns[g]
<1>0. ASSUME calls[k].at \in {"held", "registered", "waiting"} PROVE g \in Dials /\ c \in Conn
  BY <1>0, OnIsDialled DEF IInv, ConnInv
<1> HIDE DEF g, c
<1>1. UNCHANGED <<seated, dials, agent, pump>>
  BY DEF Hold, Caller, Register, Write, Receive, WriteCancelled, GiveUp, Steps
<1>a. ASSUME calls[k].at \in {"held", "registered", "waiting"}, NEW d, On(g, d),
             d.closed = c.closed, d.events = c.events, d.wire = c.wire,
             ~d.open \/ (d.open = c.open /\ d.seat = c.seat)
      PROVE  HistInv'
  <2>1. ASSUME InStep(c, seated, Held) PROVE InStep(d, seated, Held)
    BY <1>0, <1>a, <2>1, ShutInStep
  <2> QED BY <1>0, <1>1, <1>a, <2>1, OneInStep DEF c
<1>b. ASSUME calls[k].at \in {"held", "registered", "waiting"}, Leaves(k, c) \/ Leaves(k, Shut(c))
      PROVE  HistInv'
  <2>1. PICK b \in {c, Shut(c)} : On(g, [b EXCEPT !.pending = b.pending \ {k}])
    BY <1>b DEF Leaves, g
  <2> DEFINE d == [b EXCEPT !.pending = b.pending \ {k}]
  <2>2. /\ d.closed = c.closed /\ d.events = c.events /\ d.wire = c.wire
        /\ ~d.open \/ (d.open = c.open /\ d.seat = c.seat)
    BY <1>0, <1>b DEF Conn, Shut
  <2> HIDE DEF d
  <2> QED BY <1>a, <1>b, <2>1, <2>2 DEF d
<1>2. CASE UNCHANGED conns
  BY <1>1, <1>2, NothingInStep
<1>3. CASE Register(k) /\ ~UNCHANGED conns
  <2> DEFINE d == [c EXCEPT !.pending = c.pending \cup {k}]
  <2>1. calls[k].at = "held" /\ On(g, d)
    BY <1>3 DEF Register, Steps, c, g
  <2>2. d.closed = c.closed /\ d.events = c.events /\ d.wire = c.wire /\ d.open = c.open /\ d.seat = c.seat
    BY <1>0, <2>1 DEF Conn
  <2> HIDE DEF d
  <2> QED BY <1>a, <2>1, <2>2
<1>4. CASE Write(k)
  <2> DEFINE d == [c EXCEPT !.asked = c.asked \cup {k}]
  <2>1. calls[k].at = "registered" /\ (On(g, d) \/ Leaves(k, c))
    BY <1>4 DEF Write, Steps, c, g
  <2>2. d.closed = c.closed /\ d.events = c.events /\ d.wire = c.wire /\ d.open = c.open /\ d.seat = c.seat
    BY <1>0, <2>1 DEF Conn
  <2> HIDE DEF d
  <2> QED BY <1>a, <1>b, <2>1, <2>2
<1>5. CASE WriteCancelled(k)
  BY <1>5, <1>b DEF WriteCancelled, Steps, c, g
<1>6. CASE GiveUp(k)
  BY <1>6, <1>b DEF GiveUp, Steps, c, g
<1> QED BY <1>2, <1>3, <1>4, <1>5, <1>6 DEF Hold, Caller, Receive

\* The first n entries of log l.
FirstOf(l, n) == [i \in 1 .. n |-> [log |-> l, seq |-> i]]

\* A history one entry longer is one log one entry longer.
LEMMA HistoryGrows ==
  ASSUME NEW l, NEW n \in Nat
  PROVE  Append(FirstOf(l, n), [log |-> l, seq |-> n + 1]) = FirstOf(l, n + 1)
<1> DEFINE R == {[log |-> l, seq |-> i] : i \in Nat}
           e == [log |-> l, seq |-> n + 1]
           h == FirstOf(l, n)
           t == FirstOf(l, n + 1)
<1>0. ASSUME NEW m \in Nat, NEW u, u = FirstOf(l, m)
      PROVE  u \in Seq(R) /\ Len(u) = m /\ \A i \in 1 .. m : u[i] = [log |-> l, seq |-> i]
  <2>1. \A i \in 1 .. m : [log |-> l, seq |-> i] \in R
    OBVIOUS
  <2> HIDE DEF R
  <2>2. u \in [1 .. m -> R]
    BY <1>0, <2>1 DEF FirstOf
  <2>3. u \in Seq(R)
    BY <2>2, SeqDef
  <2>4. Len(u) = m
    BY <2>2, <2>3, LenProperties
  <2> QED BY <1>0, <2>3, <2>4 DEF FirstOf
<1> HIDE DEF R
<1>1. h \in Seq(R) /\ Len(h) = n /\ \A i \in 1 .. n : h[i] = [log |-> l, seq |-> i]
  BY <1>0
<1>2. t \in Seq(R) /\ Len(t) = n + 1 /\ \A i \in 1 .. n + 1 : t[i] = [log |-> l, seq |-> i]
  <2>1. n + 1 \in Nat
    OBVIOUS
  <2> QED BY <1>0, <2>1
<1>3. e \in R
  <2>1. n + 1 \in Nat
    OBVIOUS
  <2> QED BY <2>1 DEF R
<1>4. t[n + 1] = e /\ \A i \in 1 .. n : t[i] = h[i]
  BY <1>1, <1>2
<1> HIDE DEF e, h, t
<1>5. /\ Append(h, e) \in Seq(R) /\ Len(Append(h, e)) = n + 1 /\ Append(h, e)[n + 1] = e
      /\ \A i \in 1 .. n : Append(h, e)[i] = h[i]
  BY <1>1, <1>3, AppendProperties
<1>6. \A i \in 1 .. n + 1 : Append(h, e)[i] = t[i]
  BY <1>4, <1>5
<1>7. Append(h, e) = t
  BY <1>2, <1>5, <1>6, SeqEqual
<1> QED BY <1>7 DEF e, h, t

LEMMA WhatIsHeld ==
  /\ seated = "log" => Held.log = agent.log
  /\ Held.seq = agent.lastSeq
BY DEF Held

\* An entry recorded is not recorded again.
LEMMA RecordedOnce ==
  ASSUME NEW l, NEW n, n <= agent.lastSeq
  PROVE  RecordEvent(l, n) = agent
BY DEF RecordEvent

\* A history is one log where it is the first entries of the log held.
LEMMA OneLog ==
  /\ HistoryIsOneLog <=> /\ agent.history = FirstOf(Held.log, agent.lastSeq)
                         /\ seated = "log" /\ ~agent.told => agent.history = <<>>
  /\ HistoryIsOneLog' <=> /\ agent'.history = FirstOf(Held'.log, agent'.lastSeq)
                          /\ seated' = "log" /\ ~agent'.told => agent'.history = <<>>
  /\ Held.log = IF seated = "world" THEN World ELSE agent.log
  /\ Held'.log = IF seated' = "world" THEN World ELSE agent'.log
  /\ Held.seq = agent.lastSeq /\ Held'.seq = agent'.lastSeq
<1>1. /\ Held.log = IF seated = "world" THEN World ELSE agent.log
      /\ Held'.log = IF seated' = "world" THEN World ELSE agent'.log
      /\ Held.seq = agent.lastSeq /\ Held'.seq = agent'.lastSeq
  BY DEF Held
<1> QED BY <1>1 DEF HistoryIsOneLog, FirstOf

\* What the agent holds when it has been handed a frame, and that its history is
\* still one log.
LEMMA RecordsInStep ==
  ASSUME IInv, HistInv, pump = "drain", conns[dials].events # <<>>, UNCHANGED seated,
         NEW f \in Deliveries, f = Head(conns[dials].events),
         agent' = IF f.type = "switch" THEN RecordSwitch(f.log) ELSE RecordEvent(f.log, f.seq)
  PROVE  /\ HistoryIsOneLog' /\ Takes(f, Held, Held') /\ Held'.seq \in Nat
         /\ seated = "log" /\ ~agent'.told => agent'.lastSeq = 0
         /\ ~agent'.told => agent'.log = Nobody
<1> DEFINE c == conns[dials]
           S == Stream(c)
<1>1. agent \in AgentRecord /\ c \in Conn /\ seated \in {"world", "log"} /\ Held.seq = agent.lastSeq
  BY DEF IInv, RestInv, ConnInv, Held
<1>2. agent.lastSeq \in Nat /\ 0 \in Nat
  BY <1>1, Bounds DEF AgentRecord
<1>3. Len(S) >= 1 /\ 1 \in 1 .. Len(S) /\ S[1] = f
  <2> DEFINE E == c.events
             W == c.wire
  <2>1. /\ E \in Seq(Frames) /\ W \in Seq(Frames) /\ E # <<>> /\ S \in Seq(Frames) /\ f = Head(E)
        /\ S = IF c.closed THEN E ELSE E \o W
    BY <1>1, StreamIsFrames DEF Stream
  <2> HIDE DEF E, W, S
  <2>2. S # <<>> /\ S[1] = Head(E)
    <3>1. E \o W # <<>> /\ (E \o W)[1] = Head(E)
      BY <2>1, TwoQueues
    <3> QED BY <2>1, <3>1
  <2> QED BY <2>1, <2>2
<1>4. InOrder(S, Held) /\ (seated = "world" => Unswitched(S))
  BY DEF HistInv, InStep
<1>7. /\ HistoryIsOneLog /\ (~agent.told => agent.log = Nobody)
      /\ seated = "log" /\ ~agent.told => agent.lastSeq = 0
  BY DEF HistInv
<1> HIDE DEF c, S
<1>5. CASE f.type = "entry"
  <2>1. f.log \in Written /\ f.seq \in 1 .. MaxHead /\ f.seq \in Nat
    BY <1>5, Bounds DEF Deliveries
  <2>2. f.log = Held.log /\ f.seq <= agent.lastSeq + 1
    <3>1. Backed(S, 1, f.log, f.seq, Held)
      BY <1>3, <1>4, <1>5 DEF InOrder
    <3>2. \A j \in 1 .. 1 - 1 : FALSE
      OBVIOUS
    <3> QED BY <1>1, <3>1, <3>2 DEF Backed
  <2>3. agent' = RecordEvent(f.log, f.seq)
    BY <1>5
  <2>4. seated = "log" => agent.told
    <3>2. seated = "log" => f.log = agent.log
      BY <2>2, WhatIsHeld
    <3>3. Nobody \notin Written
      BY Bounds
    <3> QED BY <1>7, <2>1, <3>2, <3>3
  <2>5. CASE f.seq <= agent.lastSeq
    <3>1. agent' = agent
      BY <2>3, <2>5, RecordedOnce
    <3>2. Held' = Held
      BY <3>1 DEF Held
    <3>3. HistoryIsOneLog'
      BY <1>7, <3>1, <3>2, OneLog
    <3> QED BY <1>1, <1>2, <1>5, <1>7, <2>1, <2>2, <2>5, <3>1, <3>2, <3>3 DEF Takes
  <2>6. CASE ~(f.seq <= agent.lastSeq)
    <3>1. f.seq = agent.lastSeq + 1
      BY <1>2, <2>1, <2>2, <2>6
    <3> DEFINE h == Append(agent.history, [log |-> f.log, seq |-> f.seq])
    <3>2. agent' = [agent EXCEPT !.history = h, !.lastSeq = f.seq]
      BY <2>3, <2>6 DEF RecordEvent
    <3>3. h = FirstOf(Held.log, agent.lastSeq + 1)
      <4>1. agent.history = FirstOf(Held.log, agent.lastSeq)
        BY <1>7, OneLog
      <4> QED BY <1>2, <2>2, <3>1, <4>1, HistoryGrows
    <3> HIDE DEF h
    <3>4. /\ agent'.history = h /\ agent'.lastSeq = f.seq /\ agent'.log = agent.log
          /\ agent'.told = agent.told
      BY <1>1, <3>2 DEF AgentRecord
    <3>5. Held'.log = Held.log /\ Held'.seq = f.seq
      BY <3>4, OneLog
    <3>6. agent'.history = FirstOf(Held'.log, agent'.lastSeq)
      BY <3>1, <3>3, <3>4, <3>5
    <3>7. HistoryIsOneLog'
      BY <2>4, <3>4, <3>6, OneLog
    <3> QED BY <1>1, <1>2, <1>5, <2>1, <2>4, <3>1, <3>4, <3>5, <3>7 DEF HistInv, Takes
  <2> QED BY <2>5, <2>6
<1>6. CASE f.type = "switch"
  <2>1. seated = "log"
    BY <1>1, <1>3, <1>4, <1>6 DEF Unswitched
  <2>2. agent' = RecordSwitch(f.log) /\ f.log \in Logs \cup {Nobody}
    BY <1>6 DEF Deliveries
  <2>3. CASE agent.told /\ agent.log = f.log
    <3>1. agent' = agent
      BY <2>2, <2>3 DEF RecordSwitch
    <3>2. Held' = Held /\ Held.log = f.log
      BY <2>1, <2>3, <3>1 DEF Held
    <3> QED BY <1>1, <1>2, <1>6, <3>1, <3>2 DEF HistInv, HistoryIsOneLog, Takes
  <2>4. CASE ~(agent.told /\ agent.log = f.log)
    <3> DEFINE h == <<>>
    <3>1. agent' = [agent EXCEPT !.history = h, !.lastSeq = 0, !.log = f.log, !.told = TRUE]
      BY <2>2, <2>4 DEF RecordSwitch
    <3>2. h = FirstOf(f.log, 0)
      BY DEF FirstOf
    <3> HIDE DEF h
    <3>3. agent'.history = h /\ agent'.lastSeq = 0 /\ agent'.log = f.log /\ agent'.told = TRUE
      BY <1>1, <3>1 DEF AgentRecord
    <3>4. Held'.log = f.log /\ Held'.seq = 0
      BY <2>1, <3>3 DEF Held
    <3>5. f.log = Held.log => Held.seq = 0
      <4>1. CASE agent.told
        BY <2>1, <2>4, <4>1, WhatIsHeld
      <4>2. CASE ~agent.told
        BY <1>7, <2>1, <4>2, WhatIsHeld
      <4> QED BY <4>1, <4>2
    <3>6. HistoryIsOneLog'
      <4>1. agent'.history = FirstOf(Held'.log, agent'.lastSeq)
        BY <3>2, <3>3, <3>4
      <4> QED BY <3>3, <4>1, OneLog
    <3> QED BY <1>2, <1>6, <3>3, <3>4, <3>5, <3>6 DEF Takes
  <2> QED BY <2>3, <2>4
<1> QED BY <1>5, <1>6 DEF Deliveries

LEMMA PumpInStep ==
  ASSUME IInv, IInv', HistInv, Pump
  PROVE  HistInv'
<1>0. /\ agent \in AgentRecord /\ dials \in Dials /\ seated \in {"world", "log"}
      /\ conns \in [Dials -> Conn]
  BY DEF IInv, RestInv, ConnInv
<1>a. ASSUME UNCHANGED <<seated, agent>>
      PROVE  /\ Held' = Held /\ HistoryIsOneLog'
             /\ seated' = "log" /\ ~agent'.told => agent'.lastSeq = 0
             /\ ~agent'.told => agent'.log = Nobody
  BY <1>a DEF Held, HistInv, HistoryIsOneLog
<1>b. ASSUME NEW a \in 0 .. MaxDials, agent' = [agent EXCEPT !.client = a], UNCHANGED seated
      PROVE  /\ Held' = Held /\ HistoryIsOneLog' /\ agent'.client = a
             /\ seated' = "log" /\ ~agent'.told => agent'.lastSeq = 0
             /\ ~agent'.told => agent'.log = Nobody
  <2>1. /\ agent'.history = agent.history /\ agent'.lastSeq = agent.lastSeq
        /\ agent'.log = agent.log /\ agent'.told = agent.told /\ agent'.client = a
    BY <1>0, <1>b DEF AgentRecord
  <2> QED BY <1>b, <2>1 DEF Held, HistInv, HistoryIsOneLog
<1>1. CASE Drain
  <2> DEFINE c == conns[dials]
             f == Head(c.events)
             w == Tail(c.events)
             d == [c EXCEPT !.events = w]
  <2>1. agent.client = dials /\ pump = "drain" /\ pump' = "drain"
    BY <1>1 DEF Drain, HistInv
  <2>2. /\ c.events # <<>> /\ On(dials, d) /\ UNCHANGED <<seated, dials>>
        /\ agent' = IF f.type = "switch" THEN RecordSwitch(f.log) ELSE RecordEvent(f.log, f.seq)
    BY <1>1, <2>1 DEF Drain
  <2>3. c \in Conn /\ InStep(c, seated, Held)
    BY <1>0, <2>1 DEF HistInv
  <2> HIDE DEF c
  <2>4. f \in Deliveries /\ w \in Seq(Deliveries)
    BY <2>2, <2>3 DEF Conn
  <2>5. /\ HistoryIsOneLog' /\ Takes(f, Held, Held') /\ Held'.seq \in Nat
        /\ seated = "log" /\ ~agent'.told => agent'.lastSeq = 0
        /\ ~agent'.told => agent'.log = Nobody
    BY <2>1, <2>2, <2>4, RecordsInStep DEF c
  <2>6. Held.seq \in Nat
    BY <1>0, Bounds DEF Held, AgentRecord
  <2>7. d.closed = c.closed /\ d.open = c.open /\ d.seat = c.seat /\ d.events = w /\ d.wire = c.wire
    <3> HIDE DEF w
    <3> QED BY <2>3 DEF Conn
  <2>8. conns'[dials] = d /\ d \in Conn
    BY <1>0, <2>2 DEF On, IInv, ConnInv
  <2> HIDE DEF d
  <2>9. InStep(d, seated, Held')
    BY <2>2, <2>3, <2>5, <2>6, <2>7, <2>8, DrainedInStep
  <2>10. agent'.client = agent.client
    <3>1. CASE f.type = "switch"
      <4>1. f.log \in Logs \cup {Nobody}
        BY <2>4, <3>1 DEF Deliveries
      <4> QED BY <1>0, <2>2, <3>1, <4>1, AgentPuts
    <3>2. CASE f.type # "switch"
      <4>1. f.log \in Written /\ f.seq \in 1 .. MaxHead
        BY <2>4, <3>2 DEF Deliveries
      <4> QED BY <1>0, <2>2, <3>2, <4>1, AgentPuts
    <3> QED BY <3>1, <3>2
  <2> QED BY <2>1, <2>2, <2>5, <2>8, <2>9, <2>10 DEF HistInv
<1>2. CASE Lose
  <2>1. 0 \in 0 .. MaxDials
    BY Bounds
  <2> QED BY <1>2, <1>b, <2>1 DEF Lose, Goes, Others, HistInv
<1>3. CASE LookUp
  BY <1>3, <1>a DEF LookUp, Goes, Others, HistInv
<1>4. CASE Dial
  <2>1. dials' = dials + 1 /\ pump' = "guard" /\ UNCHANGED <<seated, agent>>
    BY <1>4 DEF Dial, Goes
  <2>2. PICK c \in Openings(agent.log, agent.lastSeq) : On(dials', c)
    BY <1>4, <2>1 DEF Dial
  <2>3. Held.seq = agent.lastSeq /\ agent.lastSeq \in 0 .. MaxHead /\ agent.log \in Logs \cup {Nobody}
        /\ (seated = "world" => Held.log = World) /\ (seated = "log" => Held.log = agent.log)
    BY <1>0 DEF Held, AgentRecord
  <2>4. InStep(c, seated, Held)
    BY <1>0, <2>2, <2>3, OpeningsInStep
  <2>5. dials' \in Dials
    BY DEF IInv, RestInv
  <2>6. conns'[dials'] = c
    BY <1>0, <2>2, <2>5 DEF On
  <2> QED BY <1>a, <2>1, <2>4, <2>6 DEF HistInv
<1>5. CASE DialCancelled
  BY <1>5, <1>a DEF DialCancelled, Goes, Others, HistInv
<1>6. CASE Guard
  <2>1. UNCHANGED <<seated, dials, agent>> /\ pump = "guard"
    BY <1>6 DEF Guard, Goes
  <2>2. CASE Cancelled
    BY <1>6, <1>a, <2>1, <2>2 DEF Guard, Goes, HistInv
  <2>3. CASE ~Cancelled
    BY <1>6, <1>a, <2>1, <2>3 DEF Guard, Goes, HistInv
  <2> QED BY <2>2, <2>3
<1>7. CASE Install
  <2>1. dials \in 0 .. MaxDials
    BY <1>0 DEF Dials
  <2> QED BY <1>7, <1>b, <2>1 DEF Install, Goes, Others, HistInv
<1> QED BY <1>1, <1>2, <1>3, <1>4, <1>5, <1>6, <1>7 DEF Pump

LEMMA RunInStep ==
  ASSUME IInv, IInv', HistInv, Cancel \/ CloseClient \/ Closed
  PROVE  HistInv'
<1>1. CASE UNCHANGED conns
  BY <1>1, NothingInStep DEF Cancel, CloseClient, Closed, Others
<1>2. CASE CloseClient /\ ~UNCHANGED conns
  <2> DEFINE g == agent.client
             c == conns[g]
  <2>1. g # 0 /\ On(g, Shut(c)) /\ UNCHANGED <<seated, dials, agent, pump>>
    BY <1>2 DEF CloseClient
  <2>2. g \in Dials /\ c \in Conn
    BY <2>1 DEF IInv, RestInv, ConnInv, AgentRecord, Dials
  <2>3. /\ Shut(c).closed = c.closed /\ Shut(c).events = c.events /\ Shut(c).wire = c.wire
        /\ ~Shut(c).open
    BY <2>2 DEF Shut, Conn
  <2> HIDE DEF g
  <2>4. ASSUME InStep(c, seated, Held) PROVE InStep(Shut(c), seated, Held)
    BY <2>2, <2>3, <2>4, ShutInStep
  <2> QED BY <2>1, <2>2, <2>4, OneInStep
<1> QED BY <1>1, <1>2 DEF Cancel, Closed, Others

LEMMA InitInStep == Init => HistInv
<1> SUFFICES ASSUME Init PROVE HistInv
  OBVIOUS
<1>1. PICK c \in Openings(Nobody, 0) : conns = [g \in Dials |-> IF g = 1 THEN c ELSE Undialled]
  BY DEF Init
<1>2. /\ agent.history = <<>> /\ agent.lastSeq = 0 /\ agent.log = Nobody /\ ~agent.told
      /\ agent.client = 1 /\ dials = 1 /\ pump = "drain" /\ seated \in {"world", "log"}
  BY DEF Init
<1>3. 0 \in 0 .. MaxHead /\ conns[dials] = c
  BY <1>1, <1>2, Bounds
<1>4. Held.seq = 0 /\ (seated = "world" => Held.log = World) /\ (seated = "log" => Held.log = Nobody)
  BY <1>2 DEF Held
<1>5. InStep(c, seated, Held)
  BY <1>2, <1>3, <1>4, OpeningsInStep
<1>6. HistoryIsOneLog
  <2>1. \A l : <<>> = [i \in 1 .. 0 |-> [log |-> l, seq |-> i]]
    OBVIOUS
  <2> QED BY <1>2, <2>1 DEF HistoryIsOneLog
<1> QED BY <1>2, <1>3, <1>5, <1>6 DEF HistInv

LEMMA NextInStep == IInv /\ IInv' /\ HistInv /\ [Next]_vars => HistInv'
<1> SUFFICES ASSUME IInv, IInv', HistInv, [Next]_vars PROVE HistInv'
  OBVIOUS
<1>1. CASE Next
  BY <1>1, GatewayInStep, ReaderInStep, CallInStep, PumpInStep, RunInStep DEF Next
<1>2. CASE UNCHANGED vars
  BY <1>2, NothingInStep DEF vars
<1> QED BY <1>1, <1>2

\* What get_state and get_events_since read is one log from its first entry, with
\* no gap and nothing twice, whatever the seat sends again, however often the
\* connection is lost (recordSwitch, recordEvent, redial).
THEOREM TheHistoryIsOneLog == Spec => []HistoryIsOneLog
<1>1. Init => HistInv
  BY InitInStep
<1>2. IInv /\ IInv' /\ HistInv /\ [Next]_vars => HistInv'
  BY NextInStep
<1>3. HistInv => HistoryIsOneLog
  BY DEF HistInv
<1> QED BY <1>1, <1>2, <1>3, IInvHolds, PTL DEF Spec
=============================================================================
