-------------------------------- MODULE Seat --------------------------------
(***************************************************************************)
(* A player's or a spectator's seat: the pump of one log connection,       *)
(* src/internal/gateway/seat.go, viewpoint.go and the pump of server.go,   *)
(* with what it races: appends to the campaign, promotions, the removal of *)
(* its participant, perches, lost connections and redials.  It ends at the *)
(* client's wire, client/src/wire.ts, which holds one log and folds it.    *)
(*                                                                         *)
(* One participant and one connection at a time.  The world is what        *)
(* MayWatch reads of it: the party, and whom of it the participant         *)
(* controls.  Actor ids are positive, so that "the first by id" is the     *)
(* least and 0 is nobody.  An append is one version of the world, and      *)
(* writes at most one entry to each party member's log; an entry is the    *)
(* version that caused it.  Which logs it writes to is perceive's matter   *)
(* and any choice here.  A frame queued is a frame the client folds,       *)
(* unless the wire is cut.  A connection that ends takes its pump with it. *)
(* Campaign.Close, a poisoned campaign, a failing lookup, the store's      *)
(* no-progress drop and the move gate's told are not modelled here.        *)
(***************************************************************************)
EXTENDS Integers, Sequences, FiniteSetsExt

CONSTANTS Actors,        \* ids of the actors that may be party members
          MaxHead,       \* bound: versions of the world
          MaxDials,      \* bound: connections, one after the other
          MaxPromotions, \* bound: promotions of the participant
          MaxPerches,    \* bound: set_viewpoint commands
          MayRemove      \* the participant may be removed

ASSUME SeatAssumption ==
  /\ Actors \subseteq Nat \ {0}
  /\ MaxHead \in Nat \ {0}
  /\ {MaxDials, MaxPromotions, MaxPerches} \subseteq Nat
  /\ MayRemove \in BOOLEAN

Nobody == 0
None   == -1  \* no perch in the slot; no ViewpointChanged yet
Roles  == {"player", "spectator"}

VARIABLES
  hist,     \* the versions of the world, the last one live
  logs,     \* logs[a]: the character log of a
  toNotify, \* the logs an append has still to notify; c.mu is held until none
  role,     \* the participant's role in the identity store
  revoked,  \* the participant's Lookup is ErrInvalidToken
  toSignal, \* rejudge calls still to come of promotions
  removal,  \* the one handleRemoval of the participant
  wake,     \* the append watch's channel (capacity 1)
  signal,   \* presenceConn.rejudge (capacity 1)
  box,      \* perchBox: its slot, its wake, and a set that has still to wake
  seat,     \* the seat, and where its subscription stands
  pump,     \* where the pump is
  told,     \* pumpState.lastSet, or NoSet
  sent,     \* the last entry the pump sent, on this connection
  client,   \* the Wire: log, lastSeq and what was folded since the last reset
  cut,      \* frames queued now do not reach the client
  used      \* how much of the bounds is used

worldVars  == <<hist, logs, toNotify>>
peopleVars == <<role, revoked, toSignal, removal>>
seatVars   == <<wake, signal, box, seat, pump, told, sent>>
vars == <<worldVars, peopleVars, seatVars, client, cut, used>>

Worlds == {w \in [party : SUBSET Actors, mine : SUBSET Actors] : w.mine \subseteq w.party}
Sets   == [actors : SUBSET Actors, none : BOOLEAN]
NoSet  == [actors |-> {Nobody}, none |-> FALSE]  \* of no judgment

NoSeat == [shown |-> Nobody, judgedAs |-> "player", role |-> "player", set |-> NoSet,
           taken |-> 0, queued |-> 0]
Down   == [at |-> "down", target |-> Nobody, cursor |-> 0, then |-> "idle"]
NoBox  == [slot |-> None, wake |-> FALSE, setting |-> FALSE]
NoSend == [log |-> Nobody, seq |-> 0, version |-> 0, role |-> "player", set |-> NoSet]

\* "dialled" .. "opened" are serve's, the others the pump's own.
Places == {"down", "dialled", "watch", "settle", "resolve", "opened", "start",
           "idle", "lookup", "recheck", "moved", "perch", "mayWatch",
           "entry", "admit", "admitted", "deliver"}

TypeOK ==
  /\ hist \in Seq(Worlds)
  /\ logs \in [Actors -> Seq(1 .. MaxHead)]
  /\ toNotify \in SUBSET Actors
  /\ role \in Roles /\ revoked \in BOOLEAN /\ toSignal \in 0 .. MaxPromotions
  /\ removal \in [at : {"no", "read", "revoked", "signalled", "done"},
                  actors : SUBSET Actors, version : 0 .. MaxHead]
  /\ wake \in BOOLEAN /\ signal \in BOOLEAN
  /\ box \in [slot : Actors \cup {Nobody, None}, wake : BOOLEAN, setting : BOOLEAN]
  /\ seat \in [shown : Actors \cup {Nobody}, judgedAs : Roles, role : Roles,
               set : Sets \cup {NoSet}, taken : 0 .. MaxHead, queued : 0 .. MaxHead]
  /\ seat.taken <= seat.queued
  /\ pump \in [at : Places, target : Actors \cup {Nobody}, cursor : 0 .. MaxHead,
               then : {"opened", "moved", "idle", "admitted", "deliver"}]
  /\ told \in Sets \cup {NoSet}
  /\ sent \in [log : Actors \cup {Nobody}, seq : 0 .. MaxHead, version : 0 .. MaxHead,
               role : Roles, set : Sets \cup {NoSet}]
  /\ client \in [log : Actors \cup {Nobody, None}, cursor : 0 .. MaxHead, got : Seq(1 .. MaxHead)]
  /\ cut \in BOOLEAN
  /\ used \in [dials : 0 .. MaxDials, promotions : 0 .. MaxPromotions, perches : 0 .. MaxPerches]

Init ==
  /\ \E w \in Worlds :
       /\ hist = <<w>>
       /\ logs = [a \in Actors |-> IF a \in w.party THEN <<1>> ELSE <<>>]
  /\ toNotify = {}
  /\ role \in Roles
  /\ revoked = FALSE
  /\ toSignal = 0
  /\ removal = [at |-> "no", actors |-> {}, version |-> 0]
  /\ wake = FALSE
  /\ signal = FALSE
  /\ box = NoBox
  /\ seat = NoSeat
  /\ pump = Down
  /\ told = NoSet
  /\ sent = NoSend
  /\ client = [log |-> None, cursor |-> 0, got |-> <<>>]
  /\ cut = FALSE
  /\ used = [dials |-> 0, promotions |-> 0, perches |-> 0]

-----------------------------------------------------------------------------
(* Who may watch whom: viewpoint.go.                                       *)

Now == hist[Len(hist)]
MuFree == toNotify = {}

OwnOnly(r, w) == r = "player" /\ w.mine # {}

MayWatch(r, a, w) == a \in IF OwnOnly(r, w) THEN w.mine ELSE w.party \cup {Nobody}

DefaultViewpoint(r, w) == IF OwnOnly(r, w) THEN Min(w.mine) ELSE Nobody

Watchable(r, w) == [actors |-> {a \in w.party : MayWatch(r, a, w)}, none |-> w.mine = {}]

\* seat.resolve: what is shown while it may be watched, else the default.
Resolved(s, w) == IF s.shown # Nobody /\ MayWatch(s.role, s.shown, w) THEN s.shown
                  ELSE DefaultViewpoint(s.role, w)

-----------------------------------------------------------------------------
(* The client's wire.                                                      *)

\* A ViewpointChanged naming another log discards what was folded.
OnViewpoint(c, a) == IF c.log = a THEN c ELSE [log |-> a, cursor |-> 0, got |-> <<>>]

\* Mutation: a log sent again from entry 1 is folded on top of itself.
OnEventOnTop(c, n, v) == [c EXCEPT !.cursor = IF n > @ THEN n ELSE @, !.got = Append(@, v)]

\* So does entry 1, once an entry was sent.
OnEvent(c, n, v) ==
  IF n = 1 /\ c.cursor > 0 THEN [c EXCEPT !.cursor = 1, !.got = <<v>>]
  ELSE [c EXCEPT !.cursor = IF n > @ THEN n ELSE @, !.got = Append(@, v)]

Reaches(c) == client' = IF cut THEN client ELSE c

-----------------------------------------------------------------------------
(* serve: a dial, and the open.                                            *)

At(place) == pump.at = place
Goto(place) == pump' = [pump EXCEPT !.at = place]

\* serve has joined presence: a rejudge finds the connection.
Registered == pump.at \notin {"down", "dialled", "opened"} /\ pump.then # "opened"

\* The credential is verified, and WatchAppends registered before the actors
\* are read.  Until its first ViewpointChanged a page names the log its tab
\* remembers, whatever that is, and the cursor is 0.
Dial ==
  /\ At("down") /\ used.dials < MaxDials
  /\ ~revoked /\ MuFree
  /\ \E named \in IF client.log = None THEN Actors \cup {Nobody} ELSE {client.log} :
       pump' = [Down EXCEPT !.at = "dialled", !.target = named, !.cursor = client.cursor]
  /\ seat' = [NoSeat EXCEPT !.role = role, !.judgedAs = role]
  /\ cut' = FALSE
  /\ used' = [used EXCEPT !.dials = @ + 1]
  /\ UNCHANGED <<worldVars, peopleVars, wake, signal, box, told, sent, client>>

\* openSeat: the named log after the cursor, if it may be watched, else the
\* default from its first entry.
OpenSeat ==
  /\ At("dialled") /\ MuFree
  /\ seat' = [seat EXCEPT !.set = Watchable(seat.role, Now)]
  /\ LET honoured == pump.target # Nobody /\ MayWatch(seat.role, pump.target, Now)
     IN  pump' = [pump EXCEPT !.at = "watch", !.then = "opened",
                    !.target = IF honoured THEN @ ELSE DefaultViewpoint(seat.role, Now),
                    !.cursor = IF honoured THEN @ ELSE 0]
  /\ UNCHANGED <<worldVars, peopleVars, wake, signal, box, told, sent, client, cut, used>>

\* watch: the old subscription is dropped, and the new one reads its history
\* under c.mu.
Watch ==
  /\ At("watch") /\ (pump.target = Nobody \/ MuFree)
  /\ seat' = [seat EXCEPT !.shown = pump.target, !.judgedAs = seat.role, !.taken = pump.cursor,
                !.queued = IF pump.target = Nobody THEN 0 ELSE Len(logs[pump.target])]
  /\ Goto("settle")
  /\ UNCHANGED <<worldVars, peopleVars, wake, signal, box, told, sent, client, cut, used>>

\* Mutation: the wake that came while it subscribed is read and forgotten.
SettleAnyway ==
  /\ At("settle")
  /\ wake' = FALSE
  /\ Goto(pump.then)
  /\ UNCHANGED <<worldVars, peopleVars, signal, box, seat, told, sent, client, cut, used>>

\* watch's select: no wake waits, or it is read and the actors are resolved again.
Settle ==
  /\ At("settle")
  /\ wake' = FALSE
  /\ Goto(IF wake THEN "resolve" ELSE pump.then)
  /\ UNCHANGED <<worldVars, peopleVars, signal, box, seat, told, sent, client, cut, used>>

ResolveAgain ==
  /\ At("resolve") /\ MuFree
  /\ seat' = [seat EXCEPT !.set = Watchable(seat.role, Now)]
  /\ LET next == Resolved(seat, Now)
     IN  IF next = seat.shown THEN Goto(pump.then)
         ELSE pump' = [pump EXCEPT !.at = "watch", !.target = next, !.cursor = 0]
  /\ UNCHANGED <<worldVars, peopleVars, wake, signal, box, told, sent, client, cut, used>>

\* joinAndSend, and the pump is started.
Join ==
  /\ At("opened")
  /\ pump' = [Down EXCEPT !.at = "start"]
  /\ UNCHANGED <<worldVars, peopleVars, wake, signal, box, seat, told, sent, client, cut, used>>

\* The connection is over: lost, closed, or its credential gone.
Closed == /\ pump' = Down
          /\ seat' = NoSeat
          /\ wake' = FALSE
          /\ signal' = FALSE
          /\ box' = NoBox
          /\ told' = NoSet
          /\ sent' = NoSend

EndConnection ==
  /\ ~At("down")
  /\ Closed
  /\ UNCHANGED <<worldVars, peopleVars, client, cut, used>>

\* From here on no queued frame reaches the client, and nothing has noticed.
CutWire ==
  /\ Registered /\ ~cut /\ used.dials < MaxDials
  /\ cut' = TRUE
  /\ UNCHANGED <<worldVars, peopleVars, seatVars, client, used>>

-----------------------------------------------------------------------------
(* The pump.                                                               *)

\* pumpState.revoked, then step, which has the role just read.
AfterLookup(step) == IF revoked THEN Closed /\ UNCHANGED client ELSE step

Knowing(r) == [seat EXCEPT !.role = r]

\* The opening: the set, then the ViewpointChanged.
Start ==
  /\ At("start")
  /\ AfterLookup(/\ seat' = Knowing(role)
                 /\ told' = seat.set
                 /\ Reaches(OnViewpoint(client, seat.shown))
                 /\ Goto("recheck")
                 /\ UNCHANGED <<wake, signal, box, sent>>)
  /\ UNCHANGED <<worldVars, peopleVars, cut, used>>

TakeWake ==
  /\ At("idle") /\ wake
  /\ wake' = FALSE
  /\ Goto("lookup")
  /\ UNCHANGED <<worldVars, peopleVars, signal, box, seat, told, sent, client, cut, used>>

TakeSignal ==
  /\ At("idle") /\ signal
  /\ signal' = FALSE
  /\ Goto("lookup")
  /\ UNCHANGED <<worldVars, peopleVars, wake, box, seat, told, sent, client, cut, used>>

\* onWake.
Lookup ==
  /\ At("lookup")
  /\ AfterLookup(/\ seat' = Knowing(role)
                 /\ Goto("recheck")
                 /\ UNCHANGED <<wake, signal, box, told, sent, client>>)
  /\ UNCHANGED <<worldVars, peopleVars, cut, used>>

\* recheck, and what moved() does when the seat stays.  An entry admitted is
\* told of after the lookup that follows.
Recheck ==
  /\ At("recheck") /\ MuFree
  /\ seat' = [seat EXCEPT !.judgedAs = seat.role, !.set = Watchable(seat.role, Now)]
  /\ LET next == Resolved(seat, Now)
     IN  IF next = seat.shown
         THEN /\ pump' = [Down EXCEPT !.at = pump.then]
              /\ told' = IF pump.then = "admitted" THEN told ELSE seat'.set
         ELSE /\ pump' = [pump EXCEPT !.at = "watch", !.then = "moved", !.target = next, !.cursor = 0]
              /\ UNCHANGED told
  /\ UNCHANGED <<worldVars, peopleVars, wake, signal, box, sent, client, cut, used>>

\* moved(), of a switch: the credential again, the set, the ViewpointChanged.
Moved ==
  /\ At("moved")
  /\ AfterLookup(/\ seat' = Knowing(role)
                 /\ told' = seat.set
                 /\ Reaches(OnViewpoint(client, seat.shown))
                 /\ pump' = [Down EXCEPT !.at = "idle"]
                 /\ UNCHANGED <<wake, signal, box, sent>>)
  /\ UNCHANGED <<worldVars, peopleVars, cut, used>>

\* perches.take, once its wake is read.
TakePerch ==
  /\ At("idle") /\ box.wake
  /\ box' = [box EXCEPT !.wake = FALSE, !.slot = None]
  /\ IF box.slot = None THEN UNCHANGED pump
     ELSE pump' = [pump EXCEPT !.at = "perch", !.target = box.slot]
  /\ UNCHANGED <<worldVars, peopleVars, wake, signal, seat, told, sent, client, cut, used>>

\* onPerch.
PerchLookup ==
  /\ At("perch")
  /\ AfterLookup(/\ seat' = Knowing(role)
                 /\ pump' = IF pump.target = seat.shown THEN [Down EXCEPT !.at = "idle"]
                            ELSE [pump EXCEPT !.at = "mayWatch"]
                 /\ UNCHANGED <<wake, signal, box, told, sent, client>>)
  /\ UNCHANGED <<worldVars, peopleVars, cut, used>>

\* The right is judged again, by the actors as they are now.
PerchMayWatch ==
  /\ At("mayWatch") /\ MuFree
  /\ pump' = IF MayWatch(seat.role, pump.target, Now)
             THEN [pump EXCEPT !.at = "watch", !.then = "moved"]
             ELSE [Down EXCEPT !.at = "idle"]
  /\ UNCHANGED <<worldVars, peopleVars, wake, signal, box, seat, told, sent, client, cut, used>>

TakeEntry ==
  /\ At("idle") /\ seat.taken < seat.queued
  /\ seat' = [seat EXCEPT !.taken = @ + 1]
  /\ Goto("entry")
  /\ UNCHANGED <<worldVars, peopleVars, wake, signal, box, told, sent, client, cut, used>>

\* onEntry's first lookup.
EntryLookup ==
  /\ At("entry")
  /\ AfterLookup(/\ seat' = Knowing(role)
                 /\ Goto("admit")
                 /\ UNCHANGED <<wake, signal, box, told, sent, client>>)
  /\ UNCHANGED <<worldVars, peopleVars, cut, used>>

\* Mutation: an entry taken is sent, the wake left to the next turn.
AdmitAtOnce ==
  /\ At("admit")
  /\ Goto("admitted")
  /\ UNCHANGED <<worldVars, peopleVars, wake, signal, box, seat, told, sent, client, cut, used>>

\* admit: a waiting wake is read before the entry is sent.
Admit ==
  /\ At("admit")
  /\ wake' = FALSE
  /\ pump' = IF wake THEN [pump EXCEPT !.at = "recheck", !.then = "admitted"]
             ELSE [pump EXCEPT !.at = "admitted"]
  /\ UNCHANGED <<worldVars, peopleVars, signal, box, seat, told, sent, client, cut, used>>

\* Mutation: the entry is sent by the role the seat was judged by.
AdmittedByAnOlderRole ==
  /\ At("admitted")
  /\ AfterLookup(/\ seat' = Knowing(role)
                 /\ told' = seat.set
                 /\ Goto("deliver")
                 /\ UNCHANGED <<wake, signal, box, sent, client>>)
  /\ UNCHANGED <<worldVars, peopleVars, cut, used>>

\* onEntry's second lookup, the set, and rejudge, which asks by the role read
\* last whether that is the role the seat was judged by.
Admitted ==
  /\ At("admitted")
  /\ AfterLookup(/\ seat' = Knowing(role)
                 /\ told' = seat.set
                 /\ pump' = IF role = seat.judgedAs THEN [pump EXCEPT !.at = "deliver"]
                            ELSE [pump EXCEPT !.at = "recheck", !.then = "deliver"]
                 /\ UNCHANGED <<wake, signal, box, sent, client>>)
  /\ UNCHANGED <<worldVars, peopleVars, cut, used>>

\* deliver: the entry enters the connection's queue.
Deliver ==
  /\ At("deliver")
  /\ LET v == logs[seat.shown][seat.taken]
     IN  /\ sent' = [log |-> seat.shown, seq |-> seat.taken, version |-> v,
                     role |-> seat.role, set |-> told]
         /\ Reaches(OnEvent(client, seat.taken, v))
  /\ pump' = [Down EXCEPT !.at = "idle"]
  /\ UNCHANGED <<worldVars, peopleVars, wake, signal, box, seat, told, cut, used>>

-----------------------------------------------------------------------------
(* What the pump races.                                                    *)

\* An append that makes the world w and writes to the logs of to: persisted,
\* applied and the wake raised, c.mu held.
Appends(w, to) ==
  /\ MuFree /\ Len(hist) < MaxHead
  /\ hist' = Append(hist, w)
  /\ logs' = [a \in Actors |-> IF a \in to THEN Append(logs[a], Len(hist')) ELSE logs[a]]
  /\ toNotify' = to
  /\ wake' = ~At("down")
  /\ UNCHANGED <<role, revoked, toSignal, signal, box, seat, pump, told, sent, client, cut, used>>

ChangeWorld == \E w \in Worlds : \E to \in SUBSET w.party : Appends(w, to) /\ UNCHANGED removal

\* NotifyCharacter of one log: queued unless the history read it already.
Notify(a) ==
  /\ a \in toNotify
  /\ toNotify' = toNotify \ {a}
  /\ seat' = IF seat.shown = a /\ seat.queued < Len(logs[a])
             THEN [seat EXCEPT !.queued = Len(logs[a])] ELSE seat
  /\ UNCHANGED <<hist, logs, peopleVars, wake, signal, box, pump, told, sent, client, cut, used>>

\* handlePromotion's SetRole.
Promote ==
  /\ ~revoked /\ used.promotions < MaxPromotions
  /\ role' \in Roles \ {role}
  /\ toSignal' = toSignal + 1
  /\ used' = [used EXCEPT !.promotions = @ + 1]
  /\ UNCHANGED <<worldVars, revoked, removal, seatVars, client, cut>>

\* presenceRegistry.rejudge.
Rejudge == signal' = (signal \/ Registered)

\* The signal that follows SetRole.
PromotionSignals ==
  /\ toSignal > 0
  /\ toSignal' = toSignal - 1
  /\ Rejudge
  /\ UNCHANGED <<worldVars, role, revoked, removal, wake, box, seat, pump, told, sent, client, cut, used>>

Removal(from, to) == removal.at = from /\ removal' = [removal EXCEPT !.at = to]

\* handleRemoval: whom the participant controls is read of a snapshot ...
RemovalReads ==
  /\ MayRemove /\ ~revoked /\ MuFree
  /\ removal.at = "no"
  /\ removal' = [removal EXCEPT !.at = "read", !.actors = Now.mine]
  /\ UNCHANGED <<worldVars, role, revoked, toSignal, seatVars, client, cut, used>>

\* ... the credential is revoked ...
RemovalRevokes ==
  /\ Removal("read", "revoked")
  /\ revoked' = TRUE
  /\ UNCHANGED <<worldVars, role, toSignal, seatVars, client, cut, used>>

\* ... the connections are signalled ...
RemovalSignals ==
  /\ Removal("revoked", "signalled")
  /\ Rejudge
  /\ UNCHANGED <<worldVars, role, revoked, toSignal, wake, box, seat, pump, told, sent, client, cut, used>>

\* ... and a revocation of control appended for each actor, refused if one of
\* them is gone.  Nothing is appended when there is none.
RemovalAppends ==
  /\ removal.at = "signalled" /\ removal.actors # {}
  /\ removal' = [removal EXCEPT !.at = "done", !.version = Len(hist) + 1]
  /\ \E to \in SUBSET Now.party : Appends([Now EXCEPT !.mine = @ \ removal.actors], to)

RemovalEnds ==
  /\ removal.actors \subseteq Now.party => removal.actors = {}
  /\ Removal("signalled", "done")
  /\ UNCHANGED <<worldVars, role, revoked, toSignal, seatVars, client, cut, used>>

\* handleSetViewpoint, authorized by the role and the actors of that moment:
\* perchBox.set fills the slot ...
SetPerch ==
  /\ Registered /\ ~revoked /\ ~box.setting /\ used.perches < MaxPerches
  /\ \E a \in Actors \cup {Nobody} :
       /\ MayWatch(role, a, Now)
       /\ box' = [box EXCEPT !.slot = a, !.setting = TRUE]
  /\ used' = [used EXCEPT !.perches = @ + 1]
  /\ UNCHANGED <<worldVars, peopleVars, wake, signal, seat, pump, told, sent, client, cut>>

\* ... and then raises the wake.
WakePerch ==
  /\ box.setting
  /\ box' = [box EXCEPT !.wake = TRUE, !.setting = FALSE]
  /\ UNCHANGED <<worldVars, peopleVars, wake, signal, seat, pump, told, sent, client, cut, used>>

Open == OpenSeat \/ Watch \/ Settle \/ ResolveAgain \/ Join

Pump == \/ Start \/ TakeWake \/ TakeSignal \/ Lookup \/ Recheck \/ Moved
        \/ TakePerch \/ PerchLookup \/ PerchMayWatch
        \/ TakeEntry \/ EntryLookup \/ Admit \/ Admitted \/ Deliver

Begun == \/ \E a \in Actors : Notify(a)
         \/ PromotionSignals \/ RemovalRevokes \/ RemovalSignals \/ RemovalAppends \/ RemovalEnds
         \/ WakePerch

Next == \/ Dial \/ Open \/ EndConnection \/ CutWire \/ Pump
        \/ ChangeWorld \/ Promote \/ RemovalReads \/ SetPerch \/ Begun

Spec == Init /\ [][Next]_vars

\* Goroutines run, and what has begun is carried through.  Nobody has to dial,
\* append, promote, perch or remove, and no connection has to end.
FairSpec == /\ Spec
            /\ WF_vars(Open \/ Pump)
            /\ \A a \in Actors : WF_vars(Notify(a))
            /\ WF_vars(PromotionSignals) /\ WF_vars(WakePerch)
            /\ WF_vars(RemovalRevokes \/ RemovalSignals \/ RemovalAppends \/ RemovalEnds)

-----------------------------------------------------------------------------
(* Properties.                                                             *)

\* VTT-348, VTT-387: an entry sent is of a log the role read last may watch,
\* judged no earlier than the append that caused the entry.
SentIsWatchable == sent.version > 0 =>
  \E v \in sent.version .. Len(hist) : MayWatch(sent.role, sent.log, hist[v])

\* VTT-400: the set told before an entry is no older than the append that
\* caused it.
SetPrecedesEntry == sent.version > 0 =>
  \E v \in sent.version .. Len(hist), r \in Roles : sent.set = Watchable(r, hist[v])

\* VTT-342, VTT-349, VTT-394 to 398: through switches, cut wires and redials,
\* what the client has folded is the log it believes it holds, from its first
\* entry, with none left out, doubled or of another log.
ClientFoldsOneLog ==
  client.got = IF client.log \in Actors THEN SubSeq(logs[client.log], 1, client.cursor) ELSE <<>>

\* VTT-566, SPEC-009: no frame a removal's batch causes reaches the removed
\* participant's connection: the set it was told last is one of before it.
NothingTheRemovalCaused == removal.version > 0 /\ told # NoSet =>
  \E v \in 1 .. removal.version - 1, r \in Roles : told = Watchable(r, hist[v])

Settled ==
  /\ At("idle") /\ ~revoked /\ box.slot = None
  /\ MayWatch(role, seat.shown, Now)
  /\ told = Watchable(role, Now)
  /\ cut \/ (client.log = seat.shown /\ (seat.shown = Nobody \/ client.got = logs[seat.shown]))

\* VTT-340, VTT-353, VTT-558: once the world, the role and the perches stand
\* still, the connection is gone or its client has the whole of a log it may
\* watch and is told whom it may watch; a removed participant's is gone.
SeatSettles == <>[](At("down") \/ Settled)

=============================================================================
