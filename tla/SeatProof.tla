----------------------------- MODULE SeatProof -----------------------------
(***************************************************************************)
(* What a connection is sent it may watch, the set it is told of first is  *)
(* no older than the entry, and what its client has folded is a prefix of  *)
(* one log: for any actors and any number of versions, dials, promotions   *)
(* and perches.                                                            *)
(*                                                                         *)
(* The argument.  Wherever the pump could take or send an entry, either a  *)
(* wake waits to be read or the seat was judged by the live world (Knows): *)
(* an append raises the wake before it queues its entries, and the pump    *)
(* reads a wake only where the judgment comes next.  The client's cursor   *)
(* is where the seat's subscription stands, or the subscription stands at  *)
(* the beginning of the log, whose first entry resets the client           *)
(* (Follows).                                                              *)
(***************************************************************************)
EXTENDS Seat, SequenceTheorems, WellFoundedInduction, TLAPS

Subscribing == {"watch", "settle", "resolve"}
Opening     == {"settle", "resolve", "opened", "start"}
Holding     == {"entry", "admit", "admitted", "deliver"}
Judging     == {"settle", "opened", "moved", "start", "idle", "perch", "mayWatch"} \cup Holding
Telling     == {"idle", "lookup", "recheck", "perch", "mayWatch"} \cup Holding

\* The pump has taken an entry it has not sent.
Held == pump.at \in Holding \/ (At("recheck") /\ pump.then \in {"admitted", "deliver"})

\* The versions an entry can be caused by, and the log positions.
LogsAreOfVersions ==
  /\ hist # <<>> /\ Len(hist) <= MaxHead
  /\ \A a \in Actors : /\ Len(logs[a]) <= Len(hist)
                       /\ \A i \in 1 .. Len(logs[a]) : logs[a][i] <= Len(hist)

\* Where the pump comes from, and what it has in hand.
PumpIsPlaced ==
  /\ pump.at \in Subscribing => pump.then \in {"opened", "moved"}
  /\ At("opened") => pump.then = "opened"
  /\ pump.at \in {"lookup", "idle", "perch", "mayWatch", "start"} \cup Holding => pump.then = "idle"
  /\ At("recheck") => pump.then \in {"idle", "admitted", "deliver"}
  /\ pump.at \in {"perch", "mayWatch", "idle"} => pump.cursor = 0
  /\ Held => seat.taken > 0
  /\ seat.queued <= IF seat.shown \in Actors THEN Len(logs[seat.shown]) ELSE 0

\* Every signal still to come is of a promotion made.
SignalsArePromotions == toSignal <= used.promotions

Entry == logs[seat.shown][seat.taken]

\* Judged, and the set made, by the live world.
Current(r, a) == /\ MayWatch(r, a, Now)
                 /\ \E s \in Roles : seat.set = Watchable(s, Now)

JudgedSince(r, a, v) == \E n \in v .. Len(hist) : MayWatch(r, a, hist[n])
MadeSince(set, v) == \E n \in v .. Len(hist), r \in Roles : set = Watchable(r, hist[n])

Knows ==
  /\ At("watch") => wake \/ Current(seat.role, pump.target)
  /\ pump.at \in Judging => wake \/ Current(seat.judgedAs, seat.shown)
  /\ pump.at \in {"settle", "resolve"} => seat.judgedAs = seat.role
  /\ At("admitted") => JudgedSince(seat.judgedAs, seat.shown, Entry) /\ MadeSince(seat.set, Entry)
  /\ At("deliver") => JudgedSince(seat.role, seat.shown, Entry) /\ MadeSince(told, Entry)

\* Where the connection stands in the log: the entry in hand is not sent.
Stands == IF Held THEN seat.taken - 1 ELSE seat.taken

Follows ==
  /\ client.cursor <= IF client.log \in Actors THEN Len(logs[client.log]) ELSE 0
  /\ pump.at \in {"dialled", "watch"} =>
       pump.cursor = 0 \/ (client.log = pump.target /\ client.cursor = pump.cursor)
  /\ pump.at \in Opening => seat.taken = 0 \/ (client.log = seat.shown /\ client.cursor = seat.taken)
  /\ At("watch") /\ pump.then = "moved" => pump.cursor = 0
  /\ pump.at \in {"settle", "resolve", "moved"} /\ (pump.then = "moved" \/ At("moved")) => seat.taken = 0
  /\ pump.at \in Telling /\ ~cut =>
       client.log = seat.shown /\ Stands \in {0, client.cursor}

IInv == /\ TypeOK /\ LogsAreOfVersions /\ SignalsArePromotions /\ PumpIsPlaced /\ Knows /\ Follows
        /\ SentIsWatchable /\ SetPrecedesEntry /\ ClientFoldsOneLog

-----------------------------------------------------------------------------
(* Worlds, and who may watch whom.                                         *)

\* A set of naturals has a least element.
LEMMA LeastExists ==
  ASSUME NEW T, T \subseteq Nat, T # {}
  PROVE  \E x \in T : \A y \in T : x <= y
<1>1. PICK x \in T : \A y \in T : <<y, x>> \notin OpToRel(<, Nat)
  BY WFMin, NatLessThanWellFounded, Zenon
<1>2. ASSUME NEW y \in T PROVE ~(y < x)
  <2>1. <<y, x>> \in Nat \X Nat
    OBVIOUS
  <2>2. <<y, x>> \notin {ss \in Nat \X Nat : ss[1] < ss[2]}
    BY <1>1, Zenon DEF OpToRel
  <2> QED BY <2>1, <2>2
<1> QED BY <1>2

LEMMA MinIsIn ==
  ASSUME NEW T, T \subseteq Nat, T # {}
  PROVE  Min(T) \in T
BY LeastExists DEF Min

LEMMA NowIsAWorld ==
  ASSUME TypeOK, hist # <<>>
  PROVE  Now \in Worlds /\ Len(hist) \in Nat \ {0}
BY DEF TypeOK, Now

\* A seat may always watch the default, whoever controls whom.
LEMMA DefaultIsWatchable ==
  ASSUME NEW r \in Roles, NEW w \in Worlds
  PROVE  /\ DefaultViewpoint(r, w) \in Actors \cup {Nobody}
         /\ MayWatch(r, DefaultViewpoint(r, w), w)
<1>1. w.mine \subseteq Actors /\ w.mine \subseteq Nat
  BY SeatAssumption DEF Worlds
<1>2. w.mine # {} => Min(w.mine) \in w.mine
  BY <1>1, MinIsIn
<1> QED BY <1>1, <1>2 DEF DefaultViewpoint, MayWatch, OwnOnly

\* What a seat resolves to it may watch.
LEMMA ResolvedIsWatchable ==
  ASSUME TypeOK, NEW w \in Worlds
  PROVE  /\ Resolved(seat, w) \in Actors \cup {Nobody}
         /\ MayWatch(seat.role, Resolved(seat, w), w)
<1>1. seat.role \in Roles /\ seat.shown \in Actors \cup {Nobody}
  BY DEF TypeOK
<1> QED BY <1>1, DefaultIsWatchable DEF Resolved

LEMMA WatchableIsASet ==
  ASSUME NEW r \in Roles, NEW w \in Worlds
  PROVE  Watchable(r, w) \in Sets
BY DEF Watchable, Worlds, Sets

LEMMA InitIInv == Init => IInv
<1> SUFFICES ASSUME Init PROVE IInv
  OBVIOUS
<1>1. PICK w \in Worlds : hist = <<w>> /\ logs = [a \in Actors |-> IF a \in w.party THEN <<1>> ELSE <<>>]
  BY DEF Init
<1>2. hist \in Seq(Worlds) /\ Len(hist) = 1
  BY <1>1
<1>3. logs \in [Actors -> Seq(1 .. MaxHead)]
  <2>1. <<1>> \in Seq(1 .. MaxHead) /\ <<>> \in Seq(1 .. MaxHead)
    BY SeatAssumption
  <2> QED BY <1>1, <2>1
<1>4. TypeOK
  <2>1. seat = NoSeat /\ pump = Down /\ sent = NoSend /\ box = NoBox /\ told = NoSet
        /\ client = [log |-> None, cursor |-> 0, got |-> <<>>]
        /\ used = [dials |-> 0, promotions |-> 0, perches |-> 0]
        /\ removal = [at |-> "no", actors |-> {}, version |-> 0]
    BY DEF Init
  <2>2. removal \in [at : {"no", "read", "revoked", "signalled", "done"},
                     actors : SUBSET Actors, version : 0 .. MaxHead]
    BY <2>1, SeatAssumption
  <2>3. seat \in [shown : Actors \cup {Nobody}, judgedAs : Roles, role : Roles,
                  set : Sets \cup {NoSet}, taken : 0 .. MaxHead, queued : 0 .. MaxHead]
        /\ seat.taken <= seat.queued
    BY <2>1, SeatAssumption DEF NoSeat, Roles
  <2>4. pump \in [at : Places, target : Actors \cup {Nobody}, cursor : 0 .. MaxHead,
                  then : {"opened", "moved", "idle", "admitted", "deliver"}]
    BY <2>1, SeatAssumption DEF Down, Places
  <2>5. sent \in [log : Actors \cup {Nobody}, seq : 0 .. MaxHead, version : 0 .. MaxHead,
                  role : Roles, set : Sets \cup {NoSet}]
    BY <2>1, SeatAssumption DEF NoSend, Roles
  <2>6. client \in [log : Actors \cup {Nobody, None}, cursor : 0 .. MaxHead, got : Seq(1 .. MaxHead)]
    BY <2>1, SeatAssumption
  <2>7. used \in [dials : 0 .. MaxDials, promotions : 0 .. MaxPromotions, perches : 0 .. MaxPerches]
    BY <2>1, SeatAssumption
  <2>8. box \in [slot : Actors \cup {Nobody, None}, wake : BOOLEAN, setting : BOOLEAN]
    BY <2>1 DEF NoBox
  <2>9. revoked \in BOOLEAN /\ wake \in BOOLEAN /\ signal \in BOOLEAN /\ cut \in BOOLEAN
    BY DEF Init
  <2>10. toNotify \in SUBSET Actors /\ role \in Roles /\ toSignal \in 0 .. MaxPromotions
    BY SeatAssumption DEF Init
  <2> QED BY <1>2, <1>3, <2>1, <2>2, <2>3, <2>4, <2>5, <2>6, <2>7, <2>8, <2>9, <2>10 DEF TypeOK
<1>5. LogsAreOfVersions
  BY <1>1, <1>2, SeatAssumption DEF LogsAreOfVersions
<1>6. PumpIsPlaced /\ Knows /\ Follows
  BY SeatAssumption DEF Init, PumpIsPlaced, Knows, Follows, Down, NoSeat, At, Held, Subscribing, Opening, Holding, Judging, Telling, Nobody, None
<1>7. SentIsWatchable /\ SetPrecedesEntry
  BY DEF Init, NoSend, SentIsWatchable, SetPrecedesEntry
<1>8. ClientFoldsOneLog
  BY SeatAssumption DEF Init, ClientFoldsOneLog, None
<1>9. SignalsArePromotions
  BY DEF Init, SignalsArePromotions
<1> QED BY <1>4, <1>5, <1>6, <1>7, <1>8, <1>9 DEF IInv

-----------------------------------------------------------------------------
(* Types: every variable stays in the set of its values.                   *)

Removals == [at : {"no", "read", "revoked", "signalled", "done"},
             actors : SUBSET Actors, version : 0 .. MaxHead]
Boxes    == [slot : Actors \cup {Nobody, None}, wake : BOOLEAN, setting : BOOLEAN]
Seats    == {s \in [shown : Actors \cup {Nobody}, judgedAs : Roles, role : Roles,
                    set : Sets \cup {NoSet}, taken : 0 .. MaxHead, queued : 0 .. MaxHead] :
               s.taken <= s.queued}
Thens    == {"opened", "moved", "idle", "admitted", "deliver"}
Pumps    == [at : Places, target : Actors \cup {Nobody}, cursor : 0 .. MaxHead, then : Thens]
Sends    == [log : Actors \cup {Nobody}, seq : 0 .. MaxHead, version : 0 .. MaxHead,
             role : Roles, set : Sets \cup {NoSet}]
Clients  == [log : Actors \cup {Nobody, None}, cursor : 0 .. MaxHead, got : Seq(1 .. MaxHead)]
Uses     == [dials : 0 .. MaxDials, promotions : 0 .. MaxPromotions, perches : 0 .. MaxPerches]

WorldTyped  == hist \in Seq(Worlds) /\ logs \in [Actors -> Seq(1 .. MaxHead)] /\ toNotify \in SUBSET Actors
PeopleTyped == role \in Roles /\ revoked \in BOOLEAN /\ toSignal \in 0 .. MaxPromotions /\ removal \in Removals
WakesTyped  == wake \in BOOLEAN /\ signal \in BOOLEAN /\ box \in Boxes
SeatTyped   == seat \in Seats /\ told \in Sets \cup {NoSet}
PumpTyped   == pump \in Pumps
SentTyped   == sent \in Sends
ClientTyped == client \in Clients /\ cut \in BOOLEAN
UsedTyped   == used \in Uses

LEMMA TypeIsByVariable ==
  /\ TypeOK <=> /\ WorldTyped /\ PeopleTyped /\ WakesTyped /\ SeatTyped
                /\ PumpTyped /\ SentTyped /\ ClientTyped /\ UsedTyped
  /\ TypeOK' <=> /\ WorldTyped' /\ PeopleTyped' /\ WakesTyped' /\ SeatTyped'
                 /\ PumpTyped' /\ SentTyped' /\ ClientTyped' /\ UsedTyped'
<1> USE DEF Removals, Boxes, Seats, Thens, Pumps, Sends, Clients, Uses, WorldTyped, PeopleTyped,
            WakesTyped, SeatTyped, PumpTyped, SentTyped, ClientTyped, UsedTyped
<1>1. TypeOK <=> /\ WorldTyped /\ PeopleTyped /\ WakesTyped /\ SeatTyped
                 /\ PumpTyped /\ SentTyped /\ ClientTyped /\ UsedTyped
  BY DEF TypeOK
<1>2. TypeOK' <=> /\ WorldTyped' /\ PeopleTyped' /\ WakesTyped' /\ SeatTyped'
                  /\ PumpTyped' /\ SentTyped' /\ ClientTyped' /\ UsedTyped'
  BY DEF TypeOK
<1> QED BY <1>1, <1>2

\* What the handlers assign, by the set it is of.
LEMMA Assigned ==
  ASSUME TypeOK
  PROVE  /\ \A r \in Roles : Knowing(r) \in Seats
         /\ Down \in Pumps /\ NoSeat \in Seats /\ NoSend \in Sends /\ NoBox \in Boxes
         /\ \A p \in Places : [pump EXCEPT !.at = p] \in Pumps /\ [Down EXCEPT !.at = p] \in Pumps
         /\ Thens \subseteq Places
         /\ \A a \in Actors \cup {Nobody} : OnViewpoint(client, a) \in Clients
         /\ seat.set \in Sets \cup {NoSet} /\ seat.role \in Roles /\ seat.shown \in Actors \cup {Nobody}
         /\ pump.then \in Thens /\ pump.target \in Actors \cup {Nobody} /\ pump.cursor \in 0 .. MaxHead
         /\ pump.at \in Places
<1>1. seat \in Seats /\ pump \in Pumps /\ client \in Clients
  BY TypeIsByVariable DEF SeatTyped, PumpTyped, ClientTyped
<1>2. /\ \A r \in Roles : Knowing(r) \in Seats
      /\ seat.set \in Sets \cup {NoSet} /\ seat.role \in Roles /\ seat.shown \in Actors \cup {Nobody}
  BY <1>1 DEF Knowing, Seats
<1>3. Down \in Pumps /\ Thens \subseteq Places
  BY SeatAssumption DEF Down, Pumps, Places, Thens
<1>4. NoSeat \in Seats /\ NoSend \in Sends /\ NoBox \in Boxes
  BY SeatAssumption DEF NoSeat, Seats, NoSend, Sends, Roles, NoBox, Boxes
<1>5. \A p \in Places : [pump EXCEPT !.at = p] \in Pumps /\ [Down EXCEPT !.at = p] \in Pumps
  BY <1>1, <1>3 DEF Pumps
<1>6. \A a \in Actors \cup {Nobody} : OnViewpoint(client, a) \in Clients
  BY <1>1, SeatAssumption DEF OnViewpoint, Clients
<1>7. /\ pump.then \in Thens /\ pump.target \in Actors \cup {Nobody} /\ pump.cursor \in 0 .. MaxHead
      /\ pump.at \in Places
  BY <1>1 DEF Pumps
<1> QED BY <1>2, <1>3, <1>4, <1>5, <1>6, <1>7

\* What the pump is set to.
LEMMA PumpGoes ==
  ASSUME NEW p \in Pumps, NEW x \in Places
  PROVE  [p EXCEPT !.at = x] \in Pumps
BY DEF Pumps

LEMMA PumpGoesThen ==
  ASSUME NEW p \in Pumps, NEW x \in Places, NEW h \in Thens
  PROVE  [p EXCEPT !.at = x, !.then = h] \in Pumps
BY DEF Pumps

LEMMA PumpAims ==
  ASSUME NEW p \in Pumps, NEW x \in Places, NEW t \in Actors \cup {Nobody}
  PROVE  [p EXCEPT !.at = x, !.target = t] \in Pumps
BY DEF Pumps

LEMMA PumpAimsAfter ==
  ASSUME NEW p \in Pumps, NEW x \in Places, NEW t \in Actors \cup {Nobody}, NEW c \in 0 .. MaxHead
  PROVE  [p EXCEPT !.at = x, !.target = t, !.cursor = c] \in Pumps
BY DEF Pumps

LEMMA PumpAimsThen ==
  ASSUME NEW p \in Pumps, NEW x \in Places, NEW h \in Thens, NEW t \in Actors \cup {Nobody},
         NEW c \in 0 .. MaxHead
  PROVE  [p EXCEPT !.at = x, !.then = h, !.target = t, !.cursor = c] \in Pumps
BY DEF Pumps

\* A step that leaves the world and the people alone.
LEMMA TypesKept ==
  ASSUME TypeOK, UNCHANGED <<worldVars, peopleVars>>,
         wake' \in BOOLEAN, signal' \in BOOLEAN, box' \in Boxes, seat' \in Seats,
         told' \in Sets \cup {NoSet}, pump' \in Pumps, sent' \in Sends, client' \in Clients,
         cut' \in BOOLEAN, used' \in Uses
  PROVE  TypeOK'
<1>1. WorldTyped' /\ PeopleTyped'
  BY TypeIsByVariable DEF WorldTyped, PeopleTyped, worldVars, peopleVars
<1>2. WakesTyped' /\ SeatTyped' /\ PumpTyped' /\ SentTyped' /\ ClientTyped' /\ UsedTyped'
  BY DEF WakesTyped, SeatTyped, PumpTyped, SentTyped, ClientTyped, UsedTyped
<1> QED BY <1>1, <1>2, TypeIsByVariable

\* The sets the variables are of, and what the lemmas on types read.
Typed == /\ TypeOK /\ role \in Roles
         /\ wake \in BOOLEAN /\ signal \in BOOLEAN /\ box \in Boxes
         /\ seat \in Seats /\ told \in Sets \cup {NoSet}
         /\ pump \in Pumps /\ sent \in Sends /\ client \in Clients /\ cut \in BOOLEAN /\ used \in Uses
         /\ Thens \subseteq Places
         /\ seat.set \in Sets \cup {NoSet} /\ seat.role \in Roles /\ seat.shown \in Actors \cup {Nobody}
         /\ pump.at \in Places /\ pump.then \in Thens /\ pump.target \in Actors \cup {Nobody}
         /\ pump.cursor \in 0 .. MaxHead

LEMMA LogsAreTyped ==
  IInv => /\ hist \in Seq(Worlds) /\ logs \in [Actors -> Seq(1 .. MaxHead)]
          /\ Len(hist) \in 0 .. MaxHead /\ \A a \in Actors : Len(logs[a]) \in 0 .. MaxHead
<1> SUFFICES ASSUME IInv
             PROVE  /\ hist \in Seq(Worlds) /\ logs \in [Actors -> Seq(1 .. MaxHead)]
                    /\ Len(hist) \in 0 .. MaxHead /\ \A a \in Actors : Len(logs[a]) \in 0 .. MaxHead
  OBVIOUS
<1>1. hist \in Seq(Worlds) /\ logs \in [Actors -> Seq(1 .. MaxHead)]
  BY TypeIsByVariable DEF IInv, WorldTyped
<1>2. Len(hist) \in Nat /\ \A a \in Actors : Len(logs[a]) \in Nat
  BY <1>1
<1>3. Len(hist) <= MaxHead /\ \A a \in Actors : Len(logs[a]) <= Len(hist)
  BY DEF IInv, LogsAreOfVersions
<1> QED BY <1>1, <1>2, <1>3, SeatAssumption

LEMMA IsTyped == IInv => Typed
BY TypeIsByVariable, Assigned DEF IInv, Typed, WorldTyped, PeopleTyped, WakesTyped, SeatTyped, PumpTyped, SentTyped,
                        ClientTyped, UsedTyped

\* The steps of the openings.
LEMMA OpenTypes ==
  ASSUME IInv, Dial \/ Open
  PROVE  TypeOK'
<1>0. Typed
  BY IsTyped
<1> USE <1>0 DEF Typed
<1>1. CASE Dial
  <2>1. PICK named \in Actors \cup {Nobody, None} :
           pump' = [Down EXCEPT !.at = "dialled", !.target = named, !.cursor = client.cursor]
           /\ named \in IF client.log = None THEN Actors \cup {Nobody} ELSE {client.log}
    <3>1. client.log \in Actors \cup {Nobody, None}
      BY DEF Clients
    <3> QED BY <1>1, <3>1 DEF Dial
  <2>2. pump' \in Pumps
    <3>1. client \in Clients
      OBVIOUS
    <3>2. named \in Actors \cup {Nobody} /\ client.cursor \in 0 .. MaxHead
      BY <2>1, <3>1 DEF Clients
    <3>3. "dialled" \in Places
      BY DEF Places
    <3>4. Down \in Pumps
      BY Assigned
    <3> QED BY <2>1, <3>2, <3>3, <3>4, PumpAimsAfter
  <2>3. seat' \in Seats
    <3>1. seat' = [NoSeat EXCEPT !.role = role, !.judgedAs = role]
      BY <1>1 DEF Dial
    <3>2. NoSeat \in Seats
      BY Assigned
    <3> QED BY <3>1, <3>2 DEF Seats
  <2>4. used' \in Uses
    <3>1. used \in Uses /\ used.dials < MaxDials /\ used' = [used EXCEPT !.dials = @ + 1]
      BY <1>1 DEF Dial
    <3>2. used.dials \in 0 .. MaxDials /\ MaxDials \in Nat
      BY <3>1, SeatAssumption DEF Uses
    <3>3. used.dials + 1 \in 0 .. MaxDials
      BY <3>1, <3>2
    <3> QED BY <3>1, <3>3 DEF Uses
  <2> QED BY <1>1, <2>2, <2>3, <2>4, TypesKept DEF Dial
<1>2. CASE OpenSeat
  <2>1. Now \in Worlds
    BY NowIsAWorld DEF IInv, LogsAreOfVersions
  <2>2. seat' \in Seats
    <3>1. Watchable(seat.role, Now) \in Sets
      BY <2>1, WatchableIsASet
    <3>2. seat' = [seat EXCEPT !.set = Watchable(seat.role, Now)]
      BY <1>2 DEF OpenSeat
    <3> QED BY <3>1, <3>2 DEF Seats
  <2>3. pump' \in Pumps
    <3>1. DefaultViewpoint(seat.role, Now) \in Actors \cup {Nobody}
      BY <2>1, DefaultIsWatchable
    <3>2. /\ 0 \in 0 .. MaxHead /\ pump.cursor \in 0 .. MaxHead
          /\ "watch" \in Places /\ "opened" \in Thens /\ pump \in Pumps
      BY SeatAssumption DEF Places, Thens
    <3>5. \A t \in Actors \cup {Nobody}, c \in 0 .. MaxHead :
             [pump EXCEPT !.at = "watch", !.then = "opened", !.target = t, !.cursor = c] \in Pumps
      BY <3>2, PumpAimsThen
    <3>3. CASE pump.target # Nobody /\ MayWatch(seat.role, pump.target, Now)
      <4>1. pump' = [pump EXCEPT !.at = "watch", !.then = "opened", !.target = pump.target, !.cursor = pump.cursor]
        BY <1>2, <3>3 DEF OpenSeat
      <4> QED BY <3>5, <4>1
    <3>4. CASE ~(pump.target # Nobody /\ MayWatch(seat.role, pump.target, Now))
      <4>1. pump' = [pump EXCEPT !.at = "watch", !.then = "opened",
                       !.target = DefaultViewpoint(seat.role, Now), !.cursor = 0]
        BY <1>2, <3>4 DEF OpenSeat
      <4> QED BY <3>1, <3>2, <3>5, <4>1
    <3> QED BY <3>3, <3>4
  <2> QED BY <1>2, <2>2, <2>3, TypesKept DEF OpenSeat
<1>3. CASE Watch
  <2>1. pump.target \in Actors => Len(logs[pump.target]) \in 0 .. MaxHead
    BY LogsAreTyped
  <2>2. pump.cursor <= IF pump.target = Nobody THEN 0 ELSE Len(logs[pump.target])
    BY <1>3, <2>1, SeatAssumption DEF IInv, Watch, At, Follows, Nobody
  <2>3. seat' \in Seats
    <3> DEFINE q == IF pump.target = Nobody THEN 0 ELSE Len(logs[pump.target])
    <3>1. q \in 0 .. MaxHead /\ pump.cursor \in 0 .. MaxHead /\ pump.cursor <= q
          /\ pump.target \in Actors \cup {Nobody} /\ seat.role \in Roles /\ seat \in Seats
      BY <2>1, <2>2, SeatAssumption
    <3>2. seat' = [seat EXCEPT !.shown = pump.target, !.judgedAs = seat.role, !.taken = pump.cursor, !.queued = q]
      BY <1>3 DEF Watch
    <3> HIDE DEF q
    <3> QED BY <3>1, <3>2 DEF Seats
  <2>4. pump' \in Pumps
    BY <1>3, Assigned DEF Watch, Goto, Places
  <2> QED BY <1>3, <2>3, <2>4, TypesKept DEF Watch
<1>4. CASE Settle
  <2>1. pump' \in Pumps /\ wake' \in BOOLEAN
    <3>1. "resolve" \in Places /\ pump.then \in Places
      BY DEF Places
    <3>2. \A x \in Places : [pump EXCEPT !.at = x] \in Pumps
      BY Assigned
    <3> QED BY <1>4, <3>1, <3>2 DEF Settle, Goto
  <2> QED BY <1>4, <2>1, TypesKept DEF Settle
<1>5. CASE ResolveAgain
  <2>1. Now \in Worlds
    BY NowIsAWorld DEF IInv, LogsAreOfVersions
  <2>2. seat' \in Seats
    BY <1>5, <2>1, WatchableIsASet DEF ResolveAgain, Seats
  <2>3. pump' \in Pumps
    <3>1. Resolved(seat, Now) \in Actors \cup {Nobody}
      BY <2>1, ResolvedIsWatchable
    <3>2. \/ pump' = [pump EXCEPT !.at = pump.then]
          \/ pump' = [pump EXCEPT !.at = "watch", !.target = Resolved(seat, Now), !.cursor = 0]
      BY <1>5 DEF ResolveAgain, Goto
    <3>3. 0 \in 0 .. MaxHead /\ "watch" \in Places
      BY SeatAssumption DEF Places
    <3>5. [pump EXCEPT !.at = pump.then] \in Pumps
      BY Assigned
    <3>4. [pump EXCEPT !.at = "watch", !.target = Resolved(seat, Now), !.cursor = 0] \in Pumps
      BY <3>1, <3>3, PumpAimsAfter
    <3> QED BY <3>2, <3>4, <3>5
  <2> QED BY <1>5, <2>2, <2>3, TypesKept DEF ResolveAgain
<1>6. CASE Join
  <2>1. pump' \in Pumps
    BY <1>6, Assigned DEF Join, Places
  <2> QED BY <1>6, <2>1, TypesKept DEF Join
<1> QED BY <1>1, <1>2, <1>3, <1>4, <1>5, <1>6 DEF Open

\* A pump whose credential is gone leaves nothing behind.
LEMMA ClosedTypes ==
  ASSUME IInv, Closed, UNCHANGED <<worldVars, peopleVars, client, cut, used>>
  PROVE  TypeOK'
<1>1. Typed
  BY IsTyped
<1>2. Down \in Pumps /\ NoSeat \in Seats /\ NoSend \in Sends /\ NoBox \in Boxes
  BY <1>1, Assigned DEF Typed
<1> QED BY <1>1, <1>2, TypesKept DEF Typed, Closed

\* The steps of the pump.
LEMMA PumpTypes ==
  ASSUME IInv, Pump
  PROVE  TypeOK'
<1>0. Typed
  BY IsTyped
<1> USE <1>0 DEF Typed
<1>1. Now \in Worlds
  BY NowIsAWorld DEF IInv, LogsAreOfVersions
<1>2. {"recheck", "lookup", "idle", "entry", "admit", "admitted", "deliver", "watch", "perch", "mayWatch"}
        \subseteq Places
  BY DEF Places
<1>3. CASE Start
  BY <1>3, <1>2, TypesKept, ClosedTypes, Assigned DEF Start, AfterLookup, Goto, Reaches
<1>4. CASE TakeWake
  BY <1>4, <1>2, TypesKept, ClosedTypes, Assigned DEF TakeWake, AfterLookup, Goto, Reaches
<1>5. CASE TakeSignal
  BY <1>5, <1>2, TypesKept, ClosedTypes, Assigned DEF TakeSignal, AfterLookup, Goto, Reaches
<1>6. CASE Lookup
  BY <1>6, <1>2, TypesKept, ClosedTypes, Assigned DEF Lookup, AfterLookup, Goto, Reaches
<1>7. CASE Recheck
  <2>1. seat' \in Seats
    BY <1>7, <1>1, WatchableIsASet DEF Recheck, Seats
  <2>2. Resolved(seat, Now) \in Actors \cup {Nobody}
    BY <1>1, ResolvedIsWatchable
  <2>3. 0 \in 0 .. MaxHead /\ "moved" \in Thens
    BY SeatAssumption DEF Thens
  <2>4. pump' \in Pumps
    <3>1. \/ pump' = [Down EXCEPT !.at = pump.then]
          \/ pump' = [pump EXCEPT !.at = "watch", !.then = "moved", !.target = Resolved(seat, Now), !.cursor = 0]
      BY <1>7 DEF Recheck
    <3>4. [Down EXCEPT !.at = pump.then] \in Pumps
      BY Assigned
    <3>2. pump \in Pumps /\ pump.then \in Places
      OBVIOUS
    <3>3. [pump EXCEPT !.at = "watch", !.then = "moved", !.target = Resolved(seat, Now), !.cursor = 0] \in Pumps
      BY <3>2, <1>2, <2>2, <2>3, PumpAimsThen
    <3> QED BY <3>1, <3>3, <3>4
  <2>5. told' \in Sets \cup {NoSet}
    BY <1>7, <2>1 DEF Recheck, Seats
  <2> QED BY <1>7, <2>1, <2>4, <2>5, TypesKept DEF Recheck
<1>8. CASE Moved
  BY <1>8, <1>2, TypesKept, ClosedTypes, Assigned DEF Moved, AfterLookup, Goto, Reaches
<1>9. CASE TakePerch
  <2>1. pump' \in Pumps
    <3>1. box.slot \in Actors \cup {Nobody, None}
      BY DEF Boxes
    <3>2. \A t \in Actors \cup {Nobody} : [pump EXCEPT !.at = "perch", !.target = t] \in Pumps
      BY <3>1, <1>2, PumpAims
    <3> QED BY <1>9, <3>1, <3>2 DEF TakePerch
  <2>2. box' \in Boxes
    BY <1>9 DEF TakePerch, Boxes
  <2> QED BY <1>9, <2>1, <2>2, TypesKept DEF TakePerch
<1>10. CASE PerchLookup
  BY <1>10, <1>2, TypesKept, ClosedTypes, Assigned DEF PerchLookup, AfterLookup, Goto, Reaches
<1>11. CASE PerchMayWatch
  <2>1. pump' \in Pumps
    <3>1. \/ pump' = [pump EXCEPT !.at = "watch", !.then = "moved"]
          \/ pump' = [Down EXCEPT !.at = "idle"]
      BY <1>11 DEF PerchMayWatch
    <3>2. "moved" \in Thens
      BY DEF Thens
    <3>3. [pump EXCEPT !.at = "watch", !.then = "moved"] \in Pumps
      BY <1>2, <3>2, PumpGoesThen
    <3>4. [Down EXCEPT !.at = "idle"] \in Pumps
      BY <1>2, Assigned
    <3> QED BY <3>1, <3>3, <3>4
  <2> QED BY <1>11, <2>1, TypesKept DEF PerchMayWatch
<1>12. CASE TakeEntry
  <2>1. seat' \in Seats
    <3>1. seat' = [seat EXCEPT !.taken = seat.taken + 1] /\ seat.taken < seat.queued
      BY <1>12 DEF TakeEntry
    <3>2. seat.taken \in 0 .. MaxHead /\ seat.queued \in 0 .. MaxHead
      BY DEF Seats
    <3>3. seat.taken + 1 \in 0 .. MaxHead /\ seat.taken + 1 <= seat.queued
      BY <3>1, <3>2, SeatAssumption
    <3> QED BY <3>1, <3>3 DEF Seats
  <2>2. pump' \in Pumps
    BY <1>12, <1>2, Assigned DEF TakeEntry, Goto
  <2> QED BY <1>12, <2>1, <2>2, TypesKept DEF TakeEntry
<1>13. CASE EntryLookup
  BY <1>13, <1>2, TypesKept, ClosedTypes, Assigned DEF EntryLookup, AfterLookup, Goto, Reaches
<1>14. CASE Admit
  <2>1. pump' \in Pumps
    <3>1. "admitted" \in Thens
      BY DEF Thens
    <3> QED BY <1>14, <1>2, <3>1, PumpGoes, PumpGoesThen DEF Admit
  <2> QED BY <1>14, <2>1, TypesKept DEF Admit
<1>15. CASE Admitted
  <2>1. CASE revoked
    BY <1>15, <2>1, ClosedTypes DEF Admitted, AfterLookup
  <2>2. CASE ~revoked
    <3>1. "deliver" \in Thens
      BY DEF Thens
    <3>2. pump' \in Pumps
      <4>1. \/ pump' = [pump EXCEPT !.at = "deliver"]
            \/ pump' = [pump EXCEPT !.at = "recheck", !.then = "deliver"]
        BY <1>15, <2>2 DEF Admitted, AfterLookup
      <4>2. /\ [pump EXCEPT !.at = "deliver"] \in Pumps
            /\ [pump EXCEPT !.at = "recheck", !.then = "deliver"] \in Pumps
        BY <1>2, <3>1, PumpGoes, PumpGoesThen
      <4> QED BY <4>1, <4>2
    <3>3. seat' \in Seats
      BY <1>15, <2>2, Assigned DEF Admitted, AfterLookup
    <3> QED BY <1>15, <2>2, <3>2, <3>3, TypesKept DEF Admitted, AfterLookup
  <2> QED BY <2>1, <2>2
<1>16. CASE Deliver
  <2>1. /\ seat.shown \in Actors /\ seat.taken \in 1 .. Len(logs[seat.shown])
        /\ seat.taken \in 1 .. MaxHead /\ logs[seat.shown][seat.taken] \in 1 .. MaxHead
    <3>1. seat.taken \in 0 .. MaxHead /\ seat.queued \in 0 .. MaxHead /\ seat.taken <= seat.queued
      BY DEF Seats
    <3>2. seat.taken > 0
      BY <1>16 DEF IInv, Deliver, PumpIsPlaced, Held, Holding, At
    <3>3. seat.shown \in Actors /\ seat.taken \in 1 .. Len(logs[seat.shown])
      BY <3>1, <3>2, LogsAreTyped DEF IInv, PumpIsPlaced
    <3>4. logs[seat.shown] \in Seq(1 .. MaxHead)
      BY <3>3, LogsAreTyped
    <3>5. logs[seat.shown][seat.taken] \in 1 .. MaxHead
      BY <3>3, <3>4, ElementOfSeq
    <3>6. seat.taken \in 1 .. MaxHead
      BY <3>1, <3>2
    <3> QED BY <3>3, <3>5, <3>6
  <2>2. sent' \in Sends
    BY <1>16, <2>1 DEF Deliver, Seats, Sends
  <2>3. OnEvent(client, seat.taken, logs[seat.shown][seat.taken]) \in Clients
    <3> DEFINE v == logs[seat.shown][seat.taken]
    <3>1. client \in Clients /\ seat.taken \in 0 .. MaxHead /\ 1 \in 0 .. MaxHead
      BY <2>1, SeatAssumption
    <3>2. client.got \in Seq(1 .. MaxHead) /\ v \in 1 .. MaxHead
      BY <2>1, <3>1 DEF Clients
    <3>3. Append(client.got, v) \in Seq(1 .. MaxHead) /\ <<v>> \in Seq(1 .. MaxHead)
      BY <3>2
    <3>4. \A n \in 0 .. MaxHead, g \in Seq(1 .. MaxHead) : [client EXCEPT !.cursor = n, !.got = g] \in Clients
      BY <3>1 DEF Clients
    <3> DEFINE n == IF seat.taken > client.cursor THEN seat.taken ELSE client.cursor
    <3>5. n \in 0 .. MaxHead
      BY <3>1 DEF Clients
    <3>6. OnEvent(client, seat.taken, v) = IF seat.taken = 1 /\ client.cursor > 0
            THEN [client EXCEPT !.cursor = 1, !.got = <<v>>]
            ELSE [client EXCEPT !.cursor = n, !.got = Append(client.got, v)]
      BY DEF OnEvent
    <3> HIDE DEF v, n
    <3>7. OnEvent(client, seat.taken, v) \in Clients
      BY <3>1, <3>3, <3>4, <3>5, <3>6
    <3> QED BY <3>7 DEF v
  <2>4. pump' \in Pumps
    BY <1>16, <1>2, Assigned DEF Deliver
  <2> QED BY <1>16, <2>2, <2>3, <2>4, TypesKept DEF Deliver, Reaches
<1> QED BY <1>3, <1>4, <1>5, <1>6, <1>7, <1>8, <1>9, <1>10, <1>11, <1>12, <1>13, <1>14, <1>15, <1>16 DEF Pump

\* What an append leaves of the world and the logs: a version more, and at the
\* end of some logs its number.
LEMMA AppendGrows ==
  ASSUME IInv, NEW w \in Worlds, NEW to \in SUBSET Actors, Appends(w, to)
  PROVE  /\ WorldTyped' /\ LogsAreOfVersions'
         /\ Len(hist') = Len(hist) + 1 /\ Len(hist) \in Nat
         /\ \A n \in 1 .. Len(hist) : hist'[n] = hist[n]
         /\ \A a \in Actors : /\ Len(logs'[a]) \in Len(logs[a]) .. Len(logs[a]) + 1
                              /\ \A i \in 1 .. Len(logs[a]) : logs'[a][i] = logs[a][i]
<1>1. WorldTyped /\ Len(hist) \in Nat /\ Len(hist) < MaxHead
  BY TypeIsByVariable DEF IInv, WorldTyped, Appends
<1>2. /\ hist' \in Seq(Worlds) /\ Len(hist') = Len(hist) + 1
      /\ \A n \in 1 .. Len(hist) : hist'[n] = hist[n]
  BY <1>1 DEF WorldTyped, Appends
<1>3. Len(hist') \in 1 .. MaxHead
  BY <1>1, <1>2, SeatAssumption
<1>4. ASSUME NEW a \in Actors
      PROVE  /\ logs'[a] \in Seq(1 .. MaxHead)
             /\ Len(logs'[a]) \in Len(logs[a]) .. Len(logs[a]) + 1
             /\ \A i \in 1 .. Len(logs[a]) : logs'[a][i] = logs[a][i]
             /\ Len(logs'[a]) <= Len(hist')
             /\ \A i \in 1 .. Len(logs'[a]) : logs'[a][i] <= Len(hist')
  <2>1. logs[a] \in Seq(1 .. MaxHead) /\ Len(logs[a]) <= Len(hist)
        /\ \A i \in 1 .. Len(logs[a]) : logs[a][i] <= Len(hist)
    BY <1>1 DEF IInv, LogsAreOfVersions, WorldTyped
  <2>2. \A i \in 1 .. Len(logs[a]) : logs[a][i] \in 1 .. MaxHead
    BY <2>1, ElementOfSeq
  <2>3. logs'[a] = IF a \in to THEN Append(logs[a], Len(hist')) ELSE logs[a]
    BY DEF Appends
  <2>4. CASE a \in to
    BY <2>1, <2>2, <2>3, <2>4, <1>1, <1>2, <1>3
  <2>5. CASE a \notin to
    BY <2>1, <2>2, <2>3, <2>5, <1>1, <1>2
  <2> QED BY <2>4, <2>5
<1>5. logs' \in [Actors -> Seq(1 .. MaxHead)]
  BY <1>4 DEF Appends
<1>6. toNotify' \in SUBSET Actors
  BY DEF Appends
<1> QED BY <1>1, <1>2, <1>3, <1>4, <1>5, <1>6 DEF WorldTyped, LogsAreOfVersions

\* Every append of the campaign is one of these.
LEMMA AppendsAre ==
  ASSUME IInv, ChangeWorld \/ RemovalAppends
  PROVE  /\ \E w \in Worlds, to \in SUBSET Actors : Appends(w, to)
         /\ removal' \in Removals
<1> USE TypeIsByVariable DEF IInv
<1>1. CASE ChangeWorld
  BY <1>1 DEF ChangeWorld, Worlds, PeopleTyped
<1>2. CASE RemovalAppends
  <2>1. Now \in Worlds /\ Len(hist) \in Nat
    BY NowIsAWorld DEF LogsAreOfVersions
  <2>2. Now.party \subseteq Actors /\ [Now EXCEPT !.mine = @ \ removal.actors] \in Worlds
    BY <2>1 DEF Worlds
  <2>3. \E to \in SUBSET Now.party : Appends([Now EXCEPT !.mine = @ \ removal.actors], to)
    BY <1>2 DEF RemovalAppends
  <2>4. Len(hist) + 1 \in 0 .. MaxHead
    BY <2>1, <2>3, SeatAssumption DEF Appends
  <2>5. removal' \in Removals
    BY <1>2, <2>4 DEF RemovalAppends, PeopleTyped, Removals
  <2> QED BY <2>2, <2>3, <2>5
<1> QED BY <1>1, <1>2

\* The steps that leave the world, the seat and its pump, what was sent and
\* the client alone.
Beside == \/ CutWire \/ Promote \/ PromotionSignals \/ SetPerch \/ WakePerch
          \/ RemovalReads \/ RemovalRevokes \/ RemovalSignals \/ RemovalEnds

LEMMA BesideLeaves ==
  ASSUME Beside
  PROVE  /\ UNCHANGED <<hist, logs, toNotify, wake, seat, pump, told, sent, client>>
         /\ cut' # cut => cut'
BY DEF Beside, CutWire, Promote, PromotionSignals, SetPerch, WakePerch, RemovalReads, RemovalRevokes,
       RemovalSignals, RemovalEnds, worldVars, seatVars, Removal

LEMMA BesideTypes ==
  ASSUME IInv, Beside
  PROVE  TypeOK'
<1> USE TypeIsByVariable DEF IInv
<1>1. WorldTyped' /\ SeatTyped' /\ PumpTyped' /\ SentTyped'
  BY BesideLeaves DEF WorldTyped, SeatTyped, PumpTyped, SentTyped
<1>2. ClientTyped'
  BY BesideLeaves DEF ClientTyped, Beside, CutWire, Promote, PromotionSignals, SetPerch, WakePerch,
     RemovalReads, RemovalRevokes, RemovalSignals, RemovalEnds
<1>3. UsedTyped'
  <2>1. used \in Uses
    BY DEF UsedTyped
  <2>2. \/ used' = used
        \/ used.promotions < MaxPromotions /\ used' = [used EXCEPT !.promotions = @ + 1]
        \/ used.perches < MaxPerches /\ used' = [used EXCEPT !.perches = @ + 1]
    BY DEF Beside, CutWire, Promote, PromotionSignals, SetPerch, WakePerch,
           RemovalReads, RemovalRevokes, RemovalSignals, RemovalEnds
  <2> QED BY <2>1, <2>2, SeatAssumption DEF UsedTyped, Uses
<1>4. WakesTyped'
  <2>1. wake' \in BOOLEAN
    BY BesideLeaves DEF WakesTyped
  <2>2. signal' \in BOOLEAN
    BY DEF Beside, CutWire, Promote, PromotionSignals, SetPerch, WakePerch, WakesTyped, seatVars, Rejudge,
           RemovalReads, RemovalRevokes, RemovalSignals, RemovalEnds
  <2>3. box' \in Boxes
    BY DEF Beside, CutWire, Promote, PromotionSignals, SetPerch, WakePerch, WakesTyped, seatVars, Boxes,
           RemovalReads, RemovalRevokes, RemovalSignals, RemovalEnds
  <2> QED BY <2>1, <2>2, <2>3 DEF WakesTyped
<1>5. role' \in Roles /\ revoked' \in BOOLEAN
  BY DEF Beside, CutWire, Promote, PromotionSignals, SetPerch, WakePerch, PeopleTyped, peopleVars,
         RemovalReads, RemovalRevokes, RemovalSignals, RemovalEnds
<1>6. toSignal' \in 0 .. MaxPromotions
  <2>1. toSignal \in 0 .. MaxPromotions /\ used \in Uses /\ toSignal <= used.promotions
    BY DEF PeopleTyped, UsedTyped, SignalsArePromotions
  <2>2. \/ toSignal' = toSignal
        \/ used.promotions < MaxPromotions /\ toSignal' = toSignal + 1
        \/ toSignal > 0 /\ toSignal' = toSignal - 1
    BY DEF Beside, CutWire, Promote, PromotionSignals, SetPerch, WakePerch, peopleVars,
           RemovalReads, RemovalRevokes, RemovalSignals, RemovalEnds
  <2> QED BY <2>1, <2>2, SeatAssumption DEF Uses
<1>7. removal' \in Removals
  <2>1. Now.mine \subseteq Actors
    BY NowIsAWorld DEF LogsAreOfVersions, Worlds
  <2> QED BY <2>1 DEF Beside, CutWire, Promote, PromotionSignals, SetPerch, WakePerch, PeopleTyped, peopleVars,
                  RemovalReads, RemovalRevokes, RemovalSignals, RemovalEnds, Removal, Removals
<1> QED BY <1>1, <1>2, <1>3, <1>4, <1>5, <1>6, <1>7 DEF PeopleTyped

LEMMA NotifyTypes ==
  ASSUME IInv, NEW a \in Actors, Notify(a)
  PROVE  TypeOK'
<1> USE TypeIsByVariable DEF IInv
<1>1. Len(logs[a]) \in 0 .. MaxHead
  BY SeatAssumption DEF LogsAreOfVersions, WorldTyped
<1>2. seat' \in Seats
  BY <1>1 DEF Notify, SeatTyped, Seats
<1> QED BY <1>2 DEF Notify, WorldTyped, PeopleTyped, WakesTyped, SeatTyped, PumpTyped, SentTyped, ClientTyped,
         UsedTyped, worldVars, peopleVars, seatVars

LEMMA NextTypes ==
  ASSUME IInv, [Next]_vars
  PROVE  TypeOK'
<1>1. CASE ChangeWorld \/ RemovalAppends
  <2>1. PICK w \in Worlds, to \in SUBSET Actors : Appends(w, to)
    BY <1>1, AppendsAre
  <2>2. WorldTyped' /\ removal' \in Removals
    BY <1>1, <2>1, AppendsAre, AppendGrows
  <2> QED BY <2>1, <2>2, TypeIsByVariable DEF IInv, Appends, WorldTyped, PeopleTyped, WakesTyped, SeatTyped, PumpTyped, SentTyped, ClientTyped,
         UsedTyped, worldVars, peopleVars, seatVars
<1>2. CASE EndConnection
  BY <1>2, ClosedTypes DEF EndConnection
<1>3. CASE UNCHANGED vars
  BY <1>3, TypeIsByVariable DEF IInv, vars, WorldTyped, PeopleTyped, WakesTyped, SeatTyped, PumpTyped, SentTyped, ClientTyped,
         UsedTyped, worldVars, peopleVars, seatVars
<1> QED BY <1>1, <1>2, <1>3, OpenTypes, PumpTypes, BesideTypes, NotifyTypes DEF Next, Begun, Beside

-----------------------------------------------------------------------------
(* The versions in the logs, the signals, and where the pump is.           *)

\* Only an append touches the world and the logs.
LEMMA WorldStays ==
  ASSUME [Next]_vars, ~ChangeWorld, ~RemovalAppends
  PROVE  UNCHANGED <<hist, logs>>
BY DEF Next, Open, Pump, Begun, vars, worldVars, AfterLookup, Dial, OpenSeat, Watch, Settle, ResolveAgain,
       Join, EndConnection, CutWire, Start, TakeWake, TakeSignal, Lookup, Recheck, Moved, TakePerch,
       PerchLookup, PerchMayWatch, TakeEntry, EntryLookup, Admit, Admitted, Deliver, Notify, Promote,
       PromotionSignals, RemovalReads, RemovalRevokes, RemovalSignals, RemovalEnds, SetPerch, WakePerch

LEMMA NextLogs ==
  ASSUME IInv, [Next]_vars
  PROVE  LogsAreOfVersions'
<1>1. CASE ChangeWorld \/ RemovalAppends
  BY <1>1, AppendsAre, AppendGrows
<1>2. CASE UNCHANGED <<hist, logs>>
  BY <1>2 DEF IInv, LogsAreOfVersions
<1> QED BY <1>1, <1>2, WorldStays

LEMMA NextSignals ==
  ASSUME IInv, [Next]_vars
  PROVE  SignalsArePromotions'
<1>1. toSignal \in Nat /\ used \in Uses /\ toSignal <= used.promotions
  BY TypeIsByVariable, SeatAssumption DEF IInv, SignalsArePromotions, PeopleTyped, UsedTyped
<1>2. CASE Promote
  BY <1>1, <1>2 DEF Promote, SignalsArePromotions, Uses
<1>3. CASE PromotionSignals
  BY <1>1, <1>3 DEF PromotionSignals, SignalsArePromotions, Uses
<1>4. CASE toSignal' = toSignal /\ used'.promotions = used.promotions
  BY <1>1, <1>4 DEF SignalsArePromotions
<1>5. CASE Dial \/ SetPerch
  BY <1>1, <1>4, <1>5 DEF Dial, SetPerch, peopleVars, Uses
<1>6. CASE UNCHANGED <<toSignal, used>>
  BY <1>4, <1>6
<1>7. Promote \/ PromotionSignals \/ Dial \/ SetPerch \/ UNCHANGED <<toSignal, used>>
  BY DEF Next, Open, Pump, Begun, vars, peopleVars, AfterLookup, OpenSeat, Watch, Settle, ResolveAgain,
       Join, EndConnection, CutWire, Start, TakeWake, TakeSignal, Lookup, Recheck, Moved, TakePerch,
       PerchLookup, PerchMayWatch, TakeEntry, EntryLookup, Admit, Admitted, Deliver, Notify, ChangeWorld,
       Appends, RemovalReads, RemovalRevokes, RemovalSignals, RemovalAppends, RemovalEnds, WakePerch
<1> QED BY <1>2, <1>3, <1>5, <1>6, <1>7

\* Where the steps of the connection leave the pump.
LEMMA ConnectionPlaced ==
  ASSUME IInv, TypeOK', Dial \/ Open \/ EndConnection \/ Pump
  PROVE  PumpIsPlaced'
<1>1. /\ seat \in Seats /\ pump \in Pumps /\ client \in Clients
      /\ seat' \in Seats /\ pump' \in Pumps
  BY TypeIsByVariable DEF IInv, SeatTyped, PumpTyped, ClientTyped
<1> USE SeatAssumption
    DEF IInv, PumpIsPlaced, Subscribing, Held, Holding, Down, NoSeat, Nobody, Knowing, Seats, Pumps, Thens,
        Places, At, Goto, worldVars, AfterLookup, Closed
<1>2. CASE Dial
  <2>1. pump'.at = "dialled" /\ seat'.queued = 0
    BY <1>2 DEF Dial
  <2>2. seat'.shown = Nobody
    BY <1>2 DEF Dial
  <2> QED BY <2>1, <2>2
<1>3. CASE OpenSeat
  BY <1>1, <1>3 DEF OpenSeat
<1>4. CASE Watch
  BY <1>1, <1>4 DEF Watch, Follows
<1>5. CASE Settle
  BY <1>1, <1>5 DEF Settle
<1>6. CASE Join
  BY <1>1, <1>6 DEF Join
<1>7. CASE EndConnection
  BY <1>1, <1>7 DEF EndConnection
<1>8. CASE Start
  BY <1>1, <1>8 DEF Start
<1>9. CASE TakeWake
  BY <1>1, <1>9 DEF TakeWake
<1>10. CASE TakeSignal
  BY <1>1, <1>10 DEF TakeSignal
<1>11. CASE Lookup
  BY <1>1, <1>11 DEF Lookup
<1>12. CASE Moved
  BY <1>1, <1>12 DEF Moved
<1>13. CASE PerchLookup
  BY <1>1, <1>13 DEF PerchLookup
<1>14. CASE PerchMayWatch
  BY <1>1, <1>14 DEF PerchMayWatch
<1>15. CASE TakeEntry
  BY <1>1, <1>15 DEF TakeEntry
<1>16. CASE EntryLookup
  BY <1>1, <1>16 DEF EntryLookup
<1>17. CASE Admit
  BY <1>1, <1>17 DEF Admit
<1>18. CASE Deliver
  BY <1>1, <1>18 DEF Deliver
<1>19. CASE ResolveAgain
  <2>1. pump.then \in {"opened", "moved"} /\ seat' = [seat EXCEPT !.set = Watchable(seat.role, Now)] /\ logs' = logs
    BY <1>19 DEF ResolveAgain
  <2>2. seat'.queued = seat.queued /\ seat'.shown = seat.shown
    BY <1>1, <2>1
  <2>3. CASE pump' = [pump EXCEPT !.at = pump.then]
    BY <1>1, <1>19, <2>1, <2>2, <2>3
  <2>4. CASE pump' = [pump EXCEPT !.at = "watch", !.target = Resolved(seat, Now), !.cursor = 0]
    BY <1>1, <2>1, <2>2, <2>4
  <2> QED BY <1>19, <2>3, <2>4 DEF ResolveAgain
<1>20. CASE Recheck
  <2>1. /\ pump.then \in {"idle", "admitted", "deliver"} /\ logs' = logs
        /\ seat' = [seat EXCEPT !.judgedAs = seat.role, !.set = Watchable(seat.role, Now)]
        /\ pump.then \in {"admitted", "deliver"} => seat.taken > 0
    BY <1>20 DEF Recheck
  <2>2. seat'.queued = seat.queued /\ seat'.shown = seat.shown /\ seat'.taken = seat.taken
    BY <1>1, <2>1
  <2>3. CASE pump' = [Down EXCEPT !.at = pump.then]
    BY <1>1, <2>1, <2>2, <2>3
  <2>4. CASE pump' = [pump EXCEPT !.at = "watch", !.then = "moved", !.target = Resolved(seat, Now), !.cursor = 0]
    BY <1>1, <2>1, <2>2, <2>4
  <2> QED BY <1>20, <2>3, <2>4 DEF Recheck
<1>21. CASE TakePerch
  <2>1. pump.then = "idle" /\ pump.cursor = 0 /\ UNCHANGED <<seat, logs>>
    BY <1>21 DEF TakePerch
  <2>2. CASE pump' = pump
    BY <2>1, <2>2
  <2>3. CASE pump' = [pump EXCEPT !.at = "perch", !.target = box.slot]
    BY <1>1, <2>1, <2>3
  <2> QED BY <1>21, <2>2, <2>3 DEF TakePerch
<1>22. CASE Admitted
  <2>1. CASE revoked
    BY <1>22, <2>1 DEF Admitted
  <2>2. CASE ~revoked
    <3>1. pump.then = "idle" /\ seat.taken > 0 /\ seat' = [seat EXCEPT !.role = role] /\ logs' = logs
      BY <1>22, <2>2 DEF Admitted
    <3>2. seat'.queued = seat.queued /\ seat'.shown = seat.shown /\ seat'.taken = seat.taken
      BY <1>1, <3>1
    <3>3. CASE pump' = [pump EXCEPT !.at = "deliver"]
      BY <1>1, <3>1, <3>2, <3>3
    <3>4. CASE pump' = [pump EXCEPT !.at = "recheck", !.then = "deliver"]
      BY <1>1, <3>1, <3>2, <3>4
    <3> QED BY <1>22, <2>2, <3>3, <3>4 DEF Admitted
  <2> QED BY <2>1, <2>2
<1> QED BY <1>2, <1>3, <1>4, <1>5, <1>6, <1>7, <1>8, <1>9, <1>10, <1>11, <1>12, <1>13, <1>14, <1>15, <1>16, <1>17, <1>18, <1>19, <1>20, <1>21, <1>22 DEF Open, Pump

LEMMA NextPlaced ==
  ASSUME IInv, [Next]_vars, TypeOK'
  PROVE  PumpIsPlaced'
<1>1. /\ seat \in Seats /\ seat' \in Seats /\ pump' \in Pumps
      /\ \A a \in Actors : Len(logs[a]) \in Nat
  BY TypeIsByVariable DEF IInv, SeatTyped, PumpTyped, WorldTyped
<1>2. CASE ChangeWorld \/ RemovalAppends
  <2>1. UNCHANGED <<seat, pump>>
    BY <1>2 DEF ChangeWorld, RemovalAppends, Appends
  <2>2. \A a \in Actors : Len(logs'[a]) \in Nat /\ Len(logs'[a]) >= Len(logs[a])
    BY <1>1, <1>2, AppendsAre, AppendGrows
  <2> QED BY <1>1, <2>1, <2>2 DEF IInv, PumpIsPlaced, Held, At, Seats
<1>3. ASSUME NEW a \in Actors, Notify(a)
      PROVE  PumpIsPlaced'
  BY <1>1, <1>3 DEF Notify, IInv, PumpIsPlaced, Held, At, Seats
<1>4. CASE Beside
  BY <1>4, BesideLeaves DEF IInv, PumpIsPlaced, Held, At
<1>5. CASE UNCHANGED vars
  BY <1>5 DEF vars, seatVars, worldVars, IInv, PumpIsPlaced, Held, At
<1> QED BY <1>2, <1>3, <1>4, <1>5, ConnectionPlaced DEF Next, Begun, Beside

-----------------------------------------------------------------------------
(* What the pump knows: a wake waits, or the judgment is of the live world. *)

\* An entry in hand is in the log, and of a version there is.
LEMMA EntryInHand ==
  ASSUME IInv, Held
  PROVE  /\ seat.shown \in Actors /\ seat.taken \in 1 .. Len(logs[seat.shown])
         /\ Entry \in 1 .. Len(hist)
<1>1. /\ seat.taken \in 0 .. MaxHead /\ seat.queued \in 0 .. MaxHead /\ seat.taken <= seat.queued
      /\ WorldTyped
  BY TypeIsByVariable DEF IInv, SeatTyped, Seats
<1>2. seat.taken > 0 /\ seat.queued <= IF seat.shown \in Actors THEN Len(logs[seat.shown]) ELSE 0
  BY DEF IInv, PumpIsPlaced
<1>3. seat.shown \in Actors /\ seat.taken \in 1 .. Len(logs[seat.shown])
  BY <1>1, <1>2 DEF WorldTyped
<1>4. logs[seat.shown] \in Seq(1 .. MaxHead) /\ logs[seat.shown][seat.taken] <= Len(hist)
  BY <1>1, <1>3 DEF IInv, LogsAreOfVersions, WorldTyped
<1>5. Entry \in 1 .. MaxHead
  BY <1>3, <1>4, ElementOfSeq DEF Entry
<1>6. Len(hist) \in Nat
  BY <1>1 DEF WorldTyped
<1> QED BY <1>3, <1>4, <1>5, <1>6 DEF Entry

\* A judgment by the live world is of every version so far.
LEMMA CurrentIsSince ==
  ASSUME TypeOK, hist # <<>>, NEW v \in 1 .. Len(hist), NEW r, NEW a, Current(r, a)
  PROVE  JudgedSince(r, a, v) /\ MadeSince(seat.set, v)
<1>1. Len(hist) \in v .. Len(hist)
  BY NowIsAWorld
<1> QED BY <1>1 DEF Current, Now, JudgedSince, MadeSince

\* What the steps of the connection leave the pump knowing.
LEMMA ConnectionKnows ==
  ASSUME IInv, TypeOK', Dial \/ Open \/ EndConnection \/ Pump
  PROVE  Knows'
<1>1. /\ seat \in Seats /\ pump \in Pumps /\ seat' \in Seats /\ pump' \in Pumps
  BY TypeIsByVariable DEF IInv, SeatTyped, PumpTyped
<1>2. /\ Now \in Worlds /\ Len(hist) \in Nat \ {0} /\ TypeOK /\ hist # <<>>
  BY NowIsAWorld DEF IInv, LogsAreOfVersions
<1>3. /\ Resolved(seat, Now) \in Actors \cup {Nobody}
      /\ MayWatch(seat.role, Resolved(seat, Now), Now)
  BY <1>2, ResolvedIsWatchable
<1>4. \A r \in Roles : MayWatch(r, DefaultViewpoint(r, Now), Now)
  BY <1>2, DefaultIsWatchable
<1>5. Held /\ Current(seat.judgedAs, seat.shown) =>
        JudgedSince(seat.judgedAs, seat.shown, Entry) /\ MadeSince(seat.set, Entry)
  BY <1>2, EntryInHand, CurrentIsSince
<1>6. PumpIsPlaced /\ Knows
  BY DEF IInv
<1> USE DEF PumpIsPlaced, Knows, Now, Current, JudgedSince, MadeSince, Entry, Judging, Subscribing, Held,
            Holding, Down, NoSeat, Knowing, Seats, Pumps, Thens, Places, At, Goto, worldVars, peopleVars,
            AfterLookup, Closed
<1>7. CASE Dial
  <2>1. pump'.at = "dialled"
    BY <1>7 DEF Dial
  <2> QED BY <2>1
<1>8. CASE Watch
  BY <1>1, <1>2, <1>5, <1>6, <1>8 DEF Watch
<1>9. CASE Settle
  BY <1>1, <1>2, <1>5, <1>6, <1>9 DEF Settle
<1>10. CASE Join
  BY <1>1, <1>2, <1>5, <1>6, <1>10 DEF Join
<1>11. CASE EndConnection
  BY <1>1, <1>2, <1>5, <1>6, <1>11 DEF EndConnection
<1>12. CASE Start
  BY <1>1, <1>2, <1>5, <1>6, <1>12 DEF Start
<1>13. CASE TakeWake
  BY <1>1, <1>2, <1>5, <1>6, <1>13 DEF TakeWake
<1>14. CASE TakeSignal
  BY <1>1, <1>2, <1>5, <1>6, <1>14 DEF TakeSignal
<1>15. CASE Lookup
  BY <1>1, <1>2, <1>5, <1>6, <1>15 DEF Lookup
<1>16. CASE PerchLookup
  BY <1>1, <1>2, <1>5, <1>6, <1>16 DEF PerchLookup
<1>17. CASE PerchMayWatch
  BY <1>1, <1>2, <1>5, <1>6, <1>17 DEF PerchMayWatch
<1>18. CASE TakeEntry
  BY <1>1, <1>2, <1>5, <1>6, <1>18 DEF TakeEntry
<1>19. CASE Admit
  BY <1>1, <1>2, <1>5, <1>6, <1>19 DEF Admit
<1>20. CASE Deliver
  BY <1>1, <1>2, <1>5, <1>6, <1>20 DEF Deliver
<1>21. CASE OpenSeat
  <2>1. /\ seat' = [seat EXCEPT !.set = Watchable(seat.role, Now)] /\ hist' = hist
        /\ MayWatch(seat.role, pump'.target, Now) /\ pump'.at = "watch"
    BY <1>1, <1>4, <1>21 DEF OpenSeat
  <2> QED BY <1>1, <2>1
<1>22. CASE ResolveAgain
  <2>1. /\ seat' = [seat EXCEPT !.set = Watchable(seat.role, Now)] /\ hist' = hist
        /\ seat.judgedAs = seat.role /\ pump.then \in {"opened", "moved"}
    BY <1>6, <1>22 DEF ResolveAgain
  <2>2. /\ seat'.set = Watchable(seat.role, Now) /\ seat'.role = seat.role /\ seat'.judgedAs = seat.role
        /\ seat'.shown = seat.shown /\ seat.role \in Roles
    BY <1>1, <2>1
  <2>3. CASE Resolved(seat, Now) = seat.shown /\ pump' = [pump EXCEPT !.at = pump.then]
    BY <1>1, <1>3, <2>1, <2>2, <2>3
  <2>4. CASE pump' = [pump EXCEPT !.at = "watch", !.target = Resolved(seat, Now), !.cursor = 0]
    BY <1>1, <1>3, <2>1, <2>2, <2>4
  <2> QED BY <1>22, <2>3, <2>4 DEF ResolveAgain
<1>23. CASE Recheck
  <2>1. /\ seat' = [seat EXCEPT !.judgedAs = seat.role, !.set = Watchable(seat.role, Now)]
        /\ UNCHANGED <<hist, logs>> /\ pump.then \in {"idle", "admitted", "deliver"}
    BY <1>6, <1>23 DEF Recheck
  <2>2. /\ seat'.set = Watchable(seat.role, Now) /\ seat'.role = seat.role /\ seat'.judgedAs = seat.role
        /\ seat'.shown = seat.shown /\ seat'.taken = seat.taken /\ seat.role \in Roles
    BY <1>1, <2>1
  <2>3. CASE Resolved(seat, Now) = seat.shown
    <3>1. pump' = [Down EXCEPT !.at = pump.then]
          /\ told' = IF pump.then = "admitted" THEN told ELSE seat'.set
      BY <1>23, <2>3 DEF Recheck
    <3>2. Current(seat.judgedAs, seat.shown)'
      BY <1>3, <2>1, <2>2, <2>3
    <3>3. CASE pump.then = "idle"
      BY <1>1, <3>1, <3>2, <3>3
    <3>4. CASE pump.then \in {"admitted", "deliver"}
      <4>1. Entry \in 1 .. Len(hist) /\ Entry' = Entry
        BY <1>23, <2>1, <2>2, <3>4, EntryInHand DEF Recheck
      <4>2. JudgedSince(seat.role, seat.shown, Entry)' /\ MadeSince(seat.set, Entry)'
        <5>1. Len(hist) \in Entry .. Len(hist)
          BY <1>2, <4>1
        <5> HIDE DEF Entry
        <5> QED BY <1>3, <2>1, <2>2, <2>3, <4>1, <5>1
      <4>3. pump.then = "deliver" => told' = seat'.set
        BY <3>1
      <4> HIDE DEF Entry, JudgedSince, MadeSince, Current
      <4> QED BY <1>1, <2>2, <3>1, <3>2, <3>4, <4>2, <4>3
    <3> QED BY <2>1, <3>3, <3>4
  <2>4. CASE Resolved(seat, Now) # seat.shown
    <3>1. pump' = [pump EXCEPT !.at = "watch", !.then = "moved", !.target = Resolved(seat, Now), !.cursor = 0]
      BY <1>23, <2>4 DEF Recheck
    <3> QED BY <1>1, <1>3, <2>1, <2>2, <3>1
  <2> QED BY <2>3, <2>4
<1>24. CASE Moved \/ EntryLookup
  <2>1. CASE revoked
    <3>1. Moved => pump'.at = "down"
      BY <2>1 DEF Moved
    <3>2. EntryLookup => pump'.at = "down"
      BY <2>1 DEF EntryLookup
    <3> QED BY <1>24, <3>1, <3>2
  <2>2. CASE ~revoked
    <3>1. /\ seat' = [seat EXCEPT !.role = role] /\ UNCHANGED <<hist, wake>>
          /\ pump'.at \in {"idle", "admit"}
      BY <1>1, <1>24, <2>2 DEF Moved, EntryLookup
    <3>2. seat'.judgedAs = seat.judgedAs /\ seat'.shown = seat.shown /\ seat'.set = seat.set
      BY <1>1, <3>1
    <3>3. wake \/ Current(seat.judgedAs, seat.shown)
      BY <1>6, <1>24 DEF Moved, EntryLookup
    <3> QED BY <3>1, <3>2, <3>3
  <2> QED BY <2>1, <2>2
<1>25. CASE TakePerch
  <2>1. UNCHANGED <<seat, hist, wake>> /\ (wake \/ Current(seat.judgedAs, seat.shown))
        /\ pump'.at \in {"idle", "perch"}
    BY <1>1, <1>6, <1>25 DEF TakePerch
  <2> QED BY <2>1
<1>26. CASE Admitted
  <2>1. CASE revoked
    BY <1>26, <2>1 DEF Admitted
  <2>2. CASE ~revoked
    <3>1. /\ seat' = [seat EXCEPT !.role = role] /\ UNCHANGED <<hist, logs, wake>> /\ told' = seat.set
          /\ \/ pump'.at = "deliver" /\ role = seat.judgedAs
             \/ pump'.at = "recheck"
      BY <1>1, <1>26, <2>2 DEF Admitted
    <3>2. /\ seat'.judgedAs = seat.judgedAs /\ seat'.shown = seat.shown /\ seat'.set = seat.set
          /\ seat'.taken = seat.taken /\ seat'.role = role
      BY <1>1, <3>1
    <3>3. /\ wake \/ Current(seat.judgedAs, seat.shown)
          /\ JudgedSince(seat.judgedAs, seat.shown, Entry) /\ MadeSince(seat.set, Entry)
      BY <1>6, <1>26 DEF Admitted
    <3> QED BY <3>1, <3>2, <3>3
  <2> QED BY <2>1, <2>2
<1> QED BY <1>7, <1>8, <1>9, <1>10, <1>11, <1>12, <1>13, <1>14, <1>15, <1>16, <1>17, <1>18, <1>19, <1>20, <1>21, <1>22, <1>23, <1>24, <1>25, <1>26 DEF Open, Pump

LEMMA NextKnows ==
  ASSUME IInv, [Next]_vars, TypeOK'
  PROVE  Knows'
<1>1. CASE ChangeWorld \/ RemovalAppends
  <2>1. PICK w \in Worlds, to \in SUBSET Actors : Appends(w, to)
    BY <1>1, AppendsAre
  <2>2. UNCHANGED <<seat, pump, told>> /\ wake' = ~At("down")
    BY <2>1 DEF Appends
  <2>3. Len(hist') = Len(hist) + 1 /\ Len(hist) \in Nat /\ \A m \in 1 .. Len(hist) : hist'[m] = hist[m]
    BY <2>1, AppendGrows
  <2>4. ASSUME Held
        PROVE  /\ Entry \in 1 .. Len(hist) /\ Entry' = Entry
               /\ \A r, a : JudgedSince(r, a, Entry) => JudgedSince(r, a, Entry)'
               /\ \A set : MadeSince(set, Entry) => MadeSince(set, Entry)'
    <3>1. Entry \in 1 .. Len(hist) /\ Entry' = Entry
      BY <2>1, <2>2, <2>4, EntryInHand, AppendGrows DEF Entry
    <3> DEFINE v == Entry
    <3>2. v \in 1 .. Len(hist) /\ v' = v
      BY <3>1
    <3>3. /\ \A r, a : JudgedSince(r, a, v) => JudgedSince(r, a, v)'
          /\ \A set : MadeSince(set, v) => MadeSince(set, v)'
      <4>1. \A m \in v .. Len(hist) : m \in v .. Len(hist') /\ hist'[m] = hist[m]
        BY <2>3, <3>2
      <4> HIDE DEF v
      <4> QED BY <3>2, <4>1 DEF JudgedSince, MadeSince
    <3> QED BY <3>1, <3>3
  <2>5. At("admitted") \/ At("deliver") => Held
    BY DEF At, Held, Holding
  <2>6. ~At("down") => wake'
    BY <2>2
  <2> QED BY <2>2, <2>4, <2>5, <2>6 DEF IInv, Knows, At, Judging, Holding
<1>2. ASSUME NEW a \in Actors, Notify(a)
      PROVE  Knows'
  <2>1. seat \in Seats /\ UNCHANGED <<hist, logs, pump, wake, told>>
    BY <1>2, TypeIsByVariable DEF IInv, SeatTyped, Notify
  <2>2. /\ seat'.shown = seat.shown /\ seat'.judgedAs = seat.judgedAs /\ seat'.role = seat.role
        /\ seat'.set = seat.set /\ seat'.taken = seat.taken
    BY <1>2, <2>1 DEF Notify, Seats
  <2> QED BY <2>1, <2>2 DEF IInv, Knows, At, Current, Now, JudgedSince, MadeSince, Entry
<1>3. CASE Beside
  BY <1>3, BesideLeaves DEF IInv, Knows, At, Current, Now, JudgedSince, MadeSince, Entry
<1>4. CASE UNCHANGED vars
  BY <1>4 DEF vars, seatVars, worldVars, IInv, Knows, At, Current, Now, JudgedSince, MadeSince, Entry
<1> QED BY <1>1, <1>2, <1>3, <1>4, ConnectionKnows DEF Next, Begun, Beside

-----------------------------------------------------------------------------
(* The client follows the subscription.                                    *)

LEMMA ConnectionFollows ==
  ASSUME IInv, TypeOK', PumpIsPlaced', Dial \/ Open \/ EndConnection \/ Pump
  PROVE  Follows'
<1>1. /\ seat \in Seats /\ pump \in Pumps /\ client \in Clients
      /\ seat' \in Seats /\ pump' \in Pumps /\ client' \in Clients
  BY TypeIsByVariable DEF IInv, SeatTyped, PumpTyped, ClientTyped
<1>2. Held => /\ seat.shown \in Actors /\ seat.taken \in 1 .. Len(logs[seat.shown])
  BY EntryInHand
<1>3. PumpIsPlaced /\ Follows
  BY DEF IInv
<1> USE SeatAssumption
    DEF PumpIsPlaced, Follows, Stands, OnViewpoint, OnEvent, Opening, Telling, Subscribing, Held, Holding,
        Down, NoSeat, Knowing, Reaches, Seats, Pumps, Clients, Thens, Places, Nobody, None, At, Goto,
        worldVars, peopleVars, AfterLookup, Closed
<1>4. CASE Dial
  <2>1. PICK named \in IF client.log = None THEN Actors \cup {Nobody} ELSE {client.log} :
           pump' = [Down EXCEPT !.at = "dialled", !.target = named, !.cursor = client.cursor]
    BY <1>4 DEF Dial
  <2>2. client.log = None => client.cursor = 0
    BY <1>1, <1>3
  <2>3. client.log = None \/ client.log = named
    BY <2>1
  <2>4. pump'.at = "dialled" /\ pump'.target = named /\ pump'.cursor = client.cursor
    BY <2>1
  <2>5. UNCHANGED <<client, logs>>
    BY <1>4 DEF Dial
  <2> QED BY <1>3, <2>2, <2>3, <2>4, <2>5
<1>5. CASE OpenSeat
  BY <1>1, <1>2, <1>3, <1>5 DEF OpenSeat
<1>6. CASE Watch
  BY <1>1, <1>2, <1>3, <1>6 DEF Watch
<1>7. CASE Settle
  BY <1>1, <1>2, <1>3, <1>7 DEF Settle
<1>8. CASE Join
  BY <1>1, <1>2, <1>3, <1>8 DEF Join
<1>9. CASE EndConnection
  BY <1>1, <1>2, <1>3, <1>9 DEF EndConnection
<1>10. CASE TakeWake
  BY <1>1, <1>2, <1>3, <1>10 DEF TakeWake
<1>11. CASE TakeSignal
  BY <1>1, <1>2, <1>3, <1>11 DEF TakeSignal
<1>12. CASE PerchLookup
  <2>1. CASE revoked
    BY <1>3, <1>12, <2>1 DEF PerchLookup
  <2>2. CASE ~revoked
    <3>1. /\ seat' = [seat EXCEPT !.role = role] /\ UNCHANGED <<logs, cut, client>>
          /\ pump'.at \in {"idle", "mayWatch"}
      BY <1>1, <1>12, <2>2 DEF PerchLookup
    <3>2. seat'.shown = seat.shown /\ seat'.taken = seat.taken
      BY <1>1, <3>1
    <3>3. pump.at = "perch" /\ Stands = seat.taken
      BY <1>12 DEF PerchLookup
    <3>4. Stands' = seat'.taken
      BY <3>1
    <3> HIDE DEF Stands
    <3> QED BY <1>3, <3>1, <3>2, <3>3, <3>4
  <2> QED BY <2>1, <2>2
<1>13. CASE PerchMayWatch
  BY <1>1, <1>2, <1>3, <1>13 DEF PerchMayWatch
<1>14. CASE TakeEntry
  BY <1>1, <1>2, <1>3, <1>14 DEF TakeEntry
<1>15. CASE Admit
  BY <1>1, <1>2, <1>3, <1>15 DEF Admit
<1>16. CASE Deliver
  BY <1>1, <1>2, <1>3, <1>16 DEF Deliver
<1>17. CASE Start \/ Moved
  <2>1. CASE revoked
    <3>1. Start => Follows'
      BY <1>3, <2>1 DEF Start
    <3>2. Moved => Follows'
      BY <1>3, <2>1 DEF Moved
    <3> QED BY <1>17, <3>1, <3>2
  <2>2. CASE ~revoked
    <3>1. /\ seat' = [seat EXCEPT !.role = role] /\ UNCHANGED <<logs, cut>>
          /\ client' = IF cut THEN client ELSE OnViewpoint(client, seat.shown)
          /\ pump'.at \in {"recheck", "idle"} /\ pump'.then = "idle"
      <4>1. CASE Start
        <5>1. /\ pump.at = "start" /\ pump' = [pump EXCEPT !.at = "recheck"]
              /\ seat' = [seat EXCEPT !.role = role] /\ UNCHANGED <<logs, cut>>
              /\ client' = IF cut THEN client ELSE OnViewpoint(client, seat.shown)
          BY <2>2, <4>1 DEF Start
        <5>2. pump'.at = "recheck" /\ pump'.then = pump.then
          BY <1>1, <5>1
        <5>3. pump.then = "idle"
          BY <1>3, <5>1
        <5> QED BY <5>1, <5>2, <5>3
      <4>2. CASE Moved
        BY <1>1, <1>3, <2>2, <4>2 DEF Moved
      <4> QED BY <1>17, <4>1, <4>2
    <3>2. seat'.shown = seat.shown /\ seat'.taken = seat.taken /\ seat.taken \in Nat
      BY <1>1, <3>1
    <3>3. seat.taken = 0 \/ (client.log = seat.shown /\ client.cursor = seat.taken)
      BY <1>3, <1>17 DEF Start, Moved
    <3>4. CASE cut
      BY <1>1, <1>3, <3>1, <3>4
    <3>5. CASE ~cut
      <4>1. /\ client'.log = seat.shown
            /\ client' = client \/ (client'.cursor = 0 /\ client.log # seat.shown)
        BY <1>1, <3>1, <3>5
      <4>2. client'.cursor <= IF client'.log \in Actors THEN Len(logs[client'.log]) ELSE 0
        <5>1. \A a \in Actors : Len(logs[a]) \in Nat
          BY TypeIsByVariable DEF IInv, WorldTyped
        <5> QED BY <1>1, <1>3, <4>1, <5>1
      <4>3. Stands' = seat.taken
        BY <3>1, <3>2
      <4> HIDE DEF OnViewpoint
      <4> QED BY <3>1, <3>2, <3>3, <4>1, <4>2, <4>3
    <3> QED BY <3>4, <3>5
  <2> QED BY <2>1, <2>2
<1>18. CASE Lookup \/ EntryLookup \/ Admitted
  <2>1. CASE revoked
    <3>1. Lookup => pump'.at = "down" /\ UNCHANGED <<client, logs>>
      BY <2>1 DEF Lookup
    <3>2. EntryLookup => pump'.at = "down" /\ UNCHANGED <<client, logs>>
      BY <2>1 DEF EntryLookup
    <3>3. Admitted => pump'.at = "down" /\ UNCHANGED <<client, logs>>
      BY <2>1 DEF Admitted
    <3>4. pump'.at = "down" /\ UNCHANGED <<client, logs>>
      BY <1>18, <3>1, <3>2, <3>3
    <3> QED BY <1>3, <3>4
  <2>2. CASE ~revoked
    <3>1. /\ seat' = [seat EXCEPT !.role = role] /\ UNCHANGED <<logs, cut, client>>
          /\ pump'.at \in Telling /\ Held' = Held
      <4>1. CASE Lookup
        <5>1. /\ pump.at = "lookup" /\ pump' = [pump EXCEPT !.at = "recheck"]
              /\ seat' = [seat EXCEPT !.role = role] /\ UNCHANGED <<logs, cut, client>>
          BY <2>2, <4>1 DEF Lookup
        <5>2. pump'.at = "recheck" /\ pump'.then = pump.then
          BY <1>1, <5>1
        <5>3. pump.then = "idle"
          BY <1>3, <5>1
        <5> QED BY <5>1, <5>2, <5>3
      <4>2. CASE EntryLookup
        BY <1>1, <1>3, <2>2, <4>2 DEF EntryLookup
      <4>3. CASE Admitted
        <5>1. /\ pump.at = "admitted"
              /\ pump' \in {[pump EXCEPT !.at = "deliver"], [pump EXCEPT !.at = "recheck", !.then = "deliver"]}
              /\ seat' = [seat EXCEPT !.role = role] /\ UNCHANGED <<logs, cut, client>>
          BY <2>2, <4>3 DEF Admitted
        <5>2. pump'.at = "deliver" \/ (pump'.at = "recheck" /\ pump'.then = "deliver")
          BY <1>1, <5>1
        <5> QED BY <5>1, <5>2
      <4> QED BY <1>18, <4>1, <4>2, <4>3
    <3>2. seat'.shown = seat.shown /\ seat'.taken = seat.taken
      BY <1>1, <3>1
    <3>3. pump.at \in Telling
      BY <1>18 DEF Lookup, EntryLookup, Admitted
    <3>4. Stands' = Stands
      BY <3>1, <3>2
    <3>5. pump'.at \notin {"dialled", "watch", "settle", "resolve", "opened", "start", "moved"}
      BY <3>1
    <3> HIDE DEF Stands
    <3> QED BY <1>3, <3>1, <3>2, <3>3, <3>4, <3>5
  <2> QED BY <2>1, <2>2
<1>19. CASE TakePerch
  <2>1. UNCHANGED <<seat, client, cut, logs>> /\ pump'.at \in {"idle", "perch"}
    <3>1. /\ UNCHANGED <<seat, client, cut, logs>>
          /\ pump.at = "idle" /\ (pump' = pump \/ pump' = [pump EXCEPT !.at = "perch", !.target = box.slot])
      BY <1>19 DEF TakePerch
    <3> QED BY <1>1, <3>1
  <2>2. Stands' = Stands
    BY <1>19, <2>1 DEF TakePerch
  <2> HIDE DEF Stands
  <2> QED BY <1>3, <1>19, <2>1, <2>2 DEF TakePerch
<1>20. CASE Recheck
  <2>1. /\ seat' = [seat EXCEPT !.judgedAs = seat.role, !.set = Watchable(seat.role, Now)]
        /\ UNCHANGED <<client, cut, logs>> /\ pump.then \in {"idle", "admitted", "deliver"}
    BY <1>3, <1>20 DEF Recheck
  <2>2. seat'.shown = seat.shown /\ seat'.taken = seat.taken
    BY <1>1, <2>1
  <2>3. CASE pump' = [Down EXCEPT !.at = pump.then]
    <3>1. Held' = Held /\ pump'.at \in {"idle", "admitted", "deliver"}
      BY <1>20, <2>1, <2>3 DEF Recheck
    <3>2. Stands' = Stands
      BY <2>2, <3>1
    <3> HIDE DEF Stands
    <3> QED BY <1>3, <1>20, <2>1, <2>2, <3>1, <3>2 DEF Recheck
  <2>4. CASE pump' = [pump EXCEPT !.at = "watch", !.then = "moved", !.target = Resolved(seat, Now), !.cursor = 0]
    <3>1. pump'.at = "watch" /\ pump'.cursor = 0
      BY <1>1, <2>4
    <3> QED BY <1>3, <2>1, <3>1
  <2> QED BY <1>20, <2>3, <2>4 DEF Recheck
<1>21. CASE ResolveAgain
  <2>1. /\ seat' = [seat EXCEPT !.set = Watchable(seat.role, Now)]
        /\ UNCHANGED <<client, cut, logs>> /\ pump.then \in {"opened", "moved"}
    BY <1>3, <1>21 DEF ResolveAgain
  <2>2. seat'.shown = seat.shown /\ seat'.taken = seat.taken
    BY <1>1, <2>1
  <2>3. CASE pump' = [pump EXCEPT !.at = pump.then]
    <3>1. pump'.at = pump.then /\ pump'.then = pump.then
      BY <1>1, <2>3
    <3> QED BY <1>3, <1>21, <2>1, <2>2, <3>1 DEF ResolveAgain
  <2>4. CASE pump' = [pump EXCEPT !.at = "watch", !.target = Resolved(seat, Now), !.cursor = 0]
    <3>1. pump'.at = "watch" /\ pump'.cursor = 0
      BY <1>1, <2>4
    <3> QED BY <1>3, <2>1, <3>1
  <2> QED BY <1>21, <2>3, <2>4 DEF ResolveAgain
<1> QED BY <1>4, <1>5, <1>6, <1>7, <1>8, <1>9, <1>10, <1>11, <1>12, <1>13, <1>14, <1>15, <1>16, <1>17, <1>18, <1>19, <1>20, <1>21 DEF Open, Pump

LEMMA NextFollows ==
  ASSUME IInv, [Next]_vars, TypeOK', PumpIsPlaced'
  PROVE  Follows'
<1>1. /\ seat \in Seats /\ client \in Clients /\ \A a \in Actors : Len(logs[a]) \in Nat
  BY TypeIsByVariable DEF IInv, SeatTyped, ClientTyped, WorldTyped
<1>2. CASE ChangeWorld \/ RemovalAppends
  <2>1. UNCHANGED <<seat, pump, client, cut>>
    BY <1>2 DEF ChangeWorld, RemovalAppends, Appends
  <2>2. \A a \in Actors : Len(logs'[a]) \in Nat /\ Len(logs'[a]) >= Len(logs[a])
    BY <1>1, <1>2, AppendsAre, AppendGrows
  <2> QED BY <1>1, <2>1, <2>2 DEF IInv, Follows, Stands, Held, At, Clients
<1>3. ASSUME NEW a \in Actors, Notify(a)
      PROVE  Follows'
  <2>1. UNCHANGED <<logs, pump, client, cut>> /\ seat'.shown = seat.shown /\ seat'.taken = seat.taken
    BY <1>1, <1>3 DEF Notify, Seats
  <2> QED BY <2>1 DEF IInv, Follows, Stands, Held, At
<1>4. CASE Beside
  BY <1>4, BesideLeaves DEF IInv, Follows, Stands, Held, At
<1>5. CASE UNCHANGED vars
  BY <1>5 DEF vars, seatVars, worldVars, IInv, Follows, Stands, Held, At
<1> QED BY <1>2, <1>3, <1>4, <1>5, ConnectionFollows DEF Next, Begun, Beside

-----------------------------------------------------------------------------
(* The properties.                                                         *)

\* Of all steps only the delivery of an entry, and the end of the connection,
\* touch what was sent last; only the opening, a move and a delivery touch the
\* client.
LEMMA WhoSends ==
  ASSUME [Next]_vars
  PROVE  /\ Deliver \/ sent' = NoSend \/ sent' = sent
         /\ Deliver \/ client' = client \/ client' = OnViewpoint(client, seat.shown)
BY DEF Next, Open, Pump, Begun, vars, worldVars, seatVars, AfterLookup, Closed, Reaches, Dial, OpenSeat, Watch,
       Settle, ResolveAgain, Join, EndConnection, CutWire, Start, TakeWake, TakeSignal, Lookup, Recheck, Moved,
       TakePerch, PerchLookup, PerchMayWatch, TakeEntry, EntryLookup, Admit, Admitted, Notify, ChangeWorld,
       Appends, Promote, PromotionSignals, RemovalReads, RemovalRevokes, RemovalSignals, RemovalAppends,
       RemovalEnds, SetPerch, WakePerch

\* Versions are only added.
LEMMA VersionsStay ==
  ASSUME IInv, [Next]_vars
  PROVE  /\ Len(hist) \in Nat /\ Len(hist') \in Nat /\ Len(hist) <= Len(hist')
         /\ \A n \in 1 .. Len(hist) : hist'[n] = hist[n]
<1>1. Len(hist) \in Nat
  BY NowIsAWorld DEF IInv, LogsAreOfVersions
<1>2. CASE ChangeWorld \/ RemovalAppends
  BY <1>1, <1>2, AppendsAre, AppendGrows
<1>3. CASE UNCHANGED hist
  BY <1>1, <1>3
<1> QED BY <1>2, <1>3, WorldStays

LEMMA NextSent ==
  ASSUME IInv, [Next]_vars
  PROVE  SentIsWatchable' /\ SetPrecedesEntry'
<1>1. CASE sent' = sent
  <2>1. SentIsWatchable /\ SetPrecedesEntry /\ sent \in Sends
    BY TypeIsByVariable DEF IInv, SentTyped
  <2>2. sent.version \in Nat
    BY <2>1, SeatAssumption DEF Sends
  <2>3. sent.version > 0 => \A n \in sent.version .. Len(hist) : n \in sent.version .. Len(hist') /\ hist'[n] = hist[n]
    BY <2>2, VersionsStay
  <2> QED BY <1>1, <2>1, <2>3 DEF SentIsWatchable, SetPrecedesEntry
<1>2. CASE sent' = NoSend
  BY <1>2 DEF NoSend, SentIsWatchable, SetPrecedesEntry
<1>3. CASE Deliver
  <2>1. Held /\ JudgedSince(seat.role, seat.shown, Entry) /\ MadeSince(told, Entry)
    BY <1>3 DEF Deliver, At, Held, Holding, IInv, Knows
  <2>2. sent' = [log |-> seat.shown, seq |-> seat.taken, version |-> Entry, role |-> seat.role, set |-> told]
        /\ hist' = hist
    BY <1>3 DEF Deliver, Entry, worldVars
  <2> QED BY <2>1, <2>2 DEF SentIsWatchable, SetPrecedesEntry, JudgedSince, MadeSince
<1> QED BY <1>1, <1>2, <1>3, WhoSends

LEMMA ConcatIsAppend ==
  ASSUME NEW S, NEW s \in Seq(S), NEW e \in S
  PROVE  s \o <<e>> = Append(s, e)
<1>1. <<e>> \in Seq(S) /\ Len(<<e>>) = 1 /\ <<e>>[1] = e
  OBVIOUS
<1>2. /\ s \o <<e>> \in Seq(S) /\ Len(s \o <<e>>) = Len(s) + 1
      /\ \A i \in 1 .. Len(s) + 1 : (s \o <<e>>)[i] = IF i <= Len(s) THEN s[i] ELSE <<e>>[i - Len(s)]
  BY <1>1, ConcatProperties
<1>3. Append(s, e) \in Seq(S) /\ Len(Append(s, e)) = Len(s) + 1 /\ Len(s) \in Nat
      /\ \A i \in 1 .. Len(s) + 1 : Append(s, e)[i] = IF i <= Len(s) THEN s[i] ELSE e
  OBVIOUS
<1>4. \A i \in 1 .. Len(s) + 1 : (s \o <<e>>)[i] = Append(s, e)[i]
  BY <1>1, <1>2, <1>3
<1> QED BY <1>2, <1>3, <1>4, SeqEqual

\* An entry that follows where the client stands, or the first, extends what
\* it has folded of the log by that entry.
LEMMA DeliveryExtends ==
  ASSUME IInv, Deliver, ~cut
  PROVE  ClientFoldsOneLog'
<1> DEFINE log == logs[seat.shown]
           n == seat.taken
<1>1. seat.shown \in Actors /\ n \in 1 .. Len(log) /\ log \in Seq(1 .. MaxHead)
  BY EntryInHand, TypeIsByVariable DEF IInv, WorldTyped, Deliver, At, Held, Holding
<1>2. client.log = seat.shown /\ n - 1 \in {0, client.cursor} /\ client \in Clients /\ client.cursor \in Nat
  BY TypeIsByVariable, SeatAssumption
     DEF IInv, Follows, Telling, Holding, Stands, Held, Deliver, At, ClientTyped, Clients
<1>3. client.got = SubSeq(log, 1, client.cursor)
  BY <1>1, <1>2 DEF IInv, ClientFoldsOneLog
<1>4. client' = OnEvent(client, n, log[n]) /\ logs' = logs
  BY DEF Deliver, Reaches, worldVars
<1> HIDE DEF log, n
<1>5. SubSeq(log, 1, n) = SubSeq(log, 1, n - 1) \o <<log[n]>>
  <2>1. 1 \in 1 .. Len(log) /\ n \in 1 .. Len(log)
    BY <1>1
  <2> QED BY <1>1, <2>1, SubSeqRecursiveSecond
<1>6. SubSeq(log, 1, 0) = <<>>
  BY SubSeqEmpty
<1>7. log[n] \in 1 .. MaxHead /\ SubSeq(log, 1, n - 1) \in Seq(1 .. MaxHead)
  <2>1. \A i \in 1 .. Len(log) : log[i] \in 1 .. MaxHead
    BY <1>1, ElementOfSeq
  <2>2. \A i \in 1 .. n - 1 : log[i] \in 1 .. MaxHead
    BY <1>1, <2>1
  <2>3. n - 1 \in Int /\ 1 \in Int
    BY <1>1
  <2>4. SubSeq(log, 1, n - 1) \in Seq(1 .. MaxHead)
    BY <2>2, <2>3, SubSeqProperties
  <2> QED BY <1>1, <2>1, <2>4
<1>8. SubSeq(log, 1, n - 1) \o <<log[n]>> = Append(SubSeq(log, 1, n - 1), log[n])
  BY <1>7, ConcatIsAppend
<1>9. client'.log = seat.shown /\ client'.cursor = n /\ client'.got = SubSeq(log, 1, n)
  <2>1. CASE n = 1 /\ client.cursor > 0
    <3>1. client' = [client EXCEPT !.cursor = 1, !.got = <<log[n]>>]
      BY <1>4, <2>1 DEF OnEvent
    <3>2. SubSeq(log, 1, n) = <<log[n]>>
      <4>1. SubSeq(log, 1, n - 1) = <<>>
        BY <1>6, <2>1
      <4>2. <<log[n]>> \in Seq(1 .. MaxHead)
        BY <1>7
      <4> QED BY <1>5, <4>1, <4>2, ConcatEmptySeq
    <3> QED BY <1>2, <2>1, <3>1, <3>2 DEF Clients
  <2>2. CASE ~(n = 1 /\ client.cursor > 0)
    <3>1. client.cursor = n - 1 /\ n > client.cursor
      BY <1>1, <1>2, <2>2
    <3>2. client' = [client EXCEPT !.cursor = n, !.got = Append(client.got, log[n])]
      BY <1>4, <2>2, <3>1 DEF OnEvent
    <3>3. client.got = SubSeq(log, 1, n - 1)
      BY <1>3, <3>1
    <3> QED BY <1>2, <1>5, <1>8, <3>2, <3>3 DEF Clients
  <2> QED BY <2>1, <2>2
<1> QED BY <1>1, <1>4, <1>9 DEF ClientFoldsOneLog, log

\* What the client folded stays a prefix of a log that only grows.
LEMMA FoldedStays ==
  ASSUME IInv, [Next]_vars, client' = client
  PROVE  ClientFoldsOneLog'
<1>1. /\ client.cursor \in Nat /\ ClientFoldsOneLog
      /\ client.cursor <= IF client.log \in Actors THEN Len(logs[client.log]) ELSE 0
      /\ logs \in [Actors -> Seq(1 .. MaxHead)]
  BY TypeIsByVariable, SeatAssumption DEF IInv, Follows, ClientTyped, Clients, WorldTyped
<1>2. CASE UNCHANGED logs
  BY <1>1, <1>2 DEF ClientFoldsOneLog
<1>3. CASE ChangeWorld \/ RemovalAppends
  <2>1. CASE client.log \in Actors
    <3> DEFINE log == logs[client.log]
               grown == logs'[client.log]
    <3>1. /\ log \in Seq(1 .. MaxHead) /\ grown \in Seq(1 .. MaxHead) /\ client.cursor \in 0 .. Len(log)
          /\ Len(log) <= Len(grown) /\ \A i \in 1 .. Len(log) : grown[i] = log[i]
      BY <1>1, <1>3, <2>1, AppendsAre, AppendGrows DEF WorldTyped
    <3> HIDE DEF log, grown
    <3>2. \A i \in 1 .. client.cursor : log[i] \in 1 .. MaxHead /\ grown[i] = log[i]
      <4>1. \A i \in 1 .. Len(log) : log[i] \in 1 .. MaxHead
        BY <3>1, ElementOfSeq
      <4>2. Len(log) \in Nat
        BY <3>1
      <4> QED BY <3>1, <4>1, <4>2
    <3>3. SubSeq(grown, 1, client.cursor) = SubSeq(log, 1, client.cursor)
      <4>1. /\ SubSeq(log, 1, client.cursor) \in Seq(1 .. MaxHead)
            /\ SubSeq(grown, 1, client.cursor) \in Seq(1 .. MaxHead)
            /\ Len(SubSeq(log, 1, client.cursor)) = client.cursor
            /\ Len(SubSeq(grown, 1, client.cursor)) = client.cursor
            /\ \A i \in 1 .. client.cursor : /\ SubSeq(log, 1, client.cursor)[i] = log[i]
                                             /\ SubSeq(grown, 1, client.cursor)[i] = grown[i]
        BY <1>1, <3>1, <3>2, SubSeqProperties
      <4> QED BY <3>2, <4>1, SeqEqual
    <3> QED BY <1>1, <2>1, <3>3 DEF ClientFoldsOneLog, log, grown
  <2>2. CASE client.log \notin Actors
    BY <1>1, <2>2 DEF ClientFoldsOneLog
  <2> QED BY <2>1, <2>2
<1> QED BY <1>2, <1>3, WorldStays

LEMMA NextFolds ==
  ASSUME IInv, [Next]_vars
  PROVE  ClientFoldsOneLog'
<1>1. CASE client' = client
  BY <1>1, FoldedStays
<1>2. CASE client' = OnViewpoint(client, seat.shown) /\ client' # client
  <2>1. client' = [log |-> seat.shown, cursor |-> 0, got |-> <<>>]
    BY <1>2 DEF OnViewpoint
  <2>2. \A s : SubSeq(s, 1, 0) = <<>>
    BY SubSeqEmpty
  <2> QED BY <2>1, <2>2 DEF ClientFoldsOneLog
<1>3. CASE Deliver /\ client' # client
  BY <1>3, DeliveryExtends DEF Deliver, Reaches
<1> QED BY <1>1, <1>2, <1>3, WhoSends

\* The inductive invariant.
THEOREM IInvHolds == Spec => []IInv
<1>1. IInv /\ [Next]_vars => IInv'
  BY NextTypes, NextLogs, NextSignals, NextPlaced, NextKnows, NextFollows, NextSent, NextFolds DEF IInv
<1> QED BY <1>1, InitIInv, PTL DEF Spec

\* Every variable of the seat keeps its type: in particular a subscription is
\* never ahead of what was queued for it.
THEOREM TypeCorrect == Spec => []TypeOK
<1>1. IInv => TypeOK
  BY DEF IInv
<1> QED BY <1>1, IInvHolds, PTL

\* VTT-348, VTT-387: whatever appends, promotions and perches come between the
\* judgment of the seat and the sending of an entry, the entry sent is of a log
\* its role might watch no earlier than the append that caused it.
THEOREM NothingUnwatchableIsSent == Spec => []SentIsWatchable
<1>1. IInv => SentIsWatchable
  BY DEF IInv
<1> QED BY <1>1, IInvHolds, PTL

\* VTT-400: the set of watchable actors the connection was told of is never
\* older than the append that caused the entry sent after it.
THEOREM TheSetIsToldFirst == Spec => []SetPrecedesEntry
<1>1. IInv => SetPrecedesEntry
  BY DEF IInv
<1> QED BY <1>1, IInvHolds, PTL

\* VTT-342, VTT-349, VTT-394 to 398: through any number of switches, cut wires
\* and redials the client has folded a prefix of the log it names.
THEOREM TheClientFoldsOneLog == Spec => []ClientFoldsOneLog
<1>1. IInv => ClientFoldsOneLog
  BY DEF IInv
<1> QED BY <1>1, IInvHolds, PTL

=============================================================================
