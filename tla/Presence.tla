------------------------------ MODULE Presence ------------------------------
(***************************************************************************)
(* Who is at the table: the presence registry, src/internal/gateway/       *)
(* presence.go, and the announcements of gateway/server.go that use it.    *)
(*                                                                         *)
(* The registry's lock r.mu is held by one atomic action.  The lock fanOut *)
(* is held by one announcement from its look at the registry to its last   *)
(* send, each of them bounded by the send budget.  What a connection is    *)
(* sent is the order frames enter its queue in, which is the order its     *)
(* client folds them in: view is that fold.  A presence frame that cannot  *)
(* be encoded is sent to nobody and is not modelled.                       *)
(***************************************************************************)
EXTENDS Integers, FiniteSets

CONSTANTS Conns,        \* connections, each made once
          Promotions,   \* promote_participant commands, each run once
          Participants,
          Owner,        \* Owner[c]: the participant on connection c
          Stalled,      \* connections whose queue takes no announcement
          Nobody        \* no announcement

ASSUME PresenceAssumption ==
  /\ Conns \cap Promotions = {}
  /\ Owner \in [Conns -> Participants]
  /\ Stalled \subseteq Conns
  /\ Nobody \notin Conns \cup Promotions

Announcers == Conns \cup Promotions

VARIABLES
  conns,   \* presenceRegistry.conns
  counts,  \* presenceRegistry.counts
  view,    \* view[c]: who the frames queued for c, while registered, say is present
  fanOut,  \* which announcement holds the lock, or Nobody
  stage,   \* stage[x]: where x is
  about,   \* about[m]: whom promotion m promotes
  deny,    \* deny[x]: the revoked participants x has resolved
  targets, \* targets[x]: connections x has still to send to
  revoked  \* the participants whose Lookup is ErrInvalidToken

vars == <<conns, counts, view, fanOut, stage, about, deny, targets, revoked>>
announceVars == <<fanOut, stage, deny, targets>>

\* Of a connection, "up" is between its arrival and its departure.
Stages == {"new", "resolving", "waiting", "sending", "up", "done"}

TypeOK ==
  /\ conns \in SUBSET Conns
  /\ counts \in [Participants -> Nat]
  /\ view \in [Conns -> SUBSET Participants]
  /\ fanOut \in Announcers \cup {Nobody}
  /\ stage \in [Announcers -> Stages]
  /\ about \in [Promotions -> Participants]
  /\ deny \in [Announcers -> SUBSET Participants]
  /\ targets \in [Announcers -> SUBSET Conns]
  /\ revoked \in SUBSET Participants

Init ==
  /\ conns = {}
  /\ counts = [p \in Participants |-> 0]
  /\ view = [c \in Conns |-> {}]
  /\ fanOut = Nobody
  /\ stage = [x \in Announcers |-> "new"]
  /\ about \in [Promotions -> Participants]
  /\ deny = [x \in Announcers |-> {}]
  /\ targets = [x \in Announcers |-> {}]
  /\ revoked = {}

Here(S) == {Owner[c] : c \in S}
About(x) == IF x \in Conns THEN Owner[x] ELSE about[x]

\* What x says of About(x): a connection still registered announces arrival.
SaysPresent(x) == x \in conns \cup Promotions

Goto(x, from, to) == stage[x] = from /\ stage' = [stage EXCEPT ![x] = to]

\* Where x goes when its announcement is over.
Over(x) == IF x \in conns THEN "up" ELSE "done"
Forget(x) == deny' = [deny EXCEPT ![x] = {}]

-----------------------------------------------------------------------------
(* Connections come and go.                                                *)

\* joinAndSend: registered, counted, and sent the snapshot, in one hold of
\* r.mu.  Only a participant's first connection goes on to announce.  The
\* token was verified earlier, so its holder may be revoked by now.
JoinAndSend(c) ==
  LET p == Owner[c] IN
  /\ Goto(c, "new", IF counts[p] = 0 THEN "resolving" ELSE "up")
  /\ conns' = conns \cup {c}
  /\ counts' = [counts EXCEPT ![p] = @ + 1]
  /\ view' = [view EXCEPT ![c] = Here(conns')]
  /\ UNCHANGED <<fanOut, about, deny, targets, revoked>>

\* Mutation: leave does not look whether the connection is registered.
LeaveUnchecked(c) ==
  LET p == Owner[c] IN
  /\ c \in conns \/ stage[c] = "done"
  /\ stage' = [stage EXCEPT ![c] = IF counts[p] <= 1 THEN "resolving" ELSE "done"]
  /\ conns' = conns \ {c}
  /\ counts' = [counts EXCEPT ![p] = @ - 1]
  /\ view' = [view EXCEPT ![c] = {}]
  /\ UNCHANGED <<fanOut, about, deny, targets, revoked>>

\* leave: unregistered, done closed, and the count put down; only the last
\* connection of a participant goes on to announce.  A second call finds the
\* connection gone and does nothing.
Leave(c) ==
  LET p == Owner[c] IN
  /\ c \in conns
  /\ Goto(c, "up", IF counts[p] = 1 THEN "resolving" ELSE "done")
  /\ conns' = conns \ {c}
  /\ counts' = [counts EXCEPT ![p] = @ - 1]
  /\ view' = [view EXCEPT ![c] = {}]
  /\ UNCHANGED <<fanOut, about, deny, targets, revoked>>

\* handlePromotion, which refused a revoked target, has set the role.
Promote(m) ==
  /\ about[m] \notin revoked
  /\ Goto(m, "new", "resolving")
  /\ UNCHANGED <<conns, counts, view, fanOut, about, deny, targets, revoked>>

Revoke(p) ==
  /\ p \notin revoked
  /\ revoked' = revoked \cup {p}
  /\ UNCHANGED <<conns, counts, view, announceVars, about>>

-----------------------------------------------------------------------------
(* An announcement.                                                        *)

\* revoked(): the connected participants are looked up, outside every lock.
ResolveRevoked(x) ==
  /\ Goto(x, "resolving", "waiting")
  /\ deny' = [deny EXCEPT ![x] = revoked \cap Here(conns)]
  /\ UNCHANGED <<conns, counts, view, fanOut, about, targets, revoked>>

\* The connections x addresses: not its own, if it is an arrival.
Addressed(x) == {c \in conns : c # x /\ Owner[c] \notin deny[x]}

\* A departure whose participant is back, a promotion whose participant left.
SaysNothingNow(x) == /\ x \notin conns
                     /\ IF x \in Conns THEN counts[Owner[x]] > 0 ELSE about[x] \notin Here(conns)

\* Mutation: the departure is not looked at again under the locks.
BeginFanOutOnWhatItKnew(x) ==
  /\ fanOut = Nobody
  /\ Goto(x, "waiting", "sending")
  /\ fanOut' = x
  /\ targets' = [targets EXCEPT ![x] = Addressed(x)]
  /\ UNCHANGED <<conns, counts, view, about, deny, revoked>>

\* broadcast, announceIfAbsent, announceIfPresent: fanOut, then r.mu for the
\* targets, or to find that there is nothing to say.
BeginFanOut(x) ==
  /\ fanOut = Nobody
  /\ IF SaysNothingNow(x)
     THEN Goto(x, "waiting", Over(x)) /\ Forget(x) /\ UNCHANGED <<fanOut, targets>>
     ELSE /\ Goto(x, "waiting", "sending")
          /\ fanOut' = x
          /\ targets' = [targets EXCEPT ![x] = Addressed(x)]
          /\ UNCHANGED deny
  /\ UNCHANGED <<conns, counts, view, about, revoked>>

\* The channel takes the frame, and the client will fold it in that order.
Deliver(x, c) ==
  /\ stage[x] = "sending" /\ c \in (targets[x] \cap conns) \ Stalled
  /\ view' = [view EXCEPT ![c] = IF SaysPresent(x) THEN @ \cup {About(x)} ELSE @ \ {About(x)}]
  /\ targets' = [targets EXCEPT ![x] = @ \ {c}]
  /\ UNCHANGED <<conns, counts, fanOut, stage, about, deny, revoked>>

\* The connection left while it was a target: its done is closed.
Abandon(x, c) ==
  /\ stage[x] = "sending" /\ c \in targets[x] \ conns
  /\ targets' = [targets EXCEPT ![x] = @ \ {c}]
  /\ UNCHANGED <<conns, counts, view, fanOut, stage, about, deny, revoked>>

\* Mutation: a send waits for as long as the connection is there.
NoBudget(x, c) == FALSE /\ UNCHANGED vars

\* The send budget runs out on a connection that takes nothing.
SendBudget(x, c) ==
  /\ stage[x] = "sending" /\ c \in targets[x] \cap conns \cap Stalled
  /\ targets' = [targets EXCEPT ![x] = @ \ {c}]
  /\ UNCHANGED <<conns, counts, view, fanOut, stage, about, deny, revoked>>

EndFanOut(x) ==
  /\ targets[x] = {}
  /\ Goto(x, "sending", Over(x))
  /\ fanOut' = Nobody
  /\ Forget(x)
  /\ UNCHANGED <<conns, counts, view, about, targets, revoked>>

Send(x) == \E c \in Conns : Deliver(x, c) \/ Abandon(x, c) \/ SendBudget(x, c)

Announce(x) == ResolveRevoked(x) \/ BeginFanOut(x) \/ Send(x) \/ EndFanOut(x)

Next == \/ \E c \in Conns : JoinAndSend(c) \/ Leave(c)
        \/ \E m \in Promotions : Promote(m)
        \/ \E p \in Participants : Revoke(p)
        \/ \E x \in Announcers : Announce(x)

Spec == Init /\ [][Next]_vars

\* Goroutines run, a timer fires, and a mutex is handed to who waits for it.
\* Nobody has to come, leave, be promoted or be revoked.
FairSpec == Spec /\ \A x \in Announcers : WF_vars(Announce(x))

-----------------------------------------------------------------------------
(* Properties.                                                             *)

\* An announcement about p that has still to reach c.
Coming(p, c) == \E x \in Announcers :
  /\ About(x) = p
  /\ stage[x] \in {"resolving", "waiting"} \/ (stage[x] = "sending" /\ c \in targets[x])

\* No ghost, and nobody unseen: when what a connection has been sent disagrees
\* with who is connected, an announcement that mends it is on its way to it,
\* whatever arrivals, departures, reconnects and promotions meet.
WrongViewIsMended == \A c \in conns \ Stalled, p \in Participants :
  (p \in view[c]) # (p \in Here(conns)) => Coming(p, c) \/ Owner[c] \in revoked

\* Who is announced gone has no connection, by the registry's two accounts.
CountsAreConnections == \A p \in Participants :
  counts[p] = Cardinality({c \in conns : Owner[c] = p})

\* Every announcement ends: a connection that takes nothing costs a budget
\* and no more, and so no connecting or leaving peer waits on it for ever.
AnnouncementsEnd == \A x \in Announcers :
  stage[x] \in {"resolving", "waiting", "sending"} ~> stage[x] \in {"up", "done"}

=============================================================================
