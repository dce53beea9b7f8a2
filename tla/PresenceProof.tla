---------------------------- MODULE PresenceProof ----------------------------
(***************************************************************************)
(* Theorems about Presence, for any number of connections, participants    *)
(* and promotions: the count of a participant is the number of their       *)
(* connections, and no wrong view is left without an announcement that     *)
(* mends it.                                                               *)
(*                                                                         *)
(* That some announcement is coming is not inductive: it must be one that  *)
(* will say what is true, to the connection in question, and not nothing.  *)
(* So a view that lacks somebody is mended by an arrival whose connection  *)
(* is still registered, and a view that shows a ghost by a departure; and  *)
(* whoever speaks while the truth changes under them is followed by the    *)
(* announcement of that change, which cannot have had the lock meanwhile.  *)
(***************************************************************************)
EXTENDS Presence, FiniteSetTheorems, TLAPS

Of(p) == {c \in conns : Owner[c] = p}

\* Has still to look at the registry under the fan-out lock.
Waits(x) == stage[x] \in {"resolving", "waiting"}

Arrives(x, p) == x \in conns /\ Owner[x] = p /\ Waits(x)
Departs(x, p) == x \in Conns \ conns /\ Owner[x] = p /\ Waits(x)

\* A connection is registered from its arrival to its departure.
StageInv == \A c \in Conns : /\ stage[c] \in {"new", "done"} => c \notin conns
                             /\ stage[c] = "up" => c \in conns

\* One announcement at a time has targets.  It skips the revoked only, and
\* addresses nobody who came after it began.
FanInv == \A x \in Announcers :
  /\ stage[x] = "sending" <=> fanOut = x
  /\ targets[x] # {} => stage[x] = "sending"
  /\ deny[x] \subseteq revoked
  /\ \A c \in targets[x] : stage[c] # "new"

\* What is being said is true, or what made it untrue waits to be announced.
SpeaksTrue(x) ==
  /\ x \in Conns \ conns =>
       /\ Owner[x] \in Here(conns) => \E y \in Conns : Arrives(y, Owner[x])
       /\ \A c \in targets[x] : Owner[c] # Owner[x]
  /\ x \in Promotions =>
       (about[x] \notin Here(conns) => \E y \in Conns : Departs(y, about[x]))

SpeakInv == \A x \in Announcers : stage[x] = "sending" => SpeaksTrue(x)

\* A connection's own participant is in its view.
OwnInv == \A c \in conns : Owner[c] \in view[c]

SaysTo(x, c) == stage[x] = "sending" /\ c \in targets[x]

\* An arrival of p, or a departure, that c will be told of.
ArrivalComes(p, c) ==
  \E y \in Conns : Arrives(y, p) \/ (y \in conns /\ Owner[y] = p /\ SaysTo(y, c))
DepartureComes(p, c) ==
  \E y \in Conns : Departs(y, p) \/ (y \notin conns /\ Owner[y] = p /\ SaysTo(y, c))

ViewInv == \A c \in conns \ Stalled, p \in Participants : Owner[c] \notin revoked =>
  /\ p \in Here(conns) /\ p \notin view[c] => ArrivalComes(p, c)
  /\ p \notin Here(conns) /\ p \in view[c] => DepartureComes(p, c)

IInv == /\ TypeOK /\ IsFiniteSet(conns) /\ CountsAreConnections
        /\ StageInv /\ FanInv /\ SpeakInv /\ OwnInv /\ ViewInv

-----------------------------------------------------------------------------
(* The registry and its counts.                                            *)

\* A participant is counted zero when they have no connection, and one when
\* they have no other.
LEMMA CountSaysWho ==
  ASSUME TypeOK, IsFiniteSet(conns), CountsAreConnections, NEW p \in Participants
  PROVE  /\ counts[p] = 0 <=> p \notin Here(conns)
         /\ \A c \in conns : Owner[c] = p /\ counts[p] = 1 => p \notin Here(conns \ {c})
         /\ \A c \in conns : Owner[c] = p /\ counts[p] # 1 => p \in Here(conns \ {c})
<1>1. IsFiniteSet(Of(p)) /\ counts[p] = Cardinality(Of(p))
  BY FS_Subset DEF Of, CountsAreConnections
<1>2. Cardinality(Of(p)) = 0 <=> Of(p) = {}
  BY <1>1, FS_EmptySet
<1>3. counts[p] = 0 <=> p \notin Here(conns)
  BY <1>1, <1>2 DEF Of, Here
<1>4. ASSUME NEW c \in conns, Owner[c] = p
      PROVE  counts[p] = 1 <=> Of(p) \ {c} = {}
  <2>1. c \in Of(p)
    BY <1>4 DEF Of
  <2>2. /\ IsFiniteSet(Of(p) \ {c})
        /\ Cardinality(Of(p) \ {c}) = Cardinality(Of(p)) - 1
    BY <1>1, <2>1, FS_RemoveElement
  <2>3. Cardinality(Of(p) \ {c}) = 0 <=> Of(p) \ {c} = {}
    BY <2>2, FS_EmptySet
  <2>4. Cardinality(Of(p)) \in Nat
    BY <1>1, FS_CardinalityType
  <2> QED BY <1>1, <2>2, <2>3, <2>4
<1> QED BY <1>3, <1>4 DEF Of, Here

\* What an arrival changes of who is here: a first one is to be announced.
LEMMA JoinChanges ==
  ASSUME IInv, NEW c \in Conns, JoinAndSend(c)
  PROVE  /\ c \notin conns /\ stage[c] = "new" /\ conns' = conns \cup {c}
         /\ \A p : p \in Here(conns') <=> p \in Here(conns) \/ p = Owner[c]
         /\ Owner[c] \notin Here(conns) => stage'[c] = "resolving"
         /\ stage'[c] \in {"resolving", "up"}
         /\ \A x \in Announcers \ {c} : stage'[x] = stage[x]
<1>1. Owner[c] \in Participants
  BY PresenceAssumption
<1>2. counts[Owner[c]] = 0 <=> Owner[c] \notin Here(conns)
  BY <1>1, CountSaysWho DEF IInv
<1>3. stage' = [stage EXCEPT ![c] = IF counts[Owner[c]] = 0 THEN "resolving" ELSE "up"]
      /\ stage[c] = "new" /\ conns' = conns \cup {c}
  BY DEF JoinAndSend, Goto
<1>4. \A p : p \in Here(conns') <=> p \in Here(conns) \/ p = Owner[c]
  BY <1>3 DEF Here
<1>5. c \in Announcers /\ stage \in [Announcers -> Stages]
  BY DEF IInv, TypeOK, Announcers
<1> QED BY <1>2, <1>3, <1>4, <1>5 DEF IInv, StageInv

\* And a departure: a last one is to be announced.
LEMMA LeaveChanges ==
  ASSUME IInv, NEW c \in Conns, Leave(c)
  PROVE  /\ c \in conns /\ stage[c] = "up" /\ conns' = conns \ {c}
         /\ \A p \in Here(conns) : p = Owner[c] \/ p \in Here(conns')
         /\ \A p \in Here(conns') : p \in Here(conns)
         /\ Owner[c] \notin Here(conns') => stage'[c] = "resolving"
         /\ stage'[c] \in {"resolving", "done"}
         /\ \A x \in Announcers \ {c} : stage'[x] = stage[x]
<1>1. Owner[c] \in Participants
  BY PresenceAssumption
<1>2. stage' = [stage EXCEPT ![c] = IF counts[Owner[c]] = 1 THEN "resolving" ELSE "done"]
      /\ stage[c] = "up" /\ c \in conns /\ conns' = conns \ {c}
  BY DEF Leave, Goto
<1>3. counts[Owner[c]] # 1 => Owner[c] \in Here(conns')
  BY <1>1, <1>2, CountSaysWho DEF IInv
<1>4. /\ \A p \in Here(conns) : p = Owner[c] \/ p \in Here(conns')
      /\ \A p \in Here(conns') : p \in Here(conns)
  BY <1>2 DEF Here
<1>5. c \in Announcers /\ stage \in [Announcers -> Stages]
  BY DEF IInv, TypeOK, Announcers
<1> QED BY <1>2, <1>3, <1>4, <1>5

\* An announcement that begins under the locks addresses the registered, and
\* what it is about is then true.
LEMMA BeginSpeaks ==
  ASSUME IInv, NEW x \in Announcers, BeginFanOut(x), stage'[x] = "sending"
  PROVE  /\ targets' = [targets EXCEPT ![x] = Addressed(x)]
         /\ x \in Conns \ conns => Owner[x] \notin Here(conns)
         /\ x \in Promotions => about[x] \in Here(conns)
<1>1. ~SaysNothingNow(x) /\ targets' = [targets EXCEPT ![x] = Addressed(x)]
  BY DEF BeginFanOut, Goto, Over, IInv, TypeOK
<1>2. x \in Conns \ conns => Owner[x] \notin Here(conns)
  BY <1>1, PresenceAssumption, CountSaysWho DEF SaysNothingNow, IInv, TypeOK
<1>3. x \in Promotions => about[x] \in Here(conns)
  BY <1>1, PresenceAssumption DEF SaysNothingNow, IInv, TypeOK
<1> QED BY <1>1, <1>2, <1>3

LEMMA InitInv == Init => IInv
<1> SUFFICES ASSUME Init PROVE IInv
  OBVIOUS
<1> USE PresenceAssumption DEF Init
<1>1. TypeOK
  BY DEF TypeOK, Announcers, Stages
<1>2. IsFiniteSet(conns) /\ CountsAreConnections
  <2>1. ASSUME NEW p \in Participants PROVE {c \in conns : Owner[c] = p} = {}
    OBVIOUS
  <2> QED BY <2>1, FS_EmptySet DEF CountsAreConnections
<1>3. StageInv /\ FanInv /\ SpeakInv /\ OwnInv /\ ViewInv
  BY DEF StageInv, FanInv, SpeakInv, OwnInv, ViewInv, Announcers
<1> QED BY <1>1, <1>2, <1>3 DEF IInv

\* joinAndSend and leave count by one.
LEMMA CountStep ==
  IInv /\ [Next]_vars => IsFiniteSet(conns)' /\ CountsAreConnections'
<1> SUFFICES ASSUME IInv, [Next]_vars PROVE IsFiniteSet(conns') /\ CountsAreConnections'
  OBVIOUS
<1> USE PresenceAssumption DEF IInv
<1>1. ASSUME NEW c \in Conns, JoinAndSend(c) PROVE IsFiniteSet(conns') /\ CountsAreConnections'
  <2>1. c \notin conns /\ conns' = conns \cup {c}
    BY <1>1 DEF JoinAndSend, Goto, StageInv
  <2>2. IsFiniteSet(conns')
    BY <2>1, FS_AddElement
  <2>3. ASSUME NEW p \in Participants
        PROVE  counts'[p] = Cardinality({d \in conns' : Owner[d] = p})
    <3>1. IsFiniteSet(Of(p)) /\ counts[p] = Cardinality(Of(p)) /\ c \notin Of(p)
      BY <2>1, FS_Subset DEF Of, CountsAreConnections
    <3>2. Cardinality(Of(p) \cup {c}) = counts[p] + 1
      BY <3>1, FS_AddElement
    <3>3. {d \in conns' : Owner[d] = p} = IF Owner[c] = p THEN Of(p) \cup {c} ELSE Of(p)
      BY <2>1 DEF Of
    <3>4. counts'[p] = IF Owner[c] = p THEN counts[p] + 1 ELSE counts[p]
      BY <1>1 DEF JoinAndSend, TypeOK
    <3> QED BY <3>1, <3>2, <3>3, <3>4
  <2> QED BY <2>2, <2>3 DEF CountsAreConnections
<1>2. ASSUME NEW c \in Conns, Leave(c) PROVE IsFiniteSet(conns') /\ CountsAreConnections'
  <2>1. c \in conns /\ conns' = conns \ {c}
    BY <1>2 DEF Leave
  <2>2. IsFiniteSet(conns')
    BY <2>1, FS_RemoveElement
  <2>3. ASSUME NEW p \in Participants
        PROVE  counts'[p] = Cardinality({d \in conns' : Owner[d] = p})
    <3>1. IsFiniteSet(Of(p)) /\ counts[p] = Cardinality(Of(p))
      BY FS_Subset DEF Of, CountsAreConnections
    <3>2. Owner[c] = p => Cardinality(Of(p) \ {c}) = counts[p] - 1
      BY <2>1, <3>1, FS_RemoveElement DEF Of
    <3>3. {d \in conns' : Owner[d] = p} = IF Owner[c] = p THEN Of(p) \ {c} ELSE Of(p)
      BY <2>1 DEF Of
    <3>4. counts'[p] = IF Owner[c] = p THEN counts[p] - 1 ELSE counts[p]
      BY <1>2 DEF Leave, TypeOK
    <3> QED BY <3>1, <3>2, <3>3, <3>4
  <2> QED BY <2>2, <2>3 DEF CountsAreConnections
<1>3. CASE UNCHANGED <<conns, counts>>
  BY <1>3 DEF CountsAreConnections
<1> QED BY <1>1, <1>2, <1>3 DEF Next, Announce, Send, Promote, Revoke, ResolveRevoked, BeginFanOut,
           Deliver, Abandon, SendBudget, EndFanOut, vars

-----------------------------------------------------------------------------
(* The other parts of the invariant, step by step.                         *)

\* The types.
LEMMA TypeStep == IInv /\ [Next]_vars => TypeOK'
<1> SUFFICES ASSUME IInv, [Next]_vars PROVE TypeOK'
  OBVIOUS
<1> USE PresenceAssumption DEF IInv, TypeOK, Announcers, Stages
<1>1. ASSUME NEW c \in Conns, JoinAndSend(c) PROVE TypeOK'
  <2>0. conns' = conns \cup {c} /\ view' = [view EXCEPT ![c] = Here(conns')]
    BY <1>1 DEF JoinAndSend
  <2>1. Here(conns') \in SUBSET Participants /\ conns' \in SUBSET Conns
    BY <2>0 DEF Here
  <2>2. counts' \in [Participants -> Nat]
    <3>1. counts[Owner[c]] + 1 \in Nat
      OBVIOUS
    <3> QED BY <1>1, <3>1 DEF JoinAndSend
  <2>3. view' \in [Conns -> SUBSET Participants]
    BY <2>0, <2>1
  <2> QED BY <1>1, <2>1, <2>2, <2>3 DEF JoinAndSend, Goto
<1>2. ASSUME NEW c \in Conns, Leave(c) PROVE TypeOK'
  <2>1. counts[Owner[c]] \in Nat \ {0}
    BY <1>2, CountSaysWho DEF Leave, Here
  <2>2. counts[Owner[c]] - 1 \in Nat
    BY <2>1
  <2>3. counts' \in [Participants -> Nat]
    BY <1>2, <2>2 DEF Leave
  <2> QED BY <1>2, <2>3 DEF Leave, Goto
<1>3. ASSUME NEW m \in Promotions, Promote(m) PROVE TypeOK'
  BY <1>3 DEF Promote, Goto
<1>4. ASSUME NEW p \in Participants, Revoke(p) PROVE TypeOK'
  BY <1>4 DEF Revoke, announceVars
<1>5. ASSUME NEW x \in Announcers, ResolveRevoked(x) PROVE TypeOK'
  BY <1>5 DEF ResolveRevoked, Goto
<1>6. ASSUME NEW x \in Announcers, BeginFanOut(x) PROVE TypeOK'
  BY <1>6 DEF BeginFanOut, SaysNothingNow, Addressed, Goto, Over, Forget, About
<1>7. ASSUME NEW x \in Announcers, NEW c \in Conns, Deliver(x, c) PROVE TypeOK'
  BY <1>7 DEF Deliver, SaysPresent, About
<1>8. ASSUME NEW x \in Announcers, NEW c \in Conns, Abandon(x, c) PROVE TypeOK'
  BY <1>8 DEF Abandon
<1>9. ASSUME NEW x \in Announcers, NEW c \in Conns, SendBudget(x, c) PROVE TypeOK'
  BY <1>9 DEF SendBudget
<1>10. ASSUME NEW x \in Announcers, EndFanOut(x) PROVE TypeOK'
  BY <1>10 DEF EndFanOut, Goto, Over, Forget
<1>11. CASE UNCHANGED vars
  BY <1>11 DEF vars
<1> QED BY <1>1, <1>2, <1>3, <1>4, <1>5, <1>6, <1>7, <1>8, <1>9, <1>10, <1>11
           DEF Next, Announce, Send

\* Registered from arrival to departure.
LEMMA StageStep == IInv /\ [Next]_vars => StageInv'
<1> SUFFICES ASSUME IInv, [Next]_vars PROVE StageInv'
  OBVIOUS
<1> USE PresenceAssumption DEF IInv, TypeOK, StageInv, Announcers
<1>1. ASSUME NEW c \in Conns, JoinAndSend(c) PROVE StageInv'
  BY <1>1 DEF JoinAndSend, Goto
<1>2. ASSUME NEW c \in Conns, Leave(c) PROVE StageInv'
  BY <1>2 DEF Leave, Goto
<1>3. ASSUME NEW m \in Promotions, Promote(m) PROVE StageInv'
  BY <1>3 DEF Promote, Goto
<1>4. ASSUME NEW p \in Participants, Revoke(p) PROVE StageInv'
  BY <1>4 DEF Revoke, announceVars
<1>5. ASSUME NEW x \in Announcers, ResolveRevoked(x) PROVE StageInv'
  BY <1>5 DEF ResolveRevoked, Goto
<1>6. ASSUME NEW x \in Announcers, BeginFanOut(x) PROVE StageInv'
  BY <1>6 DEF BeginFanOut, SaysNothingNow, Addressed, Goto, Over, Forget, About
<1>7. ASSUME NEW x \in Announcers, NEW c \in Conns, Deliver(x, c) PROVE StageInv'
  BY <1>7 DEF Deliver, SaysPresent, About
<1>8. ASSUME NEW x \in Announcers, NEW c \in Conns, Abandon(x, c) PROVE StageInv'
  BY <1>8 DEF Abandon
<1>9. ASSUME NEW x \in Announcers, NEW c \in Conns, SendBudget(x, c) PROVE StageInv'
  BY <1>9 DEF SendBudget
<1>10. ASSUME NEW x \in Announcers, EndFanOut(x) PROVE StageInv'
  BY <1>10 DEF EndFanOut, Goto, Over, Forget
<1>11. CASE UNCHANGED vars
  BY <1>11 DEF vars
<1> QED BY <1>1, <1>2, <1>3, <1>4, <1>5, <1>6, <1>7, <1>8, <1>9, <1>10, <1>11
           DEF Next, Announce, Send

\* One announcement speaks at a time.
LEMMA FanStep == IInv /\ [Next]_vars => FanInv'
<1> SUFFICES ASSUME IInv, [Next]_vars PROVE FanInv'
  OBVIOUS
<1> USE PresenceAssumption DEF IInv, TypeOK, StageInv, FanInv, Announcers
<1>1. ASSUME NEW c \in Conns, JoinAndSend(c) PROVE FanInv'
  BY <1>1 DEF JoinAndSend, Goto
<1>2. ASSUME NEW c \in Conns, Leave(c) PROVE FanInv'
  BY <1>2 DEF Leave, Goto
<1>3. ASSUME NEW m \in Promotions, Promote(m) PROVE FanInv'
  BY <1>3 DEF Promote, Goto
<1>4. ASSUME NEW p \in Participants, Revoke(p) PROVE FanInv'
  BY <1>4 DEF Revoke, announceVars
<1>5. ASSUME NEW x \in Announcers, ResolveRevoked(x) PROVE FanInv'
  BY <1>5 DEF ResolveRevoked, Goto
<1>6. ASSUME NEW x \in Announcers, BeginFanOut(x) PROVE FanInv'
  BY <1>6 DEF BeginFanOut, SaysNothingNow, Addressed, Goto, Over, Forget, About
<1>7. ASSUME NEW x \in Announcers, NEW c \in Conns, Deliver(x, c) PROVE FanInv'
  BY <1>7 DEF Deliver, SaysPresent, About
<1>8. ASSUME NEW x \in Announcers, NEW c \in Conns, Abandon(x, c) PROVE FanInv'
  BY <1>8 DEF Abandon
<1>9. ASSUME NEW x \in Announcers, NEW c \in Conns, SendBudget(x, c) PROVE FanInv'
  BY <1>9 DEF SendBudget
<1>10. ASSUME NEW x \in Announcers, EndFanOut(x) PROVE FanInv'
  BY <1>10 DEF EndFanOut, Goto, Over, Forget
<1>11. CASE UNCHANGED vars
  BY <1>11 DEF vars
<1> QED BY <1>1, <1>2, <1>3, <1>4, <1>5, <1>6, <1>7, <1>8, <1>9, <1>10, <1>11
           DEF Next, Announce, Send

\* Nobody is told that they are gone.
LEMMA OwnStep == IInv /\ [Next]_vars => OwnInv'
<1> SUFFICES ASSUME IInv, [Next]_vars PROVE OwnInv'
  OBVIOUS
<1> USE PresenceAssumption DEF IInv, TypeOK, StageInv, FanInv, SpeakInv, SpeaksTrue, OwnInv, Announcers, Here
<1>1. ASSUME NEW c \in Conns, JoinAndSend(c) PROVE OwnInv'
  BY <1>1 DEF JoinAndSend, Goto
<1>2. ASSUME NEW c \in Conns, Leave(c) PROVE OwnInv'
  BY <1>2 DEF Leave, Goto
<1>3. ASSUME NEW m \in Promotions, Promote(m) PROVE OwnInv'
  BY <1>3 DEF Promote, Goto
<1>4. ASSUME NEW p \in Participants, Revoke(p) PROVE OwnInv'
  BY <1>4 DEF Revoke, announceVars
<1>5. ASSUME NEW x \in Announcers, ResolveRevoked(x) PROVE OwnInv'
  BY <1>5 DEF ResolveRevoked, Goto
<1>6. ASSUME NEW x \in Announcers, BeginFanOut(x) PROVE OwnInv'
  BY <1>6 DEF BeginFanOut, SaysNothingNow, Addressed, Goto, Over, Forget, About
<1>7. ASSUME NEW x \in Announcers, NEW c \in Conns, Deliver(x, c) PROVE OwnInv'
  BY <1>7 DEF Deliver, SaysPresent, About
<1>8. ASSUME NEW x \in Announcers, NEW c \in Conns, Abandon(x, c) PROVE OwnInv'
  BY <1>8 DEF Abandon
<1>9. ASSUME NEW x \in Announcers, NEW c \in Conns, SendBudget(x, c) PROVE OwnInv'
  BY <1>9 DEF SendBudget
<1>10. ASSUME NEW x \in Announcers, EndFanOut(x) PROVE OwnInv'
  BY <1>10 DEF EndFanOut, Goto, Over, Forget
<1>11. CASE UNCHANGED vars
  BY <1>11 DEF vars
<1> QED BY <1>1, <1>2, <1>3, <1>4, <1>5, <1>6, <1>7, <1>8, <1>9, <1>10, <1>11
           DEF Next, Announce, Send

-----------------------------------------------------------------------------
(* What is said is true, or is followed by who says what is.               *)

\* Whoever waits to announce, or speaks, is not the connection that comes or
\* goes, and stays as it is.
LEMMA WaitersStay ==
  ASSUME IInv, NEW c \in Conns, JoinAndSend(c) \/ Leave(c), NEW y \in Conns, NEW p
  PROVE  /\ Arrives(y, p) => Arrives(y, p)'
         /\ Departs(y, p) => Departs(y, p)'
<1>1. Waits(y) => y # c /\ stage'[y] = stage[y]
  BY JoinChanges, LeaveChanges DEF Waits, Announcers
<1>2. y # c => (y \in conns <=> y \in conns')
  BY JoinChanges, LeaveChanges
<1> QED BY <1>1, <1>2 DEF Arrives, Departs, Waits

LEMMA ComesStill ==
  ASSUME IInv, NEW c \in Conns, JoinAndSend(c) \/ Leave(c), NEW p, NEW d \in Conns
  PROVE  /\ ArrivalComes(p, d) => ArrivalComes(p, d)'
         /\ DepartureComes(p, d) => DepartureComes(p, d)'
<1>1. targets' = targets
  BY DEF JoinAndSend, Leave
<1>2. ASSUME NEW y \in Conns, SaysTo(y, d)
      PROVE  SaysTo(y, d)' /\ (y \in conns <=> y \in conns')
  <2>1. y # c /\ stage'[y] = stage[y]
    BY <1>2, JoinChanges, LeaveChanges DEF SaysTo, Announcers
  <2>2. y \in conns <=> y \in conns'
    BY <2>1, JoinChanges, LeaveChanges
  <2> QED BY <1>1, <1>2, <2>1, <2>2 DEF SaysTo
<1>3. ASSUME ArrivalComes(p, d) PROVE ArrivalComes(p, d)'
  <2>1. PICK y \in Conns : Arrives(y, p) \/ (y \in conns /\ Owner[y] = p /\ SaysTo(y, d))
    BY <1>3 DEF ArrivalComes
  <2>2. Arrives(y, p)' \/ (y \in conns' /\ Owner[y] = p /\ SaysTo(y, d)')
    BY <1>2, <2>1, WaitersStay
  <2> QED BY <2>2 DEF ArrivalComes
<1>4. ASSUME DepartureComes(p, d) PROVE DepartureComes(p, d)'
  <2>1. PICK y \in Conns : Departs(y, p) \/ (y \notin conns /\ Owner[y] = p /\ SaysTo(y, d))
    BY <1>4 DEF DepartureComes
  <2>2. Departs(y, p)' \/ (y \notin conns' /\ Owner[y] = p /\ SaysTo(y, d)')
    BY <1>2, <2>1, WaitersStay
  <2> QED BY <2>2 DEF DepartureComes
<1> QED BY <1>3, <1>4

LEMMA SpeakAfterJoin ==
  ASSUME IInv, NEW c \in Conns, JoinAndSend(c)
  PROVE  SpeakInv'
<1> SUFFICES ASSUME NEW x \in Announcers, stage'[x] = "sending"
             PROVE  SpeaksTrue(x)'
  BY DEF SpeakInv
<1>1. x # c /\ stage[x] = "sending" /\ conns' = conns \cup {c}
  BY JoinChanges
<1>2. targets' = targets /\ about' = about
  BY DEF JoinAndSend
<1>3. SpeaksTrue(x)
  BY <1>1 DEF IInv, SpeakInv
<1>4. ASSUME x \in Conns \ conns', Owner[x] \in Here(conns')
      PROVE  \E y \in Conns : Arrives(y, Owner[x])'
  <2>1. CASE Owner[x] \in Here(conns)
    <3>1. PICK y \in Conns : Arrives(y, Owner[x])
      BY <1>1, <1>3, <1>4, <2>1 DEF SpeaksTrue
    <3> QED BY <3>1, WaitersStay
  <2>2. CASE Owner[x] \notin Here(conns)
    <3>1. Owner[x] = Owner[c] /\ stage'[c] = "resolving" /\ c \in conns'
      BY <1>4, <2>2, JoinChanges
    <3>2. Arrives(c, Owner[x])'
      BY <3>1 DEF Arrives, Waits
    <3> QED BY <3>2
  <2> QED BY <2>1, <2>2
<1>5. x \in Conns \ conns' => \A d \in targets'[x] : Owner[d] # Owner[x]
  BY <1>1, <1>2, <1>3 DEF SpeaksTrue
<1>6. ASSUME NEW p \in Participants, x \in Promotions, p = about[x], p \notin Here(conns')
      PROVE  \E y \in Conns : Departs(y, p)'
  <2>1. PICK y \in Conns : Departs(y, p)
    BY <1>3, <1>6, JoinChanges DEF SpeaksTrue
  <2> QED BY <2>1, WaitersStay
<1>7. x \in Promotions => about[x] \in Participants
  BY DEF IInv, TypeOK
<1> QED BY <1>2, <1>4, <1>5, <1>6, <1>7 DEF SpeaksTrue, Departs, Waits

LEMMA SpeakAfterLeave ==
  ASSUME IInv, NEW c \in Conns, Leave(c)
  PROVE  SpeakInv'
<1> SUFFICES ASSUME NEW x \in Announcers, stage'[x] = "sending"
             PROVE  SpeaksTrue(x)'
  BY DEF SpeakInv
<1>1. x # c /\ stage[x] = "sending" /\ conns' = conns \ {c}
  BY LeaveChanges
<1>2. targets' = targets /\ about' = about
  BY DEF Leave
<1>3. SpeaksTrue(x)
  BY <1>1 DEF IInv, SpeakInv
<1>4. ASSUME x \in Conns \ conns', Owner[x] \in Here(conns')
      PROVE  \E y \in Conns : Arrives(y, Owner[x])'
  <2>1. PICK y \in Conns : Arrives(y, Owner[x])
    BY <1>1, <1>3, <1>4, LeaveChanges DEF SpeaksTrue
  <2> QED BY <2>1, WaitersStay
<1>5. x \in Conns \ conns' => \A d \in targets'[x] : Owner[d] # Owner[x]
  BY <1>1, <1>2, <1>3 DEF SpeaksTrue
<1>6. ASSUME NEW p \in Participants, x \in Promotions, p = about[x], p \notin Here(conns')
      PROVE  \E y \in Conns : Departs(y, p)'
  <2>1. CASE p \in Here(conns)
    <3>1. p = Owner[c] /\ stage'[c] = "resolving" /\ c \notin conns'
      BY <1>1, <1>6, <2>1, LeaveChanges
    <3> QED BY <3>1 DEF Departs, Waits
  <2>2. CASE p \notin Here(conns)
    <3>1. PICK y \in Conns : Departs(y, p)
      BY <1>3, <1>6, <2>2 DEF SpeaksTrue
    <3> QED BY <3>1, WaitersStay
  <2> QED BY <2>1, <2>2
<1>7. x \in Promotions => about[x] \in Participants
  BY DEF IInv, TypeOK
<1> QED BY <1>2, <1>4, <1>5, <1>6, <1>7 DEF SpeaksTrue, Departs, Waits

LEMMA SpeakAfterBegin ==
  ASSUME IInv, NEW x \in Announcers, BeginFanOut(x)
  PROVE  SpeakInv'
<1> SUFFICES ASSUME NEW z \in Announcers, stage'[z] = "sending"
             PROVE  SpeaksTrue(z)'
  BY DEF SpeakInv
<1>1. fanOut = Nobody /\ UNCHANGED <<conns, about>>
  BY DEF BeginFanOut
<1>2. z = x
  BY <1>1, PresenceAssumption DEF BeginFanOut, Goto, IInv, FanInv, Announcers, TypeOK
<1>3. targets'[x] = Addressed(x)
  BY <1>2, BeginSpeaks DEF IInv, TypeOK
<1>4. x \in Conns \ conns => Owner[x] \notin Here(conns)
  BY <1>2, BeginSpeaks
<1>5. \A d \in targets'[x] : Owner[d] \in Here(conns)
  BY <1>3 DEF Addressed, Here
<1>6. x \in Promotions => about[x] \in Here(conns)
  BY <1>2, BeginSpeaks
<1> QED BY <1>1, <1>2, <1>4, <1>5, <1>6 DEF SpeaksTrue

\* Other steps move no connection, and nobody who waits.
LEMMA SpeakStep == IInv /\ [Next]_vars => SpeakInv'
<1> SUFFICES ASSUME IInv, [Next]_vars PROVE SpeakInv'
  OBVIOUS
<1> USE DEF SpeakInv, SpeaksTrue, Arrives, Departs, Waits, IInv, TypeOK
<1>1. ASSUME NEW m \in Promotions, Promote(m) PROVE SpeakInv'
  BY <1>1, PresenceAssumption DEF Promote, Goto, Announcers
<1>2. ASSUME NEW p \in Participants, Revoke(p) PROVE SpeakInv'
  BY <1>2 DEF Revoke, announceVars
<1>3. ASSUME NEW x \in Announcers, ResolveRevoked(x) PROVE SpeakInv'
  BY <1>3 DEF ResolveRevoked, Goto, Announcers
<1>4. ASSUME NEW x \in Announcers, NEW c \in Conns,
             Deliver(x, c) \/ Abandon(x, c) \/ SendBudget(x, c)
      PROVE  SpeakInv'
  BY <1>4 DEF Deliver, Abandon, SendBudget
<1>5. ASSUME NEW x \in Announcers, EndFanOut(x) PROVE SpeakInv'
  BY <1>5 DEF EndFanOut, Goto, Over, FanInv, Announcers
<1>6. CASE UNCHANGED vars
  BY <1>6 DEF vars
<1> QED BY <1>1, <1>2, <1>3, <1>4, <1>5, <1>6, SpeakAfterJoin, SpeakAfterLeave, SpeakAfterBegin
        DEF Next, Announce, Send

-----------------------------------------------------------------------------
(* A wrong view is mended by one who will say what is true.                *)

\* What ViewInv says of one connection and one participant.
Mended(p, c) ==
  /\ p \in Here(conns) /\ p \notin view[c] => ArrivalComes(p, c)
  /\ p \notin Here(conns) /\ p \in view[c] => DepartureComes(p, c)

LEMMA ViewAfterJoin ==
  ASSUME IInv, NEW c \in Conns, JoinAndSend(c)
  PROVE  ViewInv'
<1>1. /\ view' = [view EXCEPT ![c] = Here(conns')]
      /\ revoked' = revoked
  BY DEF JoinAndSend
<1> SUFFICES ASSUME NEW d \in conns' \ Stalled, NEW p \in Participants, Owner[d] \notin revoked
             PROVE  Mended(p, d)'
  BY <1>1 DEF ViewInv, Mended
<1>2. view \in [Conns -> SUBSET Participants] /\ conns \subseteq Conns
  BY DEF IInv, TypeOK
<1>3. CASE d = c
  <2>1. view'[d] = Here(conns')
    BY <1>1, <1>2, <1>3
  <2> QED BY <2>1 DEF Mended
<1>4. CASE d # c
  <2>1. d \in conns \ Stalled /\ d \in Conns /\ view'[d] = view[d]
    BY <1>1, <1>2, <1>4, JoinChanges
  <2>2. Mended(p, d)
    BY <2>1 DEF IInv, ViewInv, Mended
  <2>3. ASSUME p \in Here(conns'), p \notin Here(conns) PROVE ArrivalComes(p, d)'
    <3>1. Arrives(c, p)'
      BY <2>3, JoinChanges DEF Arrives, Waits
    <3> QED BY <3>1 DEF ArrivalComes
  <2>4. p \in Here(conns) => p \in Here(conns')
    BY JoinChanges
  <2> QED BY <2>1, <2>2, <2>3, <2>4, ComesStill DEF Mended
<1> QED BY <1>3, <1>4

LEMMA ViewAfterLeave ==
  ASSUME IInv, NEW c \in Conns, Leave(c)
  PROVE  ViewInv'
<1>1. view' = [view EXCEPT ![c] = {}] /\ revoked' = revoked
  BY DEF Leave
<1> SUFFICES ASSUME NEW d \in conns' \ Stalled, NEW p \in Participants, Owner[d] \notin revoked
             PROVE  Mended(p, d)'
  BY <1>1 DEF ViewInv, Mended
<1>2. d \in conns \ Stalled /\ d \in Conns /\ d # c
  BY LeaveChanges DEF IInv, TypeOK
<1>3. view'[d] = view[d]
  BY <1>1, <1>2 DEF IInv, TypeOK
<1>4. Mended(p, d)
  BY <1>2 DEF IInv, ViewInv, Mended
<1>5. ASSUME p \notin Here(conns'), p \in Here(conns) PROVE DepartureComes(p, d)'
  <2>1. Departs(c, p)'
    BY <1>5, LeaveChanges DEF Departs, Waits
  <2> QED BY <2>1 DEF DepartureComes
<1>6. p \in Here(conns') => p \in Here(conns)
  BY LeaveChanges
<1> QED BY <1>2, <1>3, <1>4, <1>5, <1>6, ComesStill DEF Mended

LEMMA ViewAfterBegin ==
  ASSUME IInv, NEW x \in Announcers, BeginFanOut(x)
  PROVE  ViewInv'
<1>1. fanOut = Nobody /\ UNCHANGED <<conns, view, revoked>>
  BY DEF BeginFanOut
<1> SUFFICES ASSUME NEW d \in conns \ Stalled, NEW p \in Participants, Owner[d] \notin revoked
             PROVE  Mended(p, d)'
  BY <1>1 DEF ViewInv, Mended
<1>2. ASSUME NEW z \in Conns PROVE stage[z] # "sending"
  BY <1>1, PresenceAssumption DEF IInv, FanInv, Announcers
<1>3. ASSUME NEW z \in Conns, z # x PROVE stage'[z] = stage[z]
  BY <1>3 DEF BeginFanOut, Goto, IInv, TypeOK, Announcers
<1>4. ASSUME x \in Conns, x \in conns \/ Owner[x] \notin Here(conns)
      PROVE  stage'[x] = "sending"
  <2>1. ~SaysNothingNow(x)
    BY <1>4, PresenceAssumption, CountSaysWho DEF SaysNothingNow, IInv
  <2> QED BY <2>1 DEF BeginFanOut, Goto, IInv, TypeOK
<1>5. ASSUME x \in Conns, stage'[x] = "sending", d # x PROVE SaysTo(x, d)'
  <2>1. targets'[x] = Addressed(x)
    BY <1>5, BeginSpeaks DEF IInv, TypeOK
  <2>2. d \in Addressed(x)
    BY <1>5 DEF Addressed, IInv, FanInv
  <2> QED BY <1>5, <2>1, <2>2 DEF SaysTo
<1>6. Mended(p, d)
  BY DEF IInv, ViewInv, Mended
<1>7. ASSUME p \in Here(conns), p \notin view[d] PROVE ArrivalComes(p, d)'
  <2>1. PICK y \in Conns : Arrives(y, p)
    BY <1>2, <1>6, <1>7 DEF Mended, ArrivalComes, SaysTo
  <2>2. d # y
    BY <1>7, <2>1 DEF Arrives, IInv, OwnInv
  <2>3. CASE y # x
    BY <1>1, <1>3, <2>1, <2>3 DEF ArrivalComes, Arrives, Waits
  <2>4. CASE y = x
    BY <1>1, <1>4, <1>5, <2>1, <2>2, <2>4 DEF ArrivalComes, Arrives
  <2> QED BY <2>3, <2>4
<1>8. ASSUME p \notin Here(conns), p \in view[d] PROVE DepartureComes(p, d)'
  <2>1. PICK y \in Conns : Departs(y, p)
    BY <1>2, <1>6, <1>8 DEF Mended, DepartureComes, SaysTo
  <2>2. d # y
    BY <2>1 DEF Departs
  <2>3. CASE y # x
    BY <1>1, <1>3, <2>1, <2>3 DEF DepartureComes, Departs, Waits
  <2>4. CASE y = x
    BY <1>1, <1>4, <1>5, <1>8, <2>1, <2>2, <2>4 DEF DepartureComes, Departs
  <2> QED BY <2>3, <2>4
<1> QED BY <1>1, <1>7, <1>8 DEF Mended

LEMMA ViewAfterDeliver ==
  ASSUME IInv, NEW x \in Announcers, NEW c \in Conns, Deliver(x, c)
  PROVE  ViewInv'
<1>1. /\ stage[x] = "sending" /\ c \in conns
      /\ view' = [view EXCEPT ![c] = IF SaysPresent(x) THEN @ \cup {About(x)} ELSE @ \ {About(x)}]
      /\ targets' = [targets EXCEPT ![x] = @ \ {c}]
      /\ UNCHANGED <<conns, stage, about, revoked>>
  BY DEF Deliver
<1> SUFFICES ASSUME NEW d \in conns \ Stalled, NEW p \in Participants, Owner[d] \notin revoked
             PROVE  Mended(p, d)'
  BY <1>1 DEF ViewInv, Mended
<1>2. Mended(p, d) /\ d \in Conns
  BY DEF IInv, ViewInv, Mended, TypeOK
<1>3. view'[d] = IF d # c THEN view[d]
                 ELSE IF SaysPresent(x) THEN view[c] \cup {About(x)} ELSE view[c] \ {About(x)}
  BY <1>1, <1>2 DEF IInv, TypeOK
<1>4. ASSUME NEW y \in Conns, SaysTo(y, d), d # c \/ p # About(x), Owner[y] = p
      PROVE  SaysTo(y, d)'
  <2>1. y = x
    BY <1>1, <1>4 DEF SaysTo, IInv, FanInv, Announcers
  <2>2. d # c
    BY <1>4, <2>1 DEF About
  <2> QED BY <1>1, <1>4, <2>2 DEF SaysTo, IInv, TypeOK, Announcers
<1>5. \A y \in Conns : /\ Arrives(y, p) => Arrives(y, p)'
                       /\ Departs(y, p) => Departs(y, p)'
  BY <1>1 DEF Arrives, Departs, Waits
<1>6. CASE d # c \/ p # About(x)
  <2>1. p \in view'[d] <=> p \in view[d]
    BY <1>3, <1>6
  <2>2. ArrivalComes(p, d) => ArrivalComes(p, d)'
    BY <1>1, <1>4, <1>5, <1>6 DEF ArrivalComes
  <2>3. DepartureComes(p, d) => DepartureComes(p, d)'
    BY <1>1, <1>4, <1>5, <1>6 DEF DepartureComes
  <2> QED BY <1>1, <1>2, <2>1, <2>2, <2>3 DEF Mended
<1>7. CASE d = c /\ p = About(x) /\ SaysPresent(x)
  <2>1. p \in view'[d]
    BY <1>3, <1>7
  <2>2. ASSUME p \notin Here(conns) PROVE DepartureComes(p, d)'
    <3>1. x \in Promotions /\ p = about[x]
      BY <1>7, <2>2, PresenceAssumption DEF SaysPresent, About, Here, Announcers
    <3>2. PICK y \in Conns : Departs(y, p)
      BY <1>1, <2>2, <3>1 DEF IInv, SpeakInv, SpeaksTrue
    <3> QED BY <1>5, <3>2 DEF DepartureComes
  <2> QED BY <1>1, <2>1, <2>2 DEF Mended
<1>8. CASE d = c /\ p = About(x) /\ ~SaysPresent(x)
  <2>1. p \notin view'[d]
    BY <1>3, <1>8
  <2>2. ASSUME p \in Here(conns) PROVE ArrivalComes(p, d)'
    <3>1. x \in Conns \ conns /\ p = Owner[x]
      BY <1>8 DEF SaysPresent, About, Announcers
    <3>2. PICK y \in Conns : Arrives(y, p)
      BY <1>1, <2>2, <3>1 DEF IInv, SpeakInv, SpeaksTrue
    <3> QED BY <1>5, <3>2 DEF ArrivalComes
  <2> QED BY <1>1, <2>1, <2>2 DEF Mended
<1> QED BY <1>6, <1>7, <1>8

\* Other steps change no view and no registration.
LEMMA ViewStep == IInv /\ [Next]_vars => ViewInv'
<1> SUFFICES ASSUME IInv, [Next]_vars PROVE ViewInv'
  OBVIOUS
<1> USE DEF ViewInv, ArrivalComes, DepartureComes, Arrives, Departs, Waits, SaysTo, IInv, TypeOK
<1>1. ASSUME NEW m \in Promotions, Promote(m) PROVE ViewInv'
  BY <1>1, PresenceAssumption DEF Promote, Goto, Announcers
<1>2. ASSUME NEW p \in Participants, Revoke(p) PROVE ViewInv'
  BY <1>2 DEF Revoke, announceVars
<1>3. ASSUME NEW x \in Announcers, ResolveRevoked(x) PROVE ViewInv'
  BY <1>3 DEF ResolveRevoked, Goto, Announcers
<1>4. ASSUME NEW x \in Announcers, NEW c \in Conns, Abandon(x, c) \/ SendBudget(x, c)
      PROVE  ViewInv'
  BY <1>4 DEF Abandon, SendBudget, Announcers
<1>5. ASSUME NEW x \in Announcers, EndFanOut(x) PROVE ViewInv'
  BY <1>5 DEF EndFanOut, Goto, Over, Announcers
<1>6. CASE UNCHANGED vars
  BY <1>6 DEF vars
<1> QED BY <1>1, <1>2, <1>3, <1>4, <1>5, <1>6,
           ViewAfterJoin, ViewAfterLeave, ViewAfterBegin, ViewAfterDeliver DEF Next, Announce, Send

-----------------------------------------------------------------------------
(* The theorems.                                                           *)

\* The inductive invariant holds of every reachable state, for any connections
\* and promotions.
THEOREM IInvHolds == Spec => []IInv
<1>1. IInv /\ [Next]_vars => IInv'
  BY CountStep, TypeStep, StageStep, FanStep, SpeakStep, OwnStep, ViewStep DEF IInv
<1> QED BY <1>1, InitInv, PTL DEF Spec

\* Every variable keeps its type.
THEOREM TypeCorrect == Spec => []TypeOK
<1>1. IInv => TypeOK
  BY DEF IInv
<1> QED BY <1>1, IInvHolds, PTL

\* joinAndSend and leave: a participant is counted once for each connection.
THEOREM CountsAreRight == Spec => []CountsAreConnections
<1>1. IInv => CountsAreConnections
  BY DEF IInv
<1> QED BY <1>1, IInvHolds, PTL

\* The announcements of server.go over the registry: whoever is shown wrongly
\* to a connection is about to be announced to it.
THEOREM WrongViewsAreMended == Spec => []WrongViewIsMended
<1>1. IInv => WrongViewIsMended
  BY PresenceAssumption DEF IInv, ViewInv, Arrives, Departs, Waits, SaysTo, ArrivalComes, DepartureComes, WrongViewIsMended, Coming,
     About, Announcers, TypeOK
<1> QED BY <1>1, IInvHolds, PTL

=============================================================================
