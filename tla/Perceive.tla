------------------------------ MODULE Perceive ------------------------------
(***************************************************************************)
(* What each character is told (internal/perceive, and the fan-out of      *)
(* internal/campaign).  An append folds its event onto the world, and      *)
(* writes to the log of every party member the frames that bring what the  *)
(* log holds to what the character sees: the log is never rebuilt, so a    *)
(* frame it cannot fold is a frame the character never gets, and a frame   *)
(* of something unseen cannot be taken back.                               *)
(*                                                                         *)
(* A log is the fold of what was written to it, whether anything was, and  *)
(* the actors its decision last saw: all else a decision knows it recalls  *)
(* from the fold.  One event is appended at a time, since a batch is       *)
(* decided event by event against the world as it comes to stand.  The     *)
(* numbering of entries is left out.                                       *)
(*                                                                         *)
(* Beside the logs stand the browsers: one that is sent the whole of the   *)
(* world's log, as a DM's is, and for each character one that is sent its  *)
(* log.                                                                    *)
(***************************************************************************)
EXTENDS ClientFold, FiniteSets

CONSTANTS Heroes,     \* the characters whose logs are followed
          Half,       \* the precision of Sight
          Terrain,    \* the width, height, tiles and objects of each scene
          Prologue,   \* the events with which the campaign begins
          Alphabets   \* the sets of events of which one campaign's are drawn

VARIABLES world,      \* c.state
          logs,       \* c.logs: None for a character that has none
          discarded,  \* c.discarded is not 0: a set of frames was dropped
          master,     \* what a browser shows that is sent the world's log
          boards,     \* and what one shows that is sent a character's
          alphabet,   \* the events of this campaign
          famous,     \* history: the names the party has gone by
          met         \* history: the names of the party members each has seen

vars == <<world, logs, discarded, master, boards, alphabet, famous, met>>

LineOfSight == INSTANCE Sight

\* A decision that sees nothing.
Paused == None

\* A character's log, and one before its first entry.
CharacterLog == [fold : State, sighted : (SUBSET Actors) \cup {Paused}, written : BOOLEAN]
Unopened == [fold |-> NewState, sighted |-> Paused, written |-> FALSE]

\* The events a log may hold: the fold knows them, and an actor without a
\* resource has none of it.
Recorded == {e \in Events : /\ e.type # "Unknown"
                            /\ e.type = "ActorAdded" /\ e.is.body = None => e.is.cur = 0}

\* The events that commands make: an actor is added with a kind, and a whisper
\* is from a party member or to them (validateAddActor, mayWhisper).
Made == {e \in Recorded : /\ e.type = "ActorAdded" => e.is.kind # "unspecified"
                          /\ e.type = "WhisperAdded" => e.from = None \/ e.to = {}}

ASSUME PerceiveAssumption ==
  /\ IsFiniteSet(Scenes) /\ IsFiniteSet(Squares) /\ IsFiniteSet(Actors)
  /\ IsFiniteSet(Tokens) /\ IsFiniteSet(People) /\ IsFiniteSet(Conditions)
  /\ IsFiniteSet(NoteKeys)
  /\ \A S \in (SUBSET Actors) \cup SUBSET Squares : S # None
  /\ None \notin CharacterLog
  /\ Heroes \subseteq Actors /\ Half \in Nat \ {0, 1}
  /\ \A s \in Scenes : Terrain[s].objects = {} /\ LineOfSight!Grid(Terrain[s]) = Squares
  /\ \A events \in Alphabets : events \subseteq Made

\* The campaign begins with a log that folds.
ASSUME PrologueAssumption ==
  Prologue \in Seq(Recorded) /\ Folded(NewState, Prologue) # None

-----------------------------------------------------------------------------
(* A look at the world.                                                    *)

\* The squares of a scene seen from each of its squares, by its open doors.
SeenFrom ==
  [s \in Scenes |-> [sq \in Squares |-> [open \in SUBSET Squares |->
    LineOfSight!VisibleFrom([width |-> Terrain[s].width, height |-> Terrain[s].height,
                             tiles |-> Terrain[s].tiles, objects |-> {}, open |-> open],
                            sq, 0, 0)]]]

Party(st) == {a \in Actors : HasActor(st, a) /\ IsPartyMember(st.actors[a])}

\* A character sees through itself, while it is a party member.
Eyes(st, h) == {h} \cap Party(st)

\* What the tokens of eyes light.  Every scene one stands in has an entry.
LitBy(st, eyes) ==
  LET standing == {t \in Tokens : HasToken(st, t) /\ st.tokens[t].actor \in eyes}
  IN  [s \in {st.tokens[t].scene : t \in standing} |->
         UNION {SeenFrom[s][st.tokens[t].at][st.scenes[s].open] :
                  t \in {u \in standing : st.tokens[u].scene = s}}]

Noticed(st, lit) ==
  {t \in Tokens : /\ HasToken(st, t)
                  /\ st.tokens[t].scene \in DOMAIN lit
                  /\ st.tokens[t].at \in lit[st.tokens[t].scene]}

LookAt(st, eyes, lit) ==
  LET tokens == Noticed(st, lit)
      sees == eyes \cup {st.tokens[t].actor : t \in tokens}
  IN  [eyes |-> eyes, squares |-> lit, tokens |-> tokens, sees |-> sees,
       actors |-> sees \cup Party(st)]

Look(st, eyes) == LookAt(st, eyes, LitBy(st, eyes))

Lit(now, s) == IF s \in DOMAIN now.squares THEN now.squares[s] ELSE {}

CanSee(now, s, sq) == sq \in Lit(now, s)

-----------------------------------------------------------------------------
(* What a log may hold of an actor.                                        *)

ShownWith(a, whole) ==
  IF whole THEN a ELSE [a EXCEPT !.name = None, !.body = None, !.cur = 0]

\* Mutation: what is in sight is shown whole.
ShownWhole(a) == a

\* A party member whole, a creature without its name and its sheet.
ShownAs(a) == ShownWith(a, IsPartyMember(a))

\* A companion out of sight: its name, and no sheet.
UnseenAs(a) == [ShownWith(a, FALSE) EXCEPT !.name = a.name]

\* Equal in what only ActorAdded writes.
SameIncarnation(a, b) == a.name = b.name /\ a.body = b.body

\* The world holds another actor under an id the log holds.
Gone(shown, st, a) ==
  /\ HasActor(shown, a) /\ HasActor(st, a)
  /\ ~SameIncarnation(shown.actors[a], ShownWith(st.actors[a], IsPartyMember(shown.actors[a])))
  /\ ~SameIncarnation(shown.actors[a], UnseenAs(st.actors[a]))

\* It holds the same actor, in a form the log may no longer be left with.
Reshaped(shown, st, a) ==
  /\ HasActor(shown, a) /\ HasActor(st, a)
  /\ ~Gone(shown, st, a)
  /\ ~SameIncarnation(shown.actors[a], ShownAs(st.actors[a]))

-----------------------------------------------------------------------------
(* Frames.  A set is walked in one fixed order.                            *)

Each(frames) ==
  LET order == SetToSeq(DOMAIN frames)
  IN  FlattenSeq([i \in 1 .. Len(order) |-> frames[order[i]]])

If(condition, frame) == IF condition THEN <<frame>> ELSE <<>>

Grant(a, p, kind) == [type |-> "ActorControlGranted", actor |-> a, person |-> p, kind |-> kind]
Hide(t) == [type |-> "TokenHidden", token |-> t]
Withdraw(a) == [type |-> "ActorRemoved", actor |-> a]

Hides(S) == Each([t \in S |-> <<Hide(t)>>])
Grants(id, S, kind) == Each([p \in S |-> <<Grant(id, p, kind)>>])
Revokes(id, S) ==
  Each([p \in S |-> <<[type |-> "ActorControlRevoked", actor |-> id, person |-> p]>>])
Applies(id, S) ==
  Each([c \in S |-> <<[type |-> "ConditionApplied", actor |-> id, condition |-> c]>>])
Removes(id, S) ==
  Each([c \in S |-> <<[type |-> "ConditionRemoved", actor |-> id, condition |-> c]>>])

HideTokensOf(shown, a) ==
  Hides({t \in Tokens : HasToken(shown, t) /\ shown.tokens[t].actor = a})

\* Nobody is created controlled, so the control follows in grants of its own.
Introduce(id, st, seen) ==
  LET a == st.actors[id]
      held == IF seen THEN ShownAs(a) ELSE UnseenAs(a)
  IN  <<[type |-> "ActorAdded", actor |-> id, is |-> [held EXCEPT !.ctl = {}]]>>
        \o Grants(id, a.ctl, a.kind)
        \o (IF seen THEN Applies(id, st.conditions[id]) ELSE <<>>)

\* A step of more than an int32 passes through zero, where the fold floors a
\* current that started below it.
ResourceFrames(id, was, cur) ==
  LET change(delta, to) ==
        [type |-> "ResourceChanged", actor |-> id, delta |-> delta, to |-> to]
      far == cur - was > MaxInt
  IN  IF cur = was THEN <<>>
      ELSE If(far, change(0, 0)) \o <<change(cur - (IF far THEN 0 ELSE was), cur)>>

\* Mutation: the control taken away out of sight is not.
ControlFramesOfNew(id, held, a) ==
  Grants(id, a.ctl \ held.ctl, a.kind)

\* A kind rides on a grant: of a new controller, or else of one already held.
ControlFrames(id, held, a) ==
  LET new == a.ctl \ held.ctl
  IN  Grants(id, new, a.kind)
        \o (IF a.kind # held.kind /\ new = {}
            THEN <<Grant(id, CHOOSE p \in held.ctl : TRUE, a.kind)>> ELSE <<>>)
        \o Revokes(id, held.ctl \ a.ctl)

\* No frames bring what is held to the actor: its sheet, or a kind no grant
\* can carry.
Uncorrectable(held, a) ==
  \/ (held.body = None) # (a.body = None)
  \/ /\ a.kind # held.kind
     /\ a.ctl \subseteq held.ctl
     /\ held.ctl = {} \/ a.kind = "unspecified"

StatusFrames(id, held, believed, a, present) ==
  (IF a.body = None THEN <<>> ELSE ResourceFrames(id, held.cur, a.cur))
    \o Removes(id, believed \ present)
    \o Applies(id, present \ believed)
    \o ControlFrames(id, held, a)

\* The frames that bring the log's id to the world's, where it may be brought.
Status(shown, st, id) ==
  StatusFrames(id, shown.actors[id], shown.conditions[id], ShownAs(st.actors[id]),
               st.conditions[id])

Reintroduce(shown, st, id, seen) ==
  HideTokensOf(shown, id) \o <<Withdraw(id)>> \o Introduce(id, st, seen)

Correct(shown, st, id) ==
  IF Uncorrectable(shown.actors[id], ShownAs(st.actors[id]))
  THEN Reintroduce(shown, st, id, TRUE)
  ELSE Status(shown, st, id)

-----------------------------------------------------------------------------
(* The transitions: what has come into and left sight.                     *)

HeldScenes(shown) == {s \in Scenes : HasScene(shown, s)}
HeldTokens(shown) == {t \in Tokens : HasToken(shown, t)}

\* The squares the log shows as in sight.
Shown(shown, s) ==
  IF HasScene(shown, s) /\ shown.scenes[s].visible # None THEN shown.scenes[s].visible ELSE {}

Believed(shown, s) == IF HasScene(shown, s) THEN shown.scenes[s].open ELSE {}

IsDoorOf(cause, s, sq) ==
  cause.type \in {"DoorOpened", "DoorClosed"} /\ cause.scene = s /\ cause.at = sq

\* A door in sight that stands otherwise than the log holds; the door of the
\* event itself is forwarded.
DoorFrames(shown, cause, now, st, s) ==
  LET open == st.scenes[s].open
      amiss == {sq \in Lit(now, s) : (sq \in open) # (sq \in Believed(shown, s))}
  IN  Each([sq \in {q \in amiss : ~IsDoorOf(cause, s, q)} |->
              <<[type |-> IF sq \in open THEN "DoorOpened" ELSE "DoorClosed",
                 scene |-> s, at |-> sq]>>])

\* Held actors whose form or being the log must not be left with.
Withdrawn(shown, now, st) ==
  {a \in now.actors : Gone(shown, st, a) \/ (Reshaped(shown, st, a) /\ a \in now.sees)}

ActorFrames(shown, sighted, now, st, a) ==
  CASE a \in Withdrawn(shown, now, st) -> Reintroduce(shown, st, a, a \in now.sees)
    [] ~HasActor(shown, a) -> Introduce(a, st, a \in now.sees)
    [] HasActor(shown, a) /\ a \notin Withdrawn(shown, now, st)
         /\ a \in now.sees \ sighted -> Correct(shown, st, a)
    [] OTHER -> <<>>

\* The actors taken off the log, their tokens hidden, before they are put back.
Retaken(shown, sighted, now, st) ==
  {a \in now.actors :
     \/ a \in Withdrawn(shown, now, st)
     \/ /\ HasActor(shown, a) /\ a \in now.sees \ sighted
        /\ Uncorrectable(shown.actors[a], ShownAs(st.actors[a]))}

\* Mutation: a token of an actor taken off and put back is not placed again.
PlacedOfUnheld(shown, sighted, now, st) == now.tokens \ HeldTokens(shown)

\* The tokens on the log once the actors are told.
Placed(shown, sighted, now, st) ==
  now.tokens \ {t \in HeldTokens(shown) :
                   shown.tokens[t].actor \notin Retaken(shown, sighted, now, st)}

Unplaced(shown, sighted, now, st) ==
  {t \in HeldTokens(shown) \ now.tokens :
     shown.tokens[t].actor \notin Retaken(shown, sighted, now, st)}

TokenFrame(st, t) ==
  [type |-> "TokenPlaced", token |-> t, scene |-> st.tokens[t].scene,
   actor |-> st.tokens[t].actor, at |-> st.tokens[t].at, text |-> st.tokens[t].text]

\* Terrain comes with the squares it is seen on.
SceneFrame(now, s) ==
  [type |-> "SceneSeen", scene |-> s, visible |-> Lit(now, s),
   tiles |-> Lit(now, s) \cap DOMAIN Terrain[s].tiles]

SceneFrames(shown, now) ==
  Each([s \in {r \in HeldScenes(shown) \cup DOMAIN now.squares : Shown(shown, r) # Lit(now, r)} |->
          <<SceneFrame(now, s)>>])

NoteFrames(shown, st) ==
  Each([k \in {n \in NoteKeys : shown.notes[n] # None /\ st.notes[n] # "public"} |->
          <<[type |-> "NoteDeleted", key |-> k]>>])

CreationFrames(shown, now) ==
  Each([s \in DOMAIN now.squares \ HeldScenes(shown) |->
          <<[type |-> "SceneCreated", scene |-> s]>>])

TokenFrames(shown, sighted, now, st) ==
  Each([t \in Placed(shown, sighted, now, st) |-> <<TokenFrame(st, t)>>])

Transitions(shown, sighted, cause, now, st) ==
  CreationFrames(shown, now)
    \o Each([s \in DOMAIN now.squares |-> DoorFrames(shown, cause, now, st, s)])
    \o Each([a \in now.actors |-> ActorFrames(shown, sighted, now, st, a)])
    \o Hides(Unplaced(shown, sighted, now, st))
    \o TokenFrames(shown, sighted, now, st)
    \o SceneFrames(shown, now)
    \o NoteFrames(shown, st)

-----------------------------------------------------------------------------
(* The event itself.                                                       *)

ForwardsResource(shown, sighted, e, now, st) ==
  e.actor \in Party(st) /\ e.actor \in sighted

\* Which events go on to the log: those about what it saw before them, or sees
\* a square of now.
Forwards(shown, sighted, e, now, st) ==
  CASE e.type \in {"SessionStarted", "SessionEnded", "NarrationAdded"} -> TRUE
    [] e.type = "WhisperAdded" -> e.from \in now.eyes \/ e.to \cap now.eyes # {}
    [] e.type = "TokenDescribed" ->
         /\ HasToken(shown, e.token) /\ e.token \in now.tokens
         /\ shown.tokens[e.token].text # e.text
    [] e.type = "NoteUpserted" -> e.visibility = "public"
    [] e.type = "TokenMoved" -> HasToken(shown, e.token) /\ e.token \in now.tokens
    [] e.type \in {"DoorOpened", "DoorClosed"} -> CanSee(now, e.scene, e.at)
    [] e.type \in {"ActorControlGranted", "ActorControlRevoked", "ConditionApplied",
                   "ConditionRemoved", "ActorRemoved"} -> e.actor \in sighted
    [] e.type = "ResourceChanged" -> ForwardsResource(shown, sighted, e, now, st)
    [] OTHER -> FALSE

\* A copy of a whisper names its own character alone.
Forwardable(e, now) ==
  IF e.type = "WhisperAdded" THEN [e EXCEPT !.to = @ \cap now.eyes] ELSE e

Event(shown, sighted, e, now, st) ==
  Transitions(shown, sighted, e, now, st)
    \o If(Forwards(shown, sighted, e, now, st), Forwardable(e, now))

Sees(st, h) == Look(st, Eyes(st, h)).sees

\* A decision resumed from a log sees what the world shows, unless the log
\* lags the world for some of it: then it sees nothing, and corrects.
SeenAgain(sees, shown, st) ==
  IF \A a \in sees :
       /\ HasActor(shown, a)
       /\ SameIncarnation(shown.actors[a], ShownAs(st.actors[a]))
       /\ ~Uncorrectable(shown.actors[a], ShownAs(st.actors[a]))
       /\ Status(shown, st, a) = <<>>
  THEN sees
  ELSE {}

Resumes(h, shown, st) == SeenAgain(Sees(st, h), shown, st)

-----------------------------------------------------------------------------
(* The fan-out of one event to one character, before being the world before *)
(* it and st the one after.                                                *)

\* What a viewer is brought to see through eyes that is sent no event.
Perch(shown, st, eyes) ==
  Transitions(shown, {}, [type |-> "None"], Look(st, eyes), st)

NotesOf(before) ==
  Each([k \in {n \in NoteKeys : before.notes[n] = "public"} |->
          <<[type |-> "NoteUpserted", key |-> k, visibility |-> "public"]>>])

\* No eyes are introduced exactly the party.
Opening(before) ==
  If(before.session # None, [type |-> "SessionStarted", id |-> before.session])
    \o Perch(NewState, before, {})
    \o NotesOf(before)

\* Mutation: the session of a paused log is taken up as it was left.
ResumeInItsSession(fold, before) == Hides(HeldTokens(fold))

ResumeLead(fold, before) ==
  LET other == fold.session # before.session
  IN  If(other /\ fold.session # None, [type |-> "SessionEnded"])
        \o If(other /\ before.session # None,
              [type |-> "SessionStarted", id |-> before.session])
        \o Hides(HeldTokens(fold))

\* What a log is brought to before the event: opened, or resumed.
Lead(log, before) ==
  CASE log = None -> Opening(before)
    [] log # None /\ log.sighted = Paused -> ResumeLead(log.fold, before)
    [] OTHER -> <<>>

\* The frames of the event do not fold: the decision resumes from the log.
Drop(h, led, st) == [led EXCEPT !.sighted = Resumes(h, led.fold, st)]

\* [log, sent, dropped]: the log as it comes to stand, the frames it was
\* written, and whether a set of them was dropped.
Outcome(log, sent, dropped) == [log |-> log, sent |-> sent, dropped |-> dropped]

\* The frames of an event are tried on the log as it was brought to it.
Tried(h, led, lead, frames, next, st) ==
  IF next = None THEN Outcome(Drop(h, led, st), lead, TRUE)
  ELSE Outcome([fold |-> next, sighted |-> Sees(st, h),
                written |-> led.written \/ frames # <<>>], lead \o frames, FALSE)

Decided(h, led, lead, frames, st) ==
  Tried(h, led, lead, frames, Folded(led.fold, frames), st)

\* What the log is brought to first is tried as well; a log that takes not
\* even that is as it was, its decision forgotten.
Brought(h, held, lead, fold, e, st) ==
  LET led == [fold |-> fold, written |-> held.written \/ lead # <<>>,
              sighted |-> IF held.sighted = Paused THEN {} ELSE held.sighted]
  IN  IF fold = None
      THEN Outcome(IF held.written THEN [held EXCEPT !.sighted = Paused] ELSE None, <<>>, TRUE)
      ELSE Decided(h, led, lead,
                   Event(fold, led.sighted, e, Look(st, Eyes(st, h)), st), st)

Opened(h, held, lead, e, st) == Brought(h, held, lead, Folded(held.fold, lead), e, st)

FanOut(h, log, e, before, st) ==
  IF h \in Party(st)
  THEN Opened(h, IF log = None THEN Unopened ELSE log, Lead(log, before), e, st)
  ELSE Outcome(IF log = None THEN None ELSE [log EXCEPT !.sighted = Paused], <<>>, FALSE)

-----------------------------------------------------------------------------
(* The campaign.                                                           *)

\* The names in st of the party members among S.
NamesOf(st, S) == {st.actors[a].name : a \in S \cap Party(st)}

Init ==
  /\ world = Folded(NewState, Prologue)
  /\ logs = [h \in Heroes |-> None]
  /\ discarded = FALSE
  /\ master = Ingested(EmptySession, Prologue)
  /\ boards = [h \in Heroes |-> EmptySession]
  /\ alphabet \in Alphabets
  /\ famous = NamesOf(world, Actors)
  /\ met = [h \in Heroes |-> {}]

\* An append that lands.
AppendOne(e) ==
  /\ Accepts(world, e)
  /\ world' = After(world, e)
  /\ \E told \in {[h \in Heroes |-> FanOut(h, logs[h], e, world, world')]} :
        /\ logs' = [h \in Heroes |-> told[h].log]
        /\ discarded' = (discarded \/ \E h \in Heroes : told[h].dropped)
        /\ boards' = [h \in Heroes |-> Ingested(boards[h], told[h].sent)]
  /\ master' = Ingest(master, e)
  /\ famous' = famous \cup NamesOf(world', Actors)
  /\ met' = [h \in Heroes |-> met[h] \cup NamesOf(world', Sees(world', h))]
  /\ UNCHANGED alphabet

\* An append that fanned out and did not land: every decision that stands is
\* taken up from its log again.
RestartDecisions ==
  /\ \E e \in alphabet : Accepts(world, e)
  /\ logs' = [h \in Heroes |->
                IF logs[h] = None \/ logs[h].sighted = Paused THEN logs[h]
                ELSE [logs[h] EXCEPT !.sighted = Resumes(h, logs[h].fold, world)]]
  /\ UNCHANGED <<world, discarded, master, boards, alphabet, famous, met>>

\* Open folds a log that was written again, and its decision resumes from it
\* where the world has its character in the party.
Load(h, log) ==
  IF log = None \/ ~log.written THEN None
  ELSE [log EXCEPT !.sighted = IF h \in Party(world) THEN Resumes(h, log.fold, world)
                               ELSE Paused]

Reopen ==
  /\ logs' = [h \in Heroes |-> Load(h, logs[h])]
  /\ discarded' = FALSE
  /\ UNCHANGED <<world, master, boards, alphabet, famous, met>>

Next == (\E e \in alphabet : AppendOne(e)) \/ RestartDecisions \/ Reopen

Spec == Init /\ [][Next]_vars

-----------------------------------------------------------------------------
(* Properties.                                                             *)

\* A resource that lies between nothing and its maximum.
WithinItsMaximum(a) == a.body # None => a.cur >= 0 /\ (a.body > 0 => a.cur <= a.body)

\* What a correction takes for granted, since the fold clamps what a frame
\* brings a resource to, and add_actor does not see to: an actor is added
\* within its maximum.
SheetsAreWithinBounds ==
  \A e \in (UNION Alphabets) \cup {Prologue[i] : i \in DOMAIN Prologue} :
    e.type = "ActorAdded" => WithinItsMaximum(e.is)

\* A log that is written: its character is in the party.
Active(h) == logs[h] # None /\ logs[h].sighted # Paused

\* Worlds, folds and boards are states of the engine.
TypeOK ==
  /\ world \in State
  /\ logs \in [Heroes -> CharacterLog \cup {None}]
  /\ discarded \in BOOLEAN
  /\ master \in Session
  /\ boards \in [Heroes -> Session]
  /\ famous \subseteq Names \cup {None}
  /\ met \in [Heroes -> SUBSET (Names \cup {None})]

\* Whatever has been appended, no token stands without its actor and scene and
\* no condition outlives its actor: an id that comes back comes back clean
\* (engine.Apply of ActorRemoved and TokenPlaced).
WorldIsSound == Sound(world)

\* Every set of frames made for a character folds onto its log, whatever was
\* removed, added again, granted or moved out of its sight meanwhile, and
\* wherever the campaign was opened again (fanOutLocked's trial).
NothingDiscarded == ~discarded

\* A character's board holds the tokens it sees, where and as they stand, the
\* doors it sees as they stand, and lights the squares it sees, whatever
\* happened out of its sight (Projection.transitions).
BoardIsWhatIsSeen ==
  \A h \in Heroes : Active(h) =>
    LET fold == logs[h].fold
        now == Look(world, {h})
    IN  /\ HeldTokens(fold) = now.tokens
        /\ \A t \in now.tokens : fold.tokens[t] = world.tokens[t]
        /\ DOMAIN now.squares \subseteq HeldScenes(fold)
        /\ \A s \in HeldScenes(fold) :
             /\ Shown(fold, s) = Lit(now, s)
             /\ fold.scenes[s].open \cap Lit(now, s) = world.scenes[s].open \cap Lit(now, s)

\* What a log shows of an actor in sight is its present status, in the form its
\* kind allows: so a decision taken up from the log alone, after a failed
\* append or when the campaign is opened, sees what it saw (VTT-312, VTT-325).
SeenIsPresent ==
  \A h \in Heroes : Active(h) =>
    /\ logs[h].sighted = Sees(world, h)
    /\ \A a \in Sees(world, h) :
         LET held == logs[h].fold.actors[a]
             shown == ShownAs(world.actors[a])
         IN  /\ held = shown
             /\ logs[h].fold.conditions[a] = world.conditions[a]

\* A log names nobody who was never of the party, though it saw them, held them
\* under an id the party has used or saw them leave it, and holds the sheet and
\* the conditions of no member of it that its character has not seen while they
\* were one (VTT-465, VTT-658).  One that is written is in the world's session
\* and holds no note that is not public now (opening, resume, noteTransitions).
OnlyWhatMayBeTold ==
  /\ \A h \in Heroes : Active(h) =>
       /\ logs[h].fold.session = world.session
       /\ \A k \in NoteKeys : logs[h].fold.notes[k] # None => world.notes[k] = "public"
  /\ \A h \in Heroes : logs[h] # None => \A a \in Actors : HasActor(logs[h].fold, a) =>
      LET held == logs[h].fold.actors[a]
          whole == held.body # None \/ logs[h].fold.conditions[a] # {}
      IN  held.name # None => IF whole THEN held.name \in met[h] ELSE held.name \in famous

\* A DM's browser shows the world: it is sent what the server took, and folds
\* it with a translation of its own (fold.ts, apply.go).
MasterAgrees == master = [derived |-> world, failed |-> FALSE]

\* So does a character's, of its log: whatever frames the projection makes, the
\* browser throws on none of them and comes to the state they were tried on.
BrowsersAgree ==
  /\ MasterAgrees
  /\ \A h \in Heroes :
       boards[h] = [derived |-> IF logs[h] = None THEN NewState ELSE logs[h].fold,
                    failed |-> FALSE]

\* SPEC-016's consequence of an id removed and added again: an actor in sight
\* that the log holds is corrected to the world's current resource.
AddedAgainIsCorrected ==
  \A h \in Heroes : Active(h) =>
    \A a \in Sees(world, h) \cap Party(world) :
      HasActor(logs[h].fold, a) => logs[h].fold.actors[a].cur = world.actors[a].cur

\* Sight's own properties, of the precision of this instance; and in the world
\* as it stands, a door opened takes nothing out of sight of any square.
SightIsRight ==
  /\ LineOfSight!SlabMeetsTheRect
  /\ LineOfSight!NothingThroughAWall
  /\ LineOfSight!OpeningOnlyReveals
  /\ \A s \in {r \in Scenes : HasScene(world, r)}, at, door \in Squares :
       LET open == world.scenes[s].open
       IN  SeenFrom[s][at][open] \subseteq SeenFrom[s][at][open \cup {door}]
=============================================================================
