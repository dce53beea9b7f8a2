------------------------------- MODULE Engine -------------------------------
(***************************************************************************)
(* The fold of a log into the state of a table: engine.Apply, the one      *)
(* function that decides whether an event may follow a state, and what it  *)
(* makes of it.  The campaign folds the world's log with it, each          *)
(* character's log is folded with it before it is written, and a browser   *)
(* folds what it is sent with its own translation of it (ClientFold.tla).  *)
(*                                                                         *)
(* A state and an event are records, and this module has no variables.     *)
(* What no property reads is left out: the texts of names and notes and    *)
(* their bounds in bytes, the sequences at which things happened, sessions *)
(* that have ended, the order of an actor's controllers, and the terrain   *)
(* of a scene, which is drawn and never folded over.  An actor has at most *)
(* one resource, and its body is that resource's maximum, so the           *)
(* resource's arithmetic is the code's, at the width MaxInt gives.         *)
(***************************************************************************)
EXTENDS Integers, Sequences, SequencesExt

CONSTANTS Scenes, Squares, Actors, Tokens, Texts, People, Conditions,
          NoteKeys, SessionIds,
          Names,   \* what an actor may be called
          Bodies,  \* the maximum of an actor's resource: 0 is no maximum
          MaxInt,  \* the largest int32
          None     \* absent

Int32 == -(MaxInt + 1) .. MaxInt

-----------------------------------------------------------------------------
(* The state.                                                              *)

Kinds == {"unspecified", "party", "creature"}
Visibilities == {"public", "secret"}

Scene == [open : SUBSET Squares,                 \* the doors that stand open
          visible : (SUBSET Squares) \cup {None},  \* None: nobody has looked
          explored : SUBSET Squares]

Actor == [name : Names \cup {None}, body : Bodies \cup {None}, cur : Int32,
          kind : Kinds, ctl : SUBSET People]

Token == [scene : Scenes, actor : Actors, at : Squares, text : Texts]

State == [scenes : [Scenes -> Scene \cup {None}],
          actors : [Actors -> Actor \cup {None}],
          tokens : [Tokens -> Token \cup {None}],
          session : SessionIds \cup {None},      \* the open one
          conditions : [Actors -> SUBSET Conditions],
          notes : [NoteKeys -> Visibilities \cup {None}]]

ASSUME EngineAssumption ==
  /\ MaxInt \in Nat
  /\ Bodies \subseteq 0 .. MaxInt
  /\ None \notin Bodies /\ None \notin Scenes /\ None \notin Actors /\ None \notin Squares
  /\ None \notin SessionIds /\ None \notin Names /\ None \notin Visibilities
  /\ None \notin Scene /\ None \notin Actor /\ None \notin Token /\ None \notin State

NewState == [scenes |-> [s \in Scenes |-> None],
             actors |-> [a \in Actors |-> None],
             tokens |-> [t \in Tokens |-> None],
             session |-> None,
             conditions |-> [a \in Actors |-> {}],
             notes |-> [k \in NoteKeys |-> None]]

HasScene(st, s) == s \in Scenes /\ st.scenes[s] # None
HasActor(st, a) == a \in Actors /\ st.actors[a] # None
HasToken(st, t) == st.tokens[t] # None

IsPartyMember(a) == a.kind = "party"

\* The tokens that stand for actor a.
Standing(st, a) == {t \in Tokens : HasToken(st, t) /\ st.tokens[t].actor = a}

\* What a resource comes to: floored at zero, then capped where it has a cap.
Clamp(n, max) ==
  LET floored == IF n < 0 THEN 0 ELSE n
  IN  IF max > 0 /\ floored > max THEN max ELSE floored

\* The sum is taken in 64 bits, where two int32s do not wrap.
Changed(a, delta) == Clamp(a.cur + delta, a.body)

-----------------------------------------------------------------------------
(* The events.  A field that is None is one the message leaves out.        *)

Position == Squares \cup {None}

Events ==
  [type : {"SessionStarted"}, id : SessionIds]
  \cup [type : {"SessionEnded", "AttackRolled", "AbilityUsed", "AdventureLoaded", "Unknown"}]
  \cup [type : {"SceneCreated"}, scene : Scenes]
  \cup [type : {"ActorAdded"}, actor : Actors \cup {None},
        is : [name : Names \cup {None}, body : Bodies \cup {None}, cur : Int32,
              kind : Kinds, ctl : SUBSET People]]
  \cup [type : {"ActorControlGranted"}, actor : Actors, person : People, kind : Kinds]
  \cup [type : {"ActorControlRevoked"}, actor : Actors, person : People]
  \cup [type : {"ActorRemoved"}, actor : Actors]
  \cup [type : {"TokenPlaced"}, token : Tokens, scene : Scenes, actor : Actors,
        at : Position, text : Texts]
  \cup [type : {"TokenDescribed"}, token : Tokens, text : Texts]
  \cup [type : {"TokenMoved"}, token : Tokens, at : Position]
  \cup [type : {"TokenRemoved", "TokenHidden"}, token : Tokens]
  \cup [type : {"DoorOpened", "DoorClosed"}, scene : Scenes, at : Position]
  \cup [type : {"ResourceChanged"}, actor : Actors, delta : Int32, to : Int32]
  \cup [type : {"ConditionApplied", "ConditionRemoved"}, actor : Actors, condition : Conditions]
  \cup [type : {"NarrationAdded"}, from : Int32, to : Int32, seq : Nat]
  \cup [type : {"WhisperAdded"}, from : Actors \cup {None}, to : SUBSET Actors]
  \cup [type : {"NoteUpserted"}, key : NoteKeys, visibility : Visibilities]
  \cup [type : {"NoteDeleted"}, key : NoteKeys]
  \cup [type : {"SceneSeen"}, scene : Scenes, visible : SUBSET Squares, tiles : SUBSET Squares]

-----------------------------------------------------------------------------
(* Apply.                                                                  *)

\* An actor id may come back, once its actor has gone.
AcceptsActor(st, e) ==
  e.actor # None /\ ~HasActor(st, e.actor) /\ e.is.ctl = {}

\* Mutation: an actor leaves with its tokens standing.
AcceptsRemovalOfAny(st, e) == HasActor(st, e.actor)

\* A token cannot outlive its actor: remove_actor's batch takes them off first.
AcceptsRemoval(st, e) == HasActor(st, e.actor) /\ Standing(st, e.actor) = {}

AcceptsToken(st, e) ==
  ~HasToken(st, e.token) /\ HasScene(st, e.scene) /\ HasActor(st, e.actor) /\ e.at # None

AcceptsChange(st, e) ==
  /\ HasActor(st, e.actor)
  /\ st.actors[e.actor].body # None
  /\ Changed(st.actors[e.actor], e.delta) = e.to

\* An anchor is two sequences of the past, in order, or none.
AcceptsNarration(e) ==
  /\ e.from >= 0 /\ e.to >= 0
  /\ e.from # 0 \/ e.to # 0 =>
       e.from # 0 /\ e.to # 0 /\ e.from <= e.to /\ e.to < e.seq

\* What the fold lets follow st.
Accepts(st, e) ==
  CASE e.type = "SessionStarted" -> st.session = None
    [] e.type = "SessionEnded" -> st.session # None
    [] e.type = "SceneCreated" -> ~HasScene(st, e.scene)
    [] e.type = "ActorAdded" -> AcceptsActor(st, e)
    [] e.type \in {"ActorControlGranted", "ActorControlRevoked"} -> HasActor(st, e.actor)
    [] e.type = "ActorRemoved" -> AcceptsRemoval(st, e)
    [] e.type = "TokenPlaced" -> AcceptsToken(st, e)
    [] e.type \in {"TokenDescribed", "TokenRemoved"} -> HasToken(st, e.token)
    [] e.type = "TokenMoved" -> HasToken(st, e.token) /\ e.at # None
    [] e.type \in {"DoorOpened", "DoorClosed"} -> HasScene(st, e.scene) /\ e.at # None
    [] e.type = "ResourceChanged" -> AcceptsChange(st, e)
    [] e.type = "ConditionApplied" ->
         HasActor(st, e.actor) /\ e.condition \notin st.conditions[e.actor]
    [] e.type = "ConditionRemoved" ->
         HasActor(st, e.actor) /\ e.condition \in st.conditions[e.actor]
    [] e.type = "NarrationAdded" -> AcceptsNarration(e)
    [] e.type = "WhisperAdded" ->
         (e.from # None => HasActor(st, e.from)) /\ \A a \in e.to : HasActor(st, a)
    [] e.type = "NoteDeleted" -> st.notes[e.key] # None
    [] e.type = "SceneSeen" -> HasScene(st, e.scene)
    [] e.type = "Unknown" -> FALSE
    [] OTHER -> TRUE

\* A grant to a participant who controls the actor still states what it is; one
\* that states nothing leaves its kind as it was.
Granted(a, e) ==
  [a EXCEPT !.kind = IF e.kind = "unspecified" THEN @ ELSE e.kind,
            !.ctl = @ \cup {e.person}]

Revoked(a, e) == [a EXCEPT !.ctl = @ \ {e.person}]

\* The actor goes and its conditions with it, since its id may come back.
WithoutActor(st, a) == [st EXCEPT !.actors[a] = None, !.conditions[a] = {}]

\* What is seen replaces what was; what was explored is kept.
Seen(sc, e) == [sc EXCEPT !.visible = e.visible, !.explored = @ \cup e.tiles]

\* What an accepted event makes of st.
After(st, e) ==
  CASE e.type = "SessionStarted" -> [st EXCEPT !.session = e.id]
    [] e.type = "SessionEnded" -> [st EXCEPT !.session = None]
    [] e.type = "SceneCreated" ->
         [st EXCEPT !.scenes[e.scene] = [open |-> {}, visible |-> None, explored |-> {}]]
    [] e.type = "ActorAdded" -> [st EXCEPT !.actors[e.actor] = e.is]
    [] e.type = "ActorControlGranted" -> [st EXCEPT !.actors[e.actor] = Granted(@, e)]
    [] e.type = "ActorControlRevoked" -> [st EXCEPT !.actors[e.actor] = Revoked(@, e)]
    [] e.type = "ActorRemoved" -> WithoutActor(st, e.actor)
    [] e.type = "TokenPlaced" ->
         [st EXCEPT !.tokens[e.token] =
            [scene |-> e.scene, actor |-> e.actor, at |-> e.at, text |-> e.text]]
    [] e.type = "TokenDescribed" -> [st EXCEPT !.tokens[e.token].text = e.text]
    [] e.type = "TokenMoved" -> [st EXCEPT !.tokens[e.token].at = e.at]
    [] e.type \in {"TokenRemoved", "TokenHidden"} -> [st EXCEPT !.tokens[e.token] = None]
    [] e.type = "DoorOpened" -> [st EXCEPT !.scenes[e.scene].open = @ \cup {e.at}]
    [] e.type = "DoorClosed" -> [st EXCEPT !.scenes[e.scene].open = @ \ {e.at}]
    [] e.type = "ResourceChanged" ->
         [st EXCEPT !.actors[e.actor].cur = Changed(st.actors[e.actor], e.delta)]
    [] e.type = "ConditionApplied" -> [st EXCEPT !.conditions[e.actor] = @ \cup {e.condition}]
    [] e.type = "ConditionRemoved" -> [st EXCEPT !.conditions[e.actor] = @ \ {e.condition}]
    [] e.type = "NoteUpserted" -> [st EXCEPT !.notes[e.key] = e.visibility]
    [] e.type = "NoteDeleted" -> [st EXCEPT !.notes[e.key] = None]
    [] e.type = "SceneSeen" -> [st EXCEPT !.scenes[e.scene] = Seen(@, e)]
    [] OTHER -> st

\* Folds frames onto st, or is None where the fold refuses one of them.
Folded(st, frames) ==
  FoldLeft(LAMBDA s, e : IF s = None THEN None ELSE IF Accepts(s, e) THEN After(s, e) ELSE None,
           st, frames)

-----------------------------------------------------------------------------
(* What every state a fold reaches keeps: a token stands in a scene and    *)
(* for an actor there is, and nothing there is not has a condition.        *)

TokensHaveActors(st) ==
  \A t \in Tokens : HasToken(st, t) => HasActor(st, st.tokens[t].actor)
TokensHaveScenes(st) ==
  \A t \in Tokens : HasToken(st, t) => HasScene(st, st.tokens[t].scene)
ConditionsHaveActors(st) ==
  \A a \in Actors : st.conditions[a] # {} => HasActor(st, a)

Sound(st) == /\ TokensHaveActors(st)
             /\ TokensHaveScenes(st)
             /\ ConditionsHaveActors(st)
=============================================================================
