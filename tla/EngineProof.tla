---------------------------- MODULE EngineProof ----------------------------
(***************************************************************************)
(* The two translations of the fold agree, event by event, and what an     *)
(* accepted event makes of a sound state is one.  How a state changes is   *)
(* stated once for each of its parts (the Put lemmas); an arm of Apply is  *)
(* then the part it writes and the value it writes there.  They agree on   *)
(* sequences of events (FoldsAgree), by induction over how many were       *)
(* folded.                                                                 *)
(*                                                                         *)
(* What is proved here of folds, flattened sequences and walks of a set is *)
(* what the proofs of the modules that fold events are made of.            *)
(***************************************************************************)
EXTENDS ClientFold, SequenceTheorems, FiniteSetTheorems, WellFoundedInduction, TLAPS

-----------------------------------------------------------------------------
(* The browser's fold.                                                     *)

LEMMA ChangesAgree ==
  ASSUME NEW a \in Actor, NEW d \in Int32, a.body # None
  PROVE  Computed(a, d) = Changed(a, d)
<1>1. MaxInt \in Int /\ Bodies \subseteq Int
  BY EngineAssumption
<1>2. a.cur \in Int
  BY <1>1 DEF Actor, Int32
<1>3. d \in Int
  BY <1>1 DEF Int32
<1>4. a.body \in Int
  BY <1>1 DEF Actor
<1>5. CASE a.cur + d < 0
  BY <1>2, <1>3, <1>4, <1>5 DEF Computed, Changed, Clamp
<1>6. CASE a.cur + d >= 0
  BY <1>2, <1>3, <1>4, <1>6 DEF Computed, Changed, Clamp
<1> QED BY <1>2, <1>3, <1>5, <1>6

LEMMA HandingsAgree ==
  ASSUME NEW a \in Actor, NEW e
  PROVE  Handed(a, e) = Granted(a, e)
<1>1. CASE e.person \in a.ctl
  BY <1>1 DEF Handed, Granted, Actor
<1>2. CASE e.person \notin a.ctl
  BY <1>2 DEF Handed, Granted, Actor
<1> QED BY <1>1, <1>2

\* A browser throws on exactly the events the server's fold refuses, of the
\* kinds both know.
THEOREM BrowserRefusesWhatTheServerDoes ==
  ASSUME NEW st \in State, NEW e \in Events, e.type # "Unknown"
  PROVE  Throws(st, e) <=> ~Accepts(st, e)
<1>1. CASE e.type = "ResourceChanged"
  BY <1>1, ChangesAgree DEF Throws, Accepts, AcceptsChange, HasActor, State, Events
<1>2. CASE e.type = "NarrationAdded"
  BY <1>2 DEF Throws, Accepts, AcceptsNarration, ThrowsOnNarration, Events, Int32
<1>3. CASE e.type = "WhisperAdded"
  BY <1>3 DEF Throws, Accepts
<1>4. CASE e.type = "ActorAdded"
  BY <1>4 DEF Throws, Accepts, AcceptsActor
<1>5. CASE e.type = "ActorRemoved"
  BY <1>5 DEF Throws, Accepts, AcceptsRemoval
<1>6. CASE e.type = "TokenPlaced"
  BY <1>6 DEF Throws, Accepts, AcceptsToken
<1>7. CASE e.type \notin {"ResourceChanged", "NarrationAdded", "WhisperAdded", "ActorAdded",
                          "ActorRemoved", "TokenPlaced"}
  BY <1>7 DEF Throws, Accepts
<1> QED BY <1>1, <1>2, <1>3, <1>4, <1>5, <1>6, <1>7

\* And makes of an accepted one the state the server makes.
THEOREM BrowserMakesWhatTheServerDoes ==
  ASSUME NEW st \in State, NEW e \in Events, Accepts(st, e)
  PROVE  Becomes(st, e) = After(st, e)
<1>1. CASE e.type = "ResourceChanged"
  <2>1. st.actors[e.actor] \in Actor /\ st.actors[e.actor].body # None /\ e.delta \in Int32
    BY <1>1 DEF Accepts, AcceptsChange, HasActor, State, Events
  <2> QED BY <1>1, <2>1, ChangesAgree DEF Becomes, After
<1>2. CASE e.type = "ActorControlGranted"
  <2>1. st.actors[e.actor] \in Actor
    BY <1>2 DEF Accepts, HasActor, State
  <2>2. Handed(st.actors[e.actor], e) = Granted(st.actors[e.actor], e)
    BY <2>1, HandingsAgree
  <2> QED BY <1>2, <2>2 DEF Becomes, After
<1>3. CASE e.type = "ActorControlRevoked"
  BY <1>3 DEF Becomes, After, Revoked
<1>4. CASE e.type = "SceneSeen"
  BY <1>4 DEF Becomes, After, Seen
<1>5. CASE e.type = "ActorRemoved"
  BY <1>5 DEF Becomes, After, Dropped, WithoutActor
<1>6. CASE e.type \notin {"ResourceChanged", "ActorControlGranted", "ActorControlRevoked",
                          "SceneSeen", "ActorRemoved"}
  BY <1>6 DEF Becomes, After
<1> QED BY <1>1, <1>2, <1>3, <1>4, <1>5, <1>6

-----------------------------------------------------------------------------
(* What an event writes, part by part.                                     *)

\* A state of its type that is sound.
Good(st) == st \in State /\ Sound(st)

LEMMA PutSession ==
  ASSUME NEW st, Good(st), NEW v \in SessionIds \cup {None}
  PROVE  Good([st EXCEPT !.session = v])
<1> DEFINE nx == [st EXCEPT !.session = v]
<1>1. nx \in State
  BY DEF Good, State
<1>2. Sound(nx)
  BY DEF Good, State, Sound, TokensHaveActors, TokensHaveScenes, ConditionsHaveActors,
         HasToken, HasActor, HasScene
<1> QED BY <1>1, <1>2 DEF Good

LEMMA PutScene ==
  ASSUME NEW st, Good(st), NEW s \in Scenes, NEW v \in Scene
  PROVE  Good([st EXCEPT !.scenes[s] = v])
<1> DEFINE nx == [st EXCEPT !.scenes[s] = v]
<1>1. nx \in State
  BY DEF Good, State
<1>2. v # None
  BY EngineAssumption
<1>3. Sound(nx)
  BY <1>2 DEF Good, State, Sound, TokensHaveActors, TokensHaveScenes, ConditionsHaveActors,
         HasToken, HasActor, HasScene
<1> QED BY <1>1, <1>3 DEF Good

LEMMA PutActor ==
  ASSUME NEW st, Good(st), NEW a \in Actors, NEW v \in Actor
  PROVE  Good([st EXCEPT !.actors[a] = v])
<1> DEFINE nx == [st EXCEPT !.actors[a] = v]
<1>1. nx \in State
  BY DEF Good, State
<1>2. v # None
  BY EngineAssumption
<1>3. Sound(nx)
  BY <1>2 DEF Good, State, Sound, TokensHaveActors, TokensHaveScenes, ConditionsHaveActors,
         HasToken, HasActor, HasScene
<1> QED BY <1>1, <1>3 DEF Good

LEMMA PutToken ==
  ASSUME NEW st, Good(st), NEW t \in Tokens, NEW v \in Token,
         HasActor(st, v.actor), HasScene(st, v.scene)
  PROVE  Good([st EXCEPT !.tokens[t] = v])
<1> DEFINE nx == [st EXCEPT !.tokens[t] = v]
<1>1. nx \in State
  BY DEF Good, State
<1>2. Sound(nx)
  BY DEF Good, State, Sound, TokensHaveActors, TokensHaveScenes, ConditionsHaveActors,
         HasToken, HasActor, HasScene
<1> QED BY <1>1, <1>2 DEF Good

LEMMA TakeToken ==
  ASSUME NEW st, Good(st), NEW t \in Tokens
  PROVE  Good([st EXCEPT !.tokens[t] = None])
<1> DEFINE nx == [st EXCEPT !.tokens[t] = None]
<1>1. nx \in State
  BY DEF Good, State
<1>2. Sound(nx)
  BY DEF Good, State, Sound, TokensHaveActors, TokensHaveScenes, ConditionsHaveActors,
         HasToken, HasActor, HasScene
<1> QED BY <1>1, <1>2 DEF Good

LEMMA PutConditions ==
  ASSUME NEW st, Good(st), NEW a \in Actors, NEW v \in SUBSET Conditions, HasActor(st, a)
  PROVE  Good([st EXCEPT !.conditions[a] = v])
<1> DEFINE nx == [st EXCEPT !.conditions[a] = v]
<1>1. nx \in State
  BY DEF Good, State
<1>2. Sound(nx)
  BY DEF Good, State, Sound, TokensHaveActors, TokensHaveScenes, ConditionsHaveActors,
         HasToken, HasActor, HasScene
<1> QED BY <1>1, <1>2 DEF Good

LEMMA PutNote ==
  ASSUME NEW st, Good(st), NEW k \in NoteKeys, NEW v \in Visibilities \cup {None}
  PROVE  Good([st EXCEPT !.notes[k] = v])
<1> DEFINE nx == [st EXCEPT !.notes[k] = v]
<1>1. nx \in State
  BY DEF Good, State
<1>2. Sound(nx)
  BY DEF Good, State, Sound, TokensHaveActors, TokensHaveScenes, ConditionsHaveActors,
         HasToken, HasActor, HasScene
<1> QED BY <1>1, <1>2 DEF Good

\* An actor may go when no token of it stands, and takes its conditions along.
LEMMA TakeActor ==
  ASSUME NEW st, Good(st), NEW a \in Actors, Standing(st, a) = {}
  PROVE  Good(WithoutActor(st, a))
<1> DEFINE nx == WithoutActor(st, a)
<1>1. nx \in State
  BY DEF Good, State, WithoutActor
<1>2. \A t \in Tokens : HasToken(st, t) => st.tokens[t].actor # a
  BY DEF Standing
<1>3. Sound(nx)
  BY <1>2 DEF Good, State, Sound, TokensHaveActors, TokensHaveScenes, ConditionsHaveActors,
         HasToken, HasActor, HasScene, WithoutActor
<1> QED BY <1>1, <1>3 DEF Good

-----------------------------------------------------------------------------
(* The arms of Apply.                                                      *)

LEMMA AfterActorArm ==
  ASSUME NEW st, Good(st), NEW e \in Events, Accepts(st, e),
         e.type \in {"ActorAdded", "ActorControlGranted", "ActorControlRevoked",
                     "ResourceChanged", "ActorRemoved"}
  PROVE  Good(After(st, e))
<1> st \in State
  BY DEF Good
<1>1. CASE e.type = "ActorAdded"
  <2>1. After(st, e) = [st EXCEPT !.actors[e.actor] = e.is]
    BY <1>1 DEF After
  <2>2. e.actor \in Actors /\ e.is \in Actor
    BY <1>1 DEF Accepts, AcceptsActor, Events, Actor
  <2> QED BY <2>1, <2>2, PutActor
<1>2. CASE e.type \in {"ActorControlGranted", "ActorControlRevoked"}
  <2>1. HasActor(st, e.actor)
    BY <1>2 DEF Accepts
  <2>2. e.actor \in Actors /\ st.actors[e.actor] \in Actor
    BY <2>1 DEF HasActor, State
  <2>3. e.person \in People /\ (e.type = "ActorControlGranted" => e.kind \in Kinds)
    BY <1>2 DEF Events
  <2>4. CASE e.type = "ActorControlGranted"
    <3>1. After(st, e) = [st EXCEPT !.actors[e.actor] = Granted(st.actors[e.actor], e)]
      BY <2>4 DEF After
    <3>2. Granted(st.actors[e.actor], e) \in Actor
      BY <2>2, <2>3, <2>4 DEF Granted, Actor
    <3> QED BY <2>2, <3>1, <3>2, PutActor
  <2>5. CASE e.type = "ActorControlRevoked"
    <3>1. After(st, e) = [st EXCEPT !.actors[e.actor] = Revoked(st.actors[e.actor], e)]
      BY <2>5 DEF After
    <3>2. Revoked(st.actors[e.actor], e) \in Actor
      BY <2>2 DEF Revoked, Actor
    <3> QED BY <2>2, <3>1, <3>2, PutActor
  <2> QED BY <1>2, <2>4, <2>5
<1>3. CASE e.type = "ResourceChanged"
  <2>1. AcceptsChange(st, e)
    BY <1>3 DEF Accepts
  <2>2. e.actor \in Actors /\ st.actors[e.actor] \in Actor
    BY <2>1 DEF AcceptsChange, HasActor, State
  <2>3. e.to \in Int32
    BY <1>3 DEF Events
  <2> DEFINE v == [st.actors[e.actor] EXCEPT !.cur = Changed(st.actors[e.actor], e.delta)]
  <2>4. v \in Actor
    BY <2>1, <2>2, <2>3 DEF AcceptsChange, Actor
  <2>5. After(st, e) = [st EXCEPT !.actors[e.actor] = v]
    BY <1>3, <2>2 DEF After, State
  <2> QED BY <2>2, <2>4, <2>5, PutActor
<1>4. CASE e.type = "ActorRemoved"
  <2>1. AcceptsRemoval(st, e)
    BY <1>4 DEF Accepts
  <2>2. e.actor \in Actors /\ Standing(st, e.actor) = {}
    BY <2>1 DEF AcceptsRemoval, HasActor
  <2>3. After(st, e) = WithoutActor(st, e.actor)
    BY <1>4 DEF After
  <2> QED BY <2>2, <2>3, TakeActor
<1> QED BY <1>1, <1>2, <1>3, <1>4

LEMMA AfterTokenArm ==
  ASSUME NEW st, Good(st), NEW e \in Events, Accepts(st, e),
         e.type \in {"TokenPlaced", "TokenDescribed", "TokenMoved", "TokenRemoved", "TokenHidden"}
  PROVE  Good(After(st, e))
<1> st \in State /\ Sound(st)
  BY DEF Good
<1> e.token \in Tokens
  BY DEF Events
<1>1. ASSUME HasToken(st, e.token)
      PROVE  /\ st.tokens[e.token] \in Token
             /\ HasActor(st, st.tokens[e.token].actor)
             /\ HasScene(st, st.tokens[e.token].scene)
  BY <1>1 DEF HasToken, State, Sound, TokensHaveActors, TokensHaveScenes
<1>2. CASE e.type = "TokenPlaced"
  <2> DEFINE v == [scene |-> e.scene, actor |-> e.actor, at |-> e.at, text |-> e.text]
  <2>1. AcceptsToken(st, e)
    BY <1>2 DEF Accepts
  <2>2. v \in Token /\ HasActor(st, v.actor) /\ HasScene(st, v.scene)
    BY <1>2, <2>1 DEF AcceptsToken, Events, Position, Token
  <2>3. After(st, e) = [st EXCEPT !.tokens[e.token] = v]
    BY <1>2 DEF After
  <2> QED BY <2>2, <2>3, PutToken
<1>3. CASE e.type = "TokenDescribed"
  <2> DEFINE v == [st.tokens[e.token] EXCEPT !.text = e.text]
  <2>1. HasToken(st, e.token)
    BY <1>3 DEF Accepts
  <2>2. e.text \in Texts
    BY <1>3 DEF Events
  <2>3. v \in Token /\ v.actor = st.tokens[e.token].actor /\ v.scene = st.tokens[e.token].scene
    BY <1>1, <2>1, <2>2 DEF Token
  <2>4. After(st, e) = [st EXCEPT !.tokens[e.token] = v]
    BY <1>3 DEF After
  <2>5. HasActor(st, v.actor) /\ HasScene(st, v.scene)
    BY <1>1, <2>1, <2>3
  <2> HIDE DEF v
  <2> QED BY <2>3, <2>4, <2>5, PutToken
<1>4. CASE e.type = "TokenMoved"
  <2> DEFINE v == [st.tokens[e.token] EXCEPT !.at = e.at]
  <2>1. HasToken(st, e.token) /\ e.at # None
    BY <1>4 DEF Accepts
  <2>2. e.at \in Squares
    BY <1>4, <2>1 DEF Events, Position
  <2>3. v \in Token /\ v.actor = st.tokens[e.token].actor /\ v.scene = st.tokens[e.token].scene
    BY <1>1, <2>1, <2>2 DEF Token
  <2>4. After(st, e) = [st EXCEPT !.tokens[e.token] = v]
    BY <1>4 DEF After
  <2>5. HasActor(st, v.actor) /\ HasScene(st, v.scene)
    BY <1>1, <2>1, <2>3
  <2> HIDE DEF v
  <2> QED BY <2>3, <2>4, <2>5, PutToken
<1>5. CASE e.type \in {"TokenRemoved", "TokenHidden"}
  <2>1. After(st, e) = [st EXCEPT !.tokens[e.token] = None]
    BY <1>5 DEF After
  <2> QED BY <2>1, TakeToken
<1> QED BY <1>2, <1>3, <1>4, <1>5

LEMMA AfterSceneArm ==
  ASSUME NEW st, Good(st), NEW e \in Events, Accepts(st, e),
         e.type \in {"SceneCreated", "DoorOpened", "DoorClosed", "SceneSeen"}
  PROVE  Good(After(st, e))
<1> st \in State
  BY DEF Good
<1> e.scene \in Scenes
  BY DEF Events
<1>1. CASE e.type = "SceneCreated"
  <2>1. [open |-> {}, visible |-> None, explored |-> {}] \in Scene
    BY DEF Scene
  <2>2. After(st, e) =
          [st EXCEPT !.scenes[e.scene] = [open |-> {}, visible |-> None, explored |-> {}]]
    BY <1>1 DEF After
  <2> QED BY <2>1, <2>2, PutScene
<1>2. CASE e.type \in {"DoorOpened", "DoorClosed", "SceneSeen"}
  <2>1. HasScene(st, e.scene)
    BY <1>2 DEF Accepts
  <2>2. st.scenes[e.scene] \in Scene
    BY <2>1 DEF HasScene, State
  <2>3. CASE e.type = "DoorOpened"
    <3> DEFINE v == [st.scenes[e.scene] EXCEPT !.open = st.scenes[e.scene].open \cup {e.at}]
    <3>1. e.at \in Squares
      BY <2>3 DEF Accepts, Events, Position
    <3>2. v \in Scene
      BY <2>2, <3>1 DEF Scene
    <3>3. After(st, e) = [st EXCEPT !.scenes[e.scene] = v]
      BY <2>3 DEF After
    <3> QED BY <3>2, <3>3, PutScene
  <2>4. CASE e.type = "DoorClosed"
    <3> DEFINE v == [st.scenes[e.scene] EXCEPT !.open = st.scenes[e.scene].open \ {e.at}]
    <3>1. v \in Scene
      BY <2>2 DEF Scene
    <3>2. After(st, e) = [st EXCEPT !.scenes[e.scene] = v]
      BY <2>4 DEF After
    <3> QED BY <3>1, <3>2, PutScene
  <2>5. CASE e.type = "SceneSeen"
    <3>1. e.visible \subseteq Squares /\ e.tiles \subseteq Squares
      BY <2>5 DEF Events
    <3>2. Seen(st.scenes[e.scene], e) \in Scene
      BY <2>2, <3>1 DEF Seen, Scene
    <3>3. After(st, e) = [st EXCEPT !.scenes[e.scene] = Seen(st.scenes[e.scene], e)]
      BY <2>5 DEF After
    <3> QED BY <3>2, <3>3, PutScene
  <2> QED BY <1>2, <2>3, <2>4, <2>5
<1> QED BY <1>1, <1>2

LEMMA AfterOtherArm ==
  ASSUME NEW st, Good(st), NEW e \in Events, Accepts(st, e),
         e.type \in {"SessionStarted", "SessionEnded", "AttackRolled", "AbilityUsed",
                     "AdventureLoaded", "ConditionApplied", "ConditionRemoved", "NarrationAdded",
                     "WhisperAdded", "NoteUpserted", "NoteDeleted"}
  PROVE  Good(After(st, e))
<1> st \in State
  BY DEF Good
<1>1. CASE e.type = "SessionStarted"
  <2>1. After(st, e) = [st EXCEPT !.session = e.id] /\ e.id \in SessionIds
    BY <1>1 DEF After, Events
  <2> QED BY <2>1, PutSession
<1>2. CASE e.type = "SessionEnded"
  <2>1. After(st, e) = [st EXCEPT !.session = None]
    BY <1>2 DEF After
  <2> QED BY <2>1, PutSession
<1>3. CASE e.type \in {"ConditionApplied", "ConditionRemoved"}
  <2>1. HasActor(st, e.actor) /\ e.actor \in Actors
    BY <1>3 DEF Accepts, HasActor
  <2>2. e.condition \in Conditions /\ st.conditions[e.actor] \subseteq Conditions
    BY <1>3, <2>1 DEF Events, State
  <2>3. CASE e.type = "ConditionApplied"
    <3>1. After(st, e) =
            [st EXCEPT !.conditions[e.actor] = st.conditions[e.actor] \cup {e.condition}]
      BY <2>3 DEF After
    <3>2. st.conditions[e.actor] \cup {e.condition} \in SUBSET Conditions
      BY <2>2
    <3> QED BY <2>1, <3>1, <3>2, PutConditions
  <2>4. CASE e.type = "ConditionRemoved"
    <3>1. After(st, e) =
            [st EXCEPT !.conditions[e.actor] = st.conditions[e.actor] \ {e.condition}]
      BY <2>4 DEF After
    <3>2. st.conditions[e.actor] \ {e.condition} \in SUBSET Conditions
      BY <2>2
    <3> QED BY <2>1, <3>1, <3>2, PutConditions
  <2> QED BY <1>3, <2>3, <2>4
<1>4. CASE e.type = "NoteUpserted"
  <2>1. After(st, e) = [st EXCEPT !.notes[e.key] = e.visibility]
    BY <1>4 DEF After
  <2>2. e.key \in NoteKeys /\ e.visibility \in Visibilities
    BY <1>4 DEF Events
  <2> QED BY <2>1, <2>2, PutNote
<1>5. CASE e.type = "NoteDeleted"
  <2>1. After(st, e) = [st EXCEPT !.notes[e.key] = None]
    BY <1>5 DEF After
  <2>2. e.key \in NoteKeys
    BY <1>5 DEF Events
  <2> QED BY <2>1, <2>2, PutNote
<1>6. CASE e.type \in {"AttackRolled", "AbilityUsed", "AdventureLoaded", "NarrationAdded",
                       "WhisperAdded"}
  <2>1. After(st, e) = st
    BY <1>6 DEF After
  <2> QED BY <2>1
<1> QED BY <1>1, <1>2, <1>3, <1>4, <1>5, <1>6

\* An accepted event makes of a sound state a sound state: no order of events
\* leaves a token without its actor or scene, or conditions of nobody.
THEOREM AcceptedKeepsSound ==
  ASSUME NEW st, Good(st), NEW e \in Events, Accepts(st, e)
  PROVE  Good(After(st, e))
<1>1. e.type # "Unknown"
  BY DEF Accepts
<1>2. e.type \in {"SessionStarted", "SessionEnded", "AttackRolled", "AbilityUsed",
                  "AdventureLoaded", "Unknown", "SceneCreated", "ActorAdded",
                  "ActorControlGranted", "ActorControlRevoked", "ActorRemoved", "TokenPlaced",
                  "TokenDescribed", "TokenMoved", "TokenRemoved", "TokenHidden", "DoorOpened",
                  "DoorClosed", "ResourceChanged", "ConditionApplied", "ConditionRemoved",
                  "NarrationAdded", "WhisperAdded", "NoteUpserted", "NoteDeleted", "SceneSeen"}
  BY DEF Events
<1> QED BY <1>1, <1>2, AfterActorArm, AfterTokenArm, AfterSceneArm, AfterOtherArm

-----------------------------------------------------------------------------
(* Folds over sequences.                                                   *)

LEMMA LeastExists ==
  ASSUME NEW T, T \subseteq Nat, T # {}
  PROVE  \E x \in T : \A y \in T : x <= y
<1>1. PICK x \in T : \A y \in T : <<y, x>> \notin OpToRel(<, Nat)
  BY WFMin, NatLessThanWellFounded, Zenon
<1>2. ASSUME NEW y \in T PROVE ~(y < x)
  <2>1. <<y, x>> \in Nat \X Nat
    OBVIOUS
  <2>2. <<y, x>> \notin {ss \in Nat \X Nat : ss[1] < ss[2]}
    BY <1>1, Zenon DEF OpToRel
  <2> QED BY <2>1, <2>2
<1> QED BY <1>2

\* Induction up to n, for a property given as the set of what has it.
LEMMA UpTo ==
  ASSUME NEW n \in Nat, NEW T, 0 \in T, \A k \in 0 .. n : k < n /\ k \in T => k + 1 \in T
  PROVE  \A k \in 0 .. n : k \in T
<1> DEFINE Bad == {k \in 0 .. n : k \notin T}
<1> SUFFICES ASSUME Bad # {} PROVE FALSE
  OBVIOUS
<1>0. Bad \subseteq Nat
  OBVIOUS
<1>1. PICK x \in Bad : \A y \in Bad : x <= y
  <2> HIDE DEF Bad
  <2> QED BY <1>0, LeastExists
<1>2. x # 0 /\ x - 1 \in 0 .. n /\ x - 1 \notin Bad
  BY <1>1
<1> QED BY <1>2

LEMMA MaxOfRange ==
  ASSUME NEW k \in Nat, k > 0, NEW s \in SUBSET (1 .. k), k \in s
  PROVE  Max(s) = k
<1>1. \A y \in s : k >= y
  OBVIOUS
<1>2. \A x \in s : (\A y \in s : x >= y) => x = k
  OBVIOUS
<1> QED BY <1>1, <1>2 DEF Max

\* A step of the server's fold, and of the browser's.
FoldStep(s, e) ==
  IF s = None THEN None ELSE IF Accepts(s, e) THEN After(s, e) ELSE None

StepBy(who, s, e) == IF who = "server" THEN FoldStep(s, e) ELSE Ingest(s, e)

\* The states a fold comes through.
Runs(who, r, st, frames) ==
  /\ r[0] = st
  /\ \A i \in 1 .. Len(frames) : r[i] = StepBy(who, r[i - 1], frames[i])

\* The function of the sets of positions that FoldLeft defines.
FoldEqn(who, g, st, frames, n) ==
  g = [s \in SUBSET (1 .. n) |->
         IF s = {} THEN st ELSE StepBy(who, g[s \ {Max(s)}], frames[Max(s)])]

LEMMA FoldedIter ==
  ASSUME NEW who, NEW st, NEW X, NEW frames \in Seq(X), NEW n \in 0 .. Len(frames)
  PROVE  \E g : FoldEqn(who, g, st, frames, n)
<1> DEFINE T == {k \in 0 .. n : \E g : FoldEqn(who, g, st, frames, k)}
<1>1. 0 \in T
  <2> DEFINE g == [s \in SUBSET (1 .. 0) |-> st]
  <2>1. SUBSET (1 .. 0) = {{}}
    OBVIOUS
  <2>2. FoldEqn(who, g, st, frames, 0)
    BY <2>1 DEF FoldEqn
  <2> QED BY <2>2
<1>2. ASSUME NEW k \in 0 .. n, k < n, k \in T PROVE k + 1 \in T
  <2>0. k \in Nat
    OBVIOUS
  <2>1. PICK g : FoldEqn(who, g, st, frames, k)
    BY <1>2
  <2> DEFINE h == [s \in SUBSET (1 .. k + 1) |->
                     IF k + 1 \in s THEN StepBy(who, g[s \ {k + 1}], frames[k + 1]) ELSE g[s]]
             Rhs(s) == IF s = {} THEN st ELSE StepBy(who, h[s \ {Max(s)}], frames[Max(s)])
  <2>2. ASSUME NEW s \in SUBSET (1 .. k + 1) PROVE h[s] = Rhs(s)
    <3>1. CASE k + 1 \in s
      <4>1. Max(s) = k + 1
        BY <3>1, MaxOfRange
      <4>2. s \ {k + 1} \in SUBSET (1 .. k + 1) /\ k + 1 \notin s \ {k + 1}
        OBVIOUS
      <4>3. h[s \ {k + 1}] = g[s \ {k + 1}]
        BY <4>2
      <4> QED BY <3>1, <4>1, <4>3
    <3>2. CASE k + 1 \notin s
      <4>1. s \in SUBSET (1 .. k)
        BY <3>2
      <4>2. h[s] = g[s]
        BY <3>2
      <4>3. CASE s = {}
        BY <2>1, <4>1, <4>2, <4>3 DEF FoldEqn
      <4>4. CASE s # {}
        <5>1. s \ {Max(s)} \in SUBSET (1 .. k + 1) /\ k + 1 \notin s \ {Max(s)}
          <6> DEFINE m == Max(s)
          <6> HIDE DEF m
          <6>1. \A x \in 1 .. k : x \in 1 .. k + 1 /\ x # k + 1
            BY <2>0
          <6>2. \A x \in s : x \in 1 .. k
            BY <4>1
          <6>3. s \ {m} \in SUBSET (1 .. k + 1) /\ k + 1 \notin s \ {m}
            BY <6>1, <6>2
          <6> QED BY <6>3 DEF m
        <5>2. h[s \ {Max(s)}] = g[s \ {Max(s)}]
          BY <5>1
        <5>3. g[s] = StepBy(who, g[s \ {Max(s)}], frames[Max(s)])
          BY <2>1, <4>1, <4>4 DEF FoldEqn
        <5> QED BY <4>2, <4>4, <5>2, <5>3
      <4> QED BY <4>3, <4>4
    <3> QED BY <3>1, <3>2
  <2>3. h = [s \in SUBSET (1 .. k + 1) |-> Rhs(s)]
    BY <2>2
  <2>4. FoldEqn(who, h, st, frames, k + 1)
    BY <2>3 DEF FoldEqn
  <2> HIDE DEF h
  <2>5. k + 1 \in 0 .. n
    BY <1>2
  <2> QED BY <2>4, <2>5
<1>3. n \in Nat
  OBVIOUS
<1> HIDE DEF T
<1>4. \A k \in 0 .. n : k \in T
  BY <1>1, <1>2, <1>3, UpTo
<1>5. n \in T
  BY <1>3, <1>4
<1> QED BY <1>5 DEF T

LEMMA RunExists ==
  ASSUME NEW who, NEW st, NEW X, NEW frames \in Seq(X)
  PROVE  \E r : /\ Runs(who, r, st, frames)
                /\ who = "server" => Folded(st, frames) = r[Len(frames)]
                /\ who = "browser" => Ingested(st, frames) = r[Len(frames)]
<1> DEFINE n == Len(frames)
           iter == CHOOSE g : FoldEqn(who, g, st, frames, n)
           r == [i \in 0 .. n |-> iter[1 .. i]]
<1>1. n \in Nat /\ DOMAIN frames = 1 .. n
  OBVIOUS
<1>2. iter = [s \in SUBSET (1 .. n) |->
                IF s = {} THEN st ELSE StepBy(who, iter[s \ {Max(s)}], frames[Max(s)])]
  <2>1. n \in 0 .. Len(frames)
    BY <1>1
  <2>2. \E g : FoldEqn(who, g, st, frames, n)
    BY <2>1, FoldedIter
  <2>3. FoldEqn(who, iter, st, frames, n)
    BY <2>2
  <2> QED BY <2>3 DEF FoldEqn
<1>3. /\ who = "server" => Folded(st, frames) = iter[1 .. n]
      /\ who = "browser" => Ingested(st, frames) = iter[1 .. n]
  <2>1. CASE who = "server"
    BY <1>1, <2>1 DEF Folded, FoldLeft, MapThenFoldSet, FoldStep, FoldEqn, StepBy
  <2>2. CASE who = "browser"
    BY <1>1, <2>2 DEF Ingested, FoldLeft, MapThenFoldSet, FoldEqn, StepBy
  <2> QED BY <2>1, <2>2
<1> HIDE DEF iter
<1>4. r[0] = st
  <2>1. 1 .. 0 = {}
    OBVIOUS
  <2>2. r[0] = iter[{}] /\ {} \in SUBSET (1 .. n)
    BY <1>1, <2>1
  <2> QED BY <1>2, <2>2
<1>5. ASSUME NEW i \in 1 .. n PROVE r[i] = StepBy(who, r[i - 1], frames[i])
  <2>1. i \in Nat /\ i > 0 /\ i \in 1 .. i /\ i - 1 \in 0 .. n /\ i \in 0 .. n
    BY <1>1
  <2>2. Max(1 .. i) = i
    BY <2>1, MaxOfRange
  <2>3. (1 .. i) \ {i} = 1 .. (i - 1)
    BY <2>1
  <2>4. 1 .. i \in SUBSET (1 .. n) /\ 1 .. i # {}
    <3>1. \A j \in 1 .. i : j \in 1 .. n
      BY <1>1, <2>1
    <3>2. i \in 1 .. i
      BY <2>1
    <3> QED BY <3>1, <3>2
  <2>5. iter[1 .. i] = StepBy(who, iter[(1 .. i) \ {Max(1 .. i)}], frames[Max(1 .. i)])
    BY <1>2, <2>4
  <2> QED BY <2>1, <2>2, <2>3, <2>5
<1>6. /\ Runs(who, r, st, frames)
      /\ who = "server" => Folded(st, frames) = r[Len(frames)]
      /\ who = "browser" => Ingested(st, frames) = r[Len(frames)]
  <2>1. Runs(who, r, st, frames)
    BY <1>4, <1>5 DEF Runs
  <2>2. r[n] = iter[1 .. n]
    BY <1>1
  <2> QED BY <1>3, <2>1, <2>2
<1> QED BY <1>6

\* A fold is what any run of it ends in.
LEMMA RunEnds ==
  ASSUME NEW who \in {"server", "browser"}, NEW st, NEW X, NEW frames \in Seq(X), NEW r,
         Runs(who, r, st, frames)
  PROVE  /\ who = "server" => Folded(st, frames) = r[Len(frames)]
         /\ who = "browser" => Ingested(st, frames) = r[Len(frames)]
<1>1. PICK q : /\ Runs(who, q, st, frames)
               /\ who = "server" => Folded(st, frames) = q[Len(frames)]
               /\ who = "browser" => Ingested(st, frames) = q[Len(frames)]
  BY RunExists
<1> DEFINE n == Len(frames)
           T == {k \in 0 .. n : q[k] = r[k]}
<1>2. n \in Nat
  OBVIOUS
<1>3. 0 \in T
  BY <1>1, <1>2 DEF Runs
<1>4. ASSUME NEW k \in 0 .. n, k < n, k \in T PROVE k + 1 \in T
  <2>1. k + 1 \in 1 .. n /\ k + 1 \in 0 .. n /\ (k + 1) - 1 = k
    BY <1>2, <1>4
  <2>2. q[k + 1] = StepBy(who, q[k], frames[k + 1]) /\ r[k + 1] = StepBy(who, r[k], frames[k + 1])
    BY <1>1, <2>1 DEF Runs
  <2> QED BY <1>4, <2>1, <2>2
<1> HIDE DEF T
<1>5. \A k \in 0 .. n : k \in T
  BY <1>2, <1>3, <1>4, UpTo
<1>6. q[n] = r[n]
  BY <1>2, <1>5 DEF T
<1> QED BY <1>1, <1>6

\* What a property keeps through every accepted frame, it keeps through a fold.
LEMMA FoldKeeps ==
  ASSUME NEW who \in {"server", "browser"}, NEW st, NEW X, NEW frames \in Seq(X), NEW K,
         st \in K, \A s \in K, x \in X : StepBy(who, s, x) \in K
  PROVE  /\ who = "server" => Folded(st, frames) \in K
         /\ who = "browser" => Ingested(st, frames) \in K
<1>1. PICK q : /\ Runs(who, q, st, frames)
               /\ who = "server" => Folded(st, frames) = q[Len(frames)]
               /\ who = "browser" => Ingested(st, frames) = q[Len(frames)]
  BY RunExists
<1> DEFINE n == Len(frames)
           T == {k \in 0 .. n : q[k] \in K}
<1>2. n \in Nat
  OBVIOUS
<1>3. 0 \in T
  BY <1>1, <1>2 DEF Runs
<1>4. ASSUME NEW k \in 0 .. n, k < n, k \in T PROVE k + 1 \in T
  <2>1. k + 1 \in 1 .. n /\ k + 1 \in 0 .. n /\ (k + 1) - 1 = k
    BY <1>2, <1>4
  <2>2. q[k + 1] = StepBy(who, q[k], frames[k + 1])
    BY <1>1, <2>1 DEF Runs
  <2>3. frames[k + 1] \in X
    BY <2>1
  <2> QED BY <1>4, <2>1, <2>2, <2>3
<1> HIDE DEF T
<1>5. \A k \in 0 .. n : k \in T
  BY <1>2, <1>3, <1>4, UpTo
<1>6. q[n] \in K
  BY <1>2, <1>5 DEF T
<1> QED BY <1>1, <1>6

LEMMA FoldedEmpty ==
  ASSUME NEW st
  PROVE  Folded(st, <<>>) = st /\ Ingested(st, <<>>) = st
<1>1. <<>> \in Seq({})
  OBVIOUS
<1>2. \E q : Runs("server", q, st, <<>>) /\ Folded(st, <<>>) = q[Len(<<>>)]
  BY <1>1, RunExists
<1>3. \E q : Runs("browser", q, st, <<>>) /\ Ingested(st, <<>>) = q[Len(<<>>)]
  BY <1>1, RunExists
<1> QED BY <1>2, <1>3 DEF Runs

LEMMA FoldedOne ==
  ASSUME NEW st, NEW e
  PROVE  Folded(st, <<e>>) = FoldStep(st, e) /\ Ingested(st, <<e>>) = Ingest(st, e)
<1>1. <<e>> \in Seq({e}) /\ Len(<<e>>) = 1 /\ <<e>>[1] = e
  OBVIOUS
<1>2. PICK q : Runs("server", q, st, <<e>>) /\ Folded(st, <<e>>) = q[1]
  BY <1>1, RunExists
<1>3. PICK p : Runs("browser", p, st, <<e>>) /\ Ingested(st, <<e>>) = p[1]
  BY <1>1, RunExists
<1> QED BY <1>1, <1>2, <1>3 DEF Runs, StepBy

\* Frames fold one set after the other.
LEMMA BothFold ==
  ASSUME NEW st, NEW X, NEW a \in Seq(X), NEW b \in Seq(X)
  PROVE  /\ Folded(st, a \o b) = Folded(Folded(st, a), b)
         /\ Ingested(st, a \o b) = Ingested(Ingested(st, a), b)
<1> SUFFICES ASSUME NEW who \in {"server", "browser"}
             PROVE  /\ who = "server" => Folded(st, a \o b) = Folded(Folded(st, a), b)
                    /\ who = "browser" => Ingested(st, a \o b) = Ingested(Ingested(st, a), b)
  OBVIOUS
<1> DEFINE m == Len(a)
           n == Len(b)
           mid == IF who = "server" THEN Folded(st, a) ELSE Ingested(st, a)
<1>1. PICK p : Runs(who, p, st, a) /\ mid = p[m]
  BY RunExists
<1> HIDE DEF mid
<1>2. PICK q : /\ Runs(who, q, mid, b)
               /\ who = "server" => Folded(mid, b) = q[n]
               /\ who = "browser" => Ingested(mid, b) = q[n]
  BY RunExists
<1> DEFINE r == [i \in 0 .. m + n |-> IF i <= m THEN p[i] ELSE q[i - m]]
<1>3. m \in Nat /\ n \in Nat /\ a \o b \in Seq(X) /\ Len(a \o b) = m + n
  OBVIOUS
<1>4. r[0] = st
  BY <1>1, <1>3 DEF Runs
<1>5. ASSUME NEW i \in 1 .. m + n PROVE r[i] = StepBy(who, r[i - 1], (a \o b)[i])
  <2>1. CASE i <= m
    <3>1. (a \o b)[i] = a[i] /\ r[i] = p[i] /\ r[i - 1] = p[i - 1] /\ i \in 1 .. m
      BY <1>3, <2>1
    <3> QED BY <1>1, <3>1 DEF Runs
  <2>2. CASE i > m
    <3>1. (a \o b)[i] = b[i - m] /\ r[i] = q[i - m] /\ i - m \in 1 .. n
      BY <1>3, <2>2
    <3>2. r[i - 1] = q[(i - m) - 1]
      <4>1. CASE i - 1 > m
        BY <1>3, <2>2, <4>1
      <4>2. CASE i - 1 = m
        BY <1>1, <1>2, <1>3, <4>2 DEF Runs
      <4>3. i - 1 > m \/ i - 1 = m
        BY <1>3, <2>2
      <4> QED BY <4>1, <4>2, <4>3
    <3> QED BY <1>2, <3>1, <3>2 DEF Runs
  <2> QED BY <2>1, <2>2, <1>3
<1>6. Runs(who, r, st, a \o b) /\ r[m + n] = q[n]
  <2>1. r[m + n] = q[n]
    BY <1>1, <1>2, <1>3 DEF Runs
  <2>2. Runs(who, r, st, a \o b)
    BY <1>3, <1>4, <1>5 DEF Runs
  <2> QED BY <2>1, <2>2
<1> HIDE DEF r
<1>7. /\ who = "server" => Folded(st, a \o b) = q[n]
      /\ who = "browser" => Ingested(st, a \o b) = q[n]
  <2> DEFINE c == a \o b
  <2>1. c \in Seq(X) /\ Len(c) = m + n /\ Runs(who, r, st, c)
    BY <1>3, <1>6
  <2> HIDE DEF c
  <2>2. /\ who = "server" => Folded(st, c) = r[Len(c)]
        /\ who = "browser" => Ingested(st, c) = r[Len(c)]
    BY <2>1, RunEnds
  <2> QED BY <1>6, <2>1, <2>2 DEF c
<1> QED BY <1>2, <1>7 DEF mid

LEMMA FoldedBoth ==
  ASSUME NEW st, NEW X, NEW a \in Seq(X), NEW b \in Seq(X)
  PROVE  Folded(st, a \o b) = Folded(Folded(st, a), b)
BY BothFold

LEMMA IngestedBoth ==
  ASSUME NEW st, NEW X, NEW a \in Seq(X), NEW b \in Seq(X)
  PROVE  Ingested(st, a \o b) = Ingested(Ingested(st, a), b)
<1>1. /\ Folded(st, a \o b) = Folded(Folded(st, a), b)
      /\ Ingested(st, a \o b) = Ingested(Ingested(st, a), b)
  BY BothFold
<1> QED BY <1>1

-----------------------------------------------------------------------------
(* Frames made for each element of a set.                                  *)

FlatEqn(f, seqs, n) ==
  f = [i \in 1 .. n |-> IF i = 1 THEN seqs[i] ELSE f[i - 1] \o seqs[i]]

LEMMA FlatIter ==
  ASSUME NEW seqs, NEW m \in Nat
  PROVE  \E f : FlatEqn(f, seqs, m)
<1> DEFINE T == {k \in 0 .. m : \E f : FlatEqn(f, seqs, k)}
<1>1. 0 \in T
  <2> DEFINE f == [i \in 1 .. 0 |-> <<>>]
  <2>1. FlatEqn(f, seqs, 0)
    BY DEF FlatEqn
  <2> QED BY <2>1
<1>2. ASSUME NEW k \in 0 .. m, k < m, k \in T PROVE k + 1 \in T
  <2>1. PICK f : FlatEqn(f, seqs, k)
    BY <1>2
  <2>2. k \in Nat /\ k + 1 \in 0 .. m
    BY <1>2
  <2> DEFINE h == [i \in 1 .. k + 1 |->
                     IF i = k + 1 THEN (IF i = 1 THEN seqs[i] ELSE f[i - 1] \o seqs[i]) ELSE f[i]]
  <2>3. ASSUME NEW i \in 1 .. k + 1
        PROVE  h[i] = IF i = 1 THEN seqs[i] ELSE h[i - 1] \o seqs[i]
    <3>1. CASE i = k + 1 /\ i = 1
      BY <3>1
    <3>2. CASE i = k + 1 /\ i # 1
      <4>1. i - 1 \in 1 .. k + 1 /\ i - 1 # k + 1
        BY <2>2, <3>2
      <4>2. h[i - 1] = f[i - 1]
        BY <4>1
      <4> QED BY <3>2, <4>2
    <3>3. CASE i # k + 1
      <4>1. i \in 1 .. k /\ (i # 1 => i - 1 \in 1 .. k + 1 /\ i - 1 # k + 1)
        BY <2>2, <3>3
      <4>2. h[i] = f[i] /\ (i # 1 => h[i - 1] = f[i - 1])
        BY <3>3, <4>1
      <4>3. f[i] = IF i = 1 THEN seqs[i] ELSE f[i - 1] \o seqs[i]
        BY <2>1, <4>1 DEF FlatEqn
      <4> QED BY <4>2, <4>3
    <3> QED BY <3>1, <3>2, <3>3
  <2>4. h = [i \in 1 .. k + 1 |-> IF i = 1 THEN seqs[i] ELSE h[i - 1] \o seqs[i]]
    BY <2>3
  <2>5. FlatEqn(h, seqs, k + 1)
    BY <2>4 DEF FlatEqn
  <2> HIDE DEF h
  <2> QED BY <2>2, <2>5
<1> HIDE DEF T
<1>3. \A k \in 0 .. m : k \in T
  BY <1>1, <1>2, UpTo
<1>4. m \in T
  BY <1>3
<1> QED BY <1>4 DEF T

\* A flattened sequence is come to by one of its sequences at a time.
Flattens(f, X, seqs) ==
  /\ f[0] = <<>>
  /\ \A i \in 0 .. Len(seqs) : f[i] \in Seq(X)
  /\ \A i \in 1 .. Len(seqs) : f[i] = f[i - 1] \o seqs[i]
  /\ FlattenSeq(seqs) = f[Len(seqs)]

LEMMA FlattenRuns ==
  ASSUME NEW X, NEW seqs \in Seq(Seq(X))
  PROVE  \E f : Flattens(f, X, seqs)
<1> DEFINE n == Len(seqs)
           g == CHOOSE f : FlatEqn(f, seqs, n)
           f == [i \in 0 .. n |-> IF i = 0 THEN <<>> ELSE g[i]]
<1>1. n \in Nat /\ \A i \in 1 .. n : seqs[i] \in Seq(X)
  OBVIOUS
<1>2. FlatEqn(g, seqs, n)
  BY <1>1, FlatIter
<1>3. FlattenSeq(seqs) = IF n = 0 THEN seqs ELSE g[n]
  BY <1>1 DEF FlattenSeq, FlatEqn
<1> HIDE DEF g
<1>4. f[0] = <<>>
  BY <1>1
<1>5. ASSUME NEW i \in 1 .. n PROVE f[i] = IF i = 1 THEN seqs[i] ELSE f[i - 1] \o seqs[i]
  <2>1. g[i] = IF i = 1 THEN seqs[i] ELSE g[i - 1] \o seqs[i]
    BY <1>2 DEF FlatEqn
  <2>2. f[i] = g[i] /\ (i # 1 => f[i - 1] = g[i - 1])
    BY <1>1
  <2> QED BY <2>1, <2>2
<1>6. FlattenSeq(seqs) = f[n]
  <2>1. CASE n = 0
    BY <1>1, <1>3, <2>1
  <2>2. CASE n # 0
    BY <1>1, <1>3, <2>2
  <2> QED BY <2>1, <2>2
<1> HIDE DEF f
<1> DEFINE T == {k \in 0 .. n : f[k] \in Seq(X) /\ (k > 0 => f[k] = f[k - 1] \o seqs[k])}
<1>7. 0 \in T
  <2>1. <<>> \in Seq(X) /\ 0 \in 0 .. n /\ ~(0 > 0)
    BY <1>1
  <2> QED BY <1>4, <2>1
<1>8. ASSUME NEW k \in 0 .. n, k < n, k \in T PROVE k + 1 \in T
  <2>1. k + 1 \in 1 .. n /\ k + 1 \in 0 .. n /\ (k + 1) - 1 = k /\ k \in Nat
    BY <1>1, <1>8
  <2>2. f[k] \in Seq(X) /\ seqs[k + 1] \in Seq(X)
    BY <1>1, <1>8, <2>1
  <2>3. f[k + 1] = IF k + 1 = 1 THEN seqs[k + 1] ELSE f[k] \o seqs[k + 1]
    BY <1>5, <2>1
  <2>4. f[k + 1] = f[k] \o seqs[k + 1]
    <3>1. CASE k = 0
      <4>1. f[k] = <<>> /\ f[k + 1] = seqs[k + 1]
        BY <1>4, <2>3, <3>1
      <4>2. <<>> \o seqs[k + 1] = seqs[k + 1]
        BY <2>2, ConcatEmptySeq
      <4> QED BY <4>1, <4>2
    <3>2. CASE k # 0
      <4>1. k + 1 # 1
        BY <2>1, <3>2
      <4> QED BY <2>3, <4>1
    <3> QED BY <3>1, <3>2
  <2>5. f[k + 1] \in Seq(X)
    BY <2>2, <2>4
  <2> QED BY <2>1, <2>4, <2>5
<1> HIDE DEF T
<1>9. \A k \in 0 .. n : k \in T
  BY <1>1, <1>7, <1>8, UpTo
<1>10. Flattens(f, X, seqs)
  <2>1. \A i \in 0 .. n : f[i] \in Seq(X)
    BY <1>9 DEF T
  <2>2. ASSUME NEW i \in 1 .. n PROVE f[i] = f[i - 1] \o seqs[i]
    <3>1. i \in 0 .. n /\ i > 0
      BY <1>1
    <3>2. i \in T
      BY <1>9, <3>1
    <3> QED BY <3>1, <3>2 DEF T
  <2> QED BY <1>4, <1>6, <2>1, <2>2 DEF Flattens
<1> QED BY <1>10

LEMMA FlattenType ==
  ASSUME NEW X, NEW seqs \in Seq(Seq(X))
  PROVE  FlattenSeq(seqs) \in Seq(X)
<1>1. PICK f : Flattens(f, X, seqs)
  BY FlattenRuns
<1>2. Len(seqs) \in 0 .. Len(seqs)
  OBVIOUS
<1> QED BY <1>1, <1>2 DEF Flattens

\* A finite set is walked whole, and each of its elements once.
LEMMA Walk ==
  ASSUME NEW S, IsFiniteSet(S)
  PROVE  /\ SetToSeq(S) \in Seq(S)
         /\ \A x \in S : \E i \in 1 .. Len(SetToSeq(S)) : SetToSeq(S)[i] = x
         /\ \A i, j \in 1 .. Len(SetToSeq(S)) : SetToSeq(S)[i] = SetToSeq(S)[j] => i = j
<1> DEFINE n == Cardinality(S)
           order == SetToSeq(S)
<1>1. n \in Nat /\ ExistsBijection(1 .. n, S)
  BY FS_CardinalityType
<1>2. PICK b : b \in Bijection(1 .. n, S)
  BY <1>1 DEF ExistsBijection
<1>3. b \in [1 .. n -> S] /\ IsInjective(b)
  BY <1>2 DEF Bijection, Injection, IsInjective
<1>4. order \in [1 .. n -> S] /\ IsInjective(order)
  BY <1>3 DEF SetToSeq
<1> HIDE DEF order
<1>5. order \in Seq(S) /\ Len(order) = n
  BY <1>1, <1>4
<1>6. \A i, j \in 1 .. n : order[i] = order[j] => i = j
  BY <1>4 DEF IsInjective
<1>7. order \in Injection(1 .. n, S)
  BY <1>4, <1>6 DEF Injection, IsInjective
<1>8. order \in Surjection(1 .. n, S)
  <2>1. Cardinality(1 .. n) = n
    BY <1>1, FS_Interval
  <2> QED BY <1>7, <2>1, FS_Injection
<1>9. \A x \in S : \E i \in 1 .. n : order[i] = x
  BY <1>8 DEF Surjection
<1> QED BY <1>5, <1>6, <1>9 DEF order

-----------------------------------------------------------------------------
(* The two folds of one sequence of frames.                                *)

\* The events both folds know.  A correction may state a step no int32 holds.
Known ==
  {e \in Events : e.type # "Unknown"}
    \cup [type : {"ResourceChanged"}, actor : Actors, delta : Int, to : Int32]

GoodStates == {st \in State : Sound(st)}

LEMMA GoodIsGood == \A st : Good(st) <=> st \in GoodStates
BY DEF Good, GoodStates

LEMMA AnyChangeAgrees ==
  ASSUME NEW a \in Actor, NEW d \in Int, a.body # None
  PROVE  Computed(a, d) = Changed(a, d)
<1>1. MaxInt \in Int /\ Bodies \subseteq Int
  BY EngineAssumption
<1>2. a.cur \in Int
  BY <1>1 DEF Actor, Int32
<1>4. a.body \in Int
  BY <1>1 DEF Actor
<1>5. CASE a.cur + d < 0
  BY <1>2, <1>4, <1>5 DEF Computed, Changed, Clamp
<1>6. CASE a.cur + d >= 0
  BY <1>2, <1>4, <1>6 DEF Computed, Changed, Clamp
<1> QED BY <1>2, <1>5, <1>6

LEMMA StepsAgree ==
  ASSUME NEW st \in GoodStates, NEW e \in Known
  PROVE  /\ Throws(st, e) <=> ~Accepts(st, e)
         /\ Accepts(st, e) => Becomes(st, e) = After(st, e) /\ After(st, e) \in GoodStates
<1> Good(st) /\ st \in State
  BY DEF GoodStates, Good
<1>1. CASE e \in Events /\ e.type # "Unknown"
  BY <1>1, BrowserRefusesWhatTheServerDoes, BrowserMakesWhatTheServerDoes, AcceptedKeepsSound,
     GoodIsGood
<1>2. CASE e \in [type : {"ResourceChanged"}, actor : Actors, delta : Int, to : Int32]
  <2>1. e.type = "ResourceChanged" /\ e.actor \in Actors /\ e.delta \in Int /\ e.to \in Int32
    BY <1>2
  <2>2. Throws(st, e) <=> \/ ~HasActor(st, e.actor)
                          \/ st.actors[e.actor].body = None
                          \/ Computed(st.actors[e.actor], e.delta) # e.to
    BY <2>1 DEF Throws
  <2>3. Accepts(st, e) <=> AcceptsChange(st, e)
    BY <2>1 DEF Accepts
  <2>4. HasActor(st, e.actor) => st.actors[e.actor] \in Actor
    BY <2>1 DEF HasActor, State
  <2>5. HasActor(st, e.actor) /\ st.actors[e.actor].body # None
          => Computed(st.actors[e.actor], e.delta) = Changed(st.actors[e.actor], e.delta)
    BY <2>1, <2>4, AnyChangeAgrees
  <2>6. Throws(st, e) <=> ~Accepts(st, e)
    BY <2>2, <2>3, <2>5 DEF AcceptsChange
  <2>7. ASSUME Accepts(st, e) PROVE Becomes(st, e) = After(st, e) /\ After(st, e) \in GoodStates
    <3>1. HasActor(st, e.actor) /\ st.actors[e.actor].body # None
          /\ Changed(st.actors[e.actor], e.delta) = e.to
      BY <2>3, <2>7 DEF AcceptsChange
    <3>2. Becomes(st, e) = [st EXCEPT !.actors[e.actor].cur = e.to]
      BY <2>1, <2>5, <3>1 DEF Becomes
    <3>3. After(st, e) = [st EXCEPT !.actors[e.actor].cur = e.to]
      BY <2>1, <3>1 DEF After
    <3> DEFINE v == [st.actors[e.actor] EXCEPT !.cur = e.to]
    <3>4. v \in Actor
      BY <2>1, <2>4, <3>1 DEF Actor
    <3>5. [st EXCEPT !.actors[e.actor].cur = e.to] = [st EXCEPT !.actors[e.actor] = v]
      BY <2>1 DEF State
    <3> HIDE DEF v
    <3> QED BY <2>1, <3>2, <3>3, <3>4, <3>5, PutActor, GoodIsGood
  <2> QED BY <2>6, <2>7
<1> QED BY <1>1, <1>2 DEF Known

LEMMA IngestsOne ==
  ASSUME NEW st, NEW e, ~Throws(st, e)
  PROVE  Ingest([derived |-> st, failed |-> FALSE], e)
           = [derived |-> Becomes(st, e), failed |-> FALSE]
BY DEF Ingest

\* What frames fold to is a sound state or none, and a browser of the state
\* they are folded onto comes to it too.
LEMMA FoldsAgree ==
  ASSUME NEW st \in GoodStates, NEW frames \in Seq(Known)
  PROVE  /\ Folded(st, frames) \in GoodStates \cup {None}
         /\ Folded(st, frames) # None =>
              Ingested([derived |-> st, failed |-> FALSE], frames)
                = [derived |-> Folded(st, frames), failed |-> FALSE]
<1> DEFINE n == Len(frames)
           new == [derived |-> st, failed |-> FALSE]
<1>1. PICK p : Runs("server", p, st, frames) /\ Folded(st, frames) = p[n]
  BY RunExists
<1>2. PICK q : Runs("browser", q, new, frames) /\ Ingested(new, frames) = q[n]
  BY RunExists
<1> DEFINE T == {k \in 0 .. n : /\ p[k] \in GoodStates \cup {None}
                                /\ p[k] # None => q[k] = [derived |-> p[k], failed |-> FALSE]}
<1>3. n \in Nat
  OBVIOUS
<1>4. 0 \in T
  <2>1. p[0] = st /\ q[0] = new
    BY <1>1, <1>2 DEF Runs
  <2>2. p[0] \in GoodStates \cup {None} /\ q[0] = [derived |-> p[0], failed |-> FALSE]
    BY <2>1
  <2>3. 0 \in 0 .. n
    BY <1>3
  <2> QED BY <2>2, <2>3
<1>5. ASSUME NEW k \in 0 .. n, k < n, k \in T PROVE k + 1 \in T
  <2>1. k + 1 \in 1 .. n /\ k + 1 \in 0 .. n /\ (k + 1) - 1 = k
    BY <1>3, <1>5
  <2>2. frames[k + 1] \in Known
    BY <2>1
  <2>3. p[k + 1] = FoldStep(p[k], frames[k + 1]) /\ q[k + 1] = Ingest(q[k], frames[k + 1])
    BY <1>1, <1>2, <2>1 DEF Runs, StepBy
  <2>4. CASE p[k] = None \/ ~Accepts(p[k], frames[k + 1])
    <3>1. p[k + 1] = None
      BY <2>3, <2>4 DEF FoldStep
    <3> QED BY <2>1, <3>1
  <2>5. CASE p[k] # None /\ Accepts(p[k], frames[k + 1])
    <3>1. p[k] \in GoodStates /\ q[k] = [derived |-> p[k], failed |-> FALSE]
      BY <1>5, <2>5
    <3>2. p[k + 1] = After(p[k], frames[k + 1])
      BY <2>3, <2>5 DEF FoldStep
    <3>3. /\ ~Throws(p[k], frames[k + 1]) /\ p[k + 1] \in GoodStates
          /\ Becomes(p[k], frames[k + 1]) = p[k + 1]
      BY <2>2, <2>5, <3>1, <3>2, StepsAgree
    <3>4. q[k + 1] = [derived |-> p[k + 1], failed |-> FALSE]
      BY <2>3, <3>1, <3>3, IngestsOne
    <3> QED BY <2>1, <3>3, <3>4
  <2> QED BY <2>4, <2>5
<1> HIDE DEF T
<1>6. \A k \in 0 .. n : k \in T
  BY <1>3, <1>4, <1>5, UpTo
<1>7. n \in T
  BY <1>3, <1>6
<1> QED BY <1>1, <1>2, <1>7 DEF T

LEMMA OneFrame ==
  ASSUME NEW X, NEW e \in X
  PROVE  <<e>> \in Seq(X)
OBVIOUS

LEMMA NoFrame == \A X : <<>> \in Seq(X)
OBVIOUS

LEMMA BothFrames ==
  ASSUME NEW X, NEW a \in Seq(X), NEW b \in Seq(X)
  PROVE  a \o b \in Seq(X)
OBVIOUS

\* A step the fold takes.
LEMMA Steps ==
  ASSUME NEW x \in State, NEW e, Accepts(x, e)
  PROVE  Folded(x, <<e>>) = After(x, e)
<1>1. x # None
  BY EngineAssumption
<1> QED BY <1>1, FoldedOne DEF FoldStep

=============================================================================
