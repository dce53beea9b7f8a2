----------------------------- MODULE MCPerceive -----------------------------
(* An instance of Perceive for TLC: a strip of three squares with a door in *)
(* the middle, a hero and a goblin, and the events of a campaign drawn from *)
(* one topic.                                                               *)
EXTENDS Perceive

CONSTANTS scene, cellar, hero, gob, th, tg, ann, prone, note, s1, s2, grak, snik, rosa,
          plain, scarred

Strip == {<<0, 0>>, <<1, 0>>, <<2, 0>>}
Hall == [s \in {scene, cellar} |-> [width |-> 3, height |-> 1, objects |-> {},
                            tiles |-> [sq \in {<<1, 0>>} |-> "door"]]]

Add(a, name, body, cur, kind) ==
  [type |-> "ActorAdded", actor |-> a,
   is |-> [name |-> name, body |-> body, cur |-> cur, kind |-> kind, ctl |-> {}]]
PlaceIn(s, t, a, at) ==
  [type |-> "TokenPlaced", token |-> t, scene |-> s, actor |-> a, at |-> at, text |-> plain]
Place(t, a, at) == PlaceIn(scene, t, a, at)
Lift(t) == [type |-> "TokenRemoved", token |-> t]
Move(t, at) == [type |-> "TokenMoved", token |-> t, at |-> at]
Doors == [type : {"DoorOpened", "DoorClosed"}, scene : {scene}, at : {<<1, 0>>}]
Party_(a) == {Grant(a, ann, "party"), Grant(a, ann, "creature")}
Turns(a) == [type : {"ConditionApplied", "ConditionRemoved"}, actor : {a}, condition : {prone}]

Begin == <<[type |-> "SceneCreated", scene |-> scene],
           [type |-> "SceneCreated", scene |-> cellar],
           Add(hero, rosa, 2, 2, "creature"), Place(th, hero, <<0, 0>>),
           Add(gob, grak, 1, 1, "creature"), Place(tg, gob, <<2, 0>>)>>

\* What moves and stands on the board.
Board ==
  Doors \cup Party_(hero)
    \cup {Move(th, <<0, 0>>), Move(th, <<2, 0>>), Move(tg, <<0, 0>>), Move(tg, <<2, 0>>),
          Lift(tg), Place(tg, gob, <<2, 0>>),
          Lift(th), Place(th, hero, <<0, 0>>), PlaceIn(cellar, th, hero, <<0, 0>>),
          [type |-> "TokenDescribed", token |-> tg, text |-> scarred]}

Here == Doors \cup Party_(hero) \cup Party_(gob)

\* What changes of the goblin, in sight and out of it.
Status_ ==
  Here \cup Turns(gob)
    \cup [type : {"ResourceChanged"}, actor : {gob}, delta : {1, -1}, to : {0, 1}]
    \cup {[type |-> "ActorControlRevoked", actor |-> gob, person |-> ann]}

\* The goblin goes, and comes back as itself or as another under its id.
Comings ==
  Here \cup [type : {"ConditionApplied"}, actor : {gob}, condition : {prone}]
    \cup {Lift(tg), [type |-> "ActorRemoved", actor |-> gob], Place(tg, gob, <<2, 0>>),
          Add(gob, grak, 1, 0, "creature"), Add(gob, snik, 1, 1, "party")}

\* What is said and written.
Talk ==
  Doors \cup Party_(hero)
    \cup [type : {"SessionStarted"}, id : {s1, s2}] \cup [type : {"SessionEnded"}]
    \cup [type : {"NoteUpserted"}, key : {note}, visibility : Visibilities]
    \cup [type : {"NoteDeleted"}, key : {note}]
    \cup {[type |-> "WhisperAdded", from |-> hero, to |-> {}],
          [type |-> "WhisperAdded", from |-> None, to |-> {hero}]}

Topics == {Board, Status_, Comings, Talk}

\* A sheet whose current is above its maximum, which add_actor takes.
Unbounded == {Comings \cup {Add(gob, grak, 1, 2, "party")}}
=============================================================================
