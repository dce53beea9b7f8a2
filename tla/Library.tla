------------------------------ MODULE Library ------------------------------
(***************************************************************************)
(* The files a table is loaded from: the art directory (artlib), maps      *)
(* (mapdef) and adventures (adventure), what each must hold to be taken,   *)
(* and the events it becomes.                                              *)
(*                                                                         *)
(* A file is the record it decodes to.  A grid is the set of its squares   *)
(* and a footprint the set it covers.  Of art only one thing can stop a    *)
(* table, so that is all a directory is asked here: every other outcome of *)
(* a lookup draws the square plain, with a warning to who asked.           *)
(***************************************************************************)
EXTENDS Engine, FiniteSets

CONSTANTS Arts,          \* what art a map may name
          MaxWireTiles   \* MaxWireTiles: more do not fit a frame

-----------------------------------------------------------------------------
(* Art.  A directory that can be read holds of each piece nothing, its     *)
(* name but for the case ("cased"), a picture alone, a sidecar that is     *)
(* whole, one that is no sidecar of any version ("torn"), or one that      *)
(* declares a later version.                                               *)

Pieces == {"none", "cased", "picture", "whole", "torn", "later"}
ArtDirs == [state : {"absent", "unreadable", "read"}, pieces : [Arts -> Pieces]]

\* The one answer of Lookup that is no picture and no warning either.
DeclaresLater(dir, art) == dir.state = "read" /\ art \in Arts /\ dir.pieces[art] = "later"

-----------------------------------------------------------------------------
(* A scene: [id, grid, tiles, overrides, objects, places].                 *)

Walls == {"stone-wall", "wood-wall"}
StandardTiles == Walls \cup {"wood-door", "stone", "wood", "earth", "grass", "sand", "water",
                             "metal", "ice"}

Spot == [token : Tokens, actor : Actors, at : Squares, text : Texts]
IsScene(m) == m.id \in Scenes /\ m.places \in Seq(Spot)

\* No tiles, or one for every square of the grid and for no other.
TilesHold(m) == DOMAIN m.tiles \in {{}, m.grid} /\ \A sq \in DOMAIN m.tiles : m.tiles[sq] \in StandardTiles

OverridesHold(m) ==
  DOMAIN m.overrides \subseteq m.grid /\ (DOMAIN m.overrides # {} => DOMAIN m.tiles # {})

\* No id twice.
Distinct(ids) == Cardinality(ToSet(ids)) = Len(ids)

ObjectsHold(m) ==
  /\ Distinct([i \in DOMAIN m.objects |-> m.objects[i].id])
  /\ \A o \in ToSet(m.objects) : o.covers # {} /\ o.covers \subseteq m.grid

ArtDeclared(m) == \A o \in ToSet(m.objects) : o.art # None

InAWall(m, sq) == sq \in DOMAIN m.tiles /\ m.tiles[sq] \in Walls
PlacesHold(m) == \A p \in ToSet(m.places) : p.at \in m.grid /\ ~InAWall(m, p.at)

\* A tile's art is looked up where there are tiles; an object draws from its own
\* art, so it has to have some.
TileResolves(m, dir, sq) == sq \in DOMAIN m.overrides => ~DeclaresLater(dir, m.overrides[sq])
ObjectResolves(dir, o) == o.art # None /\ ~DeclaresLater(dir, o.art)

\* BuildSceneCreated: whether a scene has an event.
Builds(m, dir) ==
  /\ Cardinality(DOMAIN m.tiles) <= MaxWireTiles
  /\ \A sq \in DOMAIN m.tiles : TileResolves(m, dir, sq)
  /\ \A o \in ToSet(m.objects) : ObjectResolves(dir, o)

Created(m) == [type |-> "SceneCreated", scene |-> m.id]
Placed(m, p) ==
  [type |-> "TokenPlaced", token |-> p.token, scene |-> m.id, actor |-> p.actor, at |-> p.at,
   text |-> p.text]
Placing(m) == [i \in DOMAIN m.places |-> Placed(m, m.places[i])]

-----------------------------------------------------------------------------
(* Maps.  A file says its version, which a scene of an adventure does not. *)

LoadsMap(m) ==
  /\ m.version = "current" /\ m.grid # {}
  /\ TilesHold(m) /\ OverridesHold(m) /\ ObjectsHold(m) /\ ArtDeclared(m) /\ PlacesHold(m)

\* LoadInstalled: the name of the file is the id it has to declare.  disk holds
\* files by name, and a name that is there but for its case is refused.
Installs(disk, id, dir) ==
  /\ id \in DOMAIN disk /\ disk[id] # None
  /\ LoadsMap(disk[id]) /\ disk[id].id = id
  /\ Builds(disk[id], dir)

MapEvents(m) == <<Created(m)>> \o Placing(m)

-----------------------------------------------------------------------------
(* Adventures: [narration, actors, scenes, notes], each a sequence in the  *)
(* order of its files.                                                     *)

ActorLoads(a) ==
  /\ a.is.kind # "unspecified"
  /\ a.is.body # None /\ a.is.body > 0 => a.is.cur <= a.is.body

ActorsLoad(adv) ==
  /\ Distinct([i \in DOMAIN adv.actors |-> adv.actors[i].actor])
  /\ \A a \in ToSet(adv.actors) : ActorLoads(a)

\* Nobody controls an actor of a file.
Sheet == [name : Names \cup {None}, body : Bodies \cup {None}, cur : Int32, kind : Kinds,
          ctl : {{}}]

IsAdventure(adv) ==
  /\ adv.scenes \in Seq(ToSet(adv.scenes)) /\ \A m \in ToSet(adv.scenes) : IsScene(m)
  /\ adv.actors \in Seq([actor : Actors, is : Sheet])
  /\ adv.notes \in Seq(NoteKeys)

\* Mutation: a token's id is looked for in its own scene alone.
TokensDistinctInAScene(adv) == \A m \in ToSet(adv.scenes) :
  Distinct([i \in DOMAIN m.places |-> m.places[i].token])

\* A token's id is no other's in all the scenes.
TokensDistinct(adv) ==
  LET places == FlattenSeq([i \in DOMAIN adv.scenes |-> adv.scenes[i].places])
  IN  Distinct([i \in DOMAIN places |-> places[i].token])

\* Mutation: a placement may stand for an actor the campaign is to have.
PlacesActorsOfAny(adv) == TRUE

PlacesItsActors(adv) == \A m \in ToSet(adv.scenes) : \A p \in ToSet(m.places) :
  \E a \in ToSet(adv.actors) : a.actor = p.actor

SceneLoads(m, dir) ==
  /\ m.grid # {}
  /\ TilesHold(m) /\ OverridesHold(m) /\ ObjectsHold(m)
  /\ Builds(m, dir)
  /\ PlacesHold(m)

ScenesLoad(adv, dir) ==
  /\ Distinct([i \in DOMAIN adv.scenes |-> adv.scenes[i].id])
  /\ \A m \in ToSet(adv.scenes) : SceneLoads(m, dir)
  /\ TokensDistinct(adv) /\ PlacesItsActors(adv)

NotesLoad(adv) == Distinct(adv.notes)

\* Load.  A manifest alone is a mistake.
LoadsAdventure(adv, dir) ==
  /\ dir.state # "unreadable"
  /\ ActorsLoad(adv) /\ ScenesLoad(adv, dir) /\ NotesLoad(adv)
  /\ adv.scenes \o adv.actors \o adv.notes # <<>>

\* checkCollisions: what it would make is not there already.
Collides(adv, st) ==
  \/ \E m \in ToSet(adv.scenes) :
       HasScene(st, m.id) \/ \E p \in ToSet(m.places) : HasToken(st, p.token)
  \/ \E a \in ToSet(adv.actors) : HasActor(st, a.actor)
  \/ \E k \in ToSet(adv.notes) : st.notes[k] # None

\* Compile's order: a token after its scene and its actor.
AdventureEvents(adv) ==
  <<[type |-> "AdventureLoaded"]>>
  \o [i \in DOMAIN adv.scenes |-> Created(adv.scenes[i])]
  \o [i \in DOMAIN adv.actors |-> [type |-> "ActorAdded", actor |-> adv.actors[i].actor,
                                   is |-> adv.actors[i].is]]
  \o FlattenSeq([i \in DOMAIN adv.scenes |-> Placing(adv.scenes[i])])
  \o [i \in DOMAIN adv.notes |-> [type |-> "NoteUpserted", key |-> adv.notes[i],
                                  visibility |-> "public"]]
  \o <<[type |-> "NarrationAdded", from |-> 0, to |-> 0, seq |-> 1]>>

CompilesAdventure(adv, st, dir) == ~Collides(adv, st) /\ \A m \in ToSet(adv.scenes) : Builds(m, dir)
=============================================================================
