----------------------------- MODULE MCCommands -----------------------------
(* A table of a dungeon master, an agent and a player, and what it may be  *)
(* started with: each play is a ruleset, an ability, an adventure, maps    *)
(* and the commands that are given, on a world that may have begun.        *)
EXTENDS Commands, Formula

CONSTANTS hall, vault, orc, elf, tokenA, tokenB, ann, master, agent, prone, lore, night,
          grak, plain, moss

Strip == {<<1, 1>>, <<2, 1>>, <<4, 1>>}
Roles == master :> "dm" @@ agent :> "agent" @@ ann :> "player"
Doors == {<<hall, <<2, 1>>>>}
Connections == [of : {master, agent, ann}, n : {1}]

-----------------------------------------------------------------------------
(* Rules.                                                                  *)

Hp(scope) == Ref("#", scope, Resource)
Die(n) == Node("dice", <<Lit(1), Lit(n)>>)

\* Bloodied at one, and up again above it.
Bloodied == [when |-> Node("max", <<Lit(0), Node("-", <<Lit(2), Hp("none")>>)>>),
             apply |-> prone, removes |-> TRUE]
Unsure == [Bloodied EXCEPT !.when = Node("-", <<Die(2), Lit(1)>>)]

RulesOf(thresholds) ==
  [types |-> Resource :> "resource", thresholds |-> thresholds, conditions |-> {prone}]

Atom(consumes, provides, contributes) ==
  [params |-> <<>>, consumes |-> consumes, provides |-> provides, contributes |-> contributes]
Entry(atom) == [atom |-> atom, bind |-> <<>>]

Aim == Atom({}, {}, <<[is |-> "targeting", range |-> Lit(2), max |-> Lit(2)]>>)
Strike == Atom({}, {"hit"}, <<[is |-> "resolution", roll |-> Die(3), vs |-> Hp("target"),
                               key |-> "hit", branches |-> <<"hit", "miss">>]>>)
On(branch, effects) ==
  [is |-> "outcome", key |-> IF branch = "always" THEN None ELSE "hit", branch |-> branch,
   effects |-> effects]
Change(t) == [is |-> "change", by |-> t]
Apply == [is |-> "apply", condition |-> prone]

\* A blow of a die bound to it, the less the caster has left, that knocks down.
Blow == [params |-> <<"n">> :> "int" @@ <<"c">> :> "condition", consumes |-> {"hit"}, provides |-> {},
         contributes |->
           <<On("hit", <<Change(Node("-", <<Hp("caster"),
                                Node("dice", <<Lit(1), Param(<<"n">>)>>)>>)),
                         [is |-> "apply", condition |-> <<"c">>]>>),
             On("miss", <<[is |-> "remove", condition |-> <<"c">>]>>)>>]
Heal == Atom({}, {}, <<On("always", <<Change(Lit(3)), Change(Lit(1))>>)>>)

Bound == [atom |-> Blow, bind |-> <<"n">> :> Lit(3) @@ <<"c">> :> prone]
Struck(cost) == [cost |-> cost, compose |-> <<Entry(Aim), Bound, Entry(Strike), Entry(Heal)>>]

\* One that does nothing where it misses, and costs all its caster has.
Flurry == [cost |-> 2, compose |-> <<Entry(Aim), Bound, Entry(Strike)>>]

\* Every two atoms of outcomes, and all the keys they may make and need.
Outcomes == {On("always", <<Apply>>), On("hit", <<Change(Lit(1))>>)}
Contributed == {<<o>> : o \in Outcomes} \cup {<<o, p>> : o, p \in Outcomes}
Bits == {a \in {Atom(c, p, cs) : c \in SUBSET {"hit", "wound", "mark"},
                                 p \in {{}, {"wound"}, {"mark"}}, cs \in Contributed} : LoadsAtom(a)}
Composed(a, b) == [cost |-> None, compose |-> <<Entry(a), Entry(Aim), Entry(b), Entry(Strike)>>]

-----------------------------------------------------------------------------
(* Files.                                                                  *)

Grid == {<<1, 1>>, <<2, 1>>}
Tiled(wall) == <<1, 1>> :> "stone" @@ <<2, 1>> :> wall
At(token, actor, at) == [token |-> token, actor |-> actor, at |-> at, text |-> plain]
Crate(drawn) == [id |-> "crate", covers |-> {<<1, 1>>}, art |-> drawn]
SceneFile(id, tiles, objects, places) ==
  [id |-> id, version |-> "current", grid |-> Grid, tiles |-> tiles,
   overrides |-> IF tiles = <<>> THEN <<>> ELSE <<1, 1>> :> moss,
   objects |-> objects, places |-> places]
ActorFile(a, kind, cur) ==
  [actor |-> a, is |-> [name |-> grak, body |-> 4, cur |-> cur, kind |-> kind, ctl |-> {}]]

Adventure(scenes, actors, notes) == [scenes |-> scenes, actors |-> actors, notes |-> notes]

\* What an author may have written, right or wrong.
ScenesWritten ==
  {SceneFile(id, tiles, objects, places) :
     id \in {hall, vault}, tiles \in {Tiled("stone"), Tiled("stone-wall")},
     objects \in {<<>>, <<Crate(moss)>>, <<Crate(None)>>},
     places \in {<<>>, <<At(tokenA, orc, <<1, 1>>)>>, <<At(tokenA, orc, <<2, 1>>)>>,
                 <<At(tokenA, orc, <<1, 1>>), At(tokenB, elf, <<1, 1>>)>>}}
Plain == SceneFile(vault, <<>>, <<>>, <<At(tokenA, orc, <<1, 1>>)>>)
AdventuresWritten ==
  {Adventure(scenes, actors, notes) :
     scenes \in {<<s>> : s \in ScenesWritten} \cup {<<s, Plain>> : s \in ScenesWritten},
     actors \in {<<>>, <<ActorFile(orc, "creature", 4)>>, <<ActorFile(orc, "creature", 5)>>,
                 <<ActorFile(orc, "creature", 4), ActorFile(elf, "party", 1)>>,
                 <<ActorFile(orc, "creature", 4), ActorFile(orc, "party", 4)>>},
     notes \in {<<>>, <<lore>>, <<lore, lore>>}}

Cavern == Adventure(<<SceneFile(hall, Tiled("stone-wall"), <<Crate(moss)>>, <<At(tokenA, orc, <<1, 1>>)>>)>>,
                    <<ActorFile(orc, "creature", 3)>>, <<lore>>)

ArtOf(piece) == [state |-> "read", pieces |-> [a \in Arts |-> piece]]
SomeArt == {ArtOf("whole"), ArtOf("later"), [ArtOf("none") EXCEPT !.state = "absent"]}

MapOf(wall) == SceneFile(vault, Tiled(wall), <<>>, <<At(tokenB, orc, <<1, 1>>)>>)
SomeMaps == {None, MapOf("wood"), MapOf("wood-wall")}

-----------------------------------------------------------------------------
(* The worlds the plays begin with.                                        *)

Stands(token, actor, at) ==
  [type |-> "TokenPlaced", token |-> token, scene |-> hall, actor |-> actor, at |-> at, text |-> plain]
Adds(a, kind, body, cur) ==
  [type |-> "ActorAdded", actor |-> a,
   is |-> [name |-> grak, body |-> body, cur |-> cur, kind |-> kind, ctl |-> {}]]
Hands(a) == [type |-> "ActorControlGranted", actor |-> a, person |-> ann, kind |-> "party"]

Duel(cur, at) ==
  Folded(NewState, <<[type |-> "SceneCreated", scene |-> hall], Adds(elf, "party", 4, cur),
                     Adds(orc, "creature", 0, 2), Hands(elf), Stands(tokenA, elf, <<1, 1>>),
                     Stands(tokenB, orc, at)>>)

-----------------------------------------------------------------------------
(* Commands.                                                               *)

Command(name, args) == [name |-> name, args |-> args]
UseOn(targets) == Command("use_ability", [caster |-> elf, targets |-> targets])
PlaceOrc == Command("place_token", [token |-> tokenB, scene |-> hall, actor |-> orc, at |-> <<1, 1>>,
                                    text |-> plain])
AddOrc == Command("add_actor", [actor |-> orc,
            is |-> [name |-> None, body |-> 4, cur |-> 1, kind |-> "creature", ctl |-> {}]])
RemoveOrc == Command("remove_actor", [actor |-> orc])
LoadTheAdventure == Command("load_adventure", [adventure |-> "cavern"])
LoadTheMap == Command("load_map", [map |-> vault])

Fighting == {UseOn(<<orc>>), UseOn(<<orc, elf>>), RemoveOrc,
             Command("move_token", [token |-> tokenA, at |-> <<4, 1>>]),
             Command("remove_condition", [actor |-> elf, condition |-> prone])}

Staging == {LoadTheAdventure, PlaceOrc, AddOrc, RemoveOrc,
            Command("upsert_note", [key |-> lore, visibility |-> "secret"]),
            Command("delete_note", [key |-> lore]),
            Command("remove_token", [token |-> tokenA])}

Mapping == {LoadTheMap, AddOrc}

Meeting ==
  {Command("grant_actor_control", [actor |-> orc, person |-> ann, kind |-> "party"]),
   Command("revoke_actor_control", [actor |-> elf, person |-> ann]),
   Command("remove_participant", [person |-> ann]),
   Command("open_door", [scene |-> hall, at |-> <<2, 1>>]),
   Command("close_door", [scene |-> hall, at |-> <<2, 1>>]),
   Command("start_session", [id |-> night]), Command("end_session", <<>>),
   Command("add_narration", [from |-> 0, to |-> 0, seq |-> 1, ooc |-> FALSE, actor |-> elf]),
   Command("add_whisper", [from |-> elf, to |-> {}]),
   Command("add_whisper", [from |-> None, to |-> {elf}]),
   Command("describe_token", [token |-> tokenA, text |-> plain])}

Unedited == [art |-> {}, maps |-> {}]
Play(ruleset, ability, adventure, given) ==
  [ruleset |-> ruleset, ability |-> ability, adventure |-> adventure, commands |-> given,
   disk |-> <<>>, edits |-> Unedited]

Fights == {Play(RulesOf(ths), Struck(cost), None, Fighting) :
             ths \in {<<>>, <<Bloodied>>, <<Unsure>>}, cost \in {None, 2}}
Reading == {Play(RulesOf(<<>>), Struck(None), adv, {}) : adv \in AdventuresWritten}
Composing == {Play(RulesOf(<<>>), Composed(a, b), None, {}) : a, b \in Bits}

Began ==
  \/ \E p \in Fights : CommandsStarted(p, Duel(4, <<2, 1>>), ArtOf("none"))
  \/ \E p \in Reading : CommandsStarted(p, NewState, ArtOf("whole"))
  \/ \E p \in Composing : CommandsStarted(p, NewState, ArtOf("whole"))
  \/ CommandsStarted([Play(RulesOf(<<>>), Struck(None), Cavern, Staging) EXCEPT !.edits.art = SomeArt],
                     NewState, ArtOf("whole"))
  \/ CommandsStarted([Play(RulesOf(<<>>), Struck(None), None, Mapping) EXCEPT
                       !.disk = vault :> MapOf("wood"),
                       !.edits = [art |-> SomeArt, maps |-> SomeMaps]],
                     NewState, ArtOf("whole"))
  \/ CommandsStarted(Play(RulesOf(<<>>), Struck(None), None, Meeting), Duel(4, <<4, 1>>),
                     ArtOf("whole"))

\* Each of these is a start the theorems are about.
ASSUME PlaysAreTyped ==
  /\ \A p \in Fights \cup Reading \cup Composing : IsPlay(p)
  /\ \A m \in SomeMaps : IsFile(m)
  /\ \A cmd \in Fighting \cup Staging \cup Meeting :
       IsCommand(Play(RulesOf(<<>>), Struck(None), Cavern, {}), cmd)
  /\ IsAdventure(Cavern) /\ SomeArt \subseteq ArtDirs
  /\ Duel(4, <<2, 1>>) \in State /\ Sound(Duel(4, <<2, 1>>))

\* A server whose ruleset has no ability that compiles, and which nobody commands.
Idle == CommandsStarted(Play(RulesOf(<<>>), [cost |-> None, compose |-> <<>>], None, {}), NewState,
                        ArtOf("none"))

\* An ability that its caster can pay for once.
Flurrying == CommandsStarted(Play(RulesOf(<<>>), Flurry, None, {UseOn(<<orc>>)}),
                             Duel(2, <<2, 1>>), ArtOf("none"))

\* No formula is read meanwhile.
Unread == source = [text |-> <<")">>, bound |-> <<")">>]

PaidSpec == Flurrying /\ Unread /\ [][CommandsNext /\ UNCHANGED source]_<<commands, source>>
=============================================================================
