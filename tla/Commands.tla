------------------------------ MODULE Commands ------------------------------
(***************************************************************************)
(* What a command makes of the world: internal/gateway's authorization     *)
(* (authz.go), the validators, the conversion of a command into events     *)
(* (convert.go) and the handlers that append a batch (server.go,           *)
(* ruleset.go, adventure.go, map.go).                                      *)
(*                                                                         *)
(* Every connection answers its own commands, one at a time, on a state it *)
(* read before it appends: between the two any other may have appended.    *)
(* Only the append is atomic, the campaign's (Campaign.tla), which folds   *)
(* the batch on the world as it is by then, or refuses all of it.          *)
(*                                                                         *)
(* The gates of a player's sight (server.go, before the doors) only refuse *)
(* and are left out, and the doors and the promotion of the table's people *)
(* are Door.tla's: those commands append nothing.                          *)
(***************************************************************************)
EXTENDS Rules, Library

CONSTANTS RoleOf,      \* what each participant is: a function
          Conns,       \* the connections, [of, n]: the participant's and which it is
          DoorSquares  \* the squares that are doors

\* A batch that takes all of something away is made of a state's, which are finite.
ASSUME CommandsAssumption == IsFiniteSet(Tokens) /\ IsFiniteSet(Actors)

VARIABLES
  play,     \* what the server was started with, [ruleset, ability, adventure], the commands
            \* it is given, the map files there are (disk), and what they and the art may
            \* be edited to (edits)
  power,    \* the ability as it compiled, or Refused
  world,    \* the fold of the log
  pending,  \* of each connection the batch it is about to append, or None
  removed,  \* the participants whose credential is revoked
  art,      \* the art directory as it is
  shelf,    \* the maps that have been looked up
  ledger    \* how often an adventure was loaded, and an ability used and for how much

commands == <<play, power, world, pending, removed, art, shelf, ledger>>

-----------------------------------------------------------------------------
(* Authorize: who may issue what, of a state.  A command is [name, args].  *)

Staff == {"dm", "agent"}
Everyone == Staff \cup {"player"}

\* commandRoles; set_viewpoint is the pump's (Seat.tla).
CommandRoles ==
  [move_token |-> Everyone, add_actor |-> Staff, place_token |-> Staff, describe_token |-> Staff,
   remove_token |-> Staff, remove_actor |-> Staff, start_session |-> Staff, end_session |-> Staff,
   use_ability |-> Everyone, remove_condition |-> Everyone, add_narration |-> Everyone,
   add_whisper |-> Everyone, upsert_note |-> Staff, delete_note |-> Staff,
   load_adventure |-> Staff, load_map |-> Staff, grant_actor_control |-> Staff,
   revoke_actor_control |-> Everyone, remove_participant |-> Staff,
   open_door |-> Everyone, close_door |-> Everyone]

IsPlayer(p) == RoleOf[p] = "player"
Controls(st, p, a) == HasActor(st, a) /\ p \in st.actors[a].ctl

\* Who a player speaks as, and whispers from.
OwnNamedMember(st, p, a) ==
  Controls(st, p, a) /\ IsPartyMember(st.actors[a]) /\ st.actors[a].name # None

MayVoice(p, line, st) ==
  CASE line.ooc -> line.actor = None
    [] ~line.ooc /\ ~IsPlayer(p) -> line.actor = None
    [] ~line.ooc /\ IsPlayer(p) -> OwnNamedMember(st, p, line.actor)

MayWhisper(p, w, st) ==
  IF IsPlayer(p) THEN w.to = {} /\ OwnNamedMember(st, p, w.from)
  ELSE /\ w.from = None /\ w.to # {}
       /\ \A a \in w.to : HasActor(st, a) /\ IsPartyMember(st.actors[a])

Beside(sq, at) == Gap(sq[1], at[1]) <= 1 /\ Gap(sq[2], at[2]) <= 1
MayWorkDoor(p, door, st) == \E t \in Tokens :
  /\ HasToken(st, t) /\ st.tokens[t].scene = door.scene
  /\ Controls(st, p, st.tokens[t].actor) /\ Beside(st.tokens[t].at, door.at)

\* playerRules: what a player may do it to.
PlayerMay(p, cmd, st) ==
  CASE cmd.name = "move_token" ->
         HasToken(st, cmd.args.token) /\ Controls(st, p, st.tokens[cmd.args.token].actor)
    [] cmd.name \in {"use_ability"} -> Controls(st, p, cmd.args.caster)
    [] cmd.name = "remove_condition" -> Controls(st, p, cmd.args.actor)
    [] cmd.name = "revoke_actor_control" -> cmd.args.person = p /\ Controls(st, p, cmd.args.actor)
    [] cmd.name \in {"open_door", "close_door"} -> MayWorkDoor(p, cmd.args, st)
    [] OTHER -> TRUE

Authorized(p, cmd, st) ==
  /\ RoleOf[p] \in CommandRoles[cmd.name]
  /\ cmd.name = "add_narration" => MayVoice(p, cmd.args, st)
  /\ cmd.name = "add_whisper" => MayWhisper(p, cmd.args, st)
  /\ IsPlayer(p) => PlayerMay(p, cmd, st)

-----------------------------------------------------------------------------
(* The validators, and the one event most commands become.                 *)

IsADoor(args) == <<args.scene, args.at>> \in DoorSquares

\* An actor is added with no controller and is something, a grant says what it
\* makes of one, and a note who reads it.
ValidActor(args) == args.is.ctl = {} /\ (args.actor # None => args.is.kind # "unspecified")
ValidGrant(args) == args.kind # "unspecified"
ValidNote(args) == args.visibility # "unspecified"

Valid(cmd) ==
  CASE cmd.name \in {"open_door", "close_door"} -> IsADoor(cmd.args)
    [] cmd.name = "grant_actor_control" -> ValidGrant(cmd.args)
    [] cmd.name = "add_actor" -> ValidActor(cmd.args)
    [] cmd.name = "upsert_note" -> ValidNote(cmd.args)
    [] OTHER -> TRUE

EventOf ==
  [move_token |-> "TokenMoved", add_actor |-> "ActorAdded", place_token |-> "TokenPlaced",
   describe_token |-> "TokenDescribed", remove_token |-> "TokenRemoved",
   start_session |-> "SessionStarted", end_session |-> "SessionEnded",
   remove_condition |-> "ConditionRemoved", add_narration |-> "NarrationAdded",
   add_whisper |-> "WhisperAdded", upsert_note |-> "NoteUpserted", delete_note |-> "NoteDeleted",
   grant_actor_control |-> "ActorControlGranted", revoke_actor_control |-> "ActorControlRevoked",
   open_door |-> "DoorOpened", close_door |-> "DoorClosed"]

\* Who speaks a line is no part of what the fold reads of it.
Anchored(line) == [from |-> line.from, to |-> line.to, seq |-> line.seq]
ToEvent(cmd) ==
  LET fields == IF cmd.name = "add_narration" THEN Anchored(cmd.args) ELSE cmd.args
  IN  [f \in {"type"} \cup DOMAIN fields |-> IF f = "type" THEN EventOf[cmd.name] ELSE fields[f]]

\* What a command decodes to.
IsCommand(p, cmd) ==
  CASE cmd.name = "use_ability" -> cmd.args.caster \in Actors /\ cmd.args.targets \in Seq(Actors)
    [] cmd.name = "remove_actor" -> cmd.args.actor \in Actors
    [] cmd.name = "remove_participant" -> cmd.args.person \in People
    [] cmd.name = "load_map" -> cmd.args.map \in DOMAIN p.disk
    [] cmd.name = "load_adventure" -> TRUE
    [] OTHER -> cmd.name \in DOMAIN EventOf /\ ToEvent(cmd) \in Events

-----------------------------------------------------------------------------
(* The batches of the commands that append several events.                 *)

\* What the dice show for each target.
Lucks(cmd) == [DOMAIN cmd.targets -> {0, 1}]
RunsOf(cmd, st) == {Resolve(play.ruleset, power, st, cmd, luck) : luck \in Lucks(cmd)} \ {Refused}

\* handleUseAbility: a batch for each outcome of the dice.
Uses(cmd, st) == {Batch(run) : run \in RunsOf(cmd, st)}

\* handleRemoveActor: the tokens of the actor, then the actor.
RemovalOf(a, st) ==
  LET order == InOrder(Standing(st, a))
  IN  [i \in DOMAIN order |-> [type |-> "TokenRemoved", token |-> order[i]]]
      \o <<[type |-> "ActorRemoved", actor |-> a]>>

\* handleRemoval: each actor the participant controls.
RevocationsOf(p, st) ==
  LET order == InOrder({a \in Actors : Controls(st, p, a)})
  IN  [i \in DOMAIN order |-> [type |-> "ActorControlRevoked", actor |-> order[i], person |-> p]]

BatchesOf(cmd, st) ==
  CASE cmd.name = "use_ability" -> IF power = Refused THEN {} ELSE Uses(cmd.args, st)
    [] cmd.name = "load_adventure" ->
         IF play.adventure # None /\ CompilesAdventure(play.adventure, st, art)
         THEN {AdventureEvents(play.adventure)} ELSE {}
    [] cmd.name = "remove_actor" -> {RemovalOf(cmd.args.actor, st)}
    [] OTHER -> {<<ToEvent(cmd)>>}

-----------------------------------------------------------------------------
(* The steps of a connection.                                              *)

Pend(c, cmd, batch) ==
  pending' = [pending EXCEPT ![c] = [name |-> cmd.name, args |-> cmd.args, batch |-> batch, map |-> None]]

\* A command is read and judged: its sender is looked up, and it is authorized on
\* the state its batch is then built from.
Judged(c, cmd) ==
  /\ pending[c] = None
  /\ c.of \notin removed
  /\ cmd \in play.commands
  /\ Authorized(c.of, cmd, world) /\ Valid(cmd)

Answer(c, cmd) ==
  /\ Judged(c, cmd) /\ cmd.name \notin {"load_map", "remove_participant"}
  /\ \E batch \in BatchesOf(cmd, world) : Pend(c, cmd, batch)
  /\ UNCHANGED <<play, power, world, removed, art, shelf, ledger>>

\* The credential goes before the batch is appended; a master's stays.
AnswerRemoval(c, cmd) ==
  /\ Judged(c, cmd) /\ cmd.name = "remove_participant"
  /\ cmd.args.person \notin removed /\ RoleOf[cmd.args.person] \notin Staff
  /\ removed' = removed \cup {cmd.args.person}
  /\ IF RevocationsOf(cmd.args.person, world) = <<>> THEN UNCHANGED pending
     ELSE Pend(c, cmd, RevocationsOf(cmd.args.person, world))
  /\ UNCHANGED <<play, power, world, art, shelf, ledger>>

\* mapByID: the map looked up before, or the file of that name, with no lock held.
FindMap(c, cmd) ==
  /\ Judged(c, cmd) /\ cmd.name = "load_map"
  /\ LET id == cmd.args.map
         found == IF shelf[id] # None THEN shelf[id] ELSE play.disk[id]
     IN  /\ shelf[id] = None => Installs(play.disk, id, art)
         /\ pending' = [pending EXCEPT ![c] = [name |-> cmd.name, args |-> cmd.args, batch |-> <<>>,
                                               map |-> found]]
  /\ UNCHANGED <<play, power, world, removed, art, shelf, ledger>>

Looking(c) == pending[c] # None /\ pending[c].map # None

\* The first to find a map keeps it for all; it is compiled with the art as it is.
KeepMap(c) ==
  /\ Looking(c)
  /\ LET id == pending[c].args.map
         kept == IF shelf[id] # None THEN shelf[id] ELSE pending[c].map
     IN  /\ shelf' = [shelf EXCEPT ![id] = kept]
         /\ pending' = [pending EXCEPT ![c] = IF Builds(kept, art) THEN [@ EXCEPT !.batch = MapEvents(kept), !.map = None]
                                              ELSE None]
  /\ UNCHANGED <<play, power, world, removed, art, ledger>>

\* Mutation: what the fold refuses is left out, and the rest of the batch stands.
LoggedInPart(st, batch) ==
  FoldLeft(LAMBDA log, e : IF Folded(st, Append(log, e)) = None THEN log ELSE Append(log, e),
           <<>>, batch)

\* AppendBatch: what is appended of a batch, which is all of it or nothing.
Logged(st, batch) == IF Folded(st, batch) = None THEN <<>> ELSE batch

Has(log, type) == \E e \in ToSet(log) : e.type = type

\* What a log took from its caster for a use, or that it loaded an adventure.
Reckoned(cmd, st, log) ==
  CASE Has(log, "AbilityUsed") /\ power.cost # None ->
         [ledger EXCEPT !.uses = @ + 1,
                        !.paid = @ + st.actors[cmd.args.caster].cur
                                   - Changed(st.actors[cmd.args.caster], -power.cost)]
    [] Has(log, "AdventureLoaded") -> [ledger EXCEPT !.loads = @ + 1]
    [] OTHER -> ledger

AppendPending(c) ==
  /\ pending[c] # None /\ ~Looking(c)
  /\ LET log == Logged(world, pending[c].batch)
     IN  world' = Folded(world, log) /\ ledger' = Reckoned(pending[c], world, log)
  /\ pending' = [pending EXCEPT ![c] = None]
  /\ UNCHANGED <<play, power, removed, art, shelf>>

-----------------------------------------------------------------------------
(* What happens to the files beside the server.                            *)

EditArt(dir) == art' = dir /\ UNCHANGED <<play, power, world, pending, removed, shelf, ledger>>

EditMap(id, m) ==
  /\ play' = [play EXCEPT !.disk = [@ EXCEPT ![id] = m]]
  /\ UNCHANGED <<power, world, pending, removed, art, shelf, ledger>>

\* What a server can be started with.
IsFile(m) == m = None \/ IsScene(m)
IsPlay(p) ==
  /\ DOMAIN p = {"ruleset", "ability", "adventure", "commands", "disk", "edits"}
  /\ IsRuleset(p.ruleset) /\ IsAbility(p.ability)
  /\ p.adventure = None \/ IsAdventure(p.adventure)
  /\ \A cmd \in p.commands : IsCommand(p, cmd)
  /\ \A id \in DOMAIN p.disk : IsFile(p.disk[id])
  /\ \A m \in p.edits.maps : IsFile(m)

\* The server is started with what loads: a ruleset and its ability, and an adventure.
CommandsStarted(p, st, dir) ==
  /\ play = p /\ world = st /\ art = dir
  /\ p.adventure # None => LoadsAdventure(p.adventure, dir)
  /\ power = Compile(p.ruleset, p.ability)
  /\ pending = [c \in Conns |-> None]
  /\ removed = {}
  /\ shelf = [id \in DOMAIN p.disk |-> None]
  /\ ledger = [loads |-> 0, uses |-> 0, paid |-> 0]

CommandsNext ==
  \/ \E c \in Conns :
       \/ \E cmd \in play.commands : Answer(c, cmd) \/ AnswerRemoval(c, cmd) \/ FindMap(c, cmd)
       \/ KeepMap(c)
       \/ AppendPending(c)
  \/ \E dir \in play.edits.art : EditArt(dir)
  \/ \E id \in DOMAIN play.disk : \E m \in play.edits.maps : EditMap(id, m)

\* A table may have begun before: the world is then what its log folds to.
CommandsInit ==
  /\ IsPlay(play) /\ world \in State /\ Sound(world) /\ art \in ArtDirs
  /\ CommandsStarted(play, world, art)

CommandsSpec == CommandsInit /\ [][CommandsNext]_commands

-----------------------------------------------------------------------------
(* Properties.                                                             *)

\* The order an ability declares is the order it runs in: every key an atom consumes
\* is made, by all that makes it, before any of that atom's contributions runs, in
\* every composition that compiles (compile.go's buildAndSortDAG).
DependenciesAreHonoured == power # Refused => Honoured(play.ability, power)

UsesOf == {cmd.args : cmd \in {d \in play.commands : d.name = "use_ability"}}
RunsNow == IF power = Refused THEN {} ELSE UNION {RunsOf(use, world) : use \in UsesOf}

\* An ability that resolves has a batch the fold takes, and the fold makes of it what
\* the resolver did: the running values and conditions it threaded through costs,
\* targets, branches and thresholds (resolve.go) are those of the engine.
AbilitiesAreFolded == \A run \in RunsNow : FoldsAsRun(world, run)

\* No die is thrown for an ability that its AbilityUsed does not list: formulas whose
\* rolls would go unrecorded are refused when the ruleset loads (load.go).
DiceAreRecorded == \A run \in RunsNow : AllRecorded(run)

\* An adventure that loaded at boot and collides with nothing becomes a batch the fold
\* takes, whatever the table has become, unless a piece of art now declares a later
\* format: nothing else is left to refuse a DM at the table (adventure/compile.go).
AdventuresAreFolded ==
  play.adventure # None /\ ~Collides(play.adventure, world) =>
    /\ Folded(world, AdventureEvents(play.adventure)) # None
    /\ (\A a \in Arts : ~DeclaresLater(art, a)) => CompilesAdventure(play.adventure, world, art)

\* An adventure with a scene is loaded once, however many handlers compiled it on a
\* state that did not have it yet (adventure.go's handleLoadAdventure).
LoadedOnce == play.adventure # None /\ play.adventure.scenes # <<>> => ledger.loads <= 1

\* Every use of an ability took its cost from its caster: a caster that cannot pay
\* cannot use it (resolve.go's contract, and the interpreter's design document).
UsesArePaid == power # Refused /\ power.cost # None => ledger.paid >= ledger.uses * power.cost
=============================================================================
