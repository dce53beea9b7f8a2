# vtt-platform in TLA+

`vtt-platform` is an event-sourced virtual tabletop: a Go server that appends
every act at the table to a log, folds the log into a state, writes to each
character's own log what that character perceives, and sends each connection
one log over a WebSocket; a TypeScript client and an MCP server for an agent
fold what they are sent. What is hard in it is who is
sent what, and when: logs that grow under their readers, connections that
switch from one log to another while control of the characters changes, boards
that must be right after things happened out of sight, people who join, are
promoted, leave and are removed at once, commands built on a state that others
have changed since.

Paths below are relative to `src/`.

## The system

| Component | State | Operations | Hard behaviour | What makes it right |
|---|---|---|---|---|
| **store** `internal/store` | the event log and a log per character in SQLite; the list of subscriptions, and of each a queue, a channel, a pump goroutine | `AppendBatch`, `Notify`, `NotifyCharacter`, `Subscribe`, `SubscribeCharacter`, `Unsubscribe`, `Close` | an append commits before it notifies, and a subscription may read its history in between; a pump must not sleep with work; a reader may stop reading | each subscription is its log from the cursor on, in order, each entry once; a reader hears all; a pump nobody needs ends |
| **campaign** `internal/campaign` | the lease on a directory, the open store, `state`, `head`, perception's decisions, watches, `poisoned` | `Open`, `Append`, `AppendBatch`, `State`, `Actors`, `Subscribe`, `SubscribeCharacter`, `WatchAppends`, `Close` | two processes on one directory; an append that fails at each of its steps; a crash at each | one writer; the state served is the fold of the log; whoever reads the actors at a wake never judges an entry by actors older than it |
| **identity** `internal/identity`, `gateway/join.go` | `participants`, `join_access` (the door: secret, open, admitted, limit) | `Open` (migration), `CreateInvite`, `Lookup`, `SetRole`, `Revoke`, `SetJoinOpen`, `RotateJoinSecret`, `JoinAdmits` | each statement is atomic and a handler is several; a second process (`vtt invite`, `vtt revoke`) writes the same file | no opening admits more than its budget; a revoked participant stays revoked; staff are not demoted |
| **presence** `gateway/presence.go` | the registered connections, a count per participant, the fan-out lock | `joinAndSend`, `leave`, `announceIfPresent`, `announceIfAbsent`, `broadcast`, `rejudge` | arrivals, departures and promotions overtake one another; a connection that takes nothing | nobody is left a ghost or unseen; every announcement ends |
| **seat and pump** `gateway/seat.go`, `viewpoint.go`, `server.go` 265–600 | of a connection: the log shown, its subscription, the set of logs told, the perch box, the wake, the rejudge signal, the role read last | `openSeat`, `watch`, `recheck`, `rejudge`, `admit`, `perchBox.set`/`take`, the pump's turns | a credential, the actors and an entry are read at three moments, and each may change in between | an entry sent is of a log its participant may watch; the set is told before it; in the end the client has the log it should |
| **connection** `gateway/server.go` 265–437, `keepalive.go` | a reader, a pump, a writer and a pinger per connection, a bounded queue | `shutdown`, `writeUntilFlushed`, `pingUntilStopped` | each waits for another, and a fan-out of another connection for its queue | it always ends |
| **commands** `gateway/server.go` 636–1064, `authz.go`, `convert.go`, `ruleset.go`, `adventure.go`, `map.go` | the maps looked up so far | authorize, validate, make a batch, append | a batch is built from a state that may be old when it is appended | a batch is appended whole or not at all; an adventure is loaded once; a use is paid |
| **engine** `internal/engine` | the folded `State` | `Apply`, one case per event | which events it refuses | no accepted order of events leaves a state its own checks refuse |
| **perceive** `internal/perceive` | of a character: what its log has been told | `look`, `classify`, `transitions`, `introduce`, `correct`, `withdraw`, `Resume`, `Perch` | ids removed and added again out of sight; logs paused; decisions restarted | a character's log folds, shows what is seen and tells no more |
| **sight** `internal/sight` | none | `VisibleFrom` | edges and corners | nothing is seen through a wall; opening a door hides nothing |
| **rules** `internal/rules` | rulesets | load, compile, `Resolve` | text spliced into formulas; atoms reordered; values threaded through a use before any is appended | what an ability resolves to is what the fold makes of it |
| **mapdef**, **artlib**, **adventure** | files, read at boot or at a command | load, compile | a directory edited beside a running server | what loaded at boot is not refused at the table |
| **client** `client/src` | the wire (log, cursor), the folded state, the views | connect, fold, reset, render | a redial, a log sent again, a second translation of the fold | what is folded is one log from its first entry, and to the server's state |
| **mcp**, **harness** | the history held, the pending commands | `pump`, `redial`, `SendCommand`, `readLoop` | a cancel meets a redial; a command meets a teardown; a buffer overflows | no connection is orphaned; every caller is answered; the history is one log |
| **cmd/vtt**, **contract**, **tools** | none | composition, generated messages, generators | | |

How they interact: a command is authorized against `campaign.State`, becomes a
batch, and `campaign.AppendBatch` under `c.mu` validates it on a snapshot,
decides who perceives what, persists it in `store`, applies it, wakes every
watch and then notifies the subscriptions, entry by entry. Each connection's
pump in `gateway` owns one watch and one subscription, and looks its
participant up in `identity` before everything it sends. Presence, promotions
and removals reach the pump through a signal of capacity one.

## Modules

| Module | Models | Extends |
|---|---|---|
| `EventStream` | what a subscription promises: its log from the cursor, in order, each entry once | |
| `Store` | `store.go`, `subscribe.go`: logs, notification, queues, pumps, channels | refines `EventStream` |
| `Campaign` | `campaign.go`, `fanout.go`: opening, the append's steps, watches, crash | |
| `Door` | `identity.go`, `join.go`: the migration, the door, names, roles | |
| `Presence` | `presence.go` and the announcements of `server.go` | |
| `Seat` | `seat.go`, `viewpoint.go`, the pump, with promotions, removal, perches, and the client's wire | |
| `Connection` | `server.go` 265–437, `keepalive.go`: the four goroutines of a connection and their end | |
| `Engine` | `apply.go`, `state.go`: the fold of a log, as functions of a state and an event | |
| `ClientFold` | `fold.ts`, `session.ts`: the browser's own fold | `Engine`, for its data |
| `Sight` | `sight.go`, `terrain.go`: lines of sight and blocked squares | |
| `Perceive` | `projection.go` and the decisions of `fanout.go`: what each character's log is told | `ClientFold`; instances `Sight` |
| `Trees` | `expr.go`: the trees of formulas and their evaluation, as recursive functions | |
| `Formula` | `expr.go`, `compile.go`: the lexer and parser, and the splicing of values into texts | `Trees` |
| `Rules` | `load.go`, `compile.go`, `resolve.go`: rulesets, compilation, the use of an ability | `Engine`, `Trees` |
| `Library` | `artlib`, `mapdef`, `adventure`: what loads and what it becomes | `Engine` |
| `Commands` | `authz.go`, `convert.go`, the handlers that append | `Rules`, `Library` |
| `Agent` | `mcp/server.go`, `harness/client.go` | |
| `StoreProof`, `DoorProof`, `PresenceProof`, `SeatProof`, `AgentProof` | theorems about the module named | that module, `TLAPS` |
| `EngineProof` | theorems about `Engine` and `ClientFold`, and lemmas about folds | `ClientFold`, `TLAPS` |
| `CampaignProof` | theorems about `Campaign`, and about `Commands` with its `Rules` and `Library` | `Campaign`, `Commands`, `EngineProof` |
| `PerceiveProof` | theorems about `Perceive` and `Sight` | `Perceive`, `EngineProof` |
| `MC*` | the instances the `.cfg` files check | the module named |

Three modules compose others. `MCCampaign` holds `Campaign` and `Commands` (and
the formulas of `Formula`), `MCDelivery` holds `Perceive` and `Connection`. In
these the parts share no variable, and the initial state chooses which of them
moves (`part`, `half`): the states are the sum and not the product of the
parts', and a part at rest is in a state of its own in which nothing fair is
enabled. `Perceive` is a true composition: every event appended is folded by
the server, decided upon for each character with the lines of sight of
`Sight`, folded onto the character's log and folded again by the browsers.
What joins the modules is what one proves or checks and the other takes for a
step: `Commands` appends in one step because `Campaign` does so or refuses
all; `Seat` takes the stream of entries in order from `Store`; `Agent` takes
the gateway's end from `Seat`.

Correspondence of state and step:

* **Store.** `head`, `notified`, `registered` are the database's `MAX(seq)`,
  the place of the campaign's notify loop and `s.subs`/`s.chars`; `pending`,
  `lastSeq`, `closed`, `wake`, `ch` are the subscriber's fields, `held` the
  entry in the pump's `select`, `pump` the pump's program counter. A step under
  `s.mu` is one action; `enqueue` releases the subscriber's lock before it
  signals, so `Notify` and `Signal` are two, and everything that takes `s.mu`
  waits for the second (`LockFree`). `timer` is how long the `time.After` of a
  hand-off has run, in units that pass one by one while the hand-off waits
  (`Elapse`); `late`, which no code keeps, is how long the reader has left what
  it could take.
* **Campaign.** `pc[i]` is where an instance is in `Open`, `appendLocked` or
  `Close`; `c.mu` is free when it is `"idle"`. `applied`, `cHead`, `decided`
  are how much of the log the state, the counter and perception stand at.
* **Door.** One action per SQL statement, `at[p]` between them.
* **Presence.** `conns`, `counts` are the registry's; `stage`, `deny`,
  `targets` an announcement's locals; `view` is what the frames queued for a
  connection make its client show.
* **Seat.** `seat`, `wake`, `signal`, `box` are the fields of `seat`, the
  append watch's channel, `presenceConn.rejudge` and `perchBox`; `pump.at` is
  where the pump's goroutine is, `pump.then` where `watch` or `recheck` returns
  to. `hist` and `logs` are the campaign seen from here: each append is a
  version of who is in the party and whom of it the participant controls, and
  an entry is the version that caused it. `client` is the `Wire` of `wire.ts`.
* **Connection.** One program counter for each of the goroutines of `serve`;
  `outCh` counts queued frames, `due` those of the pump's turn; `parked` is
  another connection's fan-out blocked on this queue with the presence mutex
  held. Closing a socket, a peer that stops reading, a removal, an ended
  stream and a command each may come at any moment.
* **Engine, ClientFold.** A state and an event are records. `Accepts` and
  `After` are the checks and the writes of `apply.go`, `Throws` and `Becomes`
  those of `fold.ts`, translated apart. An actor's `body` is the maximum of its
  resource and `cur` the current; the arithmetic has the code's width.
* **Perceive.** `world` is `c.state`; `logs[h]` is a character's log as its
  fold, what its decision last saw, and whether anything was written. One
  action appends an event: it is folded, every log opened, resumed, told or
  paused, each frame set tried on the log's fold and dropped whole when that
  refuses (`discarded`). `RestartDecisions` is a failed append and `Reopen` a
  campaign opened again, after both of which decisions know only what the logs
  hold. `famous` and `met` are history variables of the secrecy property.
* **Sight.** Points are whole numbers of units and the slab test's quotients
  fractions compared by cross-multiplication. The code computes in `float64`:
  every coordinate it compares is such a quotient, and its 1e-9 inset is one
  unit of `2 * Half`.
* **Rules, Trees, Formula.** A formula's text is a sequence of units and `Parse`
  is the recursive descent with its depth limit; a tree is the sequence of its
  nodes, each behind its operands, and its evaluation throws the dice a `luck`
  gives and counts those thrown and those recorded. An ability's running
  values, as `resolveState` threads them, are a record (`Begun`).
* **Library, Commands.** A file is the record it decodes to; `shelf` is
  `Server.maps`, `art` the directory beside the server, which may be edited
  at any moment. `pending[c]` is a batch between the state it was built from
  and its append, in which any other connection may append; `ledger` is a
  history variable of uses, payments and loads.
* **Agent.** `conns[g]` is the client of the g-th dial (`pending`, `events`,
  `closed`) with its reader and the gateway's end; `agent` the fields of
  `mcp.Server` under `mu`; `calls[k]` a tool call with the channel it waits on;
  `pump` and `run` the places of the pump with its redial and of `Run`'s end.

## Runs

| Run | Question | Instance | Result |
|---|---|---|---|
| `store_pump` | does a subscription deliver its log, whatever it races, and end when stopped? is only a reader that has stalled cut? | one log, two subscriptions, one with a reader, channel of 1, 2 entries, cursors 0 and 1, a timeout of 2 | holds |
| `campaign` | is there one writer, is its state the log, is no wake lost? does an ability resolve to what the fold makes of it, with its dice recorded and its order kept? does what loaded at boot load at the table, once? does a value spliced into a formula mean what it means alone? | two instances, batches of up to 2, 3 entries, one subscription of each kind, one watch; two actors, two people and 9,216 compositions, 1,440 adventures of which 128 load, the commands of a fight, a staging, a map and a meeting; all templates of up to 5 units with bindings of up to 4, of a digit, `d`, `+`, `*`, parentheses and spaces (a binding has no `*`) | holds |
| `door` | do the budget, the migration and the people hold against one another? | two joiners, an invited, two openers, limits 0 and 1, two openings, two changes | holds |
| `door_names` | does the table give one name once? | two joiners of one name | **violated** |
| `presence` | is everybody shown as they are, or about to be? does every announcement end? | two participants on three connections, one stalled, a promotion, revocations | holds |
| `seat_switch` | is an entry sent only by right, and after the set that grants it? | two actors, two versions, a promotion, a perch | holds |
| `seat_redials` | does the client always hold one log, and every connection end up right? | one actor, two versions, two connections, a cut wire, a promotion, a perch, a removal | holds |
| `seat_removal` | is a removed participant sent nothing of the removal? | one actor, two versions, the removal | **violated** |
| `delivery` | is a character's log what the character sees, and no more? do the browsers show it? is sight right? does a connection always end? | a strip of three squares with a door, two scenes, a hero and a creature, four topics of events; a queue of one, turns of up to two frames | holds |
| `perceive_unbounded` | is an actor added again corrected? | the same, and a sheet above its maximum | **violated** |
| `agent` | is the history one log, is every caller answered, is the run caught up and closed in the end? | one call, two logs of two entries, a buffer of one, two dials, one move | holds |
| `ability_paid` | does every use take its cost? | two connections, a caster who can pay once | **violated** |

Every property of a passing run is accompanied, beside the definition it
concerns, by a mutation (`\* Mutation: ...`): a plausible mistake in that part
of the code that the run finds.

**The bounds.** `MaxHead` bounds the entries of a log. In `Store` two entries
and a cursor of 0 or 1 already give each relation the code distinguishes:
history empty, partial or whole; cursor below, at and past the head; an entry
notified before, during and after the subscription; a queue of two behind a
hand-off. A `Timeout` of two units lets a reader take something in the middle
of one, so that the clock of a hand-off and the reader's own part. In `Campaign` three entries in batches of up to two allow a batch, a
failure and a batch after it. In `Seat` a log is left and come back to within
two versions after the first, and with two actors two versions are enough to
move control from one to the other. `Perceive` has no bound on how long a
campaign goes on: its states are finite, and every one that the events of a
topic lead to is reached. A topic is a set of events that bear on one another
(the board; the status of an actor in and out of sight; an actor that goes and
comes back; what is said and written). The strip with its door is the smallest
scene in which something is seen, hidden by a door and seen again; the
geometry itself is checked on a board of three by three. In `Rules` two atoms
beside the fixed aim and strike, over every choice of what they make and need,
give chains, ties, cycles, missing and double providers. `MaxInt` is 7 and 2,
so that resources meet both ends of their type. In `Connection` a queue of one
and turns of two frames give full, empty and blocked. In `Agent` a buffer of
one overflows whenever the pump is late. `MaxDials`, `MaxPromotions`,
`MaxPerches`, `MaxOpenings`, `MaxChanges`, `MaxBatch`, `MaxMoves`, `MaxWire` and
`MaxAfter` bound how often somebody outside the component acts. Races are
between pairs, and each pair has both its members in some run.

**Fairness.** It asks that a goroutine that can run does, that timers fire and
that a lock is handed over, which Go's scheduler, runtime timers and
starvation-free `sync.Mutex` give. An appender goes on with the notifications
it has begun; a handler goes on with the steps after its first. Nobody is
assumed to append, connect, leave, promote, join, command, cancel, or, unless
named in `Readers`, to read. Weak fairness is enough where contenders for a
lock are finite and each holds it for finitely many steps. In `Connection` it
is not: a pump that is woken for ever has its stop always ready in a `select`
only every other turn, and a `select` chooses at random among what is ready,
so the arms that others compete with have strong fairness. A write to a peer
that does not read ends by its deadline, a ping by its own. In `Agent` the
other end of a wire sends what it has, and a dial is answered.

**Deadlock** is checked in `campaign`: the campaign's part must always be able
to go on, and the parts beside it may stand. Elsewhere the system may stop:
every subscription over, everybody come and gone, the bound of appends reached.

## What disagrees with the documents

* **A name is not kept once** (`door_names`). `CreateInvite` reads the names
  (`internal/identity/identity.go:471`) and inserts in a second statement
  (`:488`), with no lock, transaction or unique index over both, so two joins
  of one name are both admitted. The blueprint's tenth principle
  (`docs/blueprint.md:120`) and SPEC-009 (`:203`) say no two share one.
* **A removed participant may be told of the removal** (`seat_removal`).
  `handleRemoval` revokes, signals and then appends, so that the connections
  close first (`internal/gateway/server.go:944`, VTT-566). A pump that has
  looked its credential up (`:499`) and not yet read the actors
  (`seat.go:126`) reads them with the removal's own revocations in; if the log
  it shows may still be watched, nothing looks the credential up again before
  the set computed from them is queued. No entry of the batch's can follow:
  the lookup before each entry finds the credential gone.
* **An actor added again above its maximum is never corrected**
  (`perceive_unbounded`). `add_actor` takes a sheet whose current is above its
  maximum (`internal/gateway/add_actor_validate.go`), as the fold does. A
  character who last saw the actor otherwise is sent a `ResourceChanged` to
  the world's value (`internal/perceive/projection.go:892`), which the fold
  clamps and refuses; the whole set of frames is dropped, then and at each
  event while the actor is in sight. SPEC-016 (`:445`) says it is corrected.
* **A use may go unpaid** (`ability_paid`). Two uses resolved on one state
  both find the cost there (`internal/rules/resolve.go:212`); the second's
  payment is clamped at zero, agrees with the zero it announced and is taken.
  The contract of `Resolve` (`:49`), the interpreter's design and a golden
  (`rulesets/dnd45e-minimal/goldens/hunters-flurry-usage-exhausted.json`)
  expect the second to be refused.

Seen and left, since nothing says otherwise: a cancel between `redial`'s look
at its context and `setClient` leaves a connection nobody closes
(`internal/mcp/server.go:296`; `ClosedInTheEnd` excepts it, as `run.late`); a
removal whose batch is refused leaves a revoked controller and cannot be
repeated (`internal/gateway/server.go:981`). Documented and accepted by the
repository: two notes written at once under one key (`docs/verification-debt.md`
749–783), a move whose origin is of an older state (SPEC-013, 357–360), a note
made public while a log is paused (SPEC-016, 456–458).

## What is proved

`StoreProof` proves of `Store`, for any logs, subscriptions, readers, channel
capacity and bounds (`StoreAssumption`):

* `TypeCorrect`: `Spec => []TypeOK`.
* `IInvHolds`: `Spec => []IInv`. `NothingMissed` is not inductive: it is about
  the concatenation of four places, and says nothing of a subscription not yet
  opened or already closed, whose next step could be anything. `IInv` says of
  each subscription, position by position, that what is received, in the
  channel, in the pump's hand and queued continue one another from the cursor
  (`InOrder`, which holds also after a stop has thrown the queue away), that
  an unopened one holds nothing, that an open one is listed, has queued up to
  `lastSeq` and lags no notification (`UpToDate`), and that nothing exceeds the
  log. The lemmas `QueueKeepsOrder` to `DropKeepsOrder` state what moving an
  entry from one place to the next does to the order, once; each action cites
  the one it needs.
* `NothingIsMissed`: `Spec => []NothingMissed`, from `IInv` and a lemma that
  turns order by position into the sequence written out.
* `StoreImplementsStream`: `Spec => StreamSpec`, each step of `Store` a step of
  `EventStream` or a stutter, with `stage` mapped to whether the subscription
  has been opened and whether its reader has seen the channel closed.
* `OnlyTheStalledAreCut`: `Spec => OnlyStalledReadersAreCut`, for every
  timeout. A reader with nothing to read has an empty channel, and then a
  hand-off succeeds at once, or, where the channel has no capacity, it is
  itself what the reader could take. `TimeInv` is the invariant of the two
  clocks: a full channel stays full while its hand-off waits, each unit the
  timer counts is one the reader let pass, and a timer is at 0 whenever no
  hand-off waits, which is where `HandOffOnOneTimer` goes wrong.

`CampaignProof` proves of `Campaign`, for any instances, subscriptions, watches
and bounds (`CampaignAssumption`), crashes included:

* `OneWriterAtATime`, `ServedStateIsTheLog`, `DecisionsAreTheStates`,
  `WatchersMissNothing`, `WakesPrecedeEntries`, `EntriesAreOfTheState` and
  `TypeCorrect`, each from `IInvHolds`. What the properties say of a free lock
  is not inductive, for an append passes through states where none of it is
  true. `IInv` is an account of those: who holds the directory and who has the
  log open (`HoldInv`); how far log, counter, state and decisions are at each
  step of an append, and that only a live apply that failed parts the counter
  from the state (`AppendInv`); that a subscription is of an open instance and
  holds nothing not applied (`SubInv`); and that a watch lags only between the
  apply and its wake (`WatchInv`).

It proves of `Commands`, for any ruleset, ability, adventure, library, connections
and throw of the dice, from `EngineAssumption`, `TreesAssumption` and
`CommandsAssumption` (tokens and actors are finitely many, as a state's are, for a
batch that removes them all is a sequence):

* `CommandsInvHolds`: `CommandsSpec => []CommandsInv`. What the server was started
  with loaded and compiled (`PlayInv`), the world is a sound state, each pending
  batch is of events and names a map that was looked up (`PendingInv`), the shelf
  holds files (`ShelfInv`), and a load is counted only while its first scene
  stands (`LedgerInv`).
* `AdventureLoadsOnce`: `CommandsSpec => []LoadedOnce`. Two connections may both have
  built the batch of one adventure. The second is refused as it is folded, because
  the first left a scene of that name and no event takes a scene away.
* `AbilitiesFold` and `EveryDieIsRecorded`. The resolver keeps running values of
  its own beside the state, and announces totals the fold will judge. `Mirror`
  says when such a run is the fold of what it has emitted so far, `Follows` that a
  step keeps it so, with one lemma for each of the resolver's steps: payment,
  attack roll, change, condition, thresholds, in whatever order the atoms were
  sorted. Every die a step throws is among the rolls of the event it emits.
* `AdventuresFold`: an adventure that loaded is taken whole by a state that has
  none of its ids, and compiles again unless art of a later format has been put
  beside the server since. It is folded in stages, scenes, then actors, tokens and notes;
  `FoldAlong` carries from each entry to the next what the stage has added and
  that the loader's checks (an id once, a token's actor and scene present, a place
  on the board) are the checks of `Apply`.
* `DependenciesHonoured`: `CommandsSpec => []DependenciesAreHonoured`. The order the
  compiler finds is an order of the atoms in which none waits for a later one
  (`IsOrder`, `SortedIs`); the phases it runs them in keep that order within a phase
  (`EffectsRanked`) and across them, since the compiler refuses an atom whose key
  is produced in a later phase than it is consumed (`PhasesAgree`); and no atom
  waits for a key it makes itself (`NotOfItself`).

`PresenceProof` proves of `Presence`, for any participants, connections and
promotions:

* `CountsAreRight`, `WrongViewsAreMended` and `TypeCorrect`. That some
  announcement is coming about a wrong view is not inductive, since the one
  coming might find nothing to say. `IInv` asks for the right kind: a view that
  lacks somebody is mended by an arrival of theirs whose connection is still
  registered, a view that shows a ghost by a departure (`ViewInv`). The step
  that needs the fan-out lock is the one where the truth changes under an
  announcement already being sent: whoever changed it has an announcement of
  its own to make, which cannot have had the lock meanwhile, so it comes after
  (`SpeakInv`, `FanInv`).

`DoorProof` proves of `Door`, for any people, openers, names and limits
(`DoorAssumption`):

* `BudgetHeld`, `EveryOpenMigrates`, `StaffAndRevokedStay` and `TypeCorrect`. Each statement is atomic, so `IInv`
  is what a handler found that must still hold when it writes: a joiner at the
  UPDATE is not among the counted (`CountInv`), an open door has a row
  (`ShutInv`), somebody on the way in has no row yet, and whoever a promotion
  or removal is about is still a player or a spectator (`PeopleInv`).

`EngineProof` proves of the two folds, for any scenes, actors, tokens, people,
texts and width of integers (`EngineAssumption`):

* `BrowserRefusesWhatTheServerDoes` and `BrowserMakesWhatTheServerDoes`: for
  every state and every event both know, the browser throws exactly when the
  server refuses, and otherwise comes to the same state. The arms whose form
  differs are those that need an argument: the clamp, which Go computes in
  `int64` and JavaScript in doubles; the grant, which appends to a list; the
  tests of whom an event names.
* `AcceptedKeepsSound`: no accepted event leaves a token without its actor
  and scene, or conditions of nobody. How a state changes is stated once for
  each of its parts (the `Put` lemmas); each arm is then the part it writes.

`PerceiveProof` proves of `Sight`:

* `OpeningADoorHidesNothing`: for any scene, doors, range and tolerance, what is
  visible stays so when doors are opened. An opened door takes a blocker away
  (`FewerBlockers`), so a ray that was clear is clear, and the count of the
  sample points reached cannot fall.
* `NothingIsSeenAcross`: in a scene of any size, a column of walls and shut doors
  hides what is on its other side, whatever else stands there, whatever the range
  and the tolerance. A segment from one side to the other has, at the column's
  middle, a point in one of the column's squares (`SomeRow`, since both its ends
  are in the scene); a segment with a point inside a rectangle is not refused by
  the slab test (`PointInside`); so every ray is stopped (`ColumnStops`).
* `SlabIsExact`, the lemma under it: for every segment and rectangle of whole
  numbers the slab test says they meet exactly when no axis, and no line along
  the segment, separates them. The quotients are compared by cross-multiplication,
  so it is a statement about products of integers, proved for each sign of the
  segment's direction on each axis (`Times`, `SlabOf`, `SlabEnds`, `Corners`).
* `SightIsAlwaysRight`: `Spec => []SightIsRight`. The three above at the board,
  the walls and the tolerances the property names. That a wall's own squares are
  seen, which it says as well, is the one place where something must be shown
  clear (`NearEdgeIsClear`, by the four corners of the segment and `SlabIsExact`).

Of `Perceive` it proves, for any heroes, terrain and alphabets of events
(`PerceiveAssumption`: the sets are finite, as a process's are; an event of an
alphabet is one a command can make (`Made`); `None` is no state, log or set;
`PrologueAssumption`: the campaign begins with a log that folds):

* `TypeCorrect`, `WorldStaysSound`, `MasterAlwaysAgrees` and
  `BrowsersAlwaysAgree`, from `IInvHolds`. The two folds agree on single events;
  that they agree on sequences (`FoldsAgree`) is an induction, which the
  library's induction theorems, stated over an operator, cannot be used for:
  `FoldKeeps` and `UpTo` argue instead from the least number of events at which
  a fold would leave the set it is to stay in. What remains is that every frame
  the projection makes is an event that both folds know: one lemma for each set
  of frames (those named `Type`), up to `TransitionsType` and `EventType`, and
  for the opening and resumption of a log. `IInv` says that the world and every
  log's fold are sound states, a log to which nothing was written is new, and
  each browser shows what its log folds to.

It proves what a character is told, with the hypothesis
`SheetsAreWithinBounds`: every actor is added within its maximum. The run
`delivery` assumes it of its instance, and `perceive_unbounded` shows what
happens without it, so it is as weak as the code allows.

* `NothingIsDiscarded`, `TheBoardIsWhatIsSeen`, `TheSeenArePresent` and
  `OnlyWhatMayBeToldIsTold`, from `TellInvHolds`. The argument is about one
  decision. What a set of frames makes of a log is computed, for any order the
  set is walked in (`EachFolds`): `GrantsFold` to `StatusFold` of an actor's
  frames, `DoorsFold`, `SceneFramesFold`, `TokenFramesFold`, `NoteFramesFold`,
  and from them `TransitionsFold`, that the transitions never fail and leave the
  log as `Told` says. This needs the log's resources between nothing and their
  maximum (`Bounded`: a change is clamped, and refused where it does not arrive
  at what it announced) and no kind lost (`KindsKept`: no grant can take one
  away). The event then follows: `EventFolds` shows, by its kind, that what is
  forwarded is accepted by `Told`, whether the transitions have already brought
  what it says or not, and the lemmas named `Shows` that the log comes to show
  the world after it. A decision must be `Ready` for that: it holds, of what its
  character saw, the present status, and of tokens only those that stand.
  `ResumeFolds` and `OpeningFolds` show it of a log resumed or opened,
  `PresentIsReady` of one that was told the event before. `TellInv` is that
  every log is either paused or presents the world; it is inductive because a
  decision taken up again after a failed append or a restart sees exactly what
  it saw (`ResumesWhatIsSeen`).

`SeatProof` proves of `Seat`, for any actors, dials, promotions, perches and
versions (`SeatAssumption`), whatever is cut, switched and removed:

* `NothingUnwatchableIsSent`, `TheSetIsToldFirst`, `TheClientFoldsOneLog` and
  `TypeCorrect`, from `IInvHolds`. That an entry is sent by right is decided
  places before it is sent, so `IInv` says at each place of the pump what it
  knows there: either a wake waits to be read, or the seat was judged by the
  world as it stands (`Knows`), for an append raises the wake before its entries
  and the pump reads a wake only where the judgment comes next. An entry taken
  from a log is of a version the log's own character could watch, and no later
  than the set last told (`JudgedSince`, `MadeSince`). The client's cursor is
  where the seat's subscription stands or the subscription stands at the log's
  beginning, whose first entry makes the client discard what it has (`Follows`).
  TLC found `IInv` to hold on both instances of the runs, of 2.7 and 2.1 million
  states, before it was proved.

`AgentProof` proves of `Agent`, for any calls, logs, buffer and bounds
(`AgentAssumption`):

* `NobodyIsForgotten` and `TypeCorrect`, from `IInvHolds`. A call that waits is
  registered with a client not yet torn down, or its reader has it in hand
  (`KnownInv`). What makes this inductive is the reader: one that is reading has
  nobody in hand, and a client is torn down exactly when its reader has left its
  loop (`Orderly`), so that `SendCommand`, which asks the client under its lock,
  learns what the reader has done.
* `TheHistoryIsOneLog`, from `IInv` and `HistInv`. The history is what the pump
  accepted; what it will accept is on its way, in the reader's buffer and on the
  wire (`Stream`), and no frame can be judged alone: an entry is in place if the
  one before it is held or is on its way ahead of it, with no switch to another
  log between (`Backed`). `InStep` says so of each place on the way and of what
  the seat will send next; a redial begins again from what is held, and what is
  lost with a wire is lost from its end. TLC found `HistInv` to hold on 471,601
  states before it was proved.

`TellInv` was model-checked as well before it was proved, on `delivery`'s
instance with a topic more and two other prologues (331,734 and 185,825 states,
and 565,000 of a third).

**Only model-checked.** All liveness, which is beyond the prover
(`ReadersHearAll`, `NothingWaitsForEver`, `StoppedPumpEnds`, `AnnouncementsEnd`,
`SeatSettles`, `TeardownEnds`, `CallsReturn`, `CatchesUp`, `ClosedInTheEnd`).
Of the safety properties of the passing runs, `SplicedAsWritten`, which is about
the parser of formulas: a recursive descent, and its `RECURSIVE` operators are
beyond the prover, as is the induction over texts that it would need. `Rules` and `Commands` take a formula as the tree it
parses to, and what is proved of them does not rest on the parser.

## What is not modelled

* Failing lookups and databases, except where a handler's order depends on
  them; the codec; SQL as text; token hashing; times.
* In `Campaign` and `Perceive`, the numbering of a log's own entries and the
  re-anchoring of narrations to it, and the restart of a poisoned campaign in
  the same process.
* In `Seat`, a second connection of the same participant, `Campaign.Close`, a
  poisoned campaign and the store's no-progress drop (it is in `Store`).
* In `Commands`, the gates a player's sight sets before a move, a use and a
  door, which only refuse, and what a staff voice is stamped with.
* In `Engine`, texts and their bounds in bytes, the second resource of an actor
  (resources do not interact), sessions that have ended, and the terrain of a
  scene, which is given to `Perceive` as a constant.
* In `Rules`, names, schemas, attributes (a formula over an attribute is one
  over a number) and the order among an actor's tokens beyond that there is one.
* In `Library`, warnings, statblock keys, byte bounds, and which of several
  degradations a broken piece of art suffers: only a later format refuses.
* In the client, rows, views and the page; in `mcp`, the text of tools and
  resources; in `harness`, the scenario runner, the soak and the wait for the
  catch-up head.
* Generated messages, generators, `cmd/vtt`'s flags and printing.

## Plan

What would come next, in this order:

1. The composition: that `Seat`'s view of an append is what `Campaign` does, and
   that what its pump takes is what `Store` delivers.
2. The parser of `Formula` as recursive functions, so that it can be composed
   with `Rules` in one module with theorems.
3. The numbering of a log's entries and the re-anchoring of narrations, beside
   `Perceive`.
4. The sight gates of a player's commands, over `Perceive`'s `Look`.
