----------------------------- MODULE ClientFold -----------------------------
(***************************************************************************)
(* The browser's own fold (client/src/fold.ts) and the session that keeps  *)
(* what it comes to (client/src/session.ts).  It is a second translation   *)
(* of the events, written arm for arm in another language: whatever one    *)
(* refuses and the other takes leaves a browser that shows another board   *)
(* than the server's, or none, since the session folds its whole log again *)
(* for each event and an event that throws is in the log for good.         *)
(*                                                                         *)
(* The operators are fold.ts's, apart from Engine.tla's; only the shape of *)
(* a state is shared.                                                      *)
(***************************************************************************)
EXTENDS Engine

\* JavaScript's numbers are exact over the sum of two int32s.
Computed(a, delta) ==
  LET sum == a.cur + delta
  IN  CASE sum < 0 -> 0
        [] sum >= 0 /\ a.body > 0 /\ sum > a.body -> a.body
        [] OTHER -> sum

ThrowsOnNarration(e) ==
  /\ e.from # 0 \/ e.to # 0
  /\ e.from <= 0 \/ e.to <= 0 \/ e.from > e.to \/ e.to >= e.seq

\* The events apply throws a FoldError on.
Throws(st, e) ==
  CASE e.type = "SessionStarted" -> st.session # None
    [] e.type = "SessionEnded" -> st.session = None
    [] e.type = "SceneCreated" -> HasScene(st, e.scene)
    [] e.type \in {"DoorOpened", "DoorClosed"} -> ~HasScene(st, e.scene) \/ e.at = None
    [] e.type = "ActorAdded" ->
         e.actor = None \/ HasActor(st, e.actor) \/ e.is.ctl # {}
    [] e.type \in {"ActorControlGranted", "ActorControlRevoked"} -> ~HasActor(st, e.actor)
    [] e.type = "TokenPlaced" ->
         HasToken(st, e.token) \/ ~HasScene(st, e.scene) \/ ~HasActor(st, e.actor) \/ e.at = None
    [] e.type = "TokenMoved" -> ~HasToken(st, e.token) \/ e.at = None
    [] e.type \in {"TokenDescribed", "TokenRemoved"} -> ~HasToken(st, e.token)
    [] e.type = "ActorRemoved" -> ~HasActor(st, e.actor) \/ Standing(st, e.actor) # {}
    [] e.type = "SceneSeen" -> ~HasScene(st, e.scene)
    [] e.type = "ConditionApplied" ->
         ~HasActor(st, e.actor) \/ e.condition \in st.conditions[e.actor]
    [] e.type = "ConditionRemoved" ->
         ~HasActor(st, e.actor) \/ e.condition \notin st.conditions[e.actor]
    [] e.type = "NoteDeleted" -> st.notes[e.key] = None
    [] e.type = "ResourceChanged" ->
         \/ ~HasActor(st, e.actor)
         \/ st.actors[e.actor].body = None
         \/ Computed(st.actors[e.actor], e.delta) # e.to
    [] e.type = "NarrationAdded" -> ThrowsOnNarration(e)
    [] e.type = "WhisperAdded" ->
         \E a \in e.to \cup (IF e.from = None THEN {} ELSE {e.from}) : ~HasActor(st, a)
    [] OTHER -> FALSE

\* Mutation: a browser keeps the conditions of an actor that has gone.
DroppedAlone(st, a) == [st EXCEPT !.actors[a] = None]

Dropped(st, a) == [st EXCEPT !.actors[a] = None, !.conditions[a] = {}]

\* The kind is written before the early return for a controller held already.
Handed(a, e) ==
  LET stated == IF e.kind # "unspecified" THEN [a EXCEPT !.kind = e.kind] ELSE a
  IN  IF e.person \in a.ctl
      THEN stated
      ELSE [stated EXCEPT !.ctl = @ \cup {e.person}]

\* What apply makes of a state it does not throw on.
Becomes(st, e) ==
  CASE e.type = "SessionStarted" -> [st EXCEPT !.session = e.id]
    [] e.type = "SessionEnded" -> [st EXCEPT !.session = None]
    [] e.type = "SceneCreated" ->
         [st EXCEPT !.scenes[e.scene] = [open |-> {}, visible |-> None, explored |-> {}]]
    [] e.type = "DoorOpened" -> [st EXCEPT !.scenes[e.scene].open = @ \cup {e.at}]
    [] e.type = "DoorClosed" -> [st EXCEPT !.scenes[e.scene].open = @ \ {e.at}]
    [] e.type = "ActorAdded" -> [st EXCEPT !.actors[e.actor] = e.is]
    [] e.type = "ActorControlGranted" -> [st EXCEPT !.actors[e.actor] = Handed(@, e)]
    [] e.type = "ActorControlRevoked" ->
         [st EXCEPT !.actors[e.actor].ctl = @ \ {e.person}]
    [] e.type = "TokenPlaced" ->
         [st EXCEPT !.tokens[e.token] =
            [scene |-> e.scene, actor |-> e.actor, at |-> e.at, text |-> e.text]]
    [] e.type = "TokenMoved" -> [st EXCEPT !.tokens[e.token].at = e.at]
    [] e.type = "TokenDescribed" -> [st EXCEPT !.tokens[e.token].text = e.text]
    [] e.type \in {"TokenRemoved", "TokenHidden"} -> [st EXCEPT !.tokens[e.token] = None]
    [] e.type = "ActorRemoved" -> Dropped(st, e.actor)
    [] e.type = "SceneSeen" ->
         [st EXCEPT !.scenes[e.scene].visible = e.visible,
                    !.scenes[e.scene].explored = @ \cup e.tiles]
    [] e.type = "ConditionApplied" -> [st EXCEPT !.conditions[e.actor] = @ \cup {e.condition}]
    [] e.type = "ConditionRemoved" -> [st EXCEPT !.conditions[e.actor] = @ \ {e.condition}]
    [] e.type = "NoteUpserted" -> [st EXCEPT !.notes[e.key] = e.visibility]
    [] e.type = "NoteDeleted" -> [st EXCEPT !.notes[e.key] = None]
    [] e.type = "ResourceChanged" ->
         [st EXCEPT !.actors[e.actor].cur = Computed(st.actors[e.actor], e.delta)]
    [] OTHER -> st

-----------------------------------------------------------------------------
(* A session: the state its log folds to, or the last it folded to before  *)
(* an event that threw.  fold(log) of a longer log is apply of the last    *)
(* event to fold of the rest, and throws wherever the rest does, so the    *)
(* log itself is not kept.                                                 *)

Session == [derived : State, failed : BOOLEAN]

\* start, and empty: a log is sent again from its first entry.
EmptySession == [derived |-> NewState, failed |-> FALSE]

Ingest(s, e) ==
  IF s.failed \/ Throws(s.derived, e)
  THEN [s EXCEPT !.failed = TRUE]
  ELSE [s EXCEPT !.derived = Becomes(@, e)]

Ingested(s, frames) == FoldLeft(Ingest, s, frames)
=============================================================================
