------------------------------ MODULE Campaign ------------------------------
(***************************************************************************)
(* A campaign, src/internal/campaign: the one writer of a campaign         *)
(* directory, which keeps a live state beside the log and appends to both  *)
(* under its lock c.mu (validate, persist, apply, wake the watches, notify *)
(* the subscribers), and which a crash or a Close ends at any moment.      *)
(*                                                                         *)
(* A Campaign object is an instance; several may be opened on the one      *)
(* directory, by one process or by many.  Everything a refused append does *)
(* is undone before c.mu is released, so a refusal in validation is no     *)
(* step.  An event is its sequence.  Every event writes one entry to the   *)
(* character log the subscriptions follow, so the entry is the event's.    *)
(* What a subscription does with a queued event is Store.tla's matter:     *)
(* here it has a queue that reaches to a sequence.                         *)
(***************************************************************************)
EXTENDS Integers

CONSTANTS Instances,  \* the Campaign objects opened on the directory
          WorldSubs,  \* subscriptions to the event log
          CharSubs,   \* subscriptions to a character log
          Watches,    \* watches on the appends, each with its reader
          Nobody,     \* no instance
          MaxBatch,   \* bound: events in one append
          MaxHead     \* bound: events in the log

Subs == WorldSubs \cup CharSubs

ASSUME CampaignAssumption ==
  /\ Nobody \notin Instances
  /\ WorldSubs \cap CharSubs = {}
  /\ MaxBatch \in Nat \ {0}
  /\ MaxHead \in Nat

VARIABLES
  head,       \* MAX(seq) of the event log in log.db
  holder,     \* who has the flock on the directory
  logOpen,    \* the instances whose store has its database open
  pc,         \* pc[i]: where instance i is; c.mu is free when it is "idle"
  poisoned,   \* poisoned[i]
  cHead,      \* cHead[i]: Campaign.head
  applied,    \* applied[i]: the last event folded into Campaign.state
  decided,    \* decided[i]: the last event its perceive decisions stand at
  toldWorld,  \* toldWorld[i]: the last event its Notify loop has reached
  toldChar,   \* toldChar[i]: the last its NotifyCharacter loop has reached
  subOf,      \* subOf[s]: the instance s subscribed through, or Nobody
  checked,    \* checked[s]: passed the poisoned check of Subscribe, outside c.mu
  queued,     \* queued[s]: the last event handed to subscription s
  watchOf,    \* watchOf[w]: the instance w watches, or Nobody
  wake,       \* wake[w]: a signal waits in the watch's channel (capacity 1)
  reading,    \* reading[w]: w is about to read Actors
  read        \* read[w]: the last event in the actors w read

dirVars   == <<head, holder, logOpen>>
stateVars == <<poisoned, cHead, applied, decided>>
tellVars  == <<toldWorld, toldChar>>
subVars   == <<subOf, checked, queued>>
watchVars == <<watchOf, wake, reading, read>>
vars == <<dirVars, pc, stateVars, tellVars, subVars, watchVars>>

\* "held", "loading": in Open.  "decided": validated and fanned out.
\* "persisted", "applied", "telling": later in appendLocked.  "closing": in Close.
PCs == {"closed", "held", "loading", "idle", "decided", "persisted", "applied",
        "telling", "closing"}

Seqs == 0 .. MaxHead

TypeOK ==
  /\ head \in Seqs
  /\ holder \in Instances \cup {Nobody}
  /\ logOpen \in SUBSET Instances
  /\ pc \in [Instances -> PCs]
  /\ poisoned \in [Instances -> BOOLEAN]
  /\ cHead \in [Instances -> Seqs]
  /\ applied \in [Instances -> Seqs]
  /\ decided \in [Instances -> Seqs]
  /\ toldWorld \in [Instances -> Seqs]
  /\ toldChar \in [Instances -> Seqs]
  /\ subOf \in [Subs -> Instances \cup {Nobody}]
  /\ checked \in [Subs -> Instances \cup {Nobody}]
  /\ queued \in [Subs -> Seqs]
  /\ watchOf \in [Watches -> Instances \cup {Nobody}]
  /\ wake \in [Watches -> BOOLEAN]
  /\ reading \in [Watches -> BOOLEAN]
  /\ read \in [Watches -> Seqs]

Init ==
  /\ head = 0
  /\ holder = Nobody
  /\ logOpen = {}
  /\ pc = [i \in Instances |-> "closed"]
  /\ poisoned = [i \in Instances |-> FALSE]
  /\ cHead = [i \in Instances |-> 0]
  /\ applied = [i \in Instances |-> 0]
  /\ decided = [i \in Instances |-> 0]
  /\ toldWorld = [i \in Instances |-> 0]
  /\ toldChar = [i \in Instances |-> 0]
  /\ subOf = [s \in Subs |-> Nobody]
  /\ checked = [s \in Subs |-> Nobody]
  /\ queued = [s \in Subs |-> 0]
  /\ watchOf = [w \in Watches |-> Nobody]
  /\ wake = [w \in Watches |-> FALSE]
  /\ reading = [w \in Watches |-> FALSE]
  /\ read = [w \in Watches |-> 0]

Goto(i, from, to) == pc[i] = from /\ pc' = [pc EXCEPT ![i] = to]

-----------------------------------------------------------------------------
(* Open, Close, crash.                                                     *)

\* flock, exclusive and non-blocking: a second opener is refused (ErrHeld).
TakeHold(i) ==
  /\ holder = Nobody
  /\ Goto(i, "closed", "held")
  /\ holder' = i
  /\ UNCHANGED <<head, logOpen, stateVars, tellVars, subVars, watchVars>>

\* The store is opened and the whole log read.
ReadLog(i) ==
  /\ Goto(i, "held", "loading")
  /\ logOpen' = logOpen \cup {i}
  /\ cHead' = [cHead EXCEPT ![i] = head]
  /\ UNCHANGED <<head, holder, poisoned, applied, decided, tellVars, subVars, watchVars>>

\* The fold of what was read becomes the state, and every character log's
\* decision resumes from it.
FinishOpen(i) ==
  /\ Goto(i, "loading", "idle")
  /\ poisoned' = [poisoned EXCEPT ![i] = FALSE]
  /\ applied' = [applied EXCEPT ![i] = cHead[i]]
  /\ decided' = [decided EXCEPT ![i] = cHead[i]]
  /\ toldWorld' = [toldWorld EXCEPT ![i] = cHead[i]]
  /\ toldChar' = [toldChar EXCEPT ![i] = cHead[i]]
  /\ UNCHANGED <<dirVars, cHead, subVars, watchVars>>

\* What ends with the instance: its subscriptions' queues and its watches; a
\* Subscribe that has only passed its check meets a closed store.
Ends(i) ==
  /\ checked' = [s \in Subs |-> IF checked[s] = i THEN Nobody ELSE checked[s]]
  /\ subOf' = [s \in Subs |-> IF subOf[s] = i THEN Nobody ELSE subOf[s]]
  /\ watchOf' = [w \in Watches |-> IF watchOf[w] = i THEN Nobody ELSE watchOf[w]]
  /\ wake' = [w \in Watches |-> wake[w] /\ watchOf[w] # i]
  /\ reading' = [w \in Watches |-> reading[w] /\ watchOf[w] # i]
  /\ UNCHANGED <<queued, read>>

\* The log does not open or does not fold: Open lets go of the directory.
FailOpen(i) ==
  /\ pc[i] \in {"held", "loading"}
  /\ pc' = [pc EXCEPT ![i] = "closed"]
  /\ logOpen' = logOpen \ {i}
  /\ holder' = Nobody
  /\ UNCHANGED <<head, stateVars, tellVars, subVars, watchVars>>

\* Mutation: Close lets go of the directory before it closes the log.
CloseHoldFirst(i) ==
  /\ Goto(i, "idle", "closing")
  /\ holder' = Nobody
  /\ Ends(i)
  /\ UNCHANGED <<head, logOpen, stateVars, tellVars>>

\* Close, poisoned or not: the watches, then the log ...
CloseLog(i) ==
  /\ Goto(i, "idle", "closing")
  /\ logOpen' = logOpen \ {i}
  /\ Ends(i)
  /\ UNCHANGED <<head, holder, stateVars, tellVars>>

\* ... then the hold.
Release(i) ==
  /\ Goto(i, "closing", "closed")
  /\ holder' = Nobody
  /\ logOpen' = logOpen \ {i}
  /\ UNCHANGED <<head, stateVars, tellVars, subVars, watchVars>>

\* The process dies: the kernel closes its descriptors, which ends the hold,
\* and the memory is gone; the log keeps what was committed.
Crash(i) ==
  /\ pc[i] # "closed"
  /\ pc' = [pc EXCEPT ![i] = "closed"]
  /\ logOpen' = logOpen \ {i}
  /\ holder' = IF holder = i THEN Nobody ELSE holder
  /\ Ends(i)
  /\ UNCHANGED <<head, stateVars, tellVars>>

-----------------------------------------------------------------------------
(* Append and AppendBatch, one step of appendLocked after another.         *)

\* A batch of n validates on a snapshot and is fanned out, which moves the
\* decisions past it; Append is a batch of one.
Decide(i, n) ==
  /\ Goto(i, "idle", "decided")
  /\ ~poisoned[i]
  /\ cHead[i] + n <= MaxHead
  /\ decided' = [decided EXCEPT ![i] = cHead[i] + n]
  /\ UNCHANGED <<dirVars, poisoned, cHead, applied, tellVars, subVars, watchVars>>

\* Mutation: a failed append leaves the decisions where the fan-out took them.
KeepDecisions(i) ==
  /\ Goto(i, "decided", "idle")
  /\ UNCHANGED <<dirVars, stateVars, tellVars, subVars, watchVars>>

\* The fan-out or the transaction fails: the decisions resume from the state.
RestartDecisions(i) ==
  /\ Goto(i, "decided", "idle")
  /\ decided' = [decided EXCEPT ![i] = applied[i]]
  /\ UNCHANGED <<dirVars, poisoned, cHead, applied, tellVars, subVars, watchVars>>

\* The transaction commits; the store numbers the batch after MAX(seq).
Persist(i) ==
  LET n == decided[i] - cHead[i] IN
  /\ Goto(i, "decided", "persisted")
  /\ i \in logOpen
  /\ head + n <= MaxHead
  /\ head' = head + n
  /\ cHead' = [cHead EXCEPT ![i] = head + n]
  /\ UNCHANGED <<holder, logOpen, poisoned, applied, decided, tellVars, subVars, watchVars>>

ApplyLive(i) ==
  /\ Goto(i, "persisted", "applied")
  /\ applied' = [applied EXCEPT ![i] = cHead[i]]
  /\ UNCHANGED <<dirVars, poisoned, cHead, decided, tellVars, subVars, watchVars>>

\* Mutation: an append whose live apply fails is refused, not poisoning.
DivergeUnpoisoned(i) ==
  /\ Goto(i, "persisted", "idle")
  /\ UNCHANGED <<dirVars, stateVars, tellVars, subVars, watchVars>>

\* The backstop: an event that folded in validation does not fold live.
Diverge(i) ==
  /\ Goto(i, "persisted", "idle")
  /\ poisoned' = [poisoned EXCEPT ![i] = TRUE]
  /\ UNCHANGED <<dirVars, cHead, applied, decided, tellVars, subVars, watchVars>>

Wake(i) ==
  /\ Goto(i, "applied", "telling")
  /\ wake' = [w \in Watches |-> wake[w] \/ watchOf[w] = i]
  /\ UNCHANGED <<dirVars, stateVars, tellVars, subVars, watchOf, reading, read>>

\* The subscriptions of kind K that take event n of instance i.
Take(i, K, n) ==
  queued' = [s \in Subs |-> IF s \in K /\ subOf[s] = i /\ n > queued[s] THEN n ELSE queued[s]]

Notify(i) ==
  LET n == toldWorld[i] + 1 IN
  /\ pc[i] = "telling" /\ n <= cHead[i]
  /\ toldWorld' = [toldWorld EXCEPT ![i] = n]
  /\ Take(i, WorldSubs, n)
  /\ UNCHANGED <<dirVars, pc, stateVars, toldChar, subOf, checked, watchVars>>

\* Mutation: the wake is not kept before the character entries.
NotifyCharacterEarly(i) ==
  LET n == toldChar[i] + 1 IN
  /\ pc[i] \in {"applied", "telling"} /\ n <= cHead[i]
  /\ toldChar' = [toldChar EXCEPT ![i] = n]
  /\ Take(i, CharSubs, n)
  /\ UNCHANGED <<dirVars, pc, stateVars, toldWorld, subOf, checked, watchVars>>

NotifyCharacter(i) ==
  LET n == toldChar[i] + 1 IN
  /\ pc[i] = "telling" /\ toldWorld[i] = cHead[i] /\ n <= cHead[i]
  /\ toldChar' = [toldChar EXCEPT ![i] = n]
  /\ Take(i, CharSubs, n)
  /\ UNCHANGED <<dirVars, pc, stateVars, toldWorld, subOf, checked, watchVars>>

FinishAppend(i) ==
  /\ toldWorld[i] = cHead[i] /\ toldChar[i] = cHead[i]
  /\ Goto(i, "telling", "idle")
  /\ UNCHANGED <<dirVars, stateVars, tellVars, subVars, watchVars>>

-----------------------------------------------------------------------------
(* Subscriptions.                                                          *)

\* Subscribe looks at poisoned under c.mu and then lets go of it ...
CheckSubscribe(s, i) ==
  /\ pc[i] = "idle" /\ i \in logOpen /\ ~poisoned[i]
  /\ checked[s] = Nobody /\ subOf[s] = Nobody
  /\ checked' = [checked EXCEPT ![s] = i]
  /\ UNCHANGED <<dirVars, pc, stateVars, tellVars, subOf, queued, watchVars>>

\* ... and reads the whole log and joins the list under the store's lock,
\* between any two steps of an append.
StoreSubscribe(s, i) ==
  /\ checked[s] = i /\ i \in logOpen
  /\ checked' = [checked EXCEPT ![s] = Nobody]
  /\ subOf' = [subOf EXCEPT ![s] = i]
  /\ queued' = [queued EXCEPT ![s] = head]
  /\ UNCHANGED <<dirVars, pc, stateVars, tellVars, watchVars>>

\* Mutation: SubscribeCharacter lets go of c.mu before the store's subscribe.
SubscribeCharacterUnlocked(s, i) ==
  /\ i \in logOpen /\ ~poisoned[i]
  /\ subOf[s] = Nobody
  /\ subOf' = [subOf EXCEPT ![s] = i]
  /\ queued' = [queued EXCEPT ![s] = head]
  /\ UNCHANGED <<dirVars, pc, stateVars, tellVars, checked, watchVars>>

\* SubscribeCharacter holds c.mu across the store's subscribe.
SubscribeCharacter(s, i) ==
  /\ pc[i] = "idle" /\ i \in logOpen /\ ~poisoned[i]
  /\ subOf[s] = Nobody
  /\ subOf' = [subOf EXCEPT ![s] = i]
  /\ queued' = [queued EXCEPT ![s] = head]
  /\ UNCHANGED <<dirVars, pc, stateVars, tellVars, checked, watchVars>>

-----------------------------------------------------------------------------
(* Watches, and the reader of one: register, read the actors, and read     *)
(* them again at each wake (gateway openSeat and its watch loop).          *)

\* Mutation: the watcher reads the actors first and watches afterwards.
WatchHavingRead(w, i) ==
  /\ pc[i] = "idle" /\ i \in logOpen /\ ~poisoned[i]
  /\ watchOf[w] = Nobody
  /\ watchOf' = [watchOf EXCEPT ![w] = i]
  /\ wake' = [wake EXCEPT ![w] = FALSE]
  /\ \E r \in 0 .. applied[i] : read' = [read EXCEPT ![w] = r]
  /\ UNCHANGED <<dirVars, pc, stateVars, tellVars, subVars, reading>>

WatchAppends(w, i) ==
  /\ pc[i] = "idle" /\ i \in logOpen /\ ~poisoned[i]
  /\ watchOf[w] = Nobody
  /\ watchOf' = [watchOf EXCEPT ![w] = i]
  /\ wake' = [wake EXCEPT ![w] = FALSE]
  /\ reading' = [reading EXCEPT ![w] = TRUE]
  /\ read' = [read EXCEPT ![w] = 0]
  /\ UNCHANGED <<dirVars, pc, stateVars, tellVars, subVars>>

\* Actors waits for c.mu; a poisoned campaign has none to give.
ReadActors(w) ==
  /\ reading[w]
  /\ pc[watchOf[w]] = "idle" /\ ~poisoned[watchOf[w]]
  /\ read' = [read EXCEPT ![w] = applied[watchOf[w]]]
  /\ reading' = [reading EXCEPT ![w] = FALSE]
  /\ UNCHANGED <<dirVars, pc, stateVars, tellVars, subVars, watchOf, wake>>

TakeWake(w) ==
  /\ wake[w] /\ ~reading[w]
  /\ wake' = [wake EXCEPT ![w] = FALSE]
  /\ reading' = [reading EXCEPT ![w] = TRUE]
  /\ UNCHANGED <<dirVars, pc, stateVars, tellVars, subVars, watchOf, read>>

StopWatch(w) ==
  /\ watchOf[w] # Nobody
  /\ pc[watchOf[w]] = "idle"
  /\ watchOf' = [watchOf EXCEPT ![w] = Nobody]
  /\ wake' = [wake EXCEPT ![w] = FALSE]
  /\ reading' = [reading EXCEPT ![w] = FALSE]
  /\ UNCHANGED <<dirVars, pc, stateVars, tellVars, subVars, read>>

-----------------------------------------------------------------------------
OpenOrClose(i) == TakeHold(i) \/ ReadLog(i) \/ FinishOpen(i) \/ FailOpen(i)
                  \/ CloseLog(i) \/ Release(i) \/ Crash(i)

Appends(i) == \/ \E n \in 1 .. MaxBatch : Decide(i, n)
              \/ RestartDecisions(i) \/ Persist(i) \/ ApplyLive(i) \/ Diverge(i)
              \/ Wake(i) \/ Notify(i) \/ NotifyCharacter(i) \/ FinishAppend(i)

Follow(i) == \/ \E s \in WorldSubs : CheckSubscribe(s, i) \/ StoreSubscribe(s, i)
             \/ \E s \in CharSubs : SubscribeCharacter(s, i)
             \/ \E w \in Watches : WatchAppends(w, i)

Watcher(w) == ReadActors(w) \/ TakeWake(w) \/ StopWatch(w)

Next == \/ \E i \in Instances : OpenOrClose(i) \/ Appends(i) \/ Follow(i)
        \/ \E w \in Watches : Watcher(w)

Spec == Init /\ [][Next]_vars

-----------------------------------------------------------------------------
(* Properties.                                                             *)

\* c.mu is free and the instance serves: what State and Actors may be asked.
Serves(i) == pc[i] = "idle" /\ ~poisoned[i]

\* The directory has one writer: a log is open in at most one instance, and it
\* is the holder's, through every order of Open, Close and crash of several.
OneWriter == \A i \in logOpen : holder = i

\* Whoever can read a state reads one that holds the whole log, and so every
\* event any subscriber has received; the next append validates at the
\* sequence the store will give it.
StateIsTheLog == \A i \in Instances :
  Serves(i) => applied[i] = head /\ cHead[i] = head

\* After an append that landed, or one that failed, the decisions stand where
\* the state does: no event was classified twice or skipped.
DecisionsFollowState == \A i \in Instances : Serves(i) => decided[i] = applied[i]

\* A watcher that is not about to read, and has no wake waiting, has read the
\* state as it is: no append goes by it.
NoWakeIsLost == \A w \in Watches :
  LET i == watchOf[w] IN
  i # Nobody /\ Serves(i) /\ ~wake[w] /\ ~reading[w] => read[w] = applied[i]

\* When a character log's subscriber is handed an entry, the wake for that
\* entry's event was posted before it: the watcher has read it, or will.
WakePrecedesEntry == \A w \in Watches, s \in CharSubs :
  watchOf[w] # Nobody /\ watchOf[w] = subOf[s] /\ ~wake[w] /\ ~reading[w]
     => read[w] >= queued[s]

\* A character log's subscriber holds no entry the live state has not folded,
\* poisoned or not.
EntriesAreApplied == \A s \in CharSubs : subOf[s] # Nobody => queued[s] <= applied[subOf[s]]

=============================================================================
