------------------------------- MODULE Store -------------------------------
(***************************************************************************)
(* The event store of src/internal/store: logs that only grow, and the     *)
(* subscriptions that follow them.  An append persists and does not        *)
(* notify; its caller notifies event by event afterwards.  A subscription  *)
(* owns an unbounded queue (pending) that an append fills under the store  *)
(* lock, and a pump goroutine that hands the queue to a channel at the     *)
(* reader's pace, or gives up on a reader that takes nothing in time: time *)
(* is counted in units, while a hand-off waits.                            *)
(*                                                                         *)
(* The caller of AppendBatch and Notify is campaign.appendLocked, which    *)
(* holds the campaign's lock from the append to its last Notify: notified  *)
(* is how far that loop is, and no append starts before it has ended.      *)
(*                                                                         *)
(* An envelope is its sequence.  The store lock s.mu is held by one atomic *)
(* action, except by Notify, whose enqueue puts an event in a queue under  *)
(* the subscriber's own lock and sends the wake-up only after unlocking:   *)
(* unsignalled holds the subscribers in between, and s.mu is not free.     *)
(***************************************************************************)
EXTENDS Integers, Sequences

CONSTANTS Logs,     \* the event log and the character logs
          Subs,     \* subscriptions, each opened at most once
          Readers,  \* those whose reader keeps reading
          Buffer,   \* capacity of a subscription's channel
          Timeout,  \* the no-progress timeout, in units of time
          MaxHead,  \* bound: events in a log
          MaxAfter  \* bound: the cursor a subscription starts after

ASSUME StoreAssumption ==
  /\ Logs # {}
  /\ Readers \subseteq Subs
  /\ Buffer \in Nat
  /\ Timeout \in Nat \ {0}
  /\ MaxHead \in Nat
  /\ MaxAfter \in Nat

VARIABLES
  head,         \* head[l]: MAX(seq) of log l in the database
  notified,     \* notified[l]: the last event of l the appender has notified
  isOpen,       \* the database handle is open
  registered,   \* s.subs and s.chars: who an event is queued for
  unsignalled,  \* queued an event, wake-up still to be sent (inside s.mu)
  asked,        \* asked[s]: the log and the cursor Subscribe was given
  catchUp,      \* catchUp[s]: the third value Subscribe returned
  pending,      \* pending[s]: subscriber.pending
  lastSeq,      \* lastSeq[s]: subscriber.lastSeq, the highest QUEUED
  closed,       \* closed[s]: subscriber.closed, and done is closed
  wake,         \* wake[s]: a signal waits in subscriber.wake (capacity 1)
  pump,         \* pump[s]: where the pump goroutine is
  held,         \* held[s]: the event the pump is handing off, or none
  ch,           \* ch[s]: events resident in the channel
  got,          \* got[s]: what the reader has received
  over,         \* over[s]: the reader has seen the channel closed
  timer,        \* timer[s]: how long the no-progress timer of a hand-off has run
  late          \* late[s]: the time the reader has left what it could take (history)

logVars   == <<head, notified, isOpen>>
listVars  == <<registered, unsignalled>>
openVars  == <<asked, catchUp>>
queueVars == <<pending, lastSeq, closed>>
readVars  == <<got, over>>
clockVars == <<timer, late>>
vars == <<logVars, listVars, openVars, queueVars, wake, pump, held, ch, readVars, clockVars>>

\* "next": about to call next().  "idle": waits on wake or done.  "handoff":
\* waits on the channel, done or the timer.  "exited": has closed the channel.
PumpStates == {"none", "next", "idle", "handoff", "exited"}

Started(s) == pump[s] # "none"
LockFree   == unsignalled = {}

TypeOK ==
  /\ head \in [Logs -> Nat]
  /\ notified \in [Logs -> Nat]
  /\ isOpen \in BOOLEAN
  /\ registered \in SUBSET Subs
  /\ unsignalled \in SUBSET Subs
  /\ asked \in [Subs -> [log : Logs, after : Nat]]
  /\ catchUp \in [Subs -> Nat]
  /\ pending \in [Subs -> Seq(Nat)]
  /\ lastSeq \in [Subs -> Nat]
  /\ closed \in [Subs -> BOOLEAN]
  /\ wake \in [Subs -> BOOLEAN]
  /\ pump \in [Subs -> PumpStates]
  /\ held \in [Subs -> Seq(Nat)]
  /\ ch \in [Subs -> Seq(Nat)]
  /\ got \in [Subs -> Seq(Nat)]
  /\ over \in [Subs -> BOOLEAN]
  /\ timer \in [Subs -> 0 .. Timeout]
  /\ late \in [Subs -> 0 .. Timeout]

Init ==
  /\ head = [l \in Logs |-> 0]
  /\ notified = [l \in Logs |-> 0]
  /\ isOpen = TRUE
  /\ registered = {}
  /\ unsignalled = {}
  /\ asked = [s \in Subs |-> [log |-> CHOOSE l \in Logs : TRUE, after |-> 0]]
  /\ catchUp = [s \in Subs |-> 0]
  /\ pending = [s \in Subs |-> <<>>]
  /\ lastSeq = [s \in Subs |-> 0]
  /\ closed = [s \in Subs |-> FALSE]
  /\ wake = [s \in Subs |-> FALSE]
  /\ pump = [s \in Subs |-> "none"]
  /\ held = [s \in Subs |-> <<>>]
  /\ ch = [s \in Subs |-> <<>>]
  /\ got = [s \in Subs |-> <<>>]
  /\ over = [s \in Subs |-> FALSE]
  /\ timer = [s \in Subs |-> 0]
  /\ late = [s \in Subs |-> 0]

-----------------------------------------------------------------------------
(* The appender.                                                           *)

\* One transaction numbers and inserts a batch in the event log and its
\* entries in any of the character logs; a failed one is rolled back and
\* changes nothing.  It notifies nobody.
AppendBatch(add) ==
  /\ isOpen /\ LockFree
  /\ notified = head
  /\ \E l \in Logs : add[l] > 0
  /\ \A l \in Logs : head[l] + add[l] <= MaxHead
  /\ head' = [l \in Logs |-> head[l] + add[l]]
  /\ UNCHANGED <<notified, isOpen, listVars, openVars, queueVars, wake, pump, held, ch, readVars,
                 clockVars>>

\* Mutation: enqueue without its check against lastSeq.
HearsAgain(s, l, n) == s \in registered /\ asked[s].log = l /\ ~closed[s]

\* Whom enqueue queues event n of log l for.
Hears(s, l, n) == /\ s \in registered /\ asked[s].log = l
                  /\ ~closed[s]
                  /\ n > lastSeq[s]

\* Notify and NotifyCharacter: queue the next event for every subscriber of
\* its log that has not had it, then sweep the stopped ones out of the list.
Notify(l) ==
  LET n == notified[l] + 1 IN
  /\ LockFree
  /\ n <= head[l]
  /\ notified' = [notified EXCEPT ![l] = n]
  /\ pending' = [s \in Subs |-> IF Hears(s, l, n) THEN Append(pending[s], n) ELSE pending[s]]
  /\ lastSeq' = [s \in Subs |-> IF Hears(s, l, n) THEN n ELSE lastSeq[s]]
  /\ unsignalled' = {s \in Subs : Hears(s, l, n)}
  /\ registered' = {s \in registered : asked[s].log = l => ~closed[s]}
  /\ UNCHANGED <<head, isOpen, openVars, closed, wake, pump, held, ch, readVars, clockVars>>

\* The end of enqueue: a non-blocking send on a channel of capacity one.
Signal(s) ==
  /\ s \in unsignalled
  /\ wake' = [wake EXCEPT ![s] = TRUE]
  /\ unsignalled' = unsignalled \ {s}
  /\ UNCHANGED <<logVars, registered, openVars, queueVars, pump, held, ch, readVars, clockVars>>

-----------------------------------------------------------------------------
(* Subscribe, unsubscribe, Close.                                          *)

\* Mutation: the query reads seq >= the cursor.
ReadFrom(l, after) ==
  [i \in 1 .. (IF head[l] > after THEN head[l] - after + 1 ELSE 0) |-> after + i - 1]

\* Every event of log l after the cursor, in order.
ReadAfter(l, after) ==
  [i \in 1 .. (IF head[l] > after THEN head[l] - after ELSE 0) |-> after + i]

\* History is read, queued and the subscriber listed under one hold of s.mu.
Subscribe(s, l, after) ==
  LET history == ReadAfter(l, after)
      last    == IF history = <<>> THEN after ELSE history[Len(history)] IN
  /\ isOpen /\ LockFree
  /\ ~Started(s)
  /\ asked' = [asked EXCEPT ![s] = [log |-> l, after |-> after]]
  /\ pending' = [pending EXCEPT ![s] = history]
  /\ lastSeq' = [lastSeq EXCEPT ![s] = last]
  /\ catchUp' = [catchUp EXCEPT ![s] = last]
  /\ pump' = [pump EXCEPT ![s] = "next"]
  /\ registered' = registered \cup {s}
  /\ UNCHANGED <<logVars, unsignalled, closed, wake, held, ch, readVars, clockVars>>

\* markStopped: the subscriber is left in the list for the next sweep.
Unsubscribe(s) ==
  /\ LockFree
  /\ Started(s)
  /\ closed' = [closed EXCEPT ![s] = TRUE]
  /\ pending' = [pending EXCEPT ![s] = <<>>]
  /\ UNCHANGED <<logVars, listVars, openVars, lastSeq, wake, pump, held, ch, readVars, clockVars>>

Close ==
  /\ isOpen /\ LockFree
  /\ isOpen' = FALSE
  /\ closed' = [s \in Subs |-> closed[s] \/ s \in registered]
  /\ pending' = [s \in Subs |-> IF s \in registered THEN <<>> ELSE pending[s]]
  /\ registered' = {}
  /\ UNCHANGED <<head, notified, unsignalled, openVars, lastSeq, wake, pump, held, ch, readVars,
                 clockVars>>

-----------------------------------------------------------------------------
(* The pump goroutine.                                                     *)

\* The next event is taken out of the queue; the timer of its hand-off is at 0.
TakeNext(s) ==
  /\ pump[s] = "next"
  /\ ~closed[s] /\ pending[s] # <<>>
  /\ held' = [held EXCEPT ![s] = <<Head(pending[s])>>]
  /\ pending' = [pending EXCEPT ![s] = Tail(@)]
  /\ pump' = [pump EXCEPT ![s] = "handoff"]
  /\ UNCHANGED <<logVars, listVars, openVars, lastSeq, closed, wake, ch, readVars, clockVars>>

FindNothing(s) ==
  /\ pump[s] = "next"
  /\ closed[s] \/ pending[s] = <<>>
  /\ pump' = [pump EXCEPT ![s] = "idle"]
  /\ UNCHANGED <<logVars, listVars, openVars, queueVars, wake, held, ch, readVars, clockVars>>

Woken(s) ==
  /\ pump[s] = "idle"
  /\ wake[s]
  /\ wake' = [wake EXCEPT ![s] = FALSE]
  /\ pump' = [pump EXCEPT ![s] = "next"]
  /\ UNCHANGED <<logVars, listVars, openVars, queueVars, held, ch, readVars, clockVars>>

\* Mutation: after a hand-off the pump waits for a wake-up per event.
HandOffThenWait(s) ==
  /\ pump[s] = "handoff"
  /\ Len(ch[s]) < Buffer
  /\ ch' = [ch EXCEPT ![s] = @ \o held[s]]
  /\ held' = [held EXCEPT ![s] = <<>>]
  /\ pump' = [pump EXCEPT ![s] = "idle"]
  /\ timer' = [timer EXCEPT ![s] = 0]
  /\ UNCHANGED <<logVars, listVars, openVars, queueVars, wake, readVars, late>>

\* Mutation: one timer runs on through the hand-offs.
HandOffOnOneTimer(s) ==
  /\ pump[s] = "handoff"
  /\ Len(ch[s]) < Buffer
  /\ ch' = [ch EXCEPT ![s] = @ \o held[s]]
  /\ held' = [held EXCEPT ![s] = <<>>]
  /\ pump' = [pump EXCEPT ![s] = "next"]
  /\ UNCHANGED <<logVars, listVars, openVars, queueVars, wake, readVars, clockVars>>

\* Progress: the event is in the channel, and its timer is no more.
HandOff(s) ==
  /\ pump[s] = "handoff"
  /\ Len(ch[s]) < Buffer
  /\ ch' = [ch EXCEPT ![s] = @ \o held[s]]
  /\ held' = [held EXCEPT ![s] = <<>>]
  /\ pump' = [pump EXCEPT ![s] = "next"]
  /\ timer' = [timer EXCEPT ![s] = 0]
  /\ UNCHANGED <<logVars, listVars, openVars, queueVars, wake, readVars, late>>

\* A pump that has ended keeps no time.
Unwatched(s) ==
  /\ timer' = [timer EXCEPT ![s] = 0]
  /\ late' = [late EXCEPT ![s] = 0]

\* Mutation: an idle pump waits on its wake alone.
SeeDoneInHandOff(s) ==
  /\ pump[s] = "handoff"
  /\ closed[s]
  /\ held' = [held EXCEPT ![s] = <<>>]
  /\ pump' = [pump EXCEPT ![s] = "exited"]
  /\ Unwatched(s)
  /\ UNCHANGED <<logVars, listVars, openVars, queueVars, wake, ch, readVars>>

\* done is closed while the pump waits: what it held is not handed over.
SeeDone(s) ==
  /\ pump[s] \in {"idle", "handoff"}
  /\ closed[s]
  /\ held' = [held EXCEPT ![s] = <<>>]
  /\ pump' = [pump EXCEPT ![s] = "exited"]
  /\ Unwatched(s)
  /\ UNCHANGED <<logVars, listVars, openVars, queueVars, wake, ch, readVars>>

\* Mutation: the hand-off has no timer.
NoTimer(s) == FALSE /\ UNCHANGED vars

\* What a receive would take: an event resident in the channel, or, where the
\* channel holds none, the one being handed off.
CanTake(s) == ch[s] # <<>> \/ (pump[s] = "handoff" /\ Buffer = 0)

\* A unit of time passes while a hand-off waits.
Elapse(s) ==
  /\ pump[s] = "handoff"
  /\ timer[s] < Timeout
  /\ timer' = [timer EXCEPT ![s] = @ + 1]
  /\ late' = [late EXCEPT ![s] = IF CanTake(s) /\ @ < Timeout THEN @ + 1 ELSE @]
  /\ UNCHANGED <<logVars, listVars, openVars, queueVars, wake, pump, held, ch, readVars>>

\* The timer fires on a hand-off that nobody has taken.
NoProgress(s) ==
  /\ pump[s] = "handoff"
  /\ Len(ch[s]) >= Buffer
  /\ timer[s] = Timeout
  /\ closed' = [closed EXCEPT ![s] = TRUE]
  /\ pending' = [pending EXCEPT ![s] = <<>>]
  /\ held' = [held EXCEPT ![s] = <<>>]
  /\ pump' = [pump EXCEPT ![s] = "exited"]
  /\ Unwatched(s)
  /\ UNCHANGED <<logVars, listVars, openVars, lastSeq, wake, ch, readVars>>

-----------------------------------------------------------------------------
(* The reader: a receive from the channel.                                 *)

Receive(s) ==
  /\ ch[s] # <<>>
  /\ got' = [got EXCEPT ![s] = Append(@, Head(ch[s]))]
  /\ ch' = [ch EXCEPT ![s] = Tail(@)]
  /\ late' = [late EXCEPT ![s] = 0]
  /\ UNCHANGED <<logVars, listVars, openVars, queueVars, wake, pump, held, over, timer>>

\* With nothing resident, a waiting receiver takes the event from the pump.
Rendezvous(s) ==
  /\ pump[s] = "handoff"
  /\ ch[s] = <<>>
  /\ got' = [got EXCEPT ![s] = @ \o held[s]]
  /\ held' = [held EXCEPT ![s] = <<>>]
  /\ pump' = [pump EXCEPT ![s] = "next"]
  /\ timer' = [timer EXCEPT ![s] = 0]
  /\ late' = [late EXCEPT ![s] = 0]
  /\ UNCHANGED <<logVars, listVars, openVars, queueVars, wake, ch, over>>

SeeClosed(s) ==
  /\ pump[s] = "exited" /\ ch[s] = <<>>
  /\ ~over[s]
  /\ over' = [over EXCEPT ![s] = TRUE]
  /\ UNCHANGED <<logVars, listVars, openVars, queueVars, wake, pump, held, ch, got, clockVars>>

-----------------------------------------------------------------------------
Appender == \/ \E add \in [Logs -> 0 .. MaxHead] : AppendBatch(add)
            \/ \E l \in Logs : Notify(l)
            \/ \E s \in Subs : Signal(s)

Pump(s) == TakeNext(s) \/ FindNothing(s) \/ Woken(s) \/ HandOff(s)
           \/ SeeDone(s) \/ NoProgress(s)

Reader(s) == Receive(s) \/ Rendezvous(s) \/ SeeClosed(s)

Next == \/ Appender
        \/ \E s \in Subs :
              \/ \E l \in Logs, after \in 0 .. MaxAfter : Subscribe(s, l, after)
              \/ Unsubscribe(s)
              \/ Pump(s)
              \/ Elapse(s)
              \/ Reader(s)
        \/ Close

Spec == Init /\ [][Next]_vars

\* The Go scheduler runs every goroutine that can run, and time passes.  An
\* appender that started notifying goes on; only Readers are sure to read.
Fairness ==
  /\ \A l \in Logs : WF_vars(Notify(l))
  /\ \A s \in Subs : WF_vars(Signal(s)) /\ WF_vars(Pump(s)) /\ WF_vars(Elapse(s))
  /\ \A s \in Readers : WF_vars(Reader(s))

FairSpec == Spec /\ Fairness

-----------------------------------------------------------------------------
(* Properties.                                                             *)

\* Everything on its way to the reader, oldest first.
Pipeline(s) == got[s] \o ch[s] \o held[s] \o pending[s]

\* While a subscription is open, what it has received and what is on its way
\* are together exactly the log from its cursor to the last event queued, and
\* no event the appender has notified is missing: whatever the order in which
\* a Subscribe, an append and its Notify calls meet.
NothingMissed ==
  \A s \in Subs : Started(s) /\ ~closed[s] =>
     /\ Pipeline(s) = [i \in 1 .. lastSeq[s] - asked[s].after |-> asked[s].after + i]
     /\ lastSeq[s] >= notified[asked[s].log]

\* The subscription as its reader sees it is the abstract stream: in order,
\* without gap or repetition, also after it was cut.
Stage(s) == IF ~Started(s) THEN "unopened" ELSE IF over[s] THEN "ended" ELSE "open"

Stream == INSTANCE EventStream WITH stage <- [s \in Subs |-> Stage(s)]
StreamSpec == Stream!Spec

\* A reader that keeps reading is handed every event of its log, unless its
\* subscription was stopped: no wake-up is lost between Notify and the pump.
ReadersHearAll ==
  \A s \in Readers, n \in 1 .. MaxHead :
     (Started(s) /\ asked[s].after < n /\ n <= head[asked[s].log])
        ~> (closed[s] \/ Len(got[s]) >= n - asked[s].after)

\* No event waits for ever on a reader that has stopped reading: it reaches
\* the channel or the no-progress timer cuts the subscription.
NothingWaitsForEver ==
  \A s \in Subs : (pending[s] # <<>> \/ held[s] # <<>>)
        ~> (closed[s] \/ (pending[s] = <<>> /\ held[s] = <<>>))

\* The timer judges whether a reader reads, never how much it was sent (pump): a
\* subscription that nobody stopped ends only when its reader has left what it
\* could take for the whole timeout, however slowly it has read until then.
OnlyStalledReadersAreCut ==
  [][\A s \in Subs : ~closed[s] /\ pump[s] # "exited" /\ pump'[s] = "exited"
                        => late[s] = Timeout]_vars

\* A stopped subscription's goroutine always ends, wherever it was waiting.
StoppedPumpEnds == \A s \in Subs : closed[s] ~> pump[s] = "exited"

=============================================================================
