---------------------------- MODULE EventStream ----------------------------
(***************************************************************************)
(* What a subscription to an append-only log promises its reader, with no  *)
(* queue, no goroutine and no lock in it: from the cursor the reader       *)
(* named, every event of the log, in order, each once, and nothing that is *)
(* not in the log.  The stream may end at any moment, and then the log is  *)
(* the recovery path: the reader subscribes again from what it has read.   *)
(*                                                                         *)
(* It is what Subscribe and the pump of src/internal/store/subscribe.go    *)
(* amount to for whoever reads the channel; Store.tla implements it.       *)
(***************************************************************************)
EXTENDS Integers, Sequences

CONSTANTS Logs,  \* the event log and every character log
          Subs   \* subscriptions; each is opened at most once

VARIABLES head,     \* head[l]: the highest sequence in log l, 0 when empty
          asked,    \* asked[s]: the log s reads and the sequence it starts after
          catchUp,  \* catchUp[s]: the catch-up head s was told on opening
          got,      \* got[s]: the sequences the reader of s has received
          stage     \* stage[s]: not opened, open, or ended

vars == <<head, asked, catchUp, got, stage>>

Stages == {"unopened", "open", "ended"}

\* The sequence catch-up ends at: the log's head, or the cursor past it.
CatchUpHead(l, after) == IF head[l] > after THEN head[l] ELSE after

Init == /\ head = [l \in Logs |-> 0]
        /\ asked \in [Subs -> [log : Logs, after : {0}]]
        /\ catchUp = [s \in Subs |-> 0]
        /\ got = [s \in Subs |-> <<>>]
        /\ stage = [s \in Subs |-> "unopened"]

\* The log only grows, by any number of events in any of the logs at once.
Grow == /\ head' \in [Logs -> Nat]
        /\ \A l \in Logs : head'[l] >= head[l]
        /\ UNCHANGED <<asked, catchUp, got, stage>>

\* The reader names a log and a cursor, which need not be in the log.
Open(s) == /\ stage[s] = "unopened"
           /\ asked'[s] \in [log : Logs, after : Nat]
           /\ asked' = [asked EXCEPT ![s] = asked'[s]]
           /\ catchUp' = [catchUp EXCEPT ![s] = CatchUpHead(asked'[s].log, asked'[s].after)]
           /\ stage' = [stage EXCEPT ![s] = "open"]
           /\ UNCHANGED <<head, got>>

\* The event after the last one read; it must be in the log.
NextOf(s) == asked[s].after + Len(got[s]) + 1

Deliver(s) == /\ stage[s] = "open"
              /\ NextOf(s) <= head[asked[s].log]
              /\ got' = [got EXCEPT ![s] = Append(@, NextOf(s))]
              /\ UNCHANGED <<head, asked, catchUp, stage>>

End(s) == /\ stage[s] = "open"
          /\ stage' = [stage EXCEPT ![s] = "ended"]
          /\ UNCHANGED <<head, asked, catchUp, got>>

Next == Grow \/ \E s \in Subs : Open(s) \/ Deliver(s) \/ End(s)

Spec == Init /\ [][Next]_vars

=============================================================================
