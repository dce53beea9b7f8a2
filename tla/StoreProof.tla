----------------------------- MODULE StoreProof -----------------------------
(***************************************************************************)
(* Proofs about Store, for any logs, any number of subscriptions, any      *)
(* channel capacity and any bounds: its type invariant, that no open       *)
(* subscription misses an event (NothingMissed), that it implements        *)
(* EventStream (StreamSpec), and that only a stalled reader is cut         *)
(* (OnlyStalledReadersAreCut).  All rest on one inductive invariant, IInv, *)
(* which says where in the pipeline each event of a log is; the last on    *)
(* TimeInv too, which says so of the clocks.                               *)
(***************************************************************************)
EXTENDS Store, SequenceTheorems, TLAPS

USE StoreAssumption DEF StoreAssumption

-----------------------------------------------------------------------------
(* Type correctness.                                                       *)

\* The history a subscription starts from is a sequence of sequences, and
\* it holds the events after the cursor, in order, up to the head.
LEMMA ReadAfterIs ==
  ASSUME NEW l \in Logs, NEW after \in Nat, head[l] \in Nat
  PROVE  /\ ReadAfter(l, after) \in Seq(Nat)
         /\ Len(ReadAfter(l, after)) = IF head[l] > after THEN head[l] - after ELSE 0
         /\ \A i \in 1 .. Len(ReadAfter(l, after)) : ReadAfter(l, after)[i] = after + i
         /\ ReadAfter(l, after) = <<>> <=> Len(ReadAfter(l, after)) = 0
<1> DEFINE n == IF head[l] > after THEN head[l] - after ELSE 0
           h == [i \in 1 .. n |-> after + i]
<1>1. n \in Nat
  OBVIOUS
<1>2. h \in [1 .. n -> Nat]
  BY <1>1
<1>3. h \in Seq(Nat) /\ Len(h) = n
  <2>1. h \in UNION {[1 .. m -> Nat] : m \in Nat}
    <3> HIDE DEF h, n
    <3> QED BY <1>1, <1>2
  <2>2. h \in Seq(Nat)
    <3> HIDE DEF h
    <3>1. Seq(Nat) = UNION {[1 .. m -> Nat] : m \in Nat}
      BY SeqDef
    <3> QED BY <2>1, <3>1
  <2>3. DOMAIN h = 1 .. n /\ DOMAIN h = 1 .. Len(h) /\ Len(h) \in Nat
    BY <2>2, LenProperties
  <2> QED BY <1>1, <2>2, <2>3
<1>4. h = <<>> <=> n = 0
  BY <1>3, EmptySeq
<1> QED BY <1>1, <1>3, <1>4 DEF ReadAfter

\* Every variable keeps its type (the shape of store.Store and subscriber).
THEOREM TypeCorrect == Spec => []TypeOK
<1>1. Init => TypeOK
  <2> SUFFICES ASSUME Init PROVE TypeOK
    OBVIOUS
  <2>1. <<>> \in Seq(Nat)
    BY EmptySeq
  <2>2. asked \in [Subs -> [log : Logs, after : Nat]]
    <3>1. (CHOOSE l \in Logs : TRUE) \in Logs
      OBVIOUS
    <3> QED BY <3>1 DEF Init
  <2>3. 0 \in 0 .. Timeout
    OBVIOUS
  <2> QED BY <2>1, <2>2, <2>3 DEF Init, TypeOK, PumpStates
<1>2. TypeOK /\ [Next]_vars => TypeOK'
  <2> SUFFICES ASSUME TypeOK, [Next]_vars PROVE TypeOK'
    OBVIOUS
  <2> USE DEF TypeOK, PumpStates, logVars, listVars, openVars, queueVars, readVars, clockVars
  <2>0. <<>> \in Seq(Nat)
    BY EmptySeq
  <2>1. ASSUME NEW add \in [Logs -> 0 .. MaxHead], AppendBatch(add) PROVE TypeOK'
    <3>1. \A l \in Logs : head[l] + add[l] \in Nat
      OBVIOUS
    <3> QED BY <2>1, <3>1 DEF AppendBatch
  <2>2. ASSUME NEW l \in Logs, Notify(l) PROVE TypeOK'
    BY <2>2, SMTT(30) DEF Notify
  <2>3. ASSUME NEW s \in Subs, Signal(s) PROVE TypeOK'
    BY <2>3 DEF Signal
  <2>4. ASSUME NEW s \in Subs, NEW l \in Logs, NEW after \in 0 .. MaxAfter,
               Subscribe(s, l, after)
        PROVE  TypeOK'
    <3>1. after \in Nat /\ head[l] \in Nat
      OBVIOUS
    <3>2. ReadAfter(l, after) \in Seq(Nat)
      BY <3>1, ReadAfterIs
    <3>3. (IF ReadAfter(l, after) = <<>> THEN after
           ELSE ReadAfter(l, after)[Len(ReadAfter(l, after))]) \in Nat
      <4> HIDE DEF TypeOK
      <4>1. CASE ReadAfter(l, after) = <<>>
        BY <3>1, <4>1
      <4>2. CASE ReadAfter(l, after) # <<>>
        <5>1. Len(ReadAfter(l, after)) \in 1 .. Len(ReadAfter(l, after))
          BY <3>2, <4>2, EmptySeq, LenProperties
        <5> QED BY <3>2, <4>2, <5>1, ElementOfSeq
      <4> QED BY <4>1, <4>2
    <3>4. asked' \in [Subs -> [log : Logs, after : Nat]]
      <4>1. asked' = [asked EXCEPT ![s] = [log |-> l, after |-> after]]
        BY <2>4 DEF Subscribe
      <4> HIDE DEF TypeOK
      <4>2. asked \in [Subs -> [log : Logs, after : Nat]]
        BY DEF TypeOK
      <4> QED BY <3>1, <4>1, <4>2
    <3>5. pending' \in [Subs -> Seq(Nat)]
      BY <2>4, <3>2 DEF Subscribe
    <3>6. lastSeq' \in [Subs -> Nat] /\ catchUp' \in [Subs -> Nat]
      BY <2>4, <3>3 DEF Subscribe
    <3>7. /\ pump' \in [Subs -> PumpStates] /\ registered' \in SUBSET Subs
          /\ UNCHANGED <<logVars, unsignalled, closed, wake, held, ch, readVars, clockVars>>
      BY <2>4 DEF Subscribe
    <3> QED BY <3>4, <3>5, <3>6, <3>7
  <2>5. ASSUME NEW s \in Subs, Unsubscribe(s) PROVE TypeOK'
    BY <2>0, <2>5, SMTT(30) DEF Unsubscribe
  <2>6. ASSUME NEW s \in Subs, TakeNext(s) PROVE TypeOK'
    <3>1. Head(pending[s]) \in Nat /\ Tail(pending[s]) \in Seq(Nat)
      BY <2>6, HeadTailProperties DEF TakeNext
    <3>2. <<Head(pending[s])>> \in Seq(Nat)
      BY <3>1
    <3> QED BY <2>6, <3>1, <3>2 DEF TakeNext
  <2>7. ASSUME NEW s \in Subs, FindNothing(s) PROVE TypeOK'
    BY <2>7 DEF FindNothing
  <2>8. ASSUME NEW s \in Subs, Woken(s) PROVE TypeOK'
    BY <2>8 DEF Woken
  <2>9. ASSUME NEW s \in Subs, HandOff(s) PROVE TypeOK'
    BY <2>0, <2>9, SMTT(30) DEF HandOff
  <2>10. ASSUME NEW s \in Subs, SeeDone(s) PROVE TypeOK'
    BY <2>0, <2>10, SMTT(30) DEF SeeDone, Unwatched
  <2>11. ASSUME NEW s \in Subs, NoProgress(s) PROVE TypeOK'
    BY <2>0, <2>11, SMTT(30) DEF NoProgress, Unwatched
  <2>12. ASSUME NEW s \in Subs, Receive(s) PROVE TypeOK'
    <3>1. Head(ch[s]) \in Nat /\ Tail(ch[s]) \in Seq(Nat)
      BY <2>12, HeadTailProperties DEF Receive
    <3>2. Append(got[s], Head(ch[s])) \in Seq(Nat)
      BY <3>1, AppendProperties
    <3>3. 0 \in 0 .. Timeout
      OBVIOUS
    <3>4. got' \in [Subs -> Seq(Nat)] /\ ch' \in [Subs -> Seq(Nat)]
      BY <2>12, <3>1, <3>2 DEF Receive
    <3>5. late' \in [Subs -> 0 .. Timeout]
      BY <2>12, <3>3 DEF Receive
    <3>6. UNCHANGED <<logVars, listVars, openVars, queueVars, wake, pump, held, over, timer>>
      BY <2>12 DEF Receive
    <3> QED BY <3>4, <3>5, <3>6
  <2>13. ASSUME NEW s \in Subs, Rendezvous(s) PROVE TypeOK'
    <3>1. got[s] \o held[s] \in Seq(Nat)
      BY ConcatProperties
    <3>2. 0 \in 0 .. Timeout
      OBVIOUS
    <3>3. got' \in [Subs -> Seq(Nat)] /\ held' \in [Subs -> Seq(Nat)]
      BY <2>0, <2>13, <3>1 DEF Rendezvous
    <3>4. timer' \in [Subs -> 0 .. Timeout] /\ late' \in [Subs -> 0 .. Timeout]
      BY <2>13, <3>2 DEF Rendezvous
    <3>5. /\ pump' \in [Subs -> PumpStates]
          /\ UNCHANGED <<logVars, listVars, openVars, queueVars, wake, ch, over>>
      BY <2>13 DEF Rendezvous
    <3> QED BY <3>3, <3>4, <3>5
  <2>14. ASSUME NEW s \in Subs, SeeClosed(s) PROVE TypeOK'
    BY <2>14 DEF SeeClosed
  <2>15. CASE Close
    <3>1. \A s \in Subs : /\ (closed[s] \/ s \in registered) \in BOOLEAN
                          /\ (IF s \in registered THEN <<>> ELSE pending[s]) \in Seq(Nat)
      OBVIOUS
    <3>2. closed' \in [Subs -> BOOLEAN]
      BY <2>15, Zenon DEF Close
    <3>3. pending' \in [Subs -> Seq(Nat)]
      BY <2>15, <3>1 DEF Close
    <3>4. registered' \in SUBSET Subs /\ isOpen' \in BOOLEAN
      BY <2>15 DEF Close
    <3> QED BY <2>15, <3>2, <3>3, <3>4, ZenonT(30) DEF Close
  <2>16. CASE UNCHANGED vars
    BY <2>16 DEF vars
  <2>17. ASSUME NEW s \in Subs, Elapse(s) PROVE TypeOK'
    <3>1. timer[s] + 1 \in 0 .. Timeout
      BY <2>17 DEF Elapse
    <3>2. (IF CanTake(s) /\ late[s] < Timeout THEN late[s] + 1 ELSE late[s]) \in 0 .. Timeout
      OBVIOUS
    <3> QED BY <2>17, <3>1, <3>2 DEF Elapse
  <2> QED BY <2>1, <2>2, <2>3, <2>4, <2>5, <2>6, <2>7, <2>8, <2>9, <2>10, <2>11,
             <2>12, <2>13, <2>14, <2>15, <2>16, <2>17 DEF Next, Appender, Pump, Reader
<1> QED BY <1>1, <1>2, PTL DEF Spec

-----------------------------------------------------------------------------
(* The inductive invariant.                                                *)

\* Events on their way to a reader that starts after a: received (g), in the
\* channel (c), in the pump's hand (h) and queued (p).  Each place holds the
\* next stretch of the log, oldest first.
Ordered(a, g, c, h, p) ==
  /\ \A i \in 1 .. Len(g) : g[i] = a + i
  /\ \A i \in 1 .. Len(c) : c[i] = a + Len(g) + i
  /\ \A i \in 1 .. Len(h) : h[i] = a + Len(g) + Len(c) + i
  /\ \A i \in 1 .. Len(p) : p[i] = a + Len(g) + Len(c) + Len(h) + i

Total(g, c, h, p) == Len(g) + Len(c) + Len(h) + Len(p)

\* They are in order, and n of them.
Hold(a, g, c, h, p, n) == Ordered(a, g, c, h, p) /\ Total(g, c, h, p) = n

\* How many events subscription s has taken from its log so far.
Taken(s)   == Total(got[s], ch[s], held[s], pending[s])
InOrder(s) == Ordered(asked[s].after, got[s], ch[s], held[s], pending[s])

\* A subscription nobody has opened holds nothing.
Untouched(s) == /\ got[s] = <<>> /\ ch[s] = <<>> /\ held[s] = <<>> /\ pending[s] = <<>>
                /\ ~closed[s] /\ ~over[s]
                /\ s \notin registered

\* An open one is listed, has queued up to lastSeq, and lags no notification.
UpToDate(s) == /\ s \in registered
               /\ lastSeq[s] = asked[s].after + Taken(s)
               /\ lastSeq[s] >= notified[asked[s].log]

SubInv(s) ==
  /\ ~Started(s) => Untouched(s)
  /\ Started(s) /\ ~closed[s] => UpToDate(s)
  /\ closed[s] => pending[s] = <<>>
  /\ Len(held[s]) = IF pump[s] = "handoff" THEN 1 ELSE 0
  /\ InOrder(s)
  /\ Taken(s) > 0 => asked[s].after + Taken(s) <= head[asked[s].log]
  /\ pump[s] = "exited" => closed[s]
  /\ over[s] => pump[s] = "exited" /\ ch[s] = <<>>

IInv == /\ TypeOK
        /\ \A l \in Logs : notified[l] <= head[l]
        /\ \A s \in Subs : SubInv(s)

-----------------------------------------------------------------------------
(* What each movement of an event does to the order and to the total.      *)

\* The events on their way are counted by a natural number.
LEMMA TotalIsNat ==
  ASSUME NEW g \in Seq(Nat), NEW c \in Seq(Nat), NEW h \in Seq(Nat), NEW p \in Seq(Nat)
  PROVE  /\ Total(g, c, h, p) \in Nat
         /\ Len(c) > 0 \/ Len(h) > 0 => Total(g, c, h, p) >= Len(g) + 1
<1>1. Len(g) \in Nat /\ Len(c) \in Nat /\ Len(h) \in Nat /\ Len(p) \in Nat
  OBVIOUS
<1> QED BY <1>1 DEF Total

\* A notified event goes to the end of the queue.
LEMMA QueueKeepsOrder ==
  ASSUME NEW g \in Seq(Nat), NEW c \in Seq(Nat), NEW h \in Seq(Nat), NEW p \in Seq(Nat),
         NEW a \in Nat, Ordered(a, g, c, h, p),
         NEW n \in Nat, n = a + Total(g, c, h, p) + 1
  PROVE  Hold(a, g, c, h, Append(p, n), Total(g, c, h, p) + 1)
<1>0. Len(g) \in Nat /\ Len(c) \in Nat /\ Len(h) \in Nat /\ Len(p) \in Nat
  OBVIOUS
<1>1. /\ Len(Append(p, n)) = Len(p) + 1
      /\ \A i \in 1 .. Len(p) : Append(p, n)[i] = p[i]
      /\ Append(p, n)[Len(p) + 1] = n
  BY AppendProperties
<1>2. Total(g, c, h, Append(p, n)) = Total(g, c, h, p) + 1
  BY <1>0, <1>1 DEF Total
<1>3. n = a + Len(g) + Len(c) + Len(h) + (Len(p) + 1)
  BY <1>0 DEF Total
<1>4. ASSUME NEW i \in 1 .. Len(Append(p, n))
      PROVE  Append(p, n)[i] = a + Len(g) + Len(c) + Len(h) + i
  <2>1. CASE i = Len(p) + 1
    BY <1>0, <1>1, <1>3, <2>1
  <2>2. CASE i \in 1 .. Len(p)
    BY <1>1, <2>2 DEF Ordered
  <2>3. i = Len(p) + 1 \/ i \in 1 .. Len(p)
    BY <1>0, <1>1
  <2> QED BY <2>1, <2>2, <2>3
<1> QED BY <1>1, <1>2, <1>4 DEF Hold, Ordered

\* next() takes the oldest event of the queue in hand.
LEMMA TakeKeepsOrder ==
  ASSUME NEW g \in Seq(Nat), NEW c \in Seq(Nat), NEW h \in Seq(Nat), NEW p \in Seq(Nat),
         NEW a \in Nat, Ordered(a, g, c, h, p), Len(h) = 0, p # <<>>
  PROVE  Hold(a, g, c, <<Head(p)>>, Tail(p), Total(g, c, h, p))
<1>0. Len(g) \in Nat /\ Len(c) \in Nat /\ Len(h) \in Nat /\ Len(p) \in Nat
  OBVIOUS
<1>1. /\ Len(Tail(p)) = Len(p) - 1 /\ Len(p) > 0 /\ Tail(p) \in Seq(Nat) /\ Head(p) = p[1]
      /\ \A i \in 1 .. Len(Tail(p)) : Tail(p)[i] = p[i + 1]
  BY HeadTailProperties, EmptySeq
<1>2. PICK q \in Seq(Nat) : q = Tail(p)
  BY <1>1
<1>3. PICK k \in Seq(Nat) : k = <<Head(p)>> /\ Len(k) = 1 /\ k[1] = p[1]
  <2>1. PICK x \in Nat : x = Head(p) /\ x = p[1]
    BY <1>0, <1>1
  <2>2. <<x>> \in Seq(Nat) /\ Len(<<x>>) = 1 /\ <<x>>[1] = x
    OBVIOUS
  <2> QED BY <2>1, <2>2
<1>4. /\ Len(q) = Len(p) - 1 /\ Len(q) \in Nat
      /\ \A i \in 1 .. Len(q) : q[i] = p[i + 1]
  BY <1>0, <1>1, <1>2
<1>5. Total(g, c, k, q) = Total(g, c, h, p)
  BY <1>0, <1>3, <1>4 DEF Total
<1>6. ASSUME NEW i \in 1 .. Len(k) PROVE k[i] = a + Len(g) + Len(c) + i
  <2>1. p[1] = a + Len(g) + Len(c) + Len(h) + 1
    BY <1>0, <1>1 DEF Ordered
  <2>2. i = 1
    BY <1>3
  <2> QED BY <1>0, <1>3, <2>1, <2>2
<1>7. ASSUME NEW i \in 1 .. Len(q) PROVE q[i] = a + Len(g) + Len(c) + Len(k) + i
  <2>1. i \in Nat /\ i + 1 \in 1 .. Len(p) /\ q[i] = p[i + 1]
    BY <1>0, <1>4
  <2>2. p[i + 1] = a + Len(g) + Len(c) + Len(h) + (i + 1)
    BY <2>1 DEF Ordered
  <2> QED BY <1>0, <1>3, <2>1, <2>2
<1>8. Ordered(a, g, c, k, q)
  BY <1>6, <1>7 DEF Ordered
<1> QED BY <1>2, <1>3, <1>5, <1>8 DEF Hold

\* The event in hand goes to the end of the channel.
LEMMA HandKeepsOrder ==
  ASSUME NEW g \in Seq(Nat), NEW c \in Seq(Nat), NEW h \in Seq(Nat), NEW p \in Seq(Nat),
         NEW a \in Nat, Ordered(a, g, c, h, p), Len(h) = 1
  PROVE  Hold(a, g, c \o h, <<>>, p, Total(g, c, h, p))
<1>0. Len(g) \in Nat /\ Len(c) \in Nat /\ Len(h) \in Nat /\ Len(p) \in Nat
  OBVIOUS
<1>1. /\ Len(c \o h) = Len(c) + Len(h)
      /\ \A i \in 1 .. Len(c) + Len(h) :
           (c \o h)[i] = IF i <= Len(c) THEN c[i] ELSE h[i - Len(c)]
  BY ConcatProperties
<1>2. Len(<<>>) = 0
  BY EmptySeq
<1>3. Total(g, c \o h, <<>>, p) = Total(g, c, h, p)
  BY <1>0, <1>1, <1>2 DEF Total
<1>4. ASSUME NEW i \in 1 .. Len(c \o h) PROVE (c \o h)[i] = a + Len(g) + i
  <2>1. CASE i = Len(c) + 1
    <3>1. (c \o h)[i] = h[1]
      BY <1>0, <1>1, <2>1
    <3>2. h[1] = a + Len(g) + Len(c) + 1
      BY DEF Ordered
    <3> QED BY <1>0, <2>1, <3>1, <3>2
  <2>2. CASE i \in 1 .. Len(c)
    BY <1>0, <1>1, <2>2 DEF Ordered
  <2> QED BY <1>0, <1>1, <2>1, <2>2
<1>5. ASSUME NEW i \in 1 .. Len(p)
      PROVE  p[i] = a + Len(g) + Len(c \o h) + Len(<<>>) + i
  <2>1. p[i] = a + Len(g) + Len(c) + Len(h) + i
    BY DEF Ordered
  <2> QED BY <1>0, <1>1, <1>2, <2>1
<1> QED BY <1>1, <1>2, <1>3, <1>4, <1>5 DEF Hold, Ordered

\* The reader receives the oldest event of the channel.
LEMMA ReceiveKeepsOrder ==
  ASSUME NEW g \in Seq(Nat), NEW c \in Seq(Nat), NEW h \in Seq(Nat), NEW p \in Seq(Nat),
         NEW a \in Nat, Ordered(a, g, c, h, p), c # <<>>
  PROVE  Hold(a, Append(g, Head(c)), Tail(c), h, p, Total(g, c, h, p))
<1>0. Len(g) \in Nat /\ Len(c) \in Nat /\ Len(h) \in Nat /\ Len(p) \in Nat
  OBVIOUS
<1>1. /\ Len(Tail(c)) = Len(c) - 1 /\ Len(c) > 0 /\ Tail(c) \in Seq(Nat)
      /\ Head(c) = c[1] /\ Head(c) \in Nat
      /\ \A i \in 1 .. Len(Tail(c)) : Tail(c)[i] = c[i + 1]
  BY HeadTailProperties, EmptySeq
<1>2. /\ Len(Append(g, Head(c))) = Len(g) + 1
      /\ \A i \in 1 .. Len(g) : Append(g, Head(c))[i] = g[i]
      /\ Append(g, Head(c))[Len(g) + 1] = c[1]
  BY <1>1, AppendProperties
<1> DEFINE g2 == Append(g, Head(c))
           c2 == Tail(c)
<1>3. Total(g2, c2, h, p) = Total(g, c, h, p)
  BY <1>0, <1>1, <1>2 DEF Total
<1>4. ASSUME NEW i \in 1 .. Len(g2) PROVE g2[i] = a + i
  <2>1. CASE i = Len(g) + 1
    <3>1. c[1] = a + Len(g) + 1
      BY <1>0, <1>1 DEF Ordered
    <3> QED BY <1>0, <1>2, <2>1, <3>1
  <2>2. CASE i \in 1 .. Len(g)
    BY <1>2, <2>2 DEF Ordered
  <2> QED BY <1>0, <1>2, <2>1, <2>2
<1> HIDE DEF g2, c2
<1>5. Len(g2) = Len(g) + 1 /\ Len(c2) = Len(c) - 1
  BY <1>1, <1>2 DEF g2, c2
<1>6. ASSUME NEW i \in 1 .. Len(c2) PROVE c2[i] = a + Len(g2) + i
  <2>1. c2[i] = c[i + 1] /\ i + 1 \in 1 .. Len(c) /\ i \in Nat
    BY <1>0, <1>1, <1>5 DEF c2
  <2>2. c[i + 1] = a + Len(g) + (i + 1)
    BY <2>1 DEF Ordered
  <2> QED BY <1>0, <1>5, <2>1, <2>2
<1>7. ASSUME NEW i \in 1 .. Len(h) PROVE h[i] = a + Len(g2) + Len(c2) + i
  <2>1. h[i] = a + Len(g) + Len(c) + i
    BY DEF Ordered
  <2> QED BY <1>0, <1>5, <2>1
<1>8. ASSUME NEW i \in 1 .. Len(p) PROVE p[i] = a + Len(g2) + Len(c2) + Len(h) + i
  <2>1. p[i] = a + Len(g) + Len(c) + Len(h) + i
    BY DEF Ordered
  <2> QED BY <1>0, <1>5, <2>1
<1>9. Ordered(a, g2, c2, h, p)
  BY <1>4, <1>6, <1>7, <1>8 DEF Ordered
<1> QED BY <1>3, <1>9 DEF Hold, g2, c2

\* The reader receives the event in hand, past an empty channel.
LEMMA RendezvousKeepsOrder ==
  ASSUME NEW g \in Seq(Nat), NEW c \in Seq(Nat), NEW h \in Seq(Nat), NEW p \in Seq(Nat),
         NEW a \in Nat, Ordered(a, g, c, h, p), Len(h) = 1, Len(c) = 0
  PROVE  Hold(a, g \o h, c, <<>>, p, Total(g, c, h, p))
<1>0. Len(g) \in Nat /\ Len(c) \in Nat /\ Len(h) \in Nat /\ Len(p) \in Nat
  OBVIOUS
<1>1. /\ Len(g \o h) = Len(g) + Len(h)
      /\ \A i \in 1 .. Len(g) + Len(h) :
           (g \o h)[i] = IF i <= Len(g) THEN g[i] ELSE h[i - Len(g)]
  BY ConcatProperties
<1>2. Len(<<>>) = 0
  BY EmptySeq
<1>3. Total(g \o h, c, <<>>, p) = Total(g, c, h, p)
  BY <1>0, <1>1, <1>2 DEF Total
<1>4. ASSUME NEW i \in 1 .. Len(g \o h) PROVE (g \o h)[i] = a + i
  <2>1. CASE i = Len(g) + 1
    <3>1. (g \o h)[i] = h[1]
      BY <1>0, <1>1, <2>1
    <3>2. h[1] = a + Len(g) + Len(c) + 1
      BY DEF Ordered
    <3> QED BY <1>0, <2>1, <3>1, <3>2
  <2>2. CASE i \in 1 .. Len(g)
    BY <1>0, <1>1, <2>2 DEF Ordered
  <2> QED BY <1>0, <1>1, <2>1, <2>2
<1>5. ASSUME NEW i \in 1 .. Len(p)
      PROVE  p[i] = a + Len(g \o h) + Len(c) + Len(<<>>) + i
  <2>1. p[i] = a + Len(g) + Len(c) + Len(h) + i
    BY DEF Ordered
  <2> QED BY <1>0, <1>1, <1>2, <2>1
<1> QED BY <1>0, <1>1, <1>2, <1>3, <1>4, <1>5 DEF Hold, Ordered

\* A stop drops the queue, and an exiting pump what it holds.
LEMMA DropKeepsOrder ==
  ASSUME NEW g \in Seq(Nat), NEW c \in Seq(Nat), NEW h \in Seq(Nat), NEW p \in Seq(Nat),
         NEW a \in Nat, Ordered(a, g, c, h, p)
  PROVE  /\ Ordered(a, g, c, h, <<>>) /\ Total(g, c, h, <<>>) <= Total(g, c, h, p)
         /\ Ordered(a, g, c, <<>>, <<>>) /\ Total(g, c, <<>>, <<>>) <= Total(g, c, h, p)
<1>1. Len(<<>>) = 0
  BY EmptySeq
<1> QED BY <1>1 DEF Ordered, Total

-----------------------------------------------------------------------------
(* IInv is preserved.                                                      *)

\* The variables of one subscription.
Own(t) == <<asked[t], catchUp[t], pending[t], lastSeq[t], closed[t], pump[t], held[t],
            ch[t], got[t], over[t], t \in registered>>

\* A step that leaves a subscription alone, and notifies nothing, keeps its
\* invariant even if the logs grow.
LEMMA OthersKeepInv ==
  ASSUME TypeOK, NEW t \in Subs, SubInv(t),
         Own(t)' = Own(t), notified' = notified,
         \A l \in Logs : head'[l] \in Nat /\ head[l] <= head'[l]
  PROVE  SubInv(t)'
<1>1. /\ asked'[t] = asked[t] /\ pending'[t] = pending[t] /\ lastSeq'[t] = lastSeq[t]
      /\ closed'[t] = closed[t] /\ pump'[t] = pump[t] /\ held'[t] = held[t]
      /\ ch'[t] = ch[t] /\ got'[t] = got[t] /\ over'[t] = over[t]
      /\ (t \in registered') = (t \in registered)
  BY DEF Own
<1>2. asked[t].log \in Logs /\ asked[t].after \in Nat /\ Taken(t) \in Nat
  BY TotalIsNat DEF TypeOK, Taken
<1>3. Taken(t)' = Taken(t) /\ Started(t)' = Started(t)
  BY <1>1 DEF Taken, Started
<1>4. InOrder(t)' = InOrder(t) /\ Untouched(t)' = Untouched(t)
  BY <1>1 DEF InOrder, Untouched
<1>5. UpToDate(t)' = UpToDate(t)
  BY <1>1, <1>3 DEF UpToDate
<1>6. asked[t].after + Taken(t) <= head[asked[t].log]
        => asked[t].after + Taken(t) <= head'[asked[t].log]
  BY <1>2 DEF TypeOK
<1> QED BY <1>1, <1>3, <1>4, <1>5, <1>6 DEF SubInv

\* The initial state: no subscription has been opened.
LEMMA InitInv == Init => IInv
<1> SUFFICES ASSUME Init PROVE IInv
  OBVIOUS
<1>1. TypeOK
  <2>1. <<>> \in Seq(Nat)
    BY EmptySeq
  <2>2. asked \in [Subs -> [log : Logs, after : Nat]]
    <3>1. (CHOOSE l \in Logs : TRUE) \in Logs
      OBVIOUS
    <3> QED BY <3>1 DEF Init
  <2>3. 0 \in 0 .. Timeout
    OBVIOUS
  <2> QED BY <2>1, <2>2, <2>3 DEF Init, TypeOK, PumpStates
<1>2. ASSUME NEW s \in Subs PROVE SubInv(s)
  <2>1. /\ got[s] = <<>> /\ ch[s] = <<>> /\ held[s] = <<>> /\ pending[s] = <<>>
        /\ ~closed[s] /\ ~over[s] /\ s \notin registered /\ pump[s] = "none"
    BY DEF Init
  <2>2. Taken(s) = 0 /\ InOrder(s)
    BY <2>1, EmptySeq DEF Taken, InOrder, Total, Ordered
  <2> QED BY <2>1, <2>2, EmptySeq DEF SubInv, Untouched, Started
<1> QED BY <1>1, <1>2 DEF IInv, Init

\* The logs grow; no subscription changes.
LEMMA AppendBatchInv ==
  ASSUME IInv, TypeOK', NEW add \in [Logs -> 0 .. MaxHead], AppendBatch(add)
  PROVE  IInv'
<1>1. \A l \in Logs : head[l] <= head'[l]
  BY DEF AppendBatch, IInv, TypeOK
<1>2. ASSUME NEW t \in Subs PROVE SubInv(t)'
  <2>1. Own(t)' = Own(t) /\ notified' = notified
    BY DEF AppendBatch, Own, listVars, openVars, queueVars, readVars
  <2>2. \A l \in Logs : head'[l] \in Nat /\ head[l] <= head'[l]
    BY <1>1 DEF TypeOK
  <2> QED BY <2>1, <2>2, OthersKeepInv DEF IInv
<1> QED BY <1>1, <1>2 DEF IInv, AppendBatch, TypeOK

\* The lengths of the four places are natural numbers, and so is their sum.
LEMMA LengthsAreNat ==
  ASSUME TypeOK, NEW t \in Subs
  PROVE  /\ got[t] \in Seq(Nat) /\ ch[t] \in Seq(Nat)
         /\ held[t] \in Seq(Nat) /\ pending[t] \in Seq(Nat)
         /\ Len(got[t]) \in Nat /\ Len(ch[t]) \in Nat
         /\ Len(held[t]) \in Nat /\ Len(pending[t]) \in Nat
         /\ Taken(t) \in Nat
         /\ asked[t].log \in Logs /\ asked[t].after \in Nat /\ lastSeq[t] \in Nat
<1>1. /\ got[t] \in Seq(Nat) /\ ch[t] \in Seq(Nat)
      /\ held[t] \in Seq(Nat) /\ pending[t] \in Seq(Nat)
  BY DEF TypeOK
<1>2. /\ Len(got[t]) \in Nat /\ Len(ch[t]) \in Nat
      /\ Len(held[t]) \in Nat /\ Len(pending[t]) \in Nat
  BY <1>1, LenProperties
<1>3. asked[t].log \in Logs /\ asked[t].after \in Nat /\ lastSeq[t] \in Nat
  BY DEF TypeOK
<1>4. Len(got[t]) + Len(ch[t]) + Len(held[t]) + Len(pending[t]) \in Nat
  BY <1>2 DEF TypeOK
<1> QED BY <1>1, <1>2, <1>3, <1>4 DEF Taken, Total

\* The subscribers that hear the event were up to date with the one before it.
LEMMA NotifyInv ==
  ASSUME IInv, TypeOK', NEW l \in Logs, Notify(l)
  PROVE  IInv'
<1> DEFINE n == notified[l] + 1
<1>1. /\ n \in Nat /\ n <= head[l] /\ head' = head
      /\ notified[l] \in Nat /\ n = notified[l] + 1
  BY DEF Notify, IInv, TypeOK
<1>2. notified' = [notified EXCEPT ![l] = n]
  BY DEF Notify
<1> HIDE DEF n
<1>3. \A k \in Logs : notified'[k] <= head'[k]
  BY <1>1, <1>2 DEF IInv, TypeOK
<1>4. ASSUME NEW t \in Subs PROVE SubInv(t)'
  <2>1. /\ asked'[t] = asked[t] /\ closed'[t] = closed[t] /\ pump'[t] = pump[t]
        /\ held'[t] = held[t] /\ ch'[t] = ch[t] /\ got'[t] = got[t] /\ over'[t] = over[t]
    BY DEF Notify, openVars, readVars
  <2>2. /\ SubInv(t) /\ asked[t].log \in Logs /\ asked[t].after \in Nat /\ Taken(t) \in Nat
        /\ lastSeq[t] \in Nat
    BY LengthsAreNat DEF IInv
  <2>3. (t \in registered') = (t \in registered /\ (asked[t].log = l => ~closed[t]))
    BY DEF Notify
  <2>4. CASE ~Hears(t, l, n)
    <3>1. pending'[t] = pending[t] /\ lastSeq'[t] = lastSeq[t]
      BY <1>1, <2>4 DEF Notify, IInv, TypeOK
    <3>2. Taken(t)' = Taken(t) /\ InOrder(t)' = InOrder(t) /\ Started(t)' = Started(t)
      BY <2>1, <3>1 DEF Taken, InOrder, Started
    <3>3. ~Started(t) => Untouched(t)'
      BY <2>1, <2>2, <2>3, <3>1 DEF SubInv, Untouched
    <3>4. Started(t) /\ ~closed[t] => UpToDate(t)'
      <4> SUFFICES ASSUME Started(t), ~closed[t] PROVE UpToDate(t)'
        OBVIOUS
      <4>1. UpToDate(t) /\ t \in registered'
        BY <2>2, <2>3 DEF SubInv, UpToDate
      <4>2. CASE asked[t].log = l
        <5>1. lastSeq[t] >= n
          <6>1. t \in registered /\ ~(n > lastSeq[t])
            BY <2>4, <4>1, <4>2 DEF Hears, UpToDate
          <6> QED BY <1>1, <2>2, <6>1
        <5> QED BY <1>2, <2>1, <2>2, <3>1, <3>2, <4>1, <4>2, <5>1 DEF UpToDate, IInv, TypeOK
      <4>3. CASE asked[t].log # l
        BY <1>2, <2>1, <2>2, <3>1, <3>2, <4>1, <4>3 DEF UpToDate, IInv, TypeOK
      <4> QED BY <4>2, <4>3
    <3>5. closed[t] => pending'[t] = <<>>
      BY <2>2, <3>1 DEF SubInv
    <3> QED BY <1>1, <2>1, <2>2, <3>2, <3>3, <3>4, <3>5 DEF SubInv
  <2>5. CASE Hears(t, l, n)
    <3>1. pending'[t] = Append(pending[t], n) /\ lastSeq'[t] = n
      BY <1>1, <2>5 DEF Notify, IInv, TypeOK
    <3>2. asked[t].log = l /\ ~closed[t] /\ t \in registered /\ n > lastSeq[t]
      BY <2>5 DEF Hears
    <3>3. Started(t)
      BY <2>2, <3>2 DEF SubInv, Untouched
    <3>4. lastSeq[t] = asked[t].after + Taken(t) /\ lastSeq[t] = notified[l]
      <4>1. lastSeq[t] = asked[t].after + Taken(t) /\ lastSeq[t] >= notified[l]
        BY <2>2, <3>2, <3>3 DEF SubInv, UpToDate
      <4> QED BY <1>1, <2>2, <3>2, <4>1
    <3>5. /\ got[t] \in Seq(Nat) /\ ch[t] \in Seq(Nat)
          /\ held[t] \in Seq(Nat) /\ pending[t] \in Seq(Nat)
      BY LengthsAreNat DEF IInv
    <3>6. n = asked[t].after + Taken(t) + 1
      BY <1>1, <2>2, <3>4
    <3>7. Taken(t)' = Taken(t) + 1 /\ InOrder(t)'
      <4>1. Ordered(asked[t].after, got[t], ch[t], held[t], pending[t])
        BY <2>2 DEF SubInv, InOrder
      <4>2. n = asked[t].after + Total(got[t], ch[t], held[t], pending[t]) + 1
        BY <3>6 DEF Taken
      <4>3. /\ Ordered(asked[t].after, got[t], ch[t], held[t], Append(pending[t], n))
            /\ Total(got[t], ch[t], held[t], Append(pending[t], n))
                 = Total(got[t], ch[t], held[t], pending[t]) + 1
        <5>1. PICK g \in Seq(Nat), c \in Seq(Nat), h \in Seq(Nat), p \in Seq(Nat), a \in Nat :
                 g = got[t] /\ c = ch[t] /\ h = held[t] /\ p = pending[t] /\ a = asked[t].after
          BY <2>2, <3>5
        <5>2. Ordered(a, g, c, h, p) /\ n = a + Total(g, c, h, p) + 1 /\ n \in Nat
          BY <1>1, <4>1, <4>2, <5>1
        <5>3. Hold(a, g, c, h, Append(p, n), Total(g, c, h, p) + 1)
          BY <5>2, QueueKeepsOrder
        <5> QED BY <5>1, <5>3 DEF Hold
      <4> QED BY <2>1, <3>1, <4>3 DEF Taken, InOrder
    <3>9. Started(t)' = Started(t)
      BY <2>1 DEF Started
    <3>10. UpToDate(t)'
      <4>1. t \in registered' /\ lastSeq'[t] = asked[t].after + Taken(t)'
        <5>1. t \in registered'
          BY <2>3, <3>2
        <5>2. lastSeq'[t] = asked[t].after + (Taken(t) + 1)
          <6>1. lastSeq'[t] = asked[t].after + Taken(t) + 1
            BY <3>1, <3>6
          <6> QED BY <2>2, <6>1
        <5> QED BY <3>7, <5>1, <5>2
      <4>2. notified'[l] = n
        BY <1>2 DEF IInv, TypeOK
      <4> QED BY <1>1, <2>1, <3>1, <3>2, <4>1, <4>2 DEF UpToDate
    <3>11. asked[t].after + Taken(t)' <= head'[asked[t].log]
      BY <1>1, <2>2, <3>2, <3>4, <3>7
    <3> QED BY <2>1, <2>2, <3>2, <3>3, <3>7, <3>9, <3>10, <3>11 DEF SubInv
  <2> QED BY <2>4, <2>5
<1> QED BY <1>3, <1>4 DEF IInv

\* A step on one subscription that neither appends nor notifies.
LEMMA OneSubInv ==
  ASSUME IInv, TypeOK', NEW s \in Subs, SubInv(s)', head' = head, notified' = notified,
         \A t \in Subs \ {s} : Own(t)' = Own(t)
  PROVE  IInv'
<1>1. ASSUME NEW t \in Subs, t # s PROVE SubInv(t)'
  <2>1. \A l \in Logs : head'[l] \in Nat /\ head[l] <= head'[l]
    BY DEF IInv, TypeOK
  <2>2. Own(t)' = Own(t)
    BY <1>1
  <2>3. SubInv(t) /\ TypeOK
    BY DEF IInv
  <2> QED BY <2>1, <2>2, <2>3, OthersKeepInv
<1> QED BY <1>1 DEF IInv

\* A step that only moves the events of an open or closed subscription along.
LEMMA MoveInv ==
  ASSUME IInv, TypeOK', NEW s \in Subs,
         Started(s), pump'[s] # "none", pump'[s] = "exited" => closed[s],
         ~over[s], over' = over,
         head' = head, notified' = notified, registered' = registered,
         asked' = asked, lastSeq' = lastSeq, closed' = closed,
         closed[s] => pending'[s] = pending[s],
         Len(held'[s]) = IF pump'[s] = "handoff" THEN 1 ELSE 0,
         InOrder(s)', Taken(s)' = Taken(s)
  PROVE  SubInv(s)'
<1>1. SubInv(s) /\ Started(s)'
  BY DEF IInv, Started
<1>2. UpToDate(s)' = UpToDate(s)
  BY DEF UpToDate
<1> QED BY <1>1, <1>2 DEF SubInv

\* The wake-up is no part of the invariant.
LEMMA SignalInv ==
  ASSUME IInv, TypeOK', NEW s \in Subs, Signal(s)
  PROVE  IInv'
<1>1. \A t \in Subs : Own(t)' = Own(t)
  BY DEF Signal, Own, listVars, openVars, queueVars, readVars
<1>2. head' = head /\ notified' = notified
  BY DEF Signal, logVars
<1>3. \A l \in Logs : head'[l] \in Nat /\ head[l] <= head'[l]
  BY <1>2 DEF IInv, TypeOK
<1>4. \A t \in Subs : SubInv(t)'
  BY <1>1, <1>2, <1>3, OthersKeepInv DEF IInv
<1> QED BY <1>2, <1>4 DEF IInv

\* A new subscription starts with its history queued, up to the head.
LEMMA SubscribeInv ==
  ASSUME IInv, TypeOK', NEW s \in Subs, NEW l \in Logs, NEW after \in Nat, Subscribe(s, l, after)
  PROVE  IInv'
<1> DEFINE hist == ReadAfter(l, after)
           last == IF hist = <<>> THEN after ELSE hist[Len(hist)]
<1>1. /\ Untouched(s) /\ pump[s] = "none" /\ head[l] \in Nat /\ notified[l] \in Nat
      /\ notified[l] <= head[l]
  BY DEF Subscribe, Started, IInv, SubInv, TypeOK
<1>2. /\ asked'[s] = [log |-> l, after |-> after] /\ pending'[s] = hist
      /\ lastSeq'[s] = last /\ pump'[s] = "next" /\ s \in registered'
      /\ closed'[s] = closed[s] /\ held'[s] = held[s] /\ ch'[s] = ch[s]
      /\ got'[s] = got[s] /\ over'[s] = over[s] /\ head' = head /\ notified' = notified
  BY DEF Subscribe, IInv, TypeOK, logVars, readVars
<1>3. /\ hist \in Seq(Nat)
      /\ Len(hist) = IF head[l] > after THEN head[l] - after ELSE 0
      /\ \A i \in 1 .. Len(hist) : hist[i] = after + i
      /\ hist = <<>> <=> Len(hist) = 0
  BY <1>1, ReadAfterIs
<1>4. last = after + Len(hist) /\ last >= head[l] /\ last \in Nat
  BY <1>1, <1>3
<1> HIDE DEF last, hist
<1>5. /\ got'[s] = <<>> /\ ch'[s] = <<>> /\ held'[s] = <<>> /\ ~closed'[s] /\ ~over'[s]
      /\ asked'[s].log = l /\ asked'[s].after = after
  BY <1>1, <1>2 DEF Untouched
<1>6. Len(<<>>) = 0 /\ Len(hist) \in Nat
  BY <1>3, EmptySeq
<1>7. Taken(s)' = Len(hist) /\ InOrder(s)'
  <2>1. Total(<<>>, <<>>, <<>>, hist) = Len(hist)
    BY <1>6 DEF Total
  <2>2. Ordered(after, <<>>, <<>>, <<>>, hist)
    BY <1>3, <1>6 DEF Ordered
  <2> QED BY <1>2, <1>5, <2>1, <2>2 DEF Taken, InOrder
<1>8. UpToDate(s)'
  <2>1. lastSeq'[s] = after + Len(hist) /\ lastSeq'[s] >= notified[l]
    BY <1>1, <1>2, <1>4
  <2> QED BY <1>2, <1>5, <1>7, <2>1 DEF UpToDate
<1>9. Taken(s)' > 0 => asked'[s].after + Taken(s)' <= head'[asked'[s].log]
  BY <1>1, <1>2, <1>3, <1>5, <1>7
<1>10. SubInv(s)'
  BY <1>2, <1>5, <1>6, <1>7, <1>8, <1>9 DEF SubInv, Started
<1>11. \A t \in Subs \ {s} : Own(t)' = Own(t)
  BY DEF Subscribe, Own, TypeOK, IInv, readVars
<1> QED BY <1>2, <1>10, <1>11, OneSubInv

\* A stop drops the queue of the subscriptions it closes.
LEMMA StoppedSubInv ==
  ASSUME IInv, NEW t \in Subs, Started(t),
         head' = head, asked'[t] = asked[t], pump'[t] = pump[t], held'[t] = held[t],
         ch'[t] = ch[t], got'[t] = got[t], over'[t] = over[t],
         closed'[t] = TRUE, pending'[t] = <<>>
  PROVE  SubInv(t)'
<1>1. /\ got[t] \in Seq(Nat) /\ ch[t] \in Seq(Nat)
      /\ held[t] \in Seq(Nat) /\ pending[t] \in Seq(Nat)
      /\ asked[t].after \in Nat /\ asked[t].log \in Logs /\ Taken(t) \in Nat
  BY LengthsAreNat DEF IInv
<1>2. SubInv(t) /\ Started(t)'
  BY DEF IInv, Started
<1>3. Ordered(asked[t].after, got[t], ch[t], held[t], pending[t])
  BY <1>2 DEF SubInv, InOrder
<1>4. /\ Ordered(asked[t].after, got[t], ch[t], held[t], <<>>)
      /\ Total(got[t], ch[t], held[t], <<>>) <= Total(got[t], ch[t], held[t], pending[t])
  <2>1. PICK g \in Seq(Nat), c \in Seq(Nat), h \in Seq(Nat), p \in Seq(Nat), a \in Nat :
           g = got[t] /\ c = ch[t] /\ h = held[t] /\ p = pending[t] /\ a = asked[t].after
    BY <1>1
  <2>2. Ordered(a, g, c, h, p)
    BY <1>3, <2>1
  <2>3. /\ Ordered(a, g, c, h, <<>>) /\ Total(g, c, h, <<>>) <= Total(g, c, h, p)
        /\ Ordered(a, g, c, <<>>, <<>>) /\ Total(g, c, <<>>, <<>>) <= Total(g, c, h, p)
    BY <2>2, DropKeepsOrder
  <2> QED BY <2>1, <2>3
<1>5. InOrder(t)' /\ Taken(t)' <= Taken(t) /\ Taken(t)' \in Nat
  <2>1. Total(got[t], ch[t], held[t], <<>>) \in Nat
    BY <1>1, EmptySeq, TotalIsNat
  <2> QED BY <1>4, <2>1 DEF InOrder, Taken
<1>6. Taken(t)' > 0 => asked'[t].after + Taken(t)' <= head'[asked'[t].log]
  <2>1. head[asked[t].log] \in Nat
    BY <1>1 DEF IInv, TypeOK
  <2>2. Taken(t) > 0 => asked[t].after + Taken(t) <= head[asked[t].log]
    BY <1>2 DEF SubInv
  <2> QED BY <1>1, <1>5, <2>1, <2>2
<1> QED BY <1>2, <1>5, <1>6 DEF SubInv

\* A stop leaves what was already handed over.
LEMMA UnsubscribeInv ==
  ASSUME IInv, TypeOK', NEW s \in Subs, Unsubscribe(s)
  PROVE  IInv'
<1>1. /\ Started(s) /\ head' = head /\ notified' = notified
      /\ closed'[s] = TRUE /\ pending'[s] = <<>>
      /\ asked' = asked /\ pump' = pump /\ held' = held /\ ch' = ch
      /\ got' = got /\ over' = over
  BY DEF Unsubscribe, IInv, TypeOK, logVars, openVars, readVars
<1>2. SubInv(s)'
  BY <1>1, StoppedSubInv
<1>3. \A t \in Subs \ {s} : Own(t)' = Own(t)
  BY DEF Unsubscribe, Own, TypeOK, IInv, listVars, openVars, readVars
<1> QED BY <1>1, <1>2, <1>3, OneSubInv

\* Close stops every listed subscription, which is every open one.
LEMMA CloseInv ==
  ASSUME IInv, TypeOK', Close
  PROVE  IInv'
<1>1. /\ head' = head /\ notified' = notified /\ asked' = asked /\ pump' = pump
      /\ held' = held /\ ch' = ch /\ got' = got /\ over' = over /\ registered' = {}
      /\ lastSeq' = lastSeq
  BY DEF Close, openVars, readVars
<1>2. ASSUME NEW t \in Subs PROVE SubInv(t)'
  <2>1. CASE t \in registered
    <3>1. Started(t)
      BY <2>1 DEF IInv, SubInv, Untouched
    <3>2. closed'[t] = TRUE /\ pending'[t] = <<>>
      BY <2>1 DEF Close
    <3> QED BY <1>1, <3>1, <3>2, StoppedSubInv
  <2>2. CASE t \notin registered
    <3>1. (closed'[t] <=> closed[t]) /\ pending'[t] = pending[t]
      BY <2>2 DEF Close, IInv, TypeOK
    <3>2. SubInv(t)
      BY DEF IInv
    <3>3. Started(t)' = Started(t) /\ Taken(t)' = Taken(t) /\ InOrder(t)' = InOrder(t)
      BY <1>1, <3>1 DEF Started, Taken, InOrder
    <3>4. Started(t) => closed[t]
      BY <2>2, <3>2 DEF SubInv, UpToDate
    <3>5. ~Started(t) => Untouched(t)'
      BY <1>1, <3>1, <3>2 DEF SubInv, Untouched
    <3> QED BY <1>1, <3>1, <3>2, <3>3, <3>4, <3>5 DEF SubInv
  <2> QED BY <2>1, <2>2
<1> QED BY <1>1, <1>2 DEF IInv

\* The pump takes the oldest event in hand.
LEMMA TakeNextInv ==
  ASSUME IInv, TypeOK', NEW s \in Subs, TakeNext(s)
  PROVE  IInv'
<1>1. /\ Started(s) /\ pump[s] = "next" /\ pump'[s] = "handoff"
      /\ ~closed[s] /\ pending[s] # <<>>
      /\ held'[s] = <<Head(pending[s])>> /\ pending'[s] = Tail(pending[s])
      /\ head' = head /\ notified' = notified /\ registered' = registered
      /\ asked' = asked /\ lastSeq' = lastSeq /\ closed' = closed
      /\ ch' = ch /\ got' = got /\ over' = over
  BY DEF TakeNext, Started, IInv, TypeOK, logVars, listVars, openVars, readVars
<1>2. /\ got[s] \in Seq(Nat) /\ ch[s] \in Seq(Nat)
      /\ held[s] \in Seq(Nat) /\ pending[s] \in Seq(Nat) /\ asked[s].after \in Nat
  BY LengthsAreNat DEF IInv
<1>3. /\ Ordered(asked[s].after, got[s], ch[s], held[s], pending[s])
      /\ Len(held[s]) = 0 /\ ~over[s]
  BY <1>1 DEF IInv, SubInv, InOrder
<1>4. InOrder(s)' /\ Taken(s)' = Taken(s)
  <2>1. /\ Ordered(asked[s].after, got[s], ch[s], <<Head(pending[s])>>, Tail(pending[s]))
        /\ Total(got[s], ch[s], <<Head(pending[s])>>, Tail(pending[s]))
             = Total(got[s], ch[s], held[s], pending[s])
    <3>1. pending[s] # <<>>
      BY <1>1
    <3>2. PICK g \in Seq(Nat), c \in Seq(Nat), h \in Seq(Nat), p \in Seq(Nat), a \in Nat :
             g = got[s] /\ c = ch[s] /\ h = held[s] /\ p = pending[s] /\ a = asked[s].after
      BY <1>2
    <3>3. Ordered(a, g, c, h, p) /\ Len(h) = 0 /\ p # <<>>
      BY <1>3, <3>1, <3>2
    <3>4. Hold(a, g, c, <<Head(p)>>, Tail(p), Total(g, c, h, p))
      BY <3>3, TakeKeepsOrder
    <3> QED BY <3>2, <3>4 DEF Hold
  <2> QED BY <1>1, <2>1 DEF InOrder, Taken
<1>5. Len(held'[s]) = 1
  BY <1>1
<1>6. SubInv(s)'
  BY <1>1, <1>3, <1>4, <1>5, MoveInv
<1>7. \A t \in Subs \ {s} : Own(t)' = Own(t)
  BY DEF TakeNext, Own, TypeOK, IInv, listVars, openVars, readVars
<1> QED BY <1>1, <1>6, <1>7, OneSubInv

\* The pump goes to wait with nothing in hand.
LEMMA FindNothingInv ==
  ASSUME IInv, TypeOK', NEW s \in Subs, FindNothing(s)
  PROVE  IInv'
<1>1. /\ Started(s) /\ pump[s] = "next" /\ pump'[s] = "idle"
      /\ head' = head /\ notified' = notified /\ registered' = registered
      /\ asked' = asked /\ lastSeq' = lastSeq /\ closed' = closed /\ pending' = pending
      /\ ch' = ch /\ got' = got /\ held' = held /\ over' = over
  BY DEF FindNothing, Started, IInv, TypeOK, logVars, listVars, openVars, queueVars, readVars
<1>2. InOrder(s)' /\ Taken(s)' = Taken(s)
  BY <1>1 DEF InOrder, Taken, IInv, SubInv
<1>3. Len(held[s]) = 0 /\ ~over[s]
  BY <1>1 DEF IInv, SubInv
<1>4. SubInv(s)'
  BY <1>1, <1>2, <1>3, MoveInv
<1>5. \A t \in Subs \ {s} : Own(t)' = Own(t)
  BY DEF FindNothing, Own, TypeOK, IInv, listVars, openVars, queueVars, readVars
<1> QED BY <1>1, <1>4, <1>5, OneSubInv

\* A wake-up sends the pump back to its queue.
LEMMA WokenInv ==
  ASSUME IInv, TypeOK', NEW s \in Subs, Woken(s)
  PROVE  IInv'
<1>1. /\ Started(s) /\ pump[s] = "idle" /\ pump'[s] = "next"
      /\ head' = head /\ notified' = notified /\ registered' = registered
      /\ asked' = asked /\ lastSeq' = lastSeq /\ closed' = closed /\ pending' = pending
      /\ ch' = ch /\ got' = got /\ held' = held /\ over' = over
  BY DEF Woken, Started, IInv, TypeOK, logVars, listVars, openVars, queueVars, readVars
<1>2. InOrder(s)' /\ Taken(s)' = Taken(s)
  BY <1>1 DEF InOrder, Taken, IInv, SubInv
<1>3. Len(held[s]) = 0 /\ ~over[s]
  BY <1>1 DEF IInv, SubInv
<1>4. SubInv(s)'
  BY <1>1, <1>2, <1>3, MoveInv
<1>5. \A t \in Subs \ {s} : Own(t)' = Own(t)
  BY DEF Woken, Own, TypeOK, IInv, listVars, openVars, queueVars, readVars
<1> QED BY <1>1, <1>4, <1>5, OneSubInv

\* The event in hand enters the channel.
LEMMA HandOffInv ==
  ASSUME IInv, TypeOK', NEW s \in Subs, HandOff(s)
  PROVE  IInv'
<1>1. /\ Started(s) /\ pump[s] = "handoff" /\ pump'[s] = "next"
      /\ held'[s] = <<>> /\ ch'[s] = ch[s] \o held[s]
      /\ head' = head /\ notified' = notified /\ registered' = registered
      /\ asked' = asked /\ lastSeq' = lastSeq /\ closed' = closed /\ pending' = pending
      /\ got' = got /\ over' = over
  BY DEF HandOff, Started, IInv, TypeOK, logVars, listVars, openVars, queueVars, readVars
<1>2. /\ got[s] \in Seq(Nat) /\ ch[s] \in Seq(Nat)
      /\ held[s] \in Seq(Nat) /\ pending[s] \in Seq(Nat) /\ asked[s].after \in Nat
  BY LengthsAreNat DEF IInv
<1>3. /\ Ordered(asked[s].after, got[s], ch[s], held[s], pending[s])
      /\ Len(held[s]) = 1 /\ ~over[s]
  BY <1>1 DEF IInv, SubInv, InOrder
<1>4. InOrder(s)' /\ Taken(s)' = Taken(s)
  <2>1. /\ Ordered(asked[s].after, got[s], ch[s] \o held[s], <<>>, pending[s])
        /\ Total(got[s], ch[s] \o held[s], <<>>, pending[s])
             = Total(got[s], ch[s], held[s], pending[s])
    <3>1. PICK g \in Seq(Nat), c \in Seq(Nat), h \in Seq(Nat), p \in Seq(Nat), a \in Nat :
             g = got[s] /\ c = ch[s] /\ h = held[s] /\ p = pending[s] /\ a = asked[s].after
      BY <1>2
    <3>2. Ordered(a, g, c, h, p) /\ Len(h) = 1
      BY <1>3, <3>1
    <3>3. Hold(a, g, c \o h, <<>>, p, Total(g, c, h, p))
      BY <3>2, HandKeepsOrder
    <3> QED BY <3>1, <3>3 DEF Hold
  <2> QED BY <1>1, <2>1 DEF InOrder, Taken
<1>5. Len(held'[s]) = 0
  BY <1>1, EmptySeq
<1>6. SubInv(s)'
  BY <1>1, <1>3, <1>4, <1>5, MoveInv
<1>7. \A t \in Subs \ {s} : Own(t)' = Own(t)
  BY DEF HandOff, Own, TypeOK, IInv, listVars, openVars, queueVars, readVars
<1> QED BY <1>1, <1>6, <1>7, OneSubInv

\* The reader takes the oldest event of the channel.
LEMMA ReceiveInv ==
  ASSUME IInv, TypeOK', NEW s \in Subs, Receive(s)
  PROVE  IInv'
<1>1. /\ ch[s] # <<>> /\ pump' = pump
      /\ ch'[s] = Tail(ch[s]) /\ got'[s] = Append(got[s], Head(ch[s]))
      /\ head' = head /\ notified' = notified /\ registered' = registered
      /\ asked' = asked /\ lastSeq' = lastSeq /\ closed' = closed /\ pending' = pending
      /\ held' = held /\ over' = over
  BY DEF Receive, IInv, TypeOK, logVars, listVars, openVars, queueVars
<1>2. /\ got[s] \in Seq(Nat) /\ ch[s] \in Seq(Nat)
      /\ held[s] \in Seq(Nat) /\ pending[s] \in Seq(Nat) /\ asked[s].after \in Nat
  BY LengthsAreNat DEF IInv
<1>3. /\ Ordered(asked[s].after, got[s], ch[s], held[s], pending[s])
      /\ Started(s) /\ ~over[s] /\ (pump[s] = "exited" => closed[s])
      /\ Len(held[s]) = IF pump[s] = "handoff" THEN 1 ELSE 0
  BY <1>1 DEF IInv, SubInv, InOrder, Untouched
<1>4. InOrder(s)' /\ Taken(s)' = Taken(s)
  <2>1. /\ Ordered(asked[s].after, Append(got[s], Head(ch[s])), Tail(ch[s]), held[s], pending[s])
        /\ Total(Append(got[s], Head(ch[s])), Tail(ch[s]), held[s], pending[s])
             = Total(got[s], ch[s], held[s], pending[s])
    <3>1. PICK g \in Seq(Nat), c \in Seq(Nat), h \in Seq(Nat), p \in Seq(Nat), a \in Nat :
             g = got[s] /\ c = ch[s] /\ h = held[s] /\ p = pending[s] /\ a = asked[s].after
      BY <1>2
    <3>2. Ordered(a, g, c, h, p) /\ c # <<>>
      BY <1>1, <1>3, <3>1
    <3>3. Hold(a, Append(g, Head(c)), Tail(c), h, p, Total(g, c, h, p))
      BY <3>2, ReceiveKeepsOrder
    <3> QED BY <3>1, <3>3 DEF Hold
  <2> QED BY <1>1, <2>1 DEF InOrder, Taken
<1>5. SubInv(s)'
  <2>1. pump'[s] # "none"
    BY <1>1, <1>3 DEF Started
  <2> QED BY <1>1, <1>3, <1>4, <2>1, MoveInv
<1>6. \A t \in Subs \ {s} : Own(t)' = Own(t)
  BY DEF Receive, Own, TypeOK, IInv, listVars, openVars, queueVars
<1> QED BY <1>1, <1>5, <1>6, OneSubInv

\* The reader takes the event from the pump itself.
LEMMA RendezvousInv ==
  ASSUME IInv, TypeOK', NEW s \in Subs, Rendezvous(s)
  PROVE  IInv'
<1>1. /\ Started(s) /\ pump[s] = "handoff" /\ pump'[s] = "next" /\ ch[s] = <<>>
      /\ held'[s] = <<>> /\ got'[s] = got[s] \o held[s]
      /\ head' = head /\ notified' = notified /\ registered' = registered
      /\ asked' = asked /\ lastSeq' = lastSeq /\ closed' = closed /\ pending' = pending
      /\ ch' = ch /\ over' = over
  BY DEF Rendezvous, Started, IInv, TypeOK, logVars, listVars, openVars, queueVars
<1>2. /\ got[s] \in Seq(Nat) /\ ch[s] \in Seq(Nat)
      /\ held[s] \in Seq(Nat) /\ pending[s] \in Seq(Nat) /\ asked[s].after \in Nat
  BY LengthsAreNat DEF IInv
<1>3. /\ Ordered(asked[s].after, got[s], ch[s], held[s], pending[s])
      /\ Len(held[s]) = 1 /\ ~over[s] /\ Len(ch[s]) = 0
  BY <1>1, EmptySeq DEF IInv, SubInv, InOrder
<1>4. InOrder(s)' /\ Taken(s)' = Taken(s)
  <2>1. /\ Ordered(asked[s].after, got[s] \o held[s], ch[s], <<>>, pending[s])
        /\ Total(got[s] \o held[s], ch[s], <<>>, pending[s])
             = Total(got[s], ch[s], held[s], pending[s])
    <3>1. PICK g \in Seq(Nat), c \in Seq(Nat), h \in Seq(Nat), p \in Seq(Nat), a \in Nat :
             g = got[s] /\ c = ch[s] /\ h = held[s] /\ p = pending[s] /\ a = asked[s].after
      BY <1>2
    <3>2. Ordered(a, g, c, h, p) /\ Len(h) = 1 /\ Len(c) = 0
      BY <1>3, <3>1
    <3>3. Hold(a, g \o h, c, <<>>, p, Total(g, c, h, p))
      BY <3>2, RendezvousKeepsOrder
    <3> QED BY <3>1, <3>3 DEF Hold
  <2> QED BY <1>1, <2>1 DEF InOrder, Taken
<1>5. Len(held'[s]) = 0
  BY <1>1, EmptySeq
<1>6. SubInv(s)'
  BY <1>1, <1>3, <1>4, <1>5, MoveInv
<1>7. \A t \in Subs \ {s} : Own(t)' = Own(t)
  BY DEF Rendezvous, Own, TypeOK, IInv, listVars, openVars, queueVars
<1> QED BY <1>1, <1>6, <1>7, OneSubInv

\* The pump of a stopped subscription exits with nothing in hand.
LEMMA ExitSubInv ==
  ASSUME IInv, NEW s \in Subs, Started(s), pump[s] # "exited",
         head' = head, asked' = asked, ch' = ch, got' = got, over' = over,
         pump'[s] = "exited", held'[s] = <<>>, closed'[s] = TRUE,
         (closed[s] /\ pending'[s] = pending[s]) \/ pending'[s] = <<>>
  PROVE  SubInv(s)'
<1>1. /\ got[s] \in Seq(Nat) /\ ch[s] \in Seq(Nat)
      /\ held[s] \in Seq(Nat) /\ pending[s] \in Seq(Nat)
      /\ asked[s].after \in Nat /\ asked[s].log \in Logs /\ Taken(s) \in Nat
  BY LengthsAreNat DEF IInv
<1>2. SubInv(s) /\ ~over[s]
  BY DEF IInv, SubInv
<1>3. pending'[s] = <<>>
  BY <1>2 DEF SubInv
<1>4. Ordered(asked[s].after, got[s], ch[s], held[s], pending[s])
  BY <1>2 DEF SubInv, InOrder
<1>5. /\ Ordered(asked[s].after, got[s], ch[s], <<>>, <<>>)
      /\ Total(got[s], ch[s], <<>>, <<>>) <= Total(got[s], ch[s], held[s], pending[s])
  <2>1. PICK g \in Seq(Nat), c \in Seq(Nat), h \in Seq(Nat), p \in Seq(Nat), a \in Nat :
           g = got[s] /\ c = ch[s] /\ h = held[s] /\ p = pending[s] /\ a = asked[s].after
    BY <1>1
  <2>2. Ordered(a, g, c, h, p)
    BY <1>4, <2>1
  <2>3. /\ Ordered(a, g, c, h, <<>>) /\ Total(g, c, h, <<>>) <= Total(g, c, h, p)
        /\ Ordered(a, g, c, <<>>, <<>>) /\ Total(g, c, <<>>, <<>>) <= Total(g, c, h, p)
    BY <2>2, DropKeepsOrder
  <2> QED BY <2>1, <2>3
<1>6. InOrder(s)' /\ Taken(s)' <= Taken(s) /\ Taken(s)' \in Nat
  <2>1. Total(got[s], ch[s], <<>>, <<>>) \in Nat
    BY <1>1, EmptySeq, TotalIsNat
  <2> QED BY <1>3, <1>5, <2>1 DEF InOrder, Taken
<1>7. Taken(s)' > 0 => asked'[s].after + Taken(s)' <= head'[asked'[s].log]
  <2>1. head[asked[s].log] \in Nat
    BY <1>1 DEF IInv, TypeOK
  <2>2. Taken(s) > 0 => asked[s].after + Taken(s) <= head[asked[s].log]
    BY <1>2 DEF SubInv
  <2> QED BY <1>1, <1>6, <2>1, <2>2
<1>8. Started(s)' /\ Len(held'[s]) = 0 /\ ~over'[s]
  BY <1>2, EmptySeq DEF Started
<1> QED BY <1>3, <1>6, <1>7, <1>8 DEF SubInv

\* A stopped pump exits from wherever it waits.
LEMMA SeeDoneInv ==
  ASSUME IInv, TypeOK', NEW s \in Subs, SeeDone(s)
  PROVE  IInv'
<1>1. /\ Started(s) /\ pump[s] # "exited" /\ pump'[s] = "exited" /\ held'[s] = <<>>
      /\ closed[s] /\ closed'[s] = TRUE /\ pending'[s] = pending[s]
      /\ head' = head /\ notified' = notified /\ asked' = asked
      /\ ch' = ch /\ got' = got /\ over' = over
  BY DEF SeeDone, Started, IInv, TypeOK, logVars, openVars, queueVars, readVars
<1>2. SubInv(s)'
  BY <1>1, ExitSubInv
<1>3. \A t \in Subs \ {s} : Own(t)' = Own(t)
  BY DEF SeeDone, Own, TypeOK, IInv, listVars, openVars, queueVars, readVars
<1> QED BY <1>1, <1>2, <1>3, OneSubInv

\* A reader that takes nothing in time is cut.
LEMMA NoProgressInv ==
  ASSUME IInv, TypeOK', NEW s \in Subs, NoProgress(s)
  PROVE  IInv'
<1>1. /\ Started(s) /\ pump[s] # "exited" /\ pump'[s] = "exited" /\ held'[s] = <<>>
      /\ closed'[s] = TRUE /\ pending'[s] = <<>>
      /\ head' = head /\ notified' = notified /\ asked' = asked
      /\ ch' = ch /\ got' = got /\ over' = over
  BY DEF NoProgress, Started, IInv, TypeOK, logVars, openVars, readVars
<1>2. SubInv(s)'
  BY <1>1, ExitSubInv
<1>3. \A t \in Subs \ {s} : Own(t)' = Own(t)
  BY DEF NoProgress, Own, TypeOK, IInv, listVars, openVars, readVars
<1> QED BY <1>1, <1>2, <1>3, OneSubInv

\* Time moves no event.
LEMMA ElapseInv ==
  ASSUME IInv, TypeOK', NEW s \in Subs, Elapse(s)
  PROVE  IInv'
<1>1. \A t \in Subs : Own(t)' = Own(t)
  BY DEF Elapse, Own, listVars, openVars, queueVars, readVars
<1>2. head' = head /\ notified' = notified
  BY DEF Elapse, logVars
<1>3. \A l \in Logs : head'[l] \in Nat /\ head[l] <= head'[l]
  BY <1>2 DEF IInv, TypeOK
<1>4. \A t \in Subs : SubInv(t)'
  BY <1>1, <1>2, <1>3, OthersKeepInv DEF IInv
<1> QED BY <1>2, <1>4 DEF IInv

\* The reader sees the end only past the last event.
LEMMA SeeClosedInv ==
  ASSUME IInv, TypeOK', NEW s \in Subs, SeeClosed(s)
  PROVE  IInv'
<1>1. /\ pump[s] = "exited" /\ ch[s] = <<>> /\ pump' = pump /\ ch' = ch /\ held' = held
      /\ head' = head /\ notified' = notified /\ asked' = asked /\ registered' = registered
      /\ lastSeq' = lastSeq /\ closed' = closed /\ pending' = pending /\ got' = got
  BY DEF SeeClosed, logVars, listVars, openVars, queueVars
<1>2. SubInv(s) /\ Started(s) /\ Started(s)' /\ closed[s]
  BY <1>1 DEF IInv, SubInv, Started
<1>3. InOrder(s)' = InOrder(s) /\ Taken(s)' = Taken(s)
  BY <1>1 DEF InOrder, Taken
<1>4. SubInv(s)'
  BY <1>1, <1>2, <1>3 DEF SubInv
<1>5. \A t \in Subs \ {s} : Own(t)' = Own(t)
  BY DEF SeeClosed, Own, TypeOK, IInv, listVars, openVars, queueVars
<1> QED BY <1>1, <1>4, <1>5, OneSubInv

-----------------------------------------------------------------------------
(* What the invariant gives.                                               *)

\* The steps of the specification, each by its lemma.
LEMMA StepInv == IInv /\ TypeOK' /\ [Next]_vars => IInv'
<1> SUFFICES ASSUME IInv, TypeOK', [Next]_vars PROVE IInv'
  OBVIOUS
<1>1. CASE Appender
  BY <1>1, AppendBatchInv, NotifyInv, SignalInv DEF Appender
<1>2. ASSUME NEW s \in Subs, NEW l \in Logs, NEW after \in 0 .. MaxAfter, Subscribe(s, l, after)
      PROVE  IInv'
  <2>1. after \in Nat
    OBVIOUS
  <2> QED BY <1>2, <2>1, SubscribeInv
<1>3. ASSUME NEW s \in Subs, Unsubscribe(s) PROVE IInv'
  BY <1>3, UnsubscribeInv
<1>4. ASSUME NEW s \in Subs, Pump(s) PROVE IInv'
  BY <1>4, TakeNextInv, FindNothingInv, WokenInv, HandOffInv, SeeDoneInv, NoProgressInv DEF Pump
<1>5. ASSUME NEW s \in Subs, Reader(s) PROVE IInv'
  BY <1>5, ReceiveInv, RendezvousInv, SeeClosedInv DEF Reader
<1>6. CASE Close
  BY <1>6, CloseInv
<1>7. CASE UNCHANGED vars
  <2>1. \A t \in Subs : Own(t)' = Own(t)
    BY <1>7 DEF vars, Own, listVars, openVars, queueVars, readVars
  <2>2. head' = head /\ notified' = notified
    BY <1>7 DEF vars, logVars
  <2>3. \A l \in Logs : head'[l] \in Nat /\ head[l] <= head'[l]
    BY <2>2 DEF IInv, TypeOK
  <2>4. \A t \in Subs : SubInv(t)'
    BY <2>1, <2>2, <2>3, OthersKeepInv DEF IInv
  <2> QED BY <2>2, <2>4 DEF IInv
<1>8. ASSUME NEW s \in Subs, Elapse(s) PROVE IInv'
  BY <1>8, ElapseInv
<1> QED BY <1>1, <1>2, <1>3, <1>4, <1>5, <1>6, <1>7, <1>8 DEF Next

\* Every event of a log is where the invariant says, in every reachable state.
THEOREM IInvHolds == Spec => []IInv
BY InitInv, StepInv, TypeCorrect, PTL DEF Spec

\* Two consecutive stretches of a log, put together, are one stretch.
LEMMA JoinStretches ==
  ASSUME NEW x \in Seq(Nat), NEW y \in Seq(Nat), NEW a \in Nat,
         \A i \in 1 .. Len(x) : x[i] = a + i,
         \A i \in 1 .. Len(y) : y[i] = a + Len(x) + i
  PROVE  /\ x \o y \in Seq(Nat) /\ Len(x \o y) = Len(x) + Len(y)
         /\ \A i \in 1 .. Len(x \o y) : (x \o y)[i] = a + i
<1>1. Len(x) \in Nat /\ Len(y) \in Nat
  OBVIOUS
<1>2. /\ x \o y \in Seq(Nat) /\ Len(x \o y) = Len(x) + Len(y)
      /\ \A i \in 1 .. Len(x) + Len(y) :
           (x \o y)[i] = IF i <= Len(x) THEN x[i] ELSE y[i - Len(x)]
  BY ConcatProperties
<1>3. ASSUME NEW i \in 1 .. Len(x \o y) PROVE (x \o y)[i] = a + i
  <2>1. i \in 1 .. Len(x) + Len(y) /\ i \in Nat
    BY <1>1, <1>2
  <2>2. CASE i <= Len(x)
    <3>1. i \in 1 .. Len(x) /\ (x \o y)[i] = x[i]
      BY <1>1, <1>2, <2>1, <2>2
    <3> QED BY <3>1
  <2>3. CASE i > Len(x)
    <3>1. i - Len(x) \in 1 .. Len(y) /\ (x \o y)[i] = y[i - Len(x)]
      BY <1>1, <1>2, <2>1, <2>3
    <3>2. y[i - Len(x)] = a + Len(x) + (i - Len(x))
      BY <3>1
    <3> QED BY <1>1, <2>1, <3>1, <3>2
  <2> QED BY <1>1, <2>1, <2>2, <2>3
<1> QED BY <1>2, <1>3

\* The n events of a log after sequence a.
Stretch(a, n) == [i \in 1 .. n |-> a + i]

\* So are the four stretches of a pipeline.
LEMMA OrderedIsRange ==
  ASSUME NEW g \in Seq(Nat), NEW c \in Seq(Nat), NEW h \in Seq(Nat), NEW p \in Seq(Nat),
         NEW a \in Nat, Ordered(a, g, c, h, p)
  PROVE  g \o c \o h \o p = Stretch(a, Total(g, c, h, p))
<1>1. Len(g) \in Nat /\ Len(c) \in Nat /\ Len(h) \in Nat /\ Len(p) \in Nat
  OBVIOUS
<1>2. /\ g \o c \in Seq(Nat) /\ Len(g \o c) = Len(g) + Len(c)
      /\ \A i \in 1 .. Len(g \o c) : (g \o c)[i] = a + i
  BY JoinStretches DEF Ordered
<1>3. PICK gc \in Seq(Nat) : gc = g \o c
  BY <1>2
<1>4. /\ gc \o h \in Seq(Nat) /\ Len(gc \o h) = Len(g) + Len(c) + Len(h)
      /\ \A i \in 1 .. Len(gc \o h) : (gc \o h)[i] = a + i
  <2>1. Len(gc) = Len(g) + Len(c) /\ \A i \in 1 .. Len(gc) : gc[i] = a + i
    BY <1>2, <1>3
  <2>2. \A i \in 1 .. Len(h) : h[i] = a + Len(gc) + i
    <3>1. ASSUME NEW i \in 1 .. Len(h) PROVE h[i] = a + Len(gc) + i
      <4>1. h[i] = a + Len(g) + Len(c) + i
        BY DEF Ordered
      <4> QED BY <1>1, <2>1, <4>1
    <3> QED BY <3>1
  <2>3. /\ gc \o h \in Seq(Nat) /\ Len(gc \o h) = Len(gc) + Len(h)
        /\ \A i \in 1 .. Len(gc \o h) : (gc \o h)[i] = a + i
    BY <2>1, <2>2, JoinStretches
  <2> QED BY <1>1, <2>1, <2>3
<1>5. PICK gch \in Seq(Nat) : gch = gc \o h
  BY <1>4
<1>6. /\ gch \o p \in Seq(Nat) /\ Len(gch \o p) = Total(g, c, h, p)
      /\ \A i \in 1 .. Len(gch \o p) : (gch \o p)[i] = a + i
  <2>1. Len(gch) = Len(g) + Len(c) + Len(h) /\ \A i \in 1 .. Len(gch) : gch[i] = a + i
    BY <1>4, <1>5
  <2>2. \A i \in 1 .. Len(p) : p[i] = a + Len(gch) + i
    <3>1. ASSUME NEW i \in 1 .. Len(p) PROVE p[i] = a + Len(gch) + i
      <4>1. p[i] = a + Len(g) + Len(c) + Len(h) + i
        BY DEF Ordered
      <4> QED BY <1>1, <2>1, <4>1
    <3> QED BY <3>1
  <2>3. /\ gch \o p \in Seq(Nat) /\ Len(gch \o p) = Len(gch) + Len(p)
        /\ \A i \in 1 .. Len(gch \o p) : (gch \o p)[i] = a + i
    BY <2>1, <2>2, JoinStretches
  <2> QED BY <1>1, <2>1, <2>3 DEF Total
<1>7. PICK all \in Seq(Nat) : all = gch \o p
  BY <1>6
<1>8. all = Stretch(a, Total(g, c, h, p))
  BY <1>6, <1>7, LenProperties DEF Stretch
<1> QED BY <1>3, <1>5, <1>7, <1>8

\* The safety of subscriptions: while one is open, nothing of its log between
\* its cursor and the last event notified is missing from what it has received
\* and what is on its way, and nothing is there twice or out of order.
THEOREM NothingIsMissed == Spec => []NothingMissed
<1>1. IInv => NothingMissed
  <2> SUFFICES ASSUME IInv, NEW s \in Subs, Started(s), ~closed[s]
               PROVE  /\ Pipeline(s) = [i \in 1 .. lastSeq[s] - asked[s].after |-> asked[s].after + i]
                      /\ lastSeq[s] >= notified[asked[s].log]
    BY DEF NothingMissed
  <2>1. /\ got[s] \in Seq(Nat) /\ ch[s] \in Seq(Nat)
        /\ held[s] \in Seq(Nat) /\ pending[s] \in Seq(Nat)
        /\ asked[s].after \in Nat /\ Taken(s) \in Nat
    BY LengthsAreNat DEF IInv
  <2>2. UpToDate(s) /\ InOrder(s)
    BY DEF IInv, SubInv
  <2>3. lastSeq[s] - asked[s].after = Taken(s)
    <3>1. lastSeq[s] = asked[s].after + Taken(s)
      BY <2>2 DEF UpToDate
    <3> QED BY <2>1, <3>1
  <2>4. Pipeline(s) = [i \in 1 .. Taken(s) |-> asked[s].after + i]
    <3>1. Ordered(asked[s].after, got[s], ch[s], held[s], pending[s])
      BY <2>2 DEF InOrder
    <3>2. got[s] \o ch[s] \o held[s] \o pending[s]
             = Stretch(asked[s].after, Total(got[s], ch[s], held[s], pending[s]))
      <4>1. PICK g \in Seq(Nat), c \in Seq(Nat), h \in Seq(Nat), p \in Seq(Nat) :
               g = got[s] /\ c = ch[s] /\ h = held[s] /\ p = pending[s]
        BY <2>1
      <4>2. PICK a \in Nat : a = asked[s].after
        BY <2>1
      <4>3. Ordered(a, g, c, h, p)
        BY <3>1, <4>1, <4>2
      <4>4. g \o c \o h \o p = Stretch(a, Total(g, c, h, p))
        BY <4>3, OrderedIsRange
      <4> QED BY <4>1, <4>2, <4>4
    <3> QED BY <3>2 DEF Pipeline, Taken, Stretch
  <2> QED BY <2>2, <2>3, <2>4 DEF UpToDate
<1> QED BY <1>1, IInvHolds, PTL

-----------------------------------------------------------------------------
(* Store implements EventStream.                                           *)

\* The refinement mapping of the variable EventStream adds.
StageOf == [s \in Subs |-> Stage(s)]

\* No subscription is open in the initial state of either.
LEMMA InitRefines == Init => Stream!Init
<1> SUFFICES ASSUME Init PROVE Stream!Init
  OBVIOUS
<1>1. asked \in [Subs -> [log : Logs, after : {0}]]
  <2>1. (CHOOSE l \in Logs : TRUE) \in Logs
    OBVIOUS
  <2> QED BY <2>1 DEF Init
<1>2. StageOf = [s \in Subs |-> "unopened"]
  BY DEF Init, StageOf, Stage, Started
<1> QED BY <1>1, <1>2 DEF Init, Stream!Init, StageOf

\* A step that opens nothing, ends nothing and hands over nothing is a stutter.
LEMMA Stutters ==
  ASSUME head' = head, asked' = asked, catchUp' = catchUp, got' = got,
         \A s \in Subs : Started(s)' = Started(s), over' = over
  PROVE  UNCHANGED Stream!vars
<1>1. StageOf' = StageOf
  BY DEF StageOf, Stage
<1> QED BY <1>1 DEF Stream!vars, StageOf

\* What a reader is handed next is the next event of its log.
LEMMA DeliverRefines ==
  ASSUME IInv, TypeOK', NEW s \in Subs, NEW n \in Nat, Started(s), ~over[s],
         n = asked[s].after + Len(got[s]) + 1, n <= head[asked[s].log],
         head' = head, asked' = asked, catchUp' = catchUp, over' = over,
         \A t \in Subs : Started(t)' = Started(t),
         got' = [got EXCEPT ![s] = Append(@, n)]
  PROVE  Stream!Deliver(s)
<1>1. StageOf' = StageOf
  BY DEF StageOf, Stage
<1>2. StageOf[s] = "open"
  BY DEF StageOf, Stage
<1> QED BY <1>1, <1>2 DEF Stream!Deliver, Stream!NextOf, StageOf

\* A Subscribe opens the stream and names its catch-up head.
LEMMA SubscribeRefines ==
  ASSUME IInv, TypeOK', NEW s \in Subs, NEW l \in Logs, NEW after \in Nat, Subscribe(s, l, after)
  PROVE  Stream!Open(s)
<1>1. /\ ReadAfter(l, after) \in Seq(Nat)
      /\ Len(ReadAfter(l, after)) = IF head[l] > after THEN head[l] - after ELSE 0
      /\ \A i \in 1 .. Len(ReadAfter(l, after)) : ReadAfter(l, after)[i] = after + i
      /\ ReadAfter(l, after) = <<>> <=> Len(ReadAfter(l, after)) = 0
      /\ head[l] \in Nat
  BY ReadAfterIs DEF IInv, TypeOK
<1>2. asked' = [asked EXCEPT ![s] = [log |-> l, after |-> after]]
  BY DEF Subscribe
<1>3. asked'[s] = [log |-> l, after |-> after]
  BY <1>2 DEF IInv, TypeOK
<1>4. catchUp' = [catchUp EXCEPT ![s] = IF head[l] > after THEN head[l] ELSE after]
  <2>1. (IF ReadAfter(l, after) = <<>> THEN after
         ELSE ReadAfter(l, after)[Len(ReadAfter(l, after))])
          = IF head[l] > after THEN head[l] ELSE after
    BY <1>1
  <2> QED BY <2>1 DEF Subscribe
<1>5. StageOf[s] = "unopened" /\ StageOf' = [StageOf EXCEPT ![s] = "open"]
  <2>1. /\ ~Started(s) /\ Started(s)' /\ over' = over /\ ~over[s]
        /\ \A t \in Subs \ {s} : Started(t)' = Started(t)
    BY DEF Subscribe, Started, readVars, IInv, SubInv, Untouched, TypeOK
  <2> QED BY <2>1 DEF StageOf, Stage
<1>6. UNCHANGED <<head, got>>
  BY DEF Subscribe, logVars, readVars
<1>7. asked'[s] \in [log : Logs, after : Nat] /\ asked' = [asked EXCEPT ![s] = asked'[s]]
  <2>1. PICK r \in [log : Logs, after : Nat] : r = [log |-> l, after |-> after]
    OBVIOUS
  <2>2. asked' = [asked EXCEPT ![s] = r] /\ asked'[s] = r
    BY <1>2, <1>3, <2>1
  <2> QED BY <2>2
<1>8. catchUp' = [catchUp EXCEPT ![s] = Stream!CatchUpHead(asked'[s].log, asked'[s].after)]
  BY <1>3, <1>4 DEF Stream!CatchUpHead
<1> QED BY <1>5, <1>6, <1>7, <1>8 DEF Stream!Open, StageOf

\* A receive from the channel hands over the next event.
LEMMA ReceiveRefines ==
  ASSUME IInv, TypeOK', NEW s \in Subs, Receive(s)
  PROVE  Stream!Deliver(s)
<1>1. /\ got[s] \in Seq(Nat) /\ ch[s] \in Seq(Nat)
      /\ held[s] \in Seq(Nat) /\ pending[s] \in Seq(Nat)
      /\ asked[s].after \in Nat /\ asked[s].log \in Logs /\ Taken(s) \in Nat
      /\ Len(got[s]) \in Nat /\ Len(ch[s]) \in Nat
      /\ Len(held[s]) \in Nat /\ Len(pending[s]) \in Nat
  BY LengthsAreNat DEF IInv
<1>2. ch[s] # <<>> /\ Started(s) /\ ~over[s]
  BY DEF Receive, IInv, SubInv, Untouched
<1>3. Len(ch[s]) > 0 /\ Head(ch[s]) = ch[s][1]
  BY <1>1, <1>2, EmptySeq, HeadTailProperties
<1>4. ch[s][1] = asked[s].after + Len(got[s]) + 1
  <2>1. Ordered(asked[s].after, got[s], ch[s], held[s], pending[s])
    BY DEF IInv, SubInv, InOrder
  <2>2. \A i \in 1 .. Len(ch[s]) : ch[s][i] = asked[s].after + Len(got[s]) + i
    BY <2>1 DEF Ordered
  <2>3. 1 \in 1 .. Len(ch[s])
    BY <1>1, <1>3
  <2> QED BY <2>2, <2>3
<1>5. asked[s].after + Len(got[s]) + 1 <= head[asked[s].log]
  <2>1. Taken(s) >= Len(got[s]) + 1
    BY <1>1, <1>3, TotalIsNat DEF Taken
  <2>2. Taken(s) > 0 => asked[s].after + Taken(s) <= head[asked[s].log]
    BY DEF IInv, SubInv
  <2>3. head[asked[s].log] \in Nat
    BY <1>1 DEF IInv, TypeOK
  <2> QED BY <1>1, <2>1, <2>2, <2>3
<1>6. got' = [got EXCEPT ![s] = Append(@, Head(ch[s]))]
  BY DEF Receive
<1>7. /\ head' = head /\ asked' = asked /\ catchUp' = catchUp /\ over' = over
      /\ \A t \in Subs : Started(t)' = Started(t)
  BY DEF Receive, Started, logVars, openVars
<1>8. PICK n \in Nat : n = asked[s].after + Len(got[s]) + 1 /\ n = Head(ch[s])
  BY <1>1, <1>3, <1>4
<1> QED BY <1>2, <1>5, <1>6, <1>7, <1>8, DeliverRefines

\* So does a receive straight from the pump.
LEMMA RendezvousRefines ==
  ASSUME IInv, TypeOK', NEW s \in Subs, Rendezvous(s)
  PROVE  Stream!Deliver(s)
<1>1. /\ got[s] \in Seq(Nat) /\ ch[s] \in Seq(Nat)
      /\ held[s] \in Seq(Nat) /\ pending[s] \in Seq(Nat)
      /\ asked[s].after \in Nat /\ asked[s].log \in Logs /\ Taken(s) \in Nat
      /\ Len(got[s]) \in Nat /\ Len(ch[s]) \in Nat
      /\ Len(held[s]) \in Nat /\ Len(pending[s]) \in Nat
  BY LengthsAreNat DEF IInv
<1>2. pump[s] = "handoff" /\ ch[s] = <<>> /\ Started(s) /\ ~over[s] /\ Len(held[s]) = 1
  BY DEF Rendezvous, IInv, SubInv, Started
<1>3. Len(ch[s]) = 0
  BY <1>2, EmptySeq
<1>4. held[s][1] = asked[s].after + Len(got[s]) + 1
  <2>1. Ordered(asked[s].after, got[s], ch[s], held[s], pending[s])
    BY DEF IInv, SubInv, InOrder
  <2>2. held[s][1] = asked[s].after + Len(got[s]) + Len(ch[s]) + 1
    BY <1>2, <2>1 DEF Ordered
  <2> QED BY <1>1, <1>3, <2>2
<1>5. asked[s].after + Len(got[s]) + 1 <= head[asked[s].log]
  <2>1. Taken(s) >= Len(got[s]) + 1
    <3>1. Len(held[s]) > 0
      BY <1>2
    <3> QED BY <1>1, <3>1, TotalIsNat DEF Taken
  <2>2. Taken(s) > 0 => asked[s].after + Taken(s) <= head[asked[s].log]
    BY DEF IInv, SubInv
  <2>3. head[asked[s].log] \in Nat
    BY <1>1 DEF IInv, TypeOK
  <2> QED BY <1>1, <2>1, <2>2, <2>3
<1>6. PICK n \in Nat : n = asked[s].after + Len(got[s]) + 1 /\ n = held[s][1]
  BY <1>1, <1>4
<1>7. got' = [got EXCEPT ![s] = Append(@, n)]
  <2>1. got[s] \o held[s] = Append(got[s], n)
    <3>1. held[s] = <<n>>
      BY <1>1, <1>2, <1>6
    <3> QED BY <1>1, <3>1
  <2> QED BY <2>1 DEF Rendezvous
<1>8. /\ head' = head /\ asked' = asked /\ catchUp' = catchUp /\ over' = over
      /\ \A t \in Subs : Started(t)' = Started(t)
  BY <1>2 DEF Rendezvous, Started, logVars, openVars, IInv, TypeOK
<1> QED BY <1>2, <1>5, <1>6, <1>7, <1>8, DeliverRefines

\* A reader that sees the channel closed is at the end of the stream.
LEMMA SeeClosedRefines ==
  ASSUME IInv, TypeOK', NEW s \in Subs, SeeClosed(s)
  PROVE  Stream!End(s)
<1>1. /\ Started(s) /\ ~over[s] /\ over' = [over EXCEPT ![s] = TRUE]
      /\ \A t \in Subs : Started(t)' = Started(t)
      /\ UNCHANGED <<head, asked, catchUp, got>>
  BY DEF SeeClosed, Started, logVars, openVars
<1>2. StageOf[s] = "open" /\ StageOf' = [StageOf EXCEPT ![s] = "ended"]
  BY <1>1 DEF StageOf, Stage, IInv, TypeOK
<1> QED BY <1>1, <1>2 DEF Stream!End, StageOf

\* Every step of Store is a step of EventStream or leaves it unchanged.
LEMMA StepRefines == IInv /\ TypeOK' /\ [Next]_vars => [Stream!Next]_(Stream!vars)
<1> SUFFICES ASSUME IInv, TypeOK', [Next]_vars PROVE Stream!Next \/ UNCHANGED Stream!vars
  OBVIOUS
<1>1. ASSUME NEW add \in [Logs -> 0 .. MaxHead], AppendBatch(add) PROVE Stream!Next
  <2>1. head' \in [Logs -> Nat] /\ \A l \in Logs : head'[l] >= head[l]
    BY <1>1 DEF AppendBatch, IInv, TypeOK
  <2>2. StageOf' = StageOf /\ UNCHANGED <<asked, catchUp, got>>
    BY <1>1 DEF AppendBatch, StageOf, Stage, Started, openVars, readVars
  <2> QED BY <2>1, <2>2 DEF Stream!Next, Stream!Grow, StageOf
<1>2. ASSUME NEW l \in Logs, Notify(l) PROVE UNCHANGED Stream!vars
  <2>1. /\ head' = head /\ asked' = asked /\ catchUp' = catchUp /\ got' = got
        /\ over' = over /\ \A s \in Subs : Started(s)' = Started(s)
    BY <1>2 DEF Notify, Started, openVars, readVars
  <2> QED BY <2>1, Stutters
<1>3. ASSUME NEW s \in Subs, Signal(s) \/ Unsubscribe(s) PROVE UNCHANGED Stream!vars
  <2>1. /\ head' = head /\ asked' = asked /\ catchUp' = catchUp /\ got' = got
        /\ over' = over /\ \A t \in Subs : Started(t)' = Started(t)
    BY <1>3 DEF Signal, Unsubscribe, Started, logVars, openVars, readVars
  <2> QED BY <2>1, Stutters
<1>4. ASSUME NEW s \in Subs, NEW l \in Logs, NEW after \in 0 .. MaxAfter, Subscribe(s, l, after)
      PROVE  Stream!Next
  <2>1. after \in Nat
    OBVIOUS
  <2> QED BY <1>4, <2>1, SubscribeRefines DEF Stream!Next
<1>5. ASSUME NEW s \in Subs, Pump(s) PROVE UNCHANGED Stream!vars
  <2>1. head' = head /\ asked' = asked /\ catchUp' = catchUp /\ got' = got /\ over' = over
    BY <1>5 DEF Pump, TakeNext, FindNothing, Woken, HandOff, SeeDone, NoProgress,
                logVars, openVars, readVars
  <2>2. \A t \in Subs : Started(t)' = Started(t)
    BY <1>5 DEF Pump, TakeNext, FindNothing, Woken, HandOff, SeeDone, NoProgress,
                Started, IInv, TypeOK
  <2> QED BY <2>1, <2>2, Stutters
<1>6. ASSUME NEW s \in Subs, Reader(s) PROVE Stream!Next
  BY <1>6, ReceiveRefines, RendezvousRefines, SeeClosedRefines DEF Reader, Stream!Next
<1>7. ASSUME Close PROVE UNCHANGED Stream!vars
  <2>1. /\ head' = head /\ asked' = asked /\ catchUp' = catchUp /\ got' = got
        /\ over' = over /\ \A t \in Subs : Started(t)' = Started(t)
    BY <1>7 DEF Close, Started, openVars, readVars
  <2> QED BY <2>1, Stutters
<1>8. ASSUME UNCHANGED vars PROVE UNCHANGED Stream!vars
  <2>1. /\ head' = head /\ asked' = asked /\ catchUp' = catchUp /\ got' = got
        /\ over' = over /\ \A t \in Subs : Started(t)' = Started(t)
    BY <1>8 DEF vars, Started, logVars, openVars, readVars
  <2> QED BY <2>1, Stutters
<1>9. ASSUME NEW s \in Subs, Elapse(s) PROVE UNCHANGED Stream!vars
  <2>1. /\ head' = head /\ asked' = asked /\ catchUp' = catchUp /\ got' = got
        /\ over' = over /\ \A t \in Subs : Started(t)' = Started(t)
    BY <1>9 DEF Elapse, Started, logVars, openVars, readVars
  <2> QED BY <2>1, Stutters
<1> QED BY <1>1, <1>2, <1>3, <1>4, <1>5, <1>6, <1>7, <1>8, <1>9 DEF Next, Appender

\* The store's queues, goroutines and locks implement the abstract stream: a
\* reader receives its log from its cursor, in order, each event once.
THEOREM StoreImplementsStream == Spec => StreamSpec
<1>1. Spec => []IInv
  BY IInvHolds
<1>2. Spec => []TypeOK
  BY TypeCorrect
<1> QED BY <1>1, <1>2, InitRefines, StepRefines, PTL DEF Spec, StreamSpec, Stream!Spec

-----------------------------------------------------------------------------
(* The no-progress timer.                                                  *)

\* The channel holds no more than it can, and while a hand-off waits for room in it the
\* reader has left something there at least as long as the timer has run.
TimeInv == \A s \in Subs :
  /\ Len(ch[s]) <= Buffer
  /\ pump[s] = "handoff" /\ Len(ch[s]) >= Buffer => late[s] >= timer[s]
  /\ pump[s] # "handoff" => timer[s] = 0

LEMMA InitTime == Init => TimeInv
<1> SUFFICES ASSUME Init, NEW s \in Subs
             PROVE  Len(ch[s]) <= Buffer /\ timer[s] = 0 /\ pump[s] # "handoff"
  BY DEF TimeInv
<1>1. ch[s] = <<>> /\ timer[s] = 0 /\ pump[s] = "none"
  BY DEF Init
<1> QED BY <1>1

\* A step of a subscription leaves the clocks of the others alone.
LEMMA StepTime == IInv /\ TimeInv /\ [Next]_vars => TimeInv'
<1> SUFFICES ASSUME IInv, TimeInv, [Next]_vars, NEW t \in Subs
             PROVE  /\ Len(ch'[t]) <= Buffer
                    /\ pump'[t] = "handoff" /\ Len(ch'[t]) >= Buffer => late'[t] >= timer'[t]
                    /\ pump'[t] # "handoff" => timer'[t] = 0
  BY DEF TimeInv
<1>1. /\ ch[t] \in Seq(Nat) /\ held[t] \in Seq(Nat) /\ Len(ch[t]) \in Nat
      /\ timer[t] \in 0 .. Timeout /\ late[t] \in 0 .. Timeout
      /\ ch \in [Subs -> Seq(Nat)] /\ pump \in [Subs -> PumpStates]
      /\ timer \in [Subs -> 0 .. Timeout] /\ late \in [Subs -> 0 .. Timeout]
  BY DEF IInv, TypeOK
<1>2. /\ Len(ch[t]) <= Buffer
      /\ pump[t] = "handoff" /\ Len(ch[t]) >= Buffer => late[t] >= timer[t]
      /\ pump[t] # "handoff" => timer[t] = 0
  BY DEF TimeInv
<1>3. CASE ch'[t] = ch[t] /\ pump'[t] = pump[t] /\ timer'[t] = timer[t] /\ late'[t] = late[t]
  BY <1>2, <1>3
<1>4. CASE Appender \/ Close \/ UNCHANGED vars
  <2>1. ch' = ch /\ pump' = pump /\ timer' = timer /\ late' = late
    BY <1>4 DEF Appender, AppendBatch, Notify, Signal, Close, vars, clockVars
  <2> QED BY <1>3, <2>1
<1>5. ASSUME NEW s \in Subs, s # t,
             \/ \E l \in Logs, after \in 0 .. MaxAfter : Subscribe(s, l, after)
             \/ Unsubscribe(s) \/ Pump(s) \/ Elapse(s) \/ Reader(s)
      PROVE  ch'[t] = ch[t] /\ pump'[t] = pump[t] /\ timer'[t] = timer[t] /\ late'[t] = late[t]
  <2>1. CASE \/ \E l \in Logs, after \in 0 .. MaxAfter : Subscribe(s, l, after)
             \/ Unsubscribe(s) \/ Elapse(s)
    BY <1>1, <1>5, <2>1 DEF Subscribe, Unsubscribe, Elapse, clockVars
  <2>2. CASE TakeNext(s) \/ FindNothing(s) \/ Woken(s) \/ HandOff(s)
    BY <1>1, <1>5, <2>2 DEF TakeNext, FindNothing, Woken, HandOff, clockVars
  <2>3. CASE SeeDone(s) \/ NoProgress(s)
    BY <1>1, <1>5, <2>3 DEF SeeDone, NoProgress, Unwatched
  <2>4. CASE Reader(s)
    BY <1>1, <1>5, <2>4 DEF Reader, Receive, Rendezvous, SeeClosed, clockVars
  <2> QED BY <1>5, <2>1, <2>2, <2>3, <2>4 DEF Pump
<1>6. ASSUME NEW l \in Logs, NEW after \in 0 .. MaxAfter, Subscribe(t, l, after)
      PROVE  ch'[t] = ch[t] /\ pump'[t] = "next" /\ timer'[t] = 0
  BY <1>1, <1>2, <1>6 DEF Subscribe, Started, clockVars
<1>7. ASSUME Unsubscribe(t)
      PROVE  ch'[t] = ch[t] /\ pump'[t] = pump[t] /\ timer'[t] = timer[t] /\ late'[t] = late[t]
  BY <1>7 DEF Unsubscribe, clockVars
<1>8. ASSUME TakeNext(t) \/ FindNothing(t) \/ Woken(t)
      PROVE  ch'[t] = ch[t] /\ timer'[t] = 0 /\ late'[t] = late[t]
  BY <1>2, <1>8 DEF TakeNext, FindNothing, Woken, clockVars
<1>9. ASSUME HandOff(t)
      PROVE  Len(ch'[t]) <= Buffer /\ pump'[t] = "next" /\ timer'[t] = 0
  <2>1. /\ pump[t] = "handoff" /\ Len(ch[t]) < Buffer /\ ch'[t] = ch[t] \o held[t]
        /\ pump'[t] = "next" /\ timer'[t] = 0
    BY <1>1, <1>9 DEF HandOff
  <2>2. Len(held[t]) <= 1
    BY <2>1 DEF IInv, SubInv
  <2> QED BY <1>1, <2>1, <2>2
<1>10. ASSUME SeeDone(t) \/ NoProgress(t)
       PROVE  ch'[t] = ch[t] /\ pump'[t] = "exited" /\ timer'[t] = 0
  BY <1>1, <1>10 DEF SeeDone, NoProgress, Unwatched
<1>11. ASSUME Elapse(t)
       PROVE  /\ ch'[t] = ch[t] /\ pump'[t] = "handoff"
              /\ Len(ch[t]) >= Buffer => late'[t] >= timer'[t]
  <2>1. /\ ch' = ch /\ pump'[t] = "handoff" /\ pump[t] = "handoff" /\ timer[t] < Timeout
        /\ timer'[t] = timer[t] + 1
        /\ late'[t] = IF CanTake(t) /\ late[t] < Timeout THEN late[t] + 1 ELSE late[t]
    BY <1>1, <1>11 DEF Elapse
  <2>2. Len(ch[t]) >= Buffer => CanTake(t)
    <3>1. ch[t] = <<>> => Len(ch[t]) = 0
      BY EmptySeq
    <3> QED BY <1>1, <2>1, <3>1 DEF CanTake
  <2> QED BY <1>1, <1>2, <2>1, <2>2
<1>12. ASSUME Receive(t)
       PROVE  Len(ch'[t]) < Buffer /\ pump'[t] = pump[t] /\ timer'[t] = timer[t]
  <2>1. ch[t] # <<>> /\ ch'[t] = Tail(ch[t]) /\ pump' = pump /\ timer' = timer
    BY <1>1, <1>12 DEF Receive
  <2>2. Len(Tail(ch[t])) = Len(ch[t]) - 1
    BY <1>1, <2>1, HeadTailProperties
  <2> QED BY <1>1, <1>2, <2>1, <2>2
<1>13. ASSUME Rendezvous(t)
       PROVE  ch'[t] = ch[t] /\ pump'[t] = "next" /\ timer'[t] = 0
  BY <1>1, <1>13 DEF Rendezvous
<1>14. ASSUME SeeClosed(t)
       PROVE  ch'[t] = ch[t] /\ pump'[t] = pump[t] /\ timer'[t] = timer[t] /\ late'[t] = late[t]
  BY <1>14 DEF SeeClosed, clockVars
<1>15. CASE Pump(t) \/ Elapse(t) \/ Reader(t)
            \/ (\E l \in Logs, after \in 0 .. MaxAfter : Subscribe(t, l, after)) \/ Unsubscribe(t)
  <2>1. \A l \in Logs, after \in 0 .. MaxAfter : Subscribe(t, l, after) =>
            ch'[t] = ch[t] /\ pump'[t] = "next" /\ timer'[t] = 0
    BY <1>6
  <2>2. CASE \E l \in Logs, after \in 0 .. MaxAfter : Subscribe(t, l, after)
    BY <1>2, <2>1, <2>2
  <2>3. CASE Unsubscribe(t) \/ SeeClosed(t)
    BY <1>3, <1>7, <1>14, <2>3
  <2>4. CASE TakeNext(t) \/ FindNothing(t) \/ Woken(t)
    BY <1>1, <1>2, <1>8, <2>4
  <2>5. CASE HandOff(t) \/ SeeDone(t) \/ NoProgress(t)
    BY <1>1, <1>2, <1>9, <1>10, <2>5
  <2>6. CASE Elapse(t)
    BY <1>1, <1>2, <1>11, <2>6
  <2>7. CASE Receive(t)
    BY <1>1, <1>2, <1>12, <2>7
  <2>8. CASE Rendezvous(t)
    BY <1>2, <1>13, <2>8
  <2> QED BY <1>15, <2>2, <2>3, <2>4, <2>5, <2>6, <2>7, <2>8 DEF Pump, Reader
<1> QED BY <1>3, <1>4, <1>5, <1>15 DEF Next

\* Whatever the channel's capacity, the timeout and the pace of the readers, a
\* subscription that nobody stops ends only at a reader that has left what it could
\* take for the whole timeout (the timer of pump).
THEOREM OnlyTheStalledAreCut == Spec => OnlyStalledReadersAreCut
<1> DEFINE Cut == \A s \in Subs : ~closed[s] /\ pump[s] # "exited" /\ pump'[s] = "exited"
                                    => late[s] = Timeout
<1>1. Spec => []TimeInv
  BY InitTime, StepTime, IInvHolds, PTL DEF Spec
<1>2. IInv /\ TimeInv /\ [Next]_vars => [Cut]_vars
  <2> SUFFICES ASSUME IInv, TimeInv, Next, NEW s \in Subs,
                      ~closed[s], pump[s] # "exited", pump'[s] = "exited"
               PROVE  late[s] = Timeout
    OBVIOUS
  <2>1. /\ pump \in [Subs -> PumpStates] /\ closed \in [Subs -> BOOLEAN] /\ late[s] \in 0 .. Timeout
    BY DEF IInv, TypeOK
  <2>2. NoProgress(s)
    <3>1. ~(Appender \/ Close)
      BY DEF Appender, AppendBatch, Notify, Signal, Close
    <3>2. PICK t \in Subs :
            \/ \E l \in Logs, after \in 0 .. MaxAfter : Subscribe(t, l, after)
            \/ Unsubscribe(t) \/ Pump(t) \/ Elapse(t) \/ Reader(t)
      BY <3>1 DEF Next
    <3>3. Pump(t) \/ Rendezvous(t)
      BY <2>1, <3>2 DEF Subscribe, Unsubscribe, Elapse, Reader, Receive, SeeClosed
    <3>4. SeeDone(t) \/ NoProgress(t)
      BY <2>1, <3>3 DEF Pump, TakeNext, FindNothing, Woken, HandOff, Rendezvous
    <3>5. t = s
      BY <2>1, <3>4 DEF SeeDone, NoProgress
    <3> QED BY <3>4, <3>5 DEF SeeDone
  <2>3. pump[s] = "handoff" /\ Len(ch[s]) >= Buffer /\ timer[s] = Timeout
    BY <2>2 DEF NoProgress
  <2> QED BY <2>1, <2>3 DEF TimeInv
<1>3. Spec => [][Cut]_vars
  BY <1>1, <1>2, IInvHolds, PTL DEF Spec
<1> QED BY <1>3 DEF OnlyStalledReadersAreCut

=============================================================================
