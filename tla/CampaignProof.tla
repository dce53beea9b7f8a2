---------------------------- MODULE CampaignProof ----------------------------
(***************************************************************************)
(* Theorems about the campaign's writer.                                   *)
(*                                                                         *)
(* Of Campaign: one writer, a state that is the log, decisions that follow *)
(* it, and no watcher or subscriber ahead of what it may know.  One        *)
(* inductive invariant carries them all.  Its parts are an account of the  *)
(* hold (who is open, and who has the log open), of an append (how far the *)
(* log, the counter, the state and the decisions are at each of its        *)
(* steps), and of what follows an append (subscriptions and watches).      *)
(*                                                                         *)
(* Of Commands: what the writer is given to append.  An ability's batch is *)
(* followed step by step beside the state the resolver keeps while it      *)
(* works, an adventure's by the scenes, actors and tokens it has added so  *)
(* far, and both against the fold that takes them.                         *)
(***************************************************************************)
EXTENDS Campaign, Commands, EngineProof

\* Opened and not yet closing.
Up == {"idle", "decided", "persisted", "applied", "telling"}

\* The hold is whose instance is anything but closed; the log is open from
\* Open's read to Close's first step.
HoldInv == \A i \in Instances :
  /\ pc[i] # "closed" <=> holder = i
  /\ i \in logOpen <=> pc[i] \in Up \cup {"loading"}

\* How far an append is.  Only a live apply that failed poisons, and then the
\* counter may be ahead of the state, for good.
AppendInv == \A i \in Instances :
  /\ pc[i] \in Up \ {"idle"} => ~poisoned[i]
  /\ pc[i] = "loading" => cHead[i] = head
  /\ pc[i] \in Up /\ ~poisoned[i] => cHead[i] = head
  /\ pc[i] \in Up => applied[i] <= cHead[i]
  /\ pc[i] \in Up \ {"persisted"} /\ ~poisoned[i] => applied[i] = cHead[i]
  /\ pc[i] \in Up \ {"decided"} /\ ~poisoned[i] => decided[i] = cHead[i]
  /\ pc[i] = "decided" => decided[i] > cHead[i]

\* A character log's subscription is of an open instance.
SubInv == \A s \in CharSubs : subOf[s] # Nobody =>
  /\ pc[subOf[s]] \in Up
  /\ queued[s] <= applied[subOf[s]]

\* Between the live apply and the wake a watcher may be behind; never else.
WatchInv == \A w \in Watches : LET i == watchOf[w] IN IF i = Nobody THEN ~wake[w] /\ ~reading[w] ELSE
  /\ pc[i] \in Up
  /\ ~poisoned[i] /\ pc[i] # "applied" /\ ~wake[w] /\ ~reading[w] => read[w] = applied[i]

IInv == TypeOK /\ HoldInv /\ AppendInv /\ SubInv /\ WatchInv /\ WakePrecedesEntry

-----------------------------------------------------------------------------
(* Init, and each part of the invariant step by step.                      *)

LEMMA InitInv == Init => IInv
  BY CampaignAssumption DEF Init, IInv, TypeOK, HoldInv, AppendInv, SubInv, WatchInv,
     WakePrecedesEntry, Subs, Seqs, PCs, Up

\* The types, which need the decisions to be past the counter in Persist.
LEMMA TypeStep == IInv /\ [Next]_vars => TypeOK'
<1> SUFFICES ASSUME IInv, [Next]_vars PROVE TypeOK'
  OBVIOUS
<1> USE CampaignAssumption DEF IInv, TypeOK, AppendInv, WatchInv, Subs, Seqs, PCs, Up, dirVars, stateVars, tellVars, subVars, watchVars
<1>1. ASSUME NEW i \in Instances, TakeHold(i) PROVE TypeOK'
  BY <1>1 DEF TakeHold, Goto
<1>2. ASSUME NEW i \in Instances, ReadLog(i) PROVE TypeOK'
  BY <1>2 DEF ReadLog, Goto
<1>3. ASSUME NEW i \in Instances, FinishOpen(i) PROVE TypeOK'
  BY <1>3 DEF FinishOpen, Goto
<1>4. ASSUME NEW i \in Instances, FailOpen(i) PROVE TypeOK'
  BY <1>4 DEF FailOpen
<1>5. ASSUME NEW i \in Instances, CloseLog(i) PROVE TypeOK'
  BY <1>5 DEF CloseLog, Goto, Ends
<1>6. ASSUME NEW i \in Instances, Release(i) PROVE TypeOK'
  BY <1>6 DEF Release, Goto
<1>7. ASSUME NEW i \in Instances, Crash(i) PROVE TypeOK'
  BY <1>7 DEF Crash, Ends
<1>8. ASSUME NEW i \in Instances, RestartDecisions(i) PROVE TypeOK'
  BY <1>8 DEF RestartDecisions, Goto
<1>9. ASSUME NEW i \in Instances, Persist(i) PROVE TypeOK'
  BY <1>9 DEF Persist, Goto
<1>10. ASSUME NEW i \in Instances, ApplyLive(i) PROVE TypeOK'
  BY <1>10 DEF ApplyLive, Goto
<1>11. ASSUME NEW i \in Instances, Diverge(i) PROVE TypeOK'
  BY <1>11 DEF Diverge, Goto
<1>12. ASSUME NEW i \in Instances, Wake(i) PROVE TypeOK'
  BY <1>12 DEF Wake, Goto
<1>13. ASSUME NEW i \in Instances, Notify(i) PROVE TypeOK'
  BY <1>13 DEF Notify, Take
<1>14. ASSUME NEW i \in Instances, NotifyCharacter(i) PROVE TypeOK'
  BY <1>14 DEF NotifyCharacter, Take
<1>15. ASSUME NEW i \in Instances, FinishAppend(i) PROVE TypeOK'
  BY <1>15 DEF FinishAppend, Goto
<1>16. ASSUME NEW i \in Instances, NEW n \in 1 .. MaxBatch, Decide(i, n) PROVE TypeOK'
  BY <1>16 DEF Decide, Goto
<1>17. ASSUME NEW s \in WorldSubs, NEW i \in Instances, CheckSubscribe(s, i) PROVE TypeOK'
  BY <1>17 DEF CheckSubscribe
<1>18. ASSUME NEW s \in WorldSubs, NEW i \in Instances, StoreSubscribe(s, i) PROVE TypeOK'
  BY <1>18 DEF StoreSubscribe
<1>19. ASSUME NEW s \in CharSubs, NEW i \in Instances, SubscribeCharacter(s, i) PROVE TypeOK'
  BY <1>19 DEF SubscribeCharacter
<1>20. ASSUME NEW w \in Watches, NEW i \in Instances, WatchAppends(w, i) PROVE TypeOK'
  BY <1>20 DEF WatchAppends
<1>21. ASSUME NEW w \in Watches, ReadActors(w) PROVE TypeOK'
  BY <1>21 DEF ReadActors
<1>22. ASSUME NEW w \in Watches, TakeWake(w) PROVE TypeOK'
  BY <1>22 DEF TakeWake
<1>23. ASSUME NEW w \in Watches, StopWatch(w) PROVE TypeOK'
  BY <1>23 DEF StopWatch
<1>24. CASE UNCHANGED vars
  BY <1>24 DEF vars
<1> QED BY <1>1, <1>2, <1>3, <1>4, <1>5, <1>6, <1>7, <1>8, <1>9, <1>10,
           <1>11, <1>12, <1>13, <1>14, <1>15, <1>16, <1>17, <1>18, <1>19,
           <1>20, <1>21, <1>22, <1>23, <1>24 DEF Next, OpenOrClose, Appends,
           Follow, Watcher

\* Nobody but the holder has anything open.
LEMMA HoldStep == IInv /\ [Next]_vars => HoldInv'
<1> SUFFICES ASSUME IInv, [Next]_vars PROVE HoldInv'
  OBVIOUS
<1> USE CampaignAssumption DEF IInv, TypeOK, HoldInv, PCs, Up, dirVars, stateVars, tellVars, subVars, watchVars
<1>1. ASSUME NEW i \in Instances, TakeHold(i) PROVE HoldInv'
  BY <1>1 DEF TakeHold, Goto
<1>2. ASSUME NEW i \in Instances, ReadLog(i) PROVE HoldInv'
  BY <1>2 DEF ReadLog, Goto
<1>3. ASSUME NEW i \in Instances, FinishOpen(i) PROVE HoldInv'
  BY <1>3 DEF FinishOpen, Goto
<1>4. ASSUME NEW i \in Instances, FailOpen(i) PROVE HoldInv'
  BY <1>4 DEF FailOpen
<1>5. ASSUME NEW i \in Instances, CloseLog(i) PROVE HoldInv'
  BY <1>5 DEF CloseLog, Goto, Ends
<1>6. ASSUME NEW i \in Instances, Release(i) PROVE HoldInv'
  BY <1>6 DEF Release, Goto
<1>7. ASSUME NEW i \in Instances, Crash(i) PROVE HoldInv'
  BY <1>7 DEF Crash, Ends
<1>8. ASSUME NEW i \in Instances, RestartDecisions(i) PROVE HoldInv'
  BY <1>8 DEF RestartDecisions, Goto
<1>9. ASSUME NEW i \in Instances, Persist(i) PROVE HoldInv'
  BY <1>9 DEF Persist, Goto
<1>10. ASSUME NEW i \in Instances, ApplyLive(i) PROVE HoldInv'
  BY <1>10 DEF ApplyLive, Goto
<1>11. ASSUME NEW i \in Instances, Diverge(i) PROVE HoldInv'
  BY <1>11 DEF Diverge, Goto
<1>12. ASSUME NEW i \in Instances, Wake(i) PROVE HoldInv'
  BY <1>12 DEF Wake, Goto
<1>13. ASSUME NEW i \in Instances, Notify(i) PROVE HoldInv'
  BY <1>13 DEF Notify, Take
<1>14. ASSUME NEW i \in Instances, NotifyCharacter(i) PROVE HoldInv'
  BY <1>14 DEF NotifyCharacter, Take
<1>15. ASSUME NEW i \in Instances, FinishAppend(i) PROVE HoldInv'
  BY <1>15 DEF FinishAppend, Goto
<1>16. ASSUME NEW i \in Instances, NEW n \in 1 .. MaxBatch, Decide(i, n) PROVE HoldInv'
  BY <1>16 DEF Decide, Goto
<1>17. ASSUME NEW s \in WorldSubs, NEW i \in Instances, CheckSubscribe(s, i) PROVE HoldInv'
  BY <1>17 DEF CheckSubscribe
<1>18. ASSUME NEW s \in WorldSubs, NEW i \in Instances, StoreSubscribe(s, i) PROVE HoldInv'
  BY <1>18 DEF StoreSubscribe
<1>19. ASSUME NEW s \in CharSubs, NEW i \in Instances, SubscribeCharacter(s, i) PROVE HoldInv'
  BY <1>19 DEF SubscribeCharacter
<1>20. ASSUME NEW w \in Watches, NEW i \in Instances, WatchAppends(w, i) PROVE HoldInv'
  BY <1>20 DEF WatchAppends
<1>21. ASSUME NEW w \in Watches, ReadActors(w) PROVE HoldInv'
  BY <1>21 DEF ReadActors
<1>22. ASSUME NEW w \in Watches, TakeWake(w) PROVE HoldInv'
  BY <1>22 DEF TakeWake
<1>23. ASSUME NEW w \in Watches, StopWatch(w) PROVE HoldInv'
  BY <1>23 DEF StopWatch
<1>24. CASE UNCHANGED vars
  BY <1>24 DEF vars
<1> QED BY <1>1, <1>2, <1>3, <1>4, <1>5, <1>6, <1>7, <1>8, <1>9, <1>10,
           <1>11, <1>12, <1>13, <1>14, <1>15, <1>16, <1>17, <1>18, <1>19,
           <1>20, <1>21, <1>22, <1>23, <1>24 DEF Next, OpenOrClose, Appends,
           Follow, Watcher

\* One append at a time, and the log stands still for all others.
LEMMA AppendStep == IInv /\ [Next]_vars => AppendInv'
<1> SUFFICES ASSUME IInv, [Next]_vars PROVE AppendInv'
  OBVIOUS
<1> USE CampaignAssumption DEF IInv, TypeOK, HoldInv, AppendInv, Seqs, PCs, Up, dirVars, stateVars, tellVars, subVars, watchVars
<1>1. ASSUME NEW i \in Instances, TakeHold(i) PROVE AppendInv'
  BY <1>1 DEF TakeHold, Goto
<1>2. ASSUME NEW i \in Instances, ReadLog(i) PROVE AppendInv'
  BY <1>2 DEF ReadLog, Goto
<1>3. ASSUME NEW i \in Instances, FinishOpen(i) PROVE AppendInv'
  BY <1>3 DEF FinishOpen, Goto
<1>4. ASSUME NEW i \in Instances, FailOpen(i) PROVE AppendInv'
  BY <1>4 DEF FailOpen
<1>5. ASSUME NEW i \in Instances, CloseLog(i) PROVE AppendInv'
  BY <1>5 DEF CloseLog, Goto, Ends
<1>6. ASSUME NEW i \in Instances, Release(i) PROVE AppendInv'
  BY <1>6 DEF Release, Goto
<1>7. ASSUME NEW i \in Instances, Crash(i) PROVE AppendInv'
  BY <1>7 DEF Crash, Ends
<1>8. ASSUME NEW i \in Instances, RestartDecisions(i) PROVE AppendInv'
  BY <1>8 DEF RestartDecisions, Goto
<1>9. ASSUME NEW i \in Instances, Persist(i) PROVE AppendInv'
  BY <1>9 DEF Persist, Goto
<1>10. ASSUME NEW i \in Instances, ApplyLive(i) PROVE AppendInv'
  BY <1>10 DEF ApplyLive, Goto
<1>11. ASSUME NEW i \in Instances, Diverge(i) PROVE AppendInv'
  BY <1>11 DEF Diverge, Goto
<1>12. ASSUME NEW i \in Instances, Wake(i) PROVE AppendInv'
  BY <1>12 DEF Wake, Goto
<1>13. ASSUME NEW i \in Instances, Notify(i) PROVE AppendInv'
  BY <1>13 DEF Notify, Take
<1>14. ASSUME NEW i \in Instances, NotifyCharacter(i) PROVE AppendInv'
  BY <1>14 DEF NotifyCharacter, Take
<1>15. ASSUME NEW i \in Instances, FinishAppend(i) PROVE AppendInv'
  BY <1>15 DEF FinishAppend, Goto
<1>16. ASSUME NEW i \in Instances, NEW n \in 1 .. MaxBatch, Decide(i, n) PROVE AppendInv'
  BY <1>16 DEF Decide, Goto
<1>17. ASSUME NEW s \in WorldSubs, NEW i \in Instances, CheckSubscribe(s, i) PROVE AppendInv'
  BY <1>17 DEF CheckSubscribe
<1>18. ASSUME NEW s \in WorldSubs, NEW i \in Instances, StoreSubscribe(s, i) PROVE AppendInv'
  BY <1>18 DEF StoreSubscribe
<1>19. ASSUME NEW s \in CharSubs, NEW i \in Instances, SubscribeCharacter(s, i) PROVE AppendInv'
  BY <1>19 DEF SubscribeCharacter
<1>20. ASSUME NEW w \in Watches, NEW i \in Instances, WatchAppends(w, i) PROVE AppendInv'
  BY <1>20 DEF WatchAppends
<1>21. ASSUME NEW w \in Watches, ReadActors(w) PROVE AppendInv'
  BY <1>21 DEF ReadActors
<1>22. ASSUME NEW w \in Watches, TakeWake(w) PROVE AppendInv'
  BY <1>22 DEF TakeWake
<1>23. ASSUME NEW w \in Watches, StopWatch(w) PROVE AppendInv'
  BY <1>23 DEF StopWatch
<1>24. CASE UNCHANGED vars
  BY <1>24 DEF vars
<1> QED BY <1>1, <1>2, <1>3, <1>4, <1>5, <1>6, <1>7, <1>8, <1>9, <1>10,
           <1>11, <1>12, <1>13, <1>14, <1>15, <1>16, <1>17, <1>18, <1>19,
           <1>20, <1>21, <1>22, <1>23, <1>24 DEF Next, OpenOrClose, Appends,
           Follow, Watcher

\* What is queued of a character log was applied before.
LEMMA SubStep == IInv /\ [Next]_vars => SubInv'
<1> SUFFICES ASSUME IInv, [Next]_vars PROVE SubInv'
  OBVIOUS
<1> USE CampaignAssumption DEF IInv, TypeOK, HoldInv, AppendInv, SubInv, Subs, Seqs, PCs, Up, dirVars, stateVars, tellVars, subVars, watchVars
<1>1. ASSUME NEW i \in Instances, TakeHold(i) PROVE SubInv'
  BY <1>1 DEF TakeHold, Goto
<1>2. ASSUME NEW i \in Instances, ReadLog(i) PROVE SubInv'
  BY <1>2 DEF ReadLog, Goto
<1>3. ASSUME NEW i \in Instances, FinishOpen(i) PROVE SubInv'
  BY <1>3 DEF FinishOpen, Goto
<1>4. ASSUME NEW i \in Instances, FailOpen(i) PROVE SubInv'
  BY <1>4 DEF FailOpen
<1>5. ASSUME NEW i \in Instances, CloseLog(i) PROVE SubInv'
  BY <1>5 DEF CloseLog, Goto, Ends
<1>6. ASSUME NEW i \in Instances, Release(i) PROVE SubInv'
  BY <1>6 DEF Release, Goto
<1>7. ASSUME NEW i \in Instances, Crash(i) PROVE SubInv'
  BY <1>7 DEF Crash, Ends
<1>8. ASSUME NEW i \in Instances, RestartDecisions(i) PROVE SubInv'
  BY <1>8 DEF RestartDecisions, Goto
<1>9. ASSUME NEW i \in Instances, Persist(i) PROVE SubInv'
  BY <1>9 DEF Persist, Goto
<1>10. ASSUME NEW i \in Instances, ApplyLive(i) PROVE SubInv'
  BY <1>10 DEF ApplyLive, Goto
<1>11. ASSUME NEW i \in Instances, Diverge(i) PROVE SubInv'
  BY <1>11 DEF Diverge, Goto
<1>12. ASSUME NEW i \in Instances, Wake(i) PROVE SubInv'
  BY <1>12 DEF Wake, Goto
<1>13. ASSUME NEW i \in Instances, Notify(i) PROVE SubInv'
  BY <1>13 DEF Notify, Take
<1>14. ASSUME NEW i \in Instances, NotifyCharacter(i) PROVE SubInv'
  BY <1>14 DEF NotifyCharacter, Take
<1>15. ASSUME NEW i \in Instances, FinishAppend(i) PROVE SubInv'
  BY <1>15 DEF FinishAppend, Goto
<1>16. ASSUME NEW i \in Instances, NEW n \in 1 .. MaxBatch, Decide(i, n) PROVE SubInv'
  BY <1>16 DEF Decide, Goto
<1>17. ASSUME NEW s \in WorldSubs, NEW i \in Instances, CheckSubscribe(s, i) PROVE SubInv'
  BY <1>17 DEF CheckSubscribe
<1>18. ASSUME NEW s \in WorldSubs, NEW i \in Instances, StoreSubscribe(s, i) PROVE SubInv'
  BY <1>18 DEF StoreSubscribe
<1>19. ASSUME NEW s \in CharSubs, NEW i \in Instances, SubscribeCharacter(s, i) PROVE SubInv'
  BY <1>19 DEF SubscribeCharacter
<1>20. ASSUME NEW w \in Watches, NEW i \in Instances, WatchAppends(w, i) PROVE SubInv'
  BY <1>20 DEF WatchAppends
<1>21. ASSUME NEW w \in Watches, ReadActors(w) PROVE SubInv'
  BY <1>21 DEF ReadActors
<1>22. ASSUME NEW w \in Watches, TakeWake(w) PROVE SubInv'
  BY <1>22 DEF TakeWake
<1>23. ASSUME NEW w \in Watches, StopWatch(w) PROVE SubInv'
  BY <1>23 DEF StopWatch
<1>24. CASE UNCHANGED vars
  BY <1>24 DEF vars
<1> QED BY <1>1, <1>2, <1>3, <1>4, <1>5, <1>6, <1>7, <1>8, <1>9, <1>10,
           <1>11, <1>12, <1>13, <1>14, <1>15, <1>16, <1>17, <1>18, <1>19,
           <1>20, <1>21, <1>22, <1>23, <1>24 DEF Next, OpenOrClose, Appends,
           Follow, Watcher

\* A wake is posted, or the actors about to be read, when the state moves.
LEMMA WatchStep == IInv /\ [Next]_vars => WatchInv'
<1> SUFFICES ASSUME IInv, [Next]_vars PROVE WatchInv'
  OBVIOUS
<1> USE CampaignAssumption DEF IInv, TypeOK, HoldInv, AppendInv, WatchInv, Seqs, PCs, Up, dirVars, stateVars, tellVars, subVars, watchVars
<1>1. ASSUME NEW i \in Instances, TakeHold(i) PROVE WatchInv'
  BY <1>1 DEF TakeHold, Goto
<1>2. ASSUME NEW i \in Instances, ReadLog(i) PROVE WatchInv'
  BY <1>2 DEF ReadLog, Goto
<1>3. ASSUME NEW i \in Instances, FinishOpen(i) PROVE WatchInv'
  BY <1>3 DEF FinishOpen, Goto
<1>4. ASSUME NEW i \in Instances, FailOpen(i) PROVE WatchInv'
  BY <1>4 DEF FailOpen
<1>5. ASSUME NEW i \in Instances, CloseLog(i) PROVE WatchInv'
  <2>1. \A w \in Watches : /\ wake'[w] <=> wake[w] /\ watchOf[w] # i
                           /\ reading'[w] <=> reading[w] /\ watchOf[w] # i
    BY <1>5, Zenon DEF CloseLog, Ends
  <2>2. \A w \in Watches : watchOf'[w] = IF watchOf[w] = i THEN Nobody ELSE watchOf[w]
    BY <1>5 DEF CloseLog, Ends
  <2>3. UNCHANGED <<poisoned, applied, read>> /\ \A j \in Instances \ {i} : pc'[j] = pc[j]
    BY <1>5 DEF CloseLog, Ends, Goto
  <2> QED BY <2>1, <2>2, <2>3
<1>6. ASSUME NEW i \in Instances, Release(i) PROVE WatchInv'
  BY <1>6 DEF Release, Goto
<1>7. ASSUME NEW i \in Instances, Crash(i) PROVE WatchInv'
  <2>1. \A w \in Watches : /\ wake'[w] <=> wake[w] /\ watchOf[w] # i
                           /\ reading'[w] <=> reading[w] /\ watchOf[w] # i
    BY <1>7, Zenon DEF Crash, Ends
  <2>2. \A w \in Watches : watchOf'[w] = IF watchOf[w] = i THEN Nobody ELSE watchOf[w]
    BY <1>7 DEF Crash, Ends
  <2>3. UNCHANGED <<poisoned, applied, read>> /\ \A j \in Instances \ {i} : pc'[j] = pc[j]
    BY <1>7 DEF Crash, Ends, Goto
  <2> QED BY <2>1, <2>2, <2>3
<1>8. ASSUME NEW i \in Instances, RestartDecisions(i) PROVE WatchInv'
  BY <1>8 DEF RestartDecisions, Goto
<1>9. ASSUME NEW i \in Instances, Persist(i) PROVE WatchInv'
  BY <1>9 DEF Persist, Goto
<1>10. ASSUME NEW i \in Instances, ApplyLive(i) PROVE WatchInv'
  BY <1>10 DEF ApplyLive, Goto
<1>11. ASSUME NEW i \in Instances, Diverge(i) PROVE WatchInv'
  BY <1>11 DEF Diverge, Goto
<1>12. ASSUME NEW i \in Instances, Wake(i) PROVE WatchInv'
  <2>1. pc' = [pc EXCEPT ![i] = "telling"] /\ pc[i] = "applied"
    BY <1>12 DEF Wake, Goto
  <2>2. \A w \in Watches : /\ watchOf'[w] = watchOf[w] /\ reading'[w] = reading[w]
                           /\ read'[w] = read[w]
    BY <1>12 DEF Wake
  <2>3. \A w \in Watches : wake'[w] <=> wake[w] \/ watchOf[w] = i
    BY <1>12, Zenon DEF Wake
  <2>4. poisoned' = poisoned /\ applied' = applied
    BY <1>12 DEF Wake
  <2> QED BY <2>1, <2>2, <2>3, <2>4
<1>13. ASSUME NEW i \in Instances, Notify(i) PROVE WatchInv'
  BY <1>13 DEF Notify, Take
<1>14. ASSUME NEW i \in Instances, NotifyCharacter(i) PROVE WatchInv'
  BY <1>14 DEF NotifyCharacter, Take
<1>15. ASSUME NEW i \in Instances, FinishAppend(i) PROVE WatchInv'
  BY <1>15 DEF FinishAppend, Goto
<1>16. ASSUME NEW i \in Instances, NEW n \in 1 .. MaxBatch, Decide(i, n) PROVE WatchInv'
  BY <1>16 DEF Decide, Goto
<1>17. ASSUME NEW s \in WorldSubs, NEW i \in Instances, CheckSubscribe(s, i) PROVE WatchInv'
  BY <1>17 DEF CheckSubscribe
<1>18. ASSUME NEW s \in WorldSubs, NEW i \in Instances, StoreSubscribe(s, i) PROVE WatchInv'
  BY <1>18 DEF StoreSubscribe
<1>19. ASSUME NEW s \in CharSubs, NEW i \in Instances, SubscribeCharacter(s, i) PROVE WatchInv'
  BY <1>19 DEF SubscribeCharacter
<1>20. ASSUME NEW w \in Watches, NEW i \in Instances, WatchAppends(w, i) PROVE WatchInv'
  BY <1>20 DEF WatchAppends
<1>21. ASSUME NEW w \in Watches, ReadActors(w) PROVE WatchInv'
  BY <1>21 DEF ReadActors
<1>22. ASSUME NEW w \in Watches, TakeWake(w) PROVE WatchInv'
  BY <1>22 DEF TakeWake
<1>23. ASSUME NEW w \in Watches, StopWatch(w) PROVE WatchInv'
  BY <1>23 DEF StopWatch
<1>24. CASE UNCHANGED vars
  BY <1>24 DEF vars
<1> QED BY <1>1, <1>2, <1>3, <1>4, <1>5, <1>6, <1>7, <1>8, <1>9, <1>10,
           <1>11, <1>12, <1>13, <1>14, <1>15, <1>16, <1>17, <1>18, <1>19,
           <1>20, <1>21, <1>22, <1>23, <1>24 DEF Next, OpenOrClose, Appends,
           Follow, Watcher

\* And posted before the first entry of that append is queued.
LEMMA PairStep == IInv /\ [Next]_vars => WakePrecedesEntry'
<1> SUFFICES ASSUME IInv, [Next]_vars PROVE WakePrecedesEntry'
  OBVIOUS
<1> USE CampaignAssumption DEF IInv, TypeOK, HoldInv, AppendInv, SubInv, WatchInv, WakePrecedesEntry, Subs, Seqs, PCs, Up, dirVars, stateVars, tellVars, subVars, watchVars
<1>1. ASSUME NEW i \in Instances, TakeHold(i) PROVE WakePrecedesEntry'
  BY <1>1 DEF TakeHold, Goto
<1>2. ASSUME NEW i \in Instances, ReadLog(i) PROVE WakePrecedesEntry'
  BY <1>2 DEF ReadLog, Goto
<1>3. ASSUME NEW i \in Instances, FinishOpen(i) PROVE WakePrecedesEntry'
  BY <1>3 DEF FinishOpen, Goto
<1>4. ASSUME NEW i \in Instances, FailOpen(i) PROVE WakePrecedesEntry'
  BY <1>4 DEF FailOpen
<1>5. ASSUME NEW i \in Instances, CloseLog(i) PROVE WakePrecedesEntry'
  BY <1>5 DEF CloseLog, Goto, Ends
<1>6. ASSUME NEW i \in Instances, Release(i) PROVE WakePrecedesEntry'
  BY <1>6 DEF Release, Goto
<1>7. ASSUME NEW i \in Instances, Crash(i) PROVE WakePrecedesEntry'
  BY <1>7 DEF Crash, Ends
<1>8. ASSUME NEW i \in Instances, RestartDecisions(i) PROVE WakePrecedesEntry'
  BY <1>8 DEF RestartDecisions, Goto
<1>9. ASSUME NEW i \in Instances, Persist(i) PROVE WakePrecedesEntry'
  BY <1>9 DEF Persist, Goto
<1>10. ASSUME NEW i \in Instances, ApplyLive(i) PROVE WakePrecedesEntry'
  BY <1>10 DEF ApplyLive, Goto
<1>11. ASSUME NEW i \in Instances, Diverge(i) PROVE WakePrecedesEntry'
  BY <1>11 DEF Diverge, Goto
<1>12. ASSUME NEW i \in Instances, Wake(i) PROVE WakePrecedesEntry'
  BY <1>12 DEF Wake, Goto
<1>13. ASSUME NEW i \in Instances, Notify(i) PROVE WakePrecedesEntry'
  BY <1>13 DEF Notify, Take
<1>14. ASSUME NEW i \in Instances, NotifyCharacter(i) PROVE WakePrecedesEntry'
  BY <1>14 DEF NotifyCharacter, Take
<1>15. ASSUME NEW i \in Instances, FinishAppend(i) PROVE WakePrecedesEntry'
  BY <1>15 DEF FinishAppend, Goto
<1>16. ASSUME NEW i \in Instances, NEW n \in 1 .. MaxBatch, Decide(i, n) PROVE WakePrecedesEntry'
  BY <1>16 DEF Decide, Goto
<1>17. ASSUME NEW s \in WorldSubs, NEW i \in Instances, CheckSubscribe(s, i) PROVE WakePrecedesEntry'
  BY <1>17 DEF CheckSubscribe
<1>18. ASSUME NEW s \in WorldSubs, NEW i \in Instances, StoreSubscribe(s, i) PROVE WakePrecedesEntry'
  BY <1>18 DEF StoreSubscribe
<1>19. ASSUME NEW s \in CharSubs, NEW i \in Instances, SubscribeCharacter(s, i) PROVE WakePrecedesEntry'
  BY <1>19 DEF SubscribeCharacter
<1>20. ASSUME NEW w \in Watches, NEW i \in Instances, WatchAppends(w, i) PROVE WakePrecedesEntry'
  BY <1>20 DEF WatchAppends
<1>21. ASSUME NEW w \in Watches, ReadActors(w) PROVE WakePrecedesEntry'
  BY <1>21 DEF ReadActors
<1>22. ASSUME NEW w \in Watches, TakeWake(w) PROVE WakePrecedesEntry'
  BY <1>22 DEF TakeWake
<1>23. ASSUME NEW w \in Watches, StopWatch(w) PROVE WakePrecedesEntry'
  BY <1>23 DEF StopWatch
<1>24. CASE UNCHANGED vars
  BY <1>24 DEF vars
<1> QED BY <1>1, <1>2, <1>3, <1>4, <1>5, <1>6, <1>7, <1>8, <1>9, <1>10,
           <1>11, <1>12, <1>13, <1>14, <1>15, <1>16, <1>17, <1>18, <1>19,
           <1>20, <1>21, <1>22, <1>23, <1>24 DEF Next, OpenOrClose, Appends,
           Follow, Watcher


-----------------------------------------------------------------------------
(* The theorems.                                                           *)

\* The inductive invariant holds of every reachable state, for any instances,
\* subscriptions, watches, batch size and bound on the log.
THEOREM IInvHolds == Spec => []IInv
<1>1. IInv /\ [Next]_vars => IInv'
  BY TypeStep, HoldStep, AppendStep, SubStep, WatchStep, PairStep DEF IInv
<1> QED BY <1>1, InitInv, PTL DEF Spec

\* Every variable keeps its type.
THEOREM TypeCorrect == Spec => []TypeOK
<1>1. IInv => TypeOK
  BY CampaignAssumption DEF IInv
<1> QED BY <1>1, IInvHolds, PTL

\* campaign.Open and Close: a log is open in the holder of the directory only.
THEOREM OneWriterAtATime == Spec => []OneWriter
<1>1. IInv => OneWriter
  BY CampaignAssumption DEF IInv, OneWriter, HoldInv, Up, TypeOK
<1> QED BY <1>1, IInvHolds, PTL

\* appendLocked: a state anybody can read has the whole log in it.
THEOREM ServedStateIsTheLog == Spec => []StateIsTheLog
<1>1. IInv => StateIsTheLog
  BY CampaignAssumption DEF IInv, StateIsTheLog, HoldInv, AppendInv, Serves, Up
<1> QED BY <1>1, IInvHolds, PTL

\* fanOut and restartDecisions: perception stands where the state does.
THEOREM DecisionsAreTheStates == Spec => []DecisionsFollowState
<1>1. IInv => DecisionsFollowState
  BY CampaignAssumption DEF IInv, DecisionsFollowState, HoldInv, AppendInv, Serves, Up
<1> QED BY <1>1, IInvHolds, PTL

\* WatchAppends and Actors: no append goes by a watcher unread and unannounced.
THEOREM WatchersMissNothing == Spec => []NoWakeIsLost
<1>1. IInv => NoWakeIsLost
  BY CampaignAssumption DEF IInv, NoWakeIsLost, WatchInv, Serves, TypeOK
<1> QED BY <1>1, IInvHolds, PTL

\* appendLocked's order: wake the watches, then notify the character logs.
THEOREM WakesPrecedeEntries == Spec => []WakePrecedesEntry
<1>1. IInv => WakePrecedesEntry
  BY CampaignAssumption DEF IInv
<1> QED BY <1>1, IInvHolds, PTL

\* SubscribeCharacter under c.mu: no entry before its event is in the state.
THEOREM EntriesAreOfTheState == Spec => []EntriesAreApplied
<1>1. IInv => EntriesAreApplied
  BY CampaignAssumption DEF IInv, EntriesAreApplied, SubInv
<1> QED BY <1>1, IInvHolds, PTL


-----------------------------------------------------------------------------
(* The folds of the rules.                                                 *)

\* A step of each: the nodes of a formula, the dice under one of them, the effects on
\* a target, the targets of a use, the thresholds of an actor, the actors that changed,
\* and the atoms of a composition.  What does not change meanwhile is c.
StepOf(kind, c, s, e) ==
  CASE kind = "nodes" -> IF s = Refused THEN Refused ELSE Evaluated(s, e, c.ctx, c.luck)
    [] kind = "dice" -> s + e.dice
    [] kind = "effects" ->
         IF s = Refused THEN Refused ELSE OneEffect(c.st, s, e, c.caster, c.target, c.luck)
    [] kind = "targets" -> OneTarget(c.st, s, c.power, c.cmd.caster, c.cmd.targets[e], c.luck[e])
    [] kind = "thresholds" -> CrossedOne(c.st, s, c.a, e)
    [] kind = "changed" -> CrossedAll(c.rs, c.st, s, e)
    [] kind = "atoms" ->
         IF s = Refused \/ Ready(c, s) = {} THEN Refused
         ELSE Append(s, Smallest(SetToSeq(Ready(c, s))))

FoldOf(kind, c, start, items) == FoldLeft(LAMBDA s, e : StepOf(kind, c, s, e), start, items)

\* The function of the sets of positions that FoldLeft defines.
FoldOfEqn(kind, c, g, start, items, n) ==
  g = [s \in SUBSET (1 .. n) |->
         IF s = {} THEN start ELSE StepOf(kind, c, g[s \ {Max(s)}], items[Max(s)])]

LEMMA FoldOfIter ==
  ASSUME NEW kind, NEW c, NEW start, NEW X, NEW items \in Seq(X), NEW n \in 0 .. Len(items)
  PROVE  \E g : FoldOfEqn(kind, c, g, start, items, n)
<1> DEFINE T == {k \in 0 .. n : \E g : FoldOfEqn(kind, c, g, start, items, k)}
<1>1. 0 \in T
  <2> DEFINE g == [s \in SUBSET (1 .. 0) |-> start]
  <2>1. SUBSET (1 .. 0) = {{}}
    OBVIOUS
  <2>2. FoldOfEqn(kind, c, g, start, items, 0)
    BY <2>1 DEF FoldOfEqn
  <2> QED BY <2>2
<1>2. ASSUME NEW k \in 0 .. n, k < n, k \in T PROVE k + 1 \in T
  <2>0. k \in Nat
    OBVIOUS
  <2>1. PICK g : FoldOfEqn(kind, c, g, start, items, k)
    BY <1>2
  <2> DEFINE h == [s \in SUBSET (1 .. k + 1) |->
                     IF k + 1 \in s THEN StepOf(kind, c, g[s \ {k + 1}], items[k + 1]) ELSE g[s]]
             Rhs(s) == IF s = {} THEN start ELSE StepOf(kind, c, h[s \ {Max(s)}], items[Max(s)])
  <2>2. ASSUME NEW s \in SUBSET (1 .. k + 1) PROVE h[s] = Rhs(s)
    <3>1. CASE k + 1 \in s
      <4>1. Max(s) = k + 1
        BY <3>1, MaxOfRange
      <4>2. s \ {k + 1} \in SUBSET (1 .. k + 1) /\ k + 1 \notin s \ {k + 1}
        OBVIOUS
      <4>3. h[s \ {k + 1}] = g[s \ {k + 1}]
        BY <4>2
      <4> QED BY <3>1, <4>1, <4>3
    <3>2. CASE k + 1 \notin s
      <4>1. s \in SUBSET (1 .. k)
        BY <3>2
      <4>2. h[s] = g[s]
        BY <3>2
      <4>3. CASE s = {}
        BY <2>1, <4>1, <4>2, <4>3 DEF FoldOfEqn
      <4>4. CASE s # {}
        <5>1. s \ {Max(s)} \in SUBSET (1 .. k + 1) /\ k + 1 \notin s \ {Max(s)}
          <6> DEFINE m == Max(s)
          <6> HIDE DEF m
          <6>1. \A x \in 1 .. k : x \in 1 .. k + 1 /\ x # k + 1
            BY <2>0
          <6>2. \A x \in s : x \in 1 .. k
            BY <4>1
          <6>3. s \ {m} \in SUBSET (1 .. k + 1) /\ k + 1 \notin s \ {m}
            BY <6>1, <6>2
          <6> QED BY <6>3 DEF m
        <5>2. h[s \ {Max(s)}] = g[s \ {Max(s)}]
          BY <5>1
        <5>3. g[s] = StepOf(kind, c, g[s \ {Max(s)}], items[Max(s)])
          BY <2>1, <4>1, <4>4 DEF FoldOfEqn
        <5> QED BY <4>2, <4>4, <5>2, <5>3
      <4> QED BY <4>3, <4>4
    <3> QED BY <3>1, <3>2
  <2>3. h = [s \in SUBSET (1 .. k + 1) |-> Rhs(s)]
    BY <2>2
  <2>4. FoldOfEqn(kind, c, h, start, items, k + 1)
    BY <2>3 DEF FoldOfEqn
  <2> HIDE DEF h
  <2>5. k + 1 \in 0 .. n
    BY <1>2
  <2> QED BY <2>4, <2>5
<1>3. n \in Nat
  OBVIOUS
<1> HIDE DEF T
<1>4. \A k \in 0 .. n : k \in T
  BY <1>1, <1>2, <1>3, UpTo
<1>5. n \in T
  BY <1>3, <1>4
<1> QED BY <1>5 DEF T

\* What a fold of the rules comes through.
Passes(kind, c, r, start, items) ==
  /\ r[0] = start
  /\ \A i \in 1 .. Len(items) : r[i] = StepOf(kind, c, r[i - 1], items[i])
  /\ FoldOf(kind, c, start, items) = r[Len(items)]

LEMMA PassesExist ==
  ASSUME NEW kind, NEW c, NEW start, NEW X, NEW items \in Seq(X)
  PROVE  \E r : Passes(kind, c, r, start, items)
<1> DEFINE n == Len(items)
           iter == CHOOSE g : FoldOfEqn(kind, c, g, start, items, n)
           r == [i \in 0 .. n |-> iter[1 .. i]]
<1>1. n \in Nat /\ DOMAIN items = 1 .. n
  OBVIOUS
<1>2. iter = [s \in SUBSET (1 .. n) |->
                IF s = {} THEN start ELSE StepOf(kind, c, iter[s \ {Max(s)}], items[Max(s)])]
  <2>1. n \in 0 .. Len(items)
    BY <1>1
  <2>2. \E g : FoldOfEqn(kind, c, g, start, items, n)
    BY <2>1, FoldOfIter
  <2>3. FoldOfEqn(kind, c, iter, start, items, n)
    BY <2>2
  <2> QED BY <2>3 DEF FoldOfEqn
<1>3. FoldOf(kind, c, start, items) = iter[1 .. n]
  BY <1>1 DEF FoldOf, FoldLeft, MapThenFoldSet, FoldOfEqn
<1> HIDE DEF iter
<1>4. r[0] = start
  <2>1. 1 .. 0 = {}
    OBVIOUS
  <2>2. r[0] = iter[{}] /\ {} \in SUBSET (1 .. n)
    BY <1>1, <2>1
  <2> QED BY <1>2, <2>2
<1>5. ASSUME NEW i \in 1 .. n PROVE r[i] = StepOf(kind, c, r[i - 1], items[i])
  <2>1. i \in Nat /\ i > 0 /\ i \in 1 .. i /\ i - 1 \in 0 .. n /\ i \in 0 .. n
    BY <1>1
  <2>2. Max(1 .. i) = i
    BY <2>1, MaxOfRange
  <2>3. (1 .. i) \ {i} = 1 .. (i - 1)
    BY <2>1
  <2>4. 1 .. i \in SUBSET (1 .. n) /\ 1 .. i # {}
    <3>1. \A j \in 1 .. i : j \in 1 .. n
      BY <1>1, <2>1
    <3>2. i \in 1 .. i
      BY <2>1
    <3> QED BY <3>1, <3>2
  <2>5. iter[1 .. i] = StepOf(kind, c, iter[(1 .. i) \ {Max(1 .. i)}], items[Max(1 .. i)])
    BY <1>2, <2>4
  <2> QED BY <2>1, <2>2, <2>3, <2>5
<1>6. Passes(kind, c, r, start, items)
  <2>1. r[n] = iter[1 .. n]
    BY <1>1
  <2> QED BY <1>3, <1>4, <1>5, <2>1 DEF Passes
<1> QED BY <1>6

\* What every step keeps, the fold has.
LEMMA FoldOfKeeps ==
  ASSUME NEW kind, NEW c, NEW start, NEW X, NEW items \in Seq(X), NEW K,
         start \in K, \A s \in K, x \in X : StepOf(kind, c, s, x) \in K
  PROVE  FoldOf(kind, c, start, items) \in K
<1>1. PICK q : Passes(kind, c, q, start, items)
  BY PassesExist
<1> DEFINE n == Len(items)
           T == {k \in 0 .. n : q[k] \in K}
<1>2. n \in Nat
  OBVIOUS
<1>3. 0 \in T
  BY <1>1, <1>2 DEF Passes
<1>4. ASSUME NEW k \in 0 .. n, k < n, k \in T PROVE k + 1 \in T
  <2>1. k + 1 \in 1 .. n /\ k + 1 \in 0 .. n /\ (k + 1) - 1 = k
    BY <1>2, <1>4
  <2>2. q[k + 1] = StepOf(kind, c, q[k], items[k + 1])
    BY <1>1, <2>1 DEF Passes
  <2>3. items[k + 1] \in X
    BY <2>1
  <2> QED BY <1>4, <2>1, <2>2, <2>3
<1> HIDE DEF T
<1>5. \A k \in 0 .. n : k \in T
  BY <1>2, <1>3, <1>4, UpTo
<1>6. q[n] \in K
  BY <1>2, <1>5 DEF T
<1> QED BY <1>1, <1>6 DEF Passes

\* Each fold of the rules is one of these.
LEMMA NodesFold ==
  ASSUME NEW t, NEW ctx, NEW luck
  PROVE  EvaluatedAll(t, ctx, luck) = FoldOf("nodes", [ctx |-> ctx, luck |-> luck], <<>>, t)
BY DEF EvaluatedAll, FoldOf, StepOf, FoldLeft, MapThenFoldSet

LEMMA DiceFold ==
  ASSUME NEW vs
  PROVE  DiceOf(vs) = FoldOf("dice", None, 0, vs)
BY DEF DiceOf, FoldOf, StepOf, FoldLeft, MapThenFoldSet

LEMMA EffectsFold ==
  ASSUME NEW st, NEW run, NEW es, NEW caster, NEW target, NEW luck
  PROVE  Effected(st, run, es, caster, target, luck) =
           FoldOf("effects", [st |-> st, caster |-> caster, target |-> target, luck |-> luck], run, es)
BY DEF Effected, FoldOf, StepOf, FoldLeft, MapThenFoldSet

LEMMA ThresholdsFold ==
  ASSUME NEW rs, NEW st, NEW run, NEW a
  PROVE  CrossedAll(rs, st, run, a) = FoldOf("thresholds", [st |-> st, a |-> a], run, rs.thresholds)
BY DEF CrossedAll, FoldOf, StepOf, FoldLeft, MapThenFoldSet

LEMMA ChangedFold ==
  ASSUME NEW rs, NEW st, NEW run
  PROVE  AfterThresholds(rs, st, run) =
           IF run = Refused THEN Refused ELSE FoldOf("changed", [rs |-> rs, st |-> st], run, run.changed)
BY DEF AfterThresholds, FoldOf, StepOf, FoldLeft, MapThenFoldSet

LEMMA TargetsFold ==
  ASSUME NEW rs, NEW pow, NEW st, NEW cmd, NEW luck
  PROVE  Ran(rs, pow, st, cmd, luck) =
           AfterThresholds(rs, st,
             FoldOf("targets", [st |-> st, power |-> pow, cmd |-> cmd, luck |-> luck],
                    Paid(st, pow, cmd.caster), [i \in DOMAIN cmd.targets |-> i]))
BY DEF Ran, FoldOf, StepOf, FoldLeft, MapThenFoldSet

LEMMA AtomsFold ==
  ASSUME NEW atoms
  PROVE  Sorted(atoms) = FoldOf("atoms", atoms, <<>>, [i \in DOMAIN atoms |-> i])
BY DEF Sorted, FoldOf, StepOf, FoldLeft, MapThenFoldSet


-----------------------------------------------------------------------------
(* What a formula comes to: a number, and how many dice were rolled for    *)
(* it, which is none where it has none.                                    *)

ValuesOf(counts) == [n : Int, dice : counts]

LEMMA GreatestIn ==
  ASSUME NEW ns \in Seq(Int), Len(ns) > 0
  PROVE  Largest(ns) \in ToSet(ns) /\ \A i \in DOMAIN ns : Largest(ns) >= ns[i]
<1> DEFINE n == Len(ns)
           T == {k \in 0 .. n : k = 0 \/ \E i \in 1 .. k : \A j \in 1 .. k : ns[i] >= ns[j]}
<1>1. n \in Nat /\ n > 0 /\ DOMAIN ns = 1 .. n /\ \A i \in 1 .. n : ns[i] \in Int
  OBVIOUS
<1>2. 0 \in T
  BY <1>1
<1>3. ASSUME NEW k \in 0 .. n, k < n, k \in T PROVE k + 1 \in T
  <2>1. k + 1 \in 0 .. n /\ k + 1 \in 1 .. n /\ k \in Nat
    BY <1>1, <1>3
  <2>2. CASE k = 0
    <3>1. \A j \in 1 .. k + 1 : j = k + 1
      BY <2>2
    <3>2. \A j \in 1 .. k + 1 : ns[k + 1] >= ns[j]
      BY <1>1, <2>1, <3>1
    <3> QED BY <2>1, <3>2
  <2>3. CASE k # 0
    <3>1. PICK i \in 1 .. k : \A j \in 1 .. k : ns[i] >= ns[j]
      BY <1>3, <2>3
    <3>2. \A j \in 1 .. k + 1 : j \in 1 .. k \/ j = k + 1
      BY <2>1
    <3>3. \A j \in 1 .. k + 1 : j \in 1 .. n
      BY <2>1
    <3>4. i \in 1 .. k + 1 /\ i \in 1 .. n
      BY <2>1
    <3>5. CASE ns[i] >= ns[k + 1]
      BY <2>1, <3>1, <3>2, <3>4, <3>5
    <3>6. CASE ns[k + 1] > ns[i]
      <4>1. \A j \in 1 .. k + 1 : ns[k + 1] >= ns[j]
        BY <1>1, <2>1, <3>1, <3>2, <3>3, <3>4, <3>6
      <4> QED BY <2>1, <4>1
    <3> QED BY <1>1, <2>1, <3>4, <3>5, <3>6
  <2> QED BY <2>2, <2>3
<1> HIDE DEF T
<1>4. n \in T
  <2>1. \A k \in 0 .. n : k \in T
    BY <1>1, <1>2, <1>3, UpTo
  <2> QED BY <1>1, <2>1
<1>5. PICK i \in 1 .. n : \A j \in 1 .. n : ns[i] >= ns[j]
  BY <1>1, <1>4 DEF T
<1>6. ns[i] \in ToSet(ns) /\ \A m \in ToSet(ns) : ns[i] >= m
  BY <1>1, <1>5 DEF ToSet
<1>7. Largest(ns) \in ToSet(ns) /\ \A m \in ToSet(ns) : Largest(ns) >= m
  BY <1>6 DEF Largest
<1> QED BY <1>1, <1>7 DEF ToSet

LEMMA LeastIn ==
  ASSUME NEW ns \in Seq(Int), Len(ns) > 0
  PROVE  Smallest(ns) \in ToSet(ns) /\ \A i \in DOMAIN ns : Smallest(ns) <= ns[i]
<1> DEFINE n == Len(ns)
           T == {k \in 0 .. n : k = 0 \/ \E i \in 1 .. k : \A j \in 1 .. k : ns[i] <= ns[j]}
<1>1. n \in Nat /\ n > 0 /\ DOMAIN ns = 1 .. n /\ \A i \in 1 .. n : ns[i] \in Int
  OBVIOUS
<1>2. 0 \in T
  BY <1>1
<1>3. ASSUME NEW k \in 0 .. n, k < n, k \in T PROVE k + 1 \in T
  <2>1. k + 1 \in 0 .. n /\ k + 1 \in 1 .. n /\ k \in Nat
    BY <1>1, <1>3
  <2>2. CASE k = 0
    <3>1. \A j \in 1 .. k + 1 : j = k + 1
      BY <2>2
    <3>2. \A j \in 1 .. k + 1 : ns[k + 1] <= ns[j]
      BY <1>1, <2>1, <3>1
    <3> QED BY <2>1, <3>2
  <2>3. CASE k # 0
    <3>1. PICK i \in 1 .. k : \A j \in 1 .. k : ns[i] <= ns[j]
      BY <1>3, <2>3
    <3>2. \A j \in 1 .. k + 1 : j \in 1 .. k \/ j = k + 1
      BY <2>1
    <3>3. \A j \in 1 .. k + 1 : j \in 1 .. n
      BY <2>1
    <3>4. i \in 1 .. k + 1 /\ i \in 1 .. n
      BY <2>1
    <3>5. CASE ns[i] <= ns[k + 1]
      BY <2>1, <3>1, <3>2, <3>4, <3>5
    <3>6. CASE ns[k + 1] < ns[i]
      <4>1. \A j \in 1 .. k + 1 : ns[k + 1] <= ns[j]
        BY <1>1, <2>1, <3>1, <3>2, <3>3, <3>4, <3>6
      <4> QED BY <2>1, <4>1
    <3> QED BY <1>1, <2>1, <3>4, <3>5, <3>6
  <2> QED BY <2>2, <2>3
<1> HIDE DEF T
<1>4. n \in T
  <2>1. \A k \in 0 .. n : k \in T
    BY <1>1, <1>2, <1>3, UpTo
  <2> QED BY <1>1, <2>1
<1>5. PICK i \in 1 .. n : \A j \in 1 .. n : ns[i] <= ns[j]
  BY <1>1, <1>4 DEF T
<1>6. ns[i] \in ToSet(ns) /\ \A m \in ToSet(ns) : ns[i] <= m
  BY <1>1, <1>5 DEF ToSet
<1>7. Smallest(ns) \in ToSet(ns) /\ \A m \in ToSet(ns) : Smallest(ns) <= m
  BY <1>6 DEF Smallest
<1> QED BY <1>1, <1>7 DEF ToSet

LEMMA WrappedType ==
  ASSUME NEW n \in Int
  PROVE  Wrapped(n) \in Int
<1>1. MaxGoInt \in Int /\ 2 * (MaxGoInt + 1) > 0 /\ 2 * (MaxGoInt + 1) \in Int
  BY TreesAssumption
<1> DEFINE w == 2 * (MaxGoInt + 1)
           m == n + MaxGoInt + 1
<1>2. m \in Int /\ w \in Int /\ w > 0
  BY <1>1
<1> HIDE DEF m, w
<1>3. m % w \in Int
  BY <1>2
<1> QED BY <1>1, <1>3 DEF Wrapped, m, w

LEMMA FloorDivType ==
  ASSUME NEW a \in Int, NEW b \in Int, b # 0
  PROVE  FloorDiv(a, b) \in Int
<1>1. CASE b > 0
  BY <1>1 DEF FloorDiv
<1>2. CASE ~(b > 0)
  <2>1. -a \in Int /\ -b \in Int /\ -b > 0
    BY <1>2
  <2> DEFINE c == -a
             d == -b
  <2>2. c \in Int /\ d \in Int /\ d > 0
    BY <2>1
  <2> HIDE DEF c, d
  <2>3. c \div d \in Int
    BY <2>2
  <2> QED BY <1>2, <2>3 DEF FloorDiv, c, d
<1> QED BY <1>1, <1>2

LEMMA RolledType ==
  ASSUME NEW count \in Int, NEW sides \in Int, NEW luck \in {0, 1}
  PROVE  Rolled(count, sides, luck) \in ValuesOf(Nat) \cup {Refused}
<1>1. ASSUME FitsCount(count) PROVE count \in Nat
  BY <1>1, TreesAssumption DEF FitsCount
<1>2. luck * count \in Int
  OBVIOUS
<1>3. luck * count * (sides - 1) \in Int
  OBVIOUS
<1>4. count + luck * count * (sides - 1) \in Int
  BY <1>3
<1> QED BY <1>1, <1>4 DEF Rolled, Value, ValuesOf

LEMMA AppliedType ==
  ASSUME NEW x \in Nodes, x.op \notin {"int", "ref"}, NEW ns \in Seq(Int), Len(ns) = x.of,
         NEW luck \in {0, 1}
  PROVE  Applied(x.op, ns, luck)
           \in ValuesOf(IF x.op = "dice" THEN Nat ELSE {0}) \cup {Refused}
<1>0. \A i \in 1 .. Len(ns) : ns[i] \in Int
  OBVIOUS
<1>1. CASE x.op \in {"+", "-", "*", "/", "dice"}
  <2>1. x.of = 2
    BY <1>1 DEF Nodes
  <2>2. ns[1] \in Int /\ ns[2] \in Int
    BY <1>0, <2>1
  <2>a. ns[1] + ns[2] \in Int /\ ns[1] - ns[2] \in Int
    BY <2>2
  <2>3. Wrapped(ns[1] + ns[2]) \in Int /\ Wrapped(ns[1] - ns[2]) \in Int
    BY <2>a, WrappedType
  <2>4. ns[1] * ns[2] \in Int
    BY <2>2
  <2>5. Wrapped(ns[1] * ns[2]) \in Int
    BY <2>4, WrappedType
  <2>6. ns[2] # 0 => Wrapped(FloorDiv(ns[1], ns[2])) \in Int
    BY <2>2, FloorDivType, WrappedType
  <2>7. Rolled(ns[1], ns[2], luck) \in ValuesOf(Nat) \cup {Refused}
    BY <2>2, RolledType
  <2> QED BY <1>1, <2>3, <2>5, <2>6, <2>7 DEF Applied, Value, ValuesOf
<1>2. CASE x.op \in {"floor", "half"}
  <2>1. x.of = 1
    BY <1>2 DEF Nodes
  <2>2. ns[1] \in Int
    BY <1>0, <2>1
  <2>3. FloorDiv(ns[1], 2) \in Int
    <3>1. 2 \in Int /\ 2 # 0
      OBVIOUS
    <3> QED BY <2>2, <3>1, FloorDivType
  <2> QED BY <1>2, <2>2, <2>3 DEF Applied, Value, ValuesOf
<1>3. CASE x.op \in {"max", "min"}
  <2>1. x.of \in Nat /\ x.of > 0
    BY <1>3 DEF Nodes
  <2>2. Largest(ns) \in ToSet(ns) /\ Smallest(ns) \in ToSet(ns)
    BY <2>1, GreatestIn, LeastIn
  <2>3. ToSet(ns) \subseteq Int
    BY DEF ToSet
  <2> QED BY <1>3, <2>2, <2>3 DEF Applied, Value, ValuesOf
<1>4. x.op \in {"+", "-", "*", "/", "dice", "floor", "half", "max", "min"}
  BY DEF Nodes
<1> QED BY <1>1, <1>2, <1>3, <1>4

LEMMA DiceOfType ==
  ASSUME NEW counts \in {Nat, {0}}, NEW vs \in Seq(ValuesOf(counts))
  PROVE  DiceOf(vs) \in counts
<1>1. \A s \in counts, v \in ValuesOf(counts) : StepOf("dice", None, s, v) \in counts
  BY DEF StepOf, ValuesOf
<1>2. 0 \in counts
  OBVIOUS
<1>3. FoldOf("dice", None, 0, vs) \in counts
  BY <1>1, <1>2, FoldOfKeeps
<1> QED BY <1>3, DiceFold

LEMMA WithDiceType ==
  ASSUME NEW counts \in {Nat, {0}}, NEW v \in ValuesOf(counts) \cup {Refused}, NEW d \in counts
  PROVE  WithDice(v, d) \in ValuesOf(counts) \cup {Refused}
<1>1. CASE v = Refused
  BY <1>1 DEF WithDice
<1>2. CASE v # Refused
  <2>1. v \in ValuesOf(counts)
    BY <1>2
  <2>2. v.dice + d \in counts
    BY <2>1 DEF ValuesOf
  <2> QED BY <1>2, <2>1, <2>2 DEF WithDice, ValuesOf
<1> QED BY <1>1, <1>2

LEMMA AppendedType ==
  ASSUME NEW X, NEW s \in Seq(X), NEW x \in X
  PROVE  Append(s, x) \in Seq(X) /\ Append(s, x) # <<>>
<1>1. Append(s, x) \in Seq(X) /\ Len(Append(s, x)) = Len(s) + 1 /\ Len(s) \in Nat
  OBVIOUS
<1>2. Len(<<>>) = 0
  OBVIOUS
<1>3. Append(s, x) # <<>>
  <2> DEFINE a == Append(s, x)
  <2>1. Len(a) # 0
    BY <1>1
  <2> HIDE DEF a
  <2>2. a # <<>>
    BY <2>1, <1>2
  <2> QED BY <2>2 DEF a
<1> QED BY <1>1, <1>3

\* The nodes that roll no more than counts says.
NodesOf(counts) == {x \in Nodes : x.op = "dice" => counts = Nat}

IsContext(ctx) == \A r \in DOMAIN ctx : ctx[r] \in Int

LEMMA EvaluatedType ==
  ASSUME NEW counts \in {Nat, {0}}, NEW values \in Seq(ValuesOf(counts)), NEW x \in NodesOf(counts),
         NEW ctx, IsContext(ctx), NEW luck \in {0, 1}
  PROVE  \/ Evaluated(values, x, ctx, luck) = Refused
         \/ /\ Evaluated(values, x, ctx, luck) \in Seq(ValuesOf(counts))
            /\ Evaluated(values, x, ctx, luck) # <<>>
<1> DEFINE VS == ValuesOf(counts)
           under == Len(values) - (IF x.op \in {"int", "ref"} THEN 0 ELSE x.of)
           v == CASE x.op = "int" -> Value(x.n, 0)
                  [] x.op = "ref" -> IF x.ref \in DOMAIN ctx THEN Value(ctx[x.ref], 0) ELSE Refused
                  [] OTHER -> Combined(x.op, SubSeq(values, under + 1, Len(values)), luck)
<1>1. Evaluated(values, x, ctx, luck) =
        IF under < 0 \/ v = Refused THEN Refused ELSE Append(SubSeq(values, 1, under), v)
  BY DEF Evaluated
<1> SUFFICES ASSUME ~(under < 0), v # Refused
             PROVE  /\ Append(SubSeq(values, 1, under), v) \in Seq(VS)
                    /\ Append(SubSeq(values, 1, under), v) # <<>>
  BY <1>1
<1>2. x \in Nodes /\ (x.op = "dice" => counts = Nat) /\ 0 \in counts /\ Len(values) \in Nat
  BY DEF NodesOf
<1>3. x.op \notin {"int", "ref"} => x.of \in Nat
  BY <1>2 DEF Nodes
<1>4. under \in 0 .. Len(values)
  BY <1>2, <1>3
<1>5. SubSeq(values, 1, under) \in Seq(VS)
  BY <1>4
<1>6. v \in VS
  <2>1. CASE x.op = "int"
    <3>1. x.n \in Int
      BY <1>2, <2>1 DEF Nodes
    <3> QED BY <1>2, <2>1, <3>1 DEF Value, ValuesOf
  <2>2. CASE x.op = "ref"
    BY <1>2, <2>2 DEF Value, ValuesOf, IsContext
  <2>3. CASE x.op \notin {"int", "ref"}
    <3> DEFINE vs == SubSeq(values, under + 1, Len(values))
               ns == [i \in DOMAIN vs |-> vs[i].n]
    <3>1. under = Len(values) - x.of /\ x.of \in Nat
      BY <1>3, <2>3
    <3>2. vs \in Seq(VS) /\ Len(vs) = x.of
      BY <1>2, <1>4, <3>1
    <3>3. v = WithDice(Applied(x.op, ns, luck), DiceOf(vs))
      BY <2>3 DEF Combined
    <3> HIDE DEF vs, v
    <3>4. ns \in Seq(Int) /\ Len(ns) = x.of
      <4>0. \A v1 \in VS : v1.n \in Int
        BY DEF ValuesOf
      <4> HIDE DEF VS
      <4>1. \A i \in DOMAIN vs : vs[i].n \in Int
        BY <3>2, <4>0
      <4>2. DOMAIN vs = 1 .. x.of
        BY <3>2
      <4>3. ns \in [1 .. x.of -> Int]
        BY <4>1, <4>2
      <4> QED BY <3>1, <4>2, <4>3
    <3> HIDE DEF ns
    <3>5. Applied(x.op, ns, luck) \in ValuesOf(IF x.op = "dice" THEN Nat ELSE {0}) \cup {Refused}
      BY <1>2, <2>3, <3>4, AppliedType
    <3>6. Applied(x.op, ns, luck) \in ValuesOf(counts) \cup {Refused}
      BY <1>2, <3>5 DEF ValuesOf
    <3>7. DiceOf(vs) \in counts
      BY <3>2, DiceOfType
    <3> QED BY <3>3, <3>6, <3>7, WithDiceType
  <2> QED BY <2>1, <2>2, <2>3
<1> QED BY <1>5, <1>6, AppendedType

\* Any formula, whatever its nodes.
LEMMA EvalIs ==
  ASSUME NEW counts \in {Nat, {0}}, NEW t \in Seq(NodesOf(counts)), t # <<>>,
         NEW ctx, IsContext(ctx), NEW luck \in {0, 1}
  PROVE  Eval(t, ctx, luck) \in ValuesOf(counts) \cup {Refused}
<1> DEFINE c == [ctx |-> ctx, luck |-> luck]
           VS == ValuesOf(counts)
           n == Len(t)
<1>1. PICK r : Passes("nodes", c, r, <<>>, t)
  BY PassesExist
<1>2. n \in Nat /\ n > 0
  OBVIOUS
<1> DEFINE T == {k \in 0 .. n : r[k] = Refused \/ (r[k] \in Seq(VS) /\ (k > 0 => r[k] # <<>>))}
<1>3. 0 \in T
  <2> HIDE DEF VS
  <2>1. r[0] = <<>> /\ <<>> \in Seq(VS) /\ 0 \in 0 .. n
    BY <1>1, <1>2 DEF Passes
  <2>2. ~(0 > 0)
    OBVIOUS
  <2> QED BY <2>1, <2>2
<1>4. ASSUME NEW k \in 0 .. n, k < n, k \in T PROVE k + 1 \in T
  <2>1. k + 1 \in 1 .. n /\ k + 1 \in 0 .. n /\ (k + 1) - 1 = k
    BY <1>2, <1>4
  <2>2. r[k + 1] = StepOf("nodes", c, r[k], t[k + 1]) /\ t[k + 1] \in NodesOf(counts)
    BY <1>1, <2>1 DEF Passes
  <2>3. r[k + 1] = IF r[k] = Refused THEN Refused ELSE Evaluated(r[k], t[k + 1], ctx, luck)
    BY <2>2 DEF StepOf
  <2>4. CASE r[k] = Refused
    BY <2>1, <2>3, <2>4
  <2>5. CASE r[k] # Refused
    <3>1. r[k] \in Seq(VS)
      BY <1>4, <2>5
    <3> HIDE DEF VS
    <3>2. \/ r[k + 1] = Refused
          \/ r[k + 1] \in Seq(VS) /\ r[k + 1] # <<>>
      BY <2>2, <2>3, <2>5, <3>1, EvaluatedType DEF VS
    <3> QED BY <2>1, <3>2 DEF VS
  <2> QED BY <2>4, <2>5
<1> HIDE DEF T
<1>5. n \in T
  <2>1. \A k \in 0 .. n : k \in T
    BY <1>2, <1>3, <1>4, UpTo
  <2> QED BY <1>2, <2>1
<1>6. EvaluatedAll(t, ctx, luck) = r[n]
  BY <1>1, NodesFold DEF Passes
<1>7. CASE r[n] = Refused
  BY <1>6, <1>7 DEF Eval, ValueIn
<1>8. CASE r[n] # Refused
  <2>1. r[n] \in Seq(VS) /\ r[n] # <<>>
    BY <1>2, <1>5, <1>8 DEF T
  <2>2. r[n][1] \in VS
    BY <2>1
  <2> QED BY <1>6, <1>8, <2>2 DEF Eval, ValueIn
<1> QED BY <1>7, <1>8

LEMMA EvalType ==
  ASSUME NEW t \in Exprs, NEW ctx, IsContext(ctx), NEW luck \in {0, 1}
  PROVE  Eval(t, ctx, luck) \in ValuesOf(Nat) \cup {Refused}
<1>1. NodesOf(Nat) = Nodes
  BY DEF NodesOf
<1>2. t \in Seq(NodesOf(Nat)) /\ t # <<>>
  BY <1>1 DEF Exprs
<1> QED BY <1>2, EvalIs

\* A formula without dice rolls none.
LEMMA NoDiceNoRolls ==
  ASSUME NEW t \in Exprs, ~HasDice(t), NEW ctx, IsContext(ctx), NEW luck \in {0, 1}
  PROVE  Eval(t, ctx, luck) \in ValuesOf({0}) \cup {Refused}
<1>1. t \in Seq(Nodes) /\ t # <<>>
  BY DEF Exprs
<1>2. \A i \in 1 .. Len(t) : t[i] \in ToSet(t)
  BY <1>1 DEF ToSet
<1>3. \A i \in 1 .. Len(t) : t[i] \in NodesOf({0})
  BY <1>1, <1>2 DEF NodesOf, HasDice
<1>4. t \in Seq(NodesOf({0}))
  BY <1>1, <1>3
<1> QED BY <1>1, <1>4, EvalIs


-----------------------------------------------------------------------------
(* What an ability compiles to.                                            *)

\* Some sequence of those flattened has each of what they come to.
LEMMA FlattenedFrom ==
  ASSUME NEW X, NEW n \in Nat, NEW F, \A i \in 1 .. n : F[i] \in Seq(X)
  PROVE  FlattenSeq([i \in 1 .. n |-> F[i]]) \in Seq(X)
<1>1. [i \in 1 .. n |-> F[i]] \in Seq(Seq(X))
  OBVIOUS
<1> QED BY <1>1, FlattenType

\* The contributions of one kind, each of an entry and bound as that is.
OfEntries(ability, kind) ==
  {o \in [entry : DOMAIN ability.compose, c : Contributions,
          bind : {ability.compose[i].bind : i \in DOMAIN ability.compose}] :
     /\ o.c \in ToSet(ability.compose[o.entry].atom.contributes)
     /\ o.c.is = kind
     /\ o.bind = ability.compose[o.entry].bind}

LEMMA ComposedType ==
  ASSUME NEW ability, IsAbility(ability)
  PROVE  /\ Len(ability.compose) \in Nat /\ DOMAIN ability.compose = 1 .. Len(ability.compose)
         /\ \A i \in DOMAIN ability.compose :
              /\ ability.compose[i] \in ToSet(ability.compose)
              /\ ability.compose[i].atom.contributes \in Seq(Contributions)
<1>1. ability.compose \in Seq(ToSet(ability.compose))
  BY DEF IsAbility, IsSeq
<1>2. \A i \in DOMAIN ability.compose : ability.compose[i] \in ToSet(ability.compose)
  BY DEF ToSet
<1> QED BY <1>1, <1>2 DEF IsAbility

LEMMA OfKindType ==
  ASSUME NEW ability, IsAbility(ability), NEW kind
  PROVE  OfKind(ability, kind) \in Seq(OfEntries(ability, kind))
<1> DEFINE X == OfEntries(ability, kind)
           comp == ability.compose
           One(i, c) == IF c.is = kind THEN <<[entry |-> i, c |-> c, bind |-> comp[i].bind]>> ELSE <<>>
           Inner(i) == [j \in DOMAIN comp[i].atom.contributes |-> One(i, comp[i].atom.contributes[j])]
<1>1. Len(comp) \in Nat /\ DOMAIN comp = 1 .. Len(comp)
  BY ComposedType
<1>2. ASSUME NEW i \in DOMAIN comp PROVE FlattenSeq(Inner(i)) \in Seq(X)
  <2> DEFINE cs == comp[i].atom.contributes
  <2>1. cs \in Seq(Contributions)
    BY ComposedType
  <2>2. ASSUME NEW j \in DOMAIN cs PROVE One(i, cs[j]) \in Seq(X)
    <3>1. cs[j] \in Contributions /\ cs[j] \in ToSet(cs)
      BY <2>1 DEF ToSet
    <3>2. CASE cs[j].is = kind
      <4>1. [entry |-> i, c |-> cs[j], bind |-> comp[i].bind] \in X
        BY <3>1, <3>2 DEF OfEntries
      <4> HIDE DEF X
      <4> QED BY <3>2, <4>1
    <3>3. CASE cs[j].is # kind
      <4> HIDE DEF X
      <4> QED BY <3>3
    <3> QED BY <3>2, <3>3
  <2>3. Len(cs) \in Nat /\ DOMAIN cs = 1 .. Len(cs)
    BY <2>1
  <2>4. Inner(i) = [j \in 1 .. Len(cs) |-> One(i, cs[j])]
    BY <2>3
  <2> HIDE DEF X, One, cs
  <2>5. [j \in 1 .. Len(cs) |-> One(i, cs[j])] \in Seq(Seq(X))
    BY <2>2, <2>3
  <2> QED BY <2>4, <2>5, FlattenType
<1>3. OfKind(ability, kind) = FlattenSeq([i \in 1 .. Len(comp) |-> FlattenSeq(Inner(i))])
  BY <1>1 DEF OfKind
<1> HIDE DEF X, Inner, comp
<1>4. [i \in 1 .. Len(comp) |-> FlattenSeq(Inner(i))] \in Seq(Seq(X))
  BY <1>1, <1>2
<1> QED BY <1>3, <1>4, FlattenType DEF X

\* What an atom's template is bound with is a tree for each of its parameters.
BindsTrees(t, bind) == \A p \in ParamsOf(t) : bind[p] \in Exprs

LEMMA BoundTrees ==
  ASSUME NEW rs, NEW ability, IsAbility(ability), NEW i \in DOMAIN ability.compose,
         Binds(rs, ability.compose[i].atom, ability.compose[i].bind),
         NEW t, Declared(ability.compose[i].atom, t)
  PROVE  BindsTrees(t, ability.compose[i].bind)
<1> DEFINE e == ability.compose[i]
<1>1. \A p \in DOMAIN e.bind \cap DOMAIN e.atom.params : IsBound(e.atom.params[p], e.bind[p])
  BY ComposedType DEF IsAbility
<1>2. ASSUME NEW p \in ParamsOf(t) PROVE e.bind[p] \in Exprs
  <2>1. p \in DOMAIN e.atom.params /\ e.atom.params[p] \in {"int", "expr"}
    BY DEF Declared
  <2>2. p \in DOMAIN e.bind
    BY <2>1 DEF Binds
  <2>3. IsBound(e.atom.params[p], e.bind[p])
    BY <1>1, <2>1, <2>2
  <2>4. CASE e.atom.params[p] = "int"
    BY <2>3, <2>4 DEF IsBound
  <2>5. CASE e.atom.params[p] = "expr"
    <3>1. e.bind[p] # Refused
      BY <2>2, <2>5 DEF Binds
    <3> QED BY <2>3, <2>5, <3>1 DEF IsBound
  <2> QED BY <2>1, <2>4, <2>5
<1> QED BY <1>2 DEF BindsTrees

LEMMA SubstitutedType ==
  ASSUME NEW t \in Exprs, NEW bind, BindsTrees(t, bind)
  PROVE  Substituted(t, bind) \in Exprs
<1> DEFINE In(x) == IF IsParam(x) THEN bind[x.ref[3]] ELSE <<x>>
           seqs == [i \in DOMAIN t |-> In(t[i])]
           n == Len(t)
<1>1. t \in Seq(Nodes) /\ n \in Nat /\ n > 0 /\ DOMAIN t = 1 .. n
  BY DEF Exprs
<1>2. ASSUME NEW i \in 1 .. n PROVE In(t[i]) \in Exprs
  <2>1. t[i] \in Nodes /\ t[i] \in ToSet(t)
    BY <1>1 DEF ToSet
  <2>2. CASE IsParam(t[i])
    <3>1. t[i].ref[3] \in ParamsOf(t)
      BY <2>1, <2>2 DEF ParamsOf
    <3> QED BY <2>2, <3>1 DEF BindsTrees
  <2>3. CASE ~IsParam(t[i])
    <3> DEFINE x == t[i]
    <3> HIDE DEF x
    <3>1. x \in Nodes => <<x>> \in Seq(Nodes) /\ <<x>> # <<>>
      OBVIOUS
    <3> QED BY <2>1, <2>3, <3>1 DEF Exprs, x
  <2> QED BY <2>2, <2>3
<1>3. \A i \in 1 .. n : In(t[i]) \in Seq(Nodes) /\ In(t[i]) # <<>>
  BY <1>2 DEF Exprs
<1> HIDE DEF In
<1>4. seqs \in Seq(Seq(Nodes)) /\ Len(seqs) = n /\ seqs[n] = In(t[n])
  BY <1>1, <1>3
<1>5. Substituted(t, bind) = FlattenSeq(seqs)
  BY DEF Substituted, In
<1> HIDE DEF seqs
<1>6. PICK f : Flattens(f, Nodes, seqs)
  BY <1>4, FlattenRuns
<1>7. n - 1 \in 0 .. n /\ n \in 0 .. n /\ n \in 1 .. n
  BY <1>1
<1>8. f[n] = f[n - 1] \o seqs[n] /\ f[n - 1] \in Seq(Nodes) /\ f[n] \in Seq(Nodes)
      /\ FlattenSeq(seqs) = f[n]
  BY <1>4, <1>6, <1>7 DEF Flattens
<1>9. seqs[n] \in Seq(Nodes) /\ seqs[n] # <<>>
  BY <1>3, <1>4, <1>7
<1>10. Len(seqs[n]) > 0
  BY <1>9
<1>11. Len(f[n]) > 0
  <2> DEFINE a == f[n - 1]
             b == seqs[n]
  <2>1. a \in Seq(Nodes) /\ b \in Seq(Nodes) /\ Len(b) > 0 /\ f[n] = a \o b
    BY <1>8, <1>9, <1>10
  <2> HIDE DEF a, b
  <2>2. Len(a \o b) = Len(a) + Len(b) /\ Len(a) \in Nat /\ Len(b) \in Nat
    BY <2>1
  <2> QED BY <2>1, <2>2
<1>12. f[n] # <<>>
  BY <1>11
<1> QED BY <1>5, <1>8, <1>12 DEF Exprs

CompiledEffects ==
  [is : {"change"}, by : Exprs, entry : Nat]
    \cup [is : {"apply", "remove"}, condition : Conditions, entry : Nat]

IsPower(p) ==
  /\ p.cost # None => p.cost \in Nat
  /\ p.resolution # None => p.resolution.roll \in Exprs /\ p.resolution.vs \in Exprs
  /\ p.effects \in Seq(CompiledEffects)
  /\ p.outcomes[1] \in Seq(CompiledEffects) /\ p.outcomes[2] \in Seq(CompiledEffects)

\* The effects of an outcome, of whatever they were bound.
EffectsOf(o) == {EffectOf(e, o) : e \in ToSet(o.c.effects)}
AllEffects(ability) == UNION {EffectsOf(o) : o \in OfEntries(ability, "outcome")}

LEMMA EffectsOnType ==
  ASSUME NEW ability, IsAbility(ability), NEW Y, NEW order \in Seq(Y), NEW branch
  PROVE  EffectsOn(ability, order, branch) \in Seq(AllEffects(ability))
<1> DEFINE X == AllEffects(ability)
           outs == OfKind(ability, "outcome")
           One(k, o) == IF o.entry = order[k] /\ o.c.branch = branch
                        THEN [m \in DOMAIN o.c.effects |-> EffectOf(o.c.effects[m], o)] ELSE <<>>
           Inner(k) == [n \in DOMAIN outs |-> One(k, outs[n])]
<1>1. outs \in Seq(OfEntries(ability, "outcome"))
  BY OfKindType
<1>2. ASSUME NEW k \in DOMAIN order PROVE FlattenSeq(Inner(k)) \in Seq(X)
  <2>1. ASSUME NEW o \in OfEntries(ability, "outcome") PROVE One(k, o) \in Seq(X)
    <3>1. o.c \in Contributions /\ o.c.is = "outcome"
      BY DEF OfEntries
    <3>2. o.c.effects \in Seq(Effects)
      BY <3>1 DEF Contributions
    <3>3. \A m \in DOMAIN o.c.effects : EffectOf(o.c.effects[m], o) \in EffectsOf(o)
      BY DEF EffectsOf, ToSet
    <3>4. EffectsOf(o) \subseteq X
      BY DEF AllEffects
    <3> HIDE DEF X
    <3>5. \A m \in DOMAIN o.c.effects : EffectOf(o.c.effects[m], o) \in X
      BY <3>3, <3>4
    <3>6. Len(o.c.effects) \in Nat /\ DOMAIN o.c.effects = 1 .. Len(o.c.effects)
      BY <3>2
    <3>7. [m \in DOMAIN o.c.effects |-> EffectOf(o.c.effects[m], o)] \in Seq(X)
      BY <3>5, <3>6
    <3> QED BY <3>7
  <2> HIDE DEF X, One, outs
  <2>2. DOMAIN outs = 1 .. Len(outs) /\ Len(outs) \in Nat
        /\ \A n \in 1 .. Len(outs) : outs[n] \in OfEntries(ability, "outcome")
    BY <1>1
  <2>3. Inner(k) \in Seq(Seq(X))
    BY <2>1, <2>2
  <2> QED BY <2>3, FlattenType
<1>3. EffectsOn(ability, order, branch) = FlattenSeq([k \in DOMAIN order |-> FlattenSeq(Inner(k))])
  BY DEF EffectsOn
<1>4. DOMAIN order = 1 .. Len(order) /\ Len(order) \in Nat
  OBVIOUS
<1> HIDE DEF X, Inner
<1>5. [k \in DOMAIN order |-> FlattenSeq(Inner(k))] \in Seq(Seq(X))
  BY <1>2, <1>4
<1> QED BY <1>3, <1>5, FlattenType DEF X

\* An entry's contributions load and are bound.
Loaded(rs, ability) == \A e \in ToSet(ability.compose) : LoadsAtom(e.atom) /\ Binds(rs, e.atom, e.bind)

LEMMA EffectType ==
  ASSUME NEW rs, IsRuleset(rs), NEW ability, IsAbility(ability), Loaded(rs, ability),
         NEW x \in AllEffects(ability), EffectCompiles(rs, x)
  PROVE  x \in CompiledEffects
<1>1. PICK o \in OfEntries(ability, "outcome") : x \in EffectsOf(o)
  BY DEF AllEffects
<1>2. PICK e \in ToSet(o.c.effects) : x = EffectOf(e, o)
  BY <1>1 DEF EffectsOf
<1> DEFINE entry == ability.compose[o.entry]
<1>3. /\ o.entry \in DOMAIN ability.compose /\ o.entry \in Nat
      /\ o.c \in Contributions /\ o.c.is = "outcome" /\ o.bind = entry.bind
      /\ o.c \in ToSet(entry.atom.contributes)
  BY ComposedType DEF OfEntries
<1>4. o.c.effects \in Seq(Effects)
  BY <1>3 DEF Contributions
<1>5. e \in Effects
  BY <1>4 DEF ToSet
<1>6. LoadsAtom(entry.atom) /\ Binds(rs, entry.atom, entry.bind)
  BY <1>3, ComposedType DEF Loaded
<1>7. OutcomeLoads(entry.atom, o.c)
  BY <1>3, <1>6 DEF LoadsAtom, ContributionLoads
<1>8. CASE e.is = "change"
  <2>1. e.by \in Exprs
    BY <1>5, <1>8 DEF Effects
  <2>2. Declared(entry.atom, e.by)
    BY <1>7, <1>8 DEF OutcomeLoads
  <2>3. BindsTrees(e.by, o.bind)
    BY <1>3, <1>6, <2>2, BoundTrees
  <2>4. Substituted(e.by, o.bind) \in Exprs
    BY <2>1, <2>3, SubstitutedType
  <2>5. x = [is |-> "change", by |-> Substituted(e.by, o.bind), entry |-> o.entry]
    BY <1>2, <1>8 DEF EffectOf
  <2> QED BY <1>3, <2>4, <2>5 DEF CompiledEffects
<1>9. CASE e.is # "change"
  <2>1. x = [is |-> e.is, condition |-> BoundName(e.condition, o.bind), entry |-> o.entry]
    BY <1>2, <1>9 DEF EffectOf
  <2>2. e.is \in {"apply", "remove"}
    BY <1>5, <1>9 DEF Effects
  <2>3. x.condition \in Conditions
    BY <2>1, <2>2 DEF EffectCompiles, IsRuleset
  <2> QED BY <1>3, <2>1, <2>2, <2>3 DEF CompiledEffects
<1> QED BY <1>8, <1>9

LEMMA ResolutionType ==
  ASSUME NEW rs, NEW ability, IsAbility(ability), Loaded(rs, ability),
         NEW r \in OfEntries(ability, "resolution")
  PROVE  ResolutionOf(r).roll \in Exprs /\ ResolutionOf(r).vs \in Exprs
<1> DEFINE entry == ability.compose[r.entry]
<1>1. /\ r.entry \in DOMAIN ability.compose
      /\ r.c \in Contributions /\ r.c.is = "resolution" /\ r.bind = entry.bind
      /\ r.c \in ToSet(entry.atom.contributes)
  BY DEF OfEntries
<1>2. LoadsAtom(entry.atom) /\ Binds(rs, entry.atom, entry.bind)
  BY <1>1, ComposedType DEF Loaded
<1>3. Declared(entry.atom, r.c.roll) /\ Declared(entry.atom, r.c.vs)
  BY <1>1, <1>2 DEF LoadsAtom, ContributionLoads, ResolutionLoads
<1>4. r.c.roll \in Exprs /\ r.c.vs \in Exprs
  BY <1>1 DEF Contributions
<1>5. BindsTrees(r.c.roll, r.bind) /\ BindsTrees(r.c.vs, r.bind)
  BY <1>1, <1>2, <1>3, BoundTrees
<1> QED BY <1>4, <1>5, SubstitutedType DEF ResolutionOf


-----------------------------------------------------------------------------
(* The sort of a composition.                                              *)

LEMMA WiderSeq ==
  ASSUME NEW X, NEW Y, X \subseteq Y, NEW s \in Seq(X)
  PROVE  s \in Seq(Y)
OBVIOUS

LEMMA ReadyFirst ==
  ASSUME NEW n \in Nat, NEW atoms, DOMAIN atoms = 1 .. n, NEW placed, Ready(atoms, placed) # {}
  PROVE  Smallest(SetToSeq(Ready(atoms, placed))) \in Ready(atoms, placed)
<1> DEFINE R == Ready(atoms, placed)
           s == SetToSeq(R)
<1>1. R \subseteq 1 .. n
  BY DEF Ready
<1>2. IsFiniteSet(R)
  BY <1>1, FS_Interval, FS_Subset
<1>3. /\ s \in Seq(R)
      /\ \A x \in R : \E i \in 1 .. Len(s) : s[i] = x
  BY <1>2, Walk
<1> HIDE DEF s, R
<1>4. R # {}
  BY DEF R
<1>5. Len(s) > 0
  <2>1. PICK x \in R : TRUE
    BY <1>4
  <2>2. PICK i \in 1 .. Len(s) : s[i] = x
    BY <1>3, <2>1
  <2>3. Len(s) \in Nat
    BY <1>3
  <2> QED BY <2>2, <2>3
<1>8. s \in Seq(Int)
  <2>1. R \subseteq Int
    BY <1>1
  <2> QED BY <1>3, <2>1, WiderSeq
<1>6. Smallest(s) \in ToSet(s)
  BY <1>5, <1>8, LeastIn
<1>7. ToSet(s) \subseteq R
  BY <1>3 DEF ToSet
<1> QED BY <1>6, <1>7 DEF s, R

\* Each entry once, and each behind all that provides what it consumes.
IsOrder(atoms, order) ==
  /\ \A i, j \in DOMAIN order : order[i] = order[j] => i = j
  /\ \A j \in DOMAIN order : \A k \in atoms[order[j]].consumes : \A p \in ProvidersOf(atoms, k) :
       \E i \in DOMAIN order : i < j /\ order[i] = p

LEMMA PlacedNext ==
  ASSUME NEW n \in Nat, NEW atoms, DOMAIN atoms = 1 .. n,
         NEW placed \in Seq(1 .. n), IsOrder(atoms, placed), NEW x \in Ready(atoms, placed)
  PROVE  /\ Append(placed, x) \in Seq(1 .. n)
         /\ Len(Append(placed, x)) = Len(placed) + 1
         /\ IsOrder(atoms, Append(placed, x))
<1> DEFINE m == Len(placed)
           q == Append(placed, x)
<1>1. m \in Nat /\ DOMAIN placed = 1 .. m /\ x \in 1 .. n /\ x \notin ToSet(placed)
  BY DEF Ready
<1>2. q \in Seq(1 .. n) /\ Len(q) = m + 1 /\ q[m + 1] = x /\ \A i \in 1 .. m : q[i] = placed[i]
  BY <1>1
<1>3. DOMAIN q = 1 .. m + 1
  BY <1>2
<1> HIDE DEF q
<1>4. \A i \in 1 .. m : placed[i] # x
  BY <1>1 DEF ToSet
<1>5. ASSUME NEW i \in DOMAIN q, NEW j \in DOMAIN q, q[i] = q[j] PROVE i = j
  <2>1. \A k \in DOMAIN q : k \in 1 .. m \/ k = m + 1
    BY <1>1, <1>3
  <2> QED BY <1>1, <1>2, <1>4, <1>5, <2>1 DEF IsOrder
<1>6. ASSUME NEW j \in DOMAIN q, NEW k \in atoms[q[j]].consumes, NEW p \in ProvidersOf(atoms, k)
      PROVE  \E i \in DOMAIN q : i < j /\ q[i] = p
  <2>1. CASE j \in 1 .. m
    <3>1. PICK i \in 1 .. m : i < j /\ placed[i] = p
      BY <1>1, <1>2, <2>1 DEF IsOrder
    <3>2. i \in 1 .. m + 1
      BY <1>1
    <3> QED BY <1>2, <1>3, <3>1, <3>2
  <2>2. CASE j = m + 1
    <3>1. p \in ToSet(placed)
      BY <1>2, <2>2 DEF Ready
    <3>2. PICK i \in 1 .. m : placed[i] = p
      BY <1>1, <3>1 DEF ToSet
    <3>3. i \in 1 .. m + 1 /\ i < m + 1
      BY <1>1
    <3> QED BY <1>2, <1>3, <2>2, <3>2, <3>3
  <2>3. j \in 1 .. m \/ j = m + 1
    BY <1>1, <1>3
  <2> QED BY <2>1, <2>2, <2>3
<1>7. IsOrder(atoms, q)
  BY <1>5, <1>6 DEF IsOrder
<1> QED BY <1>2, <1>7 DEF q

LEMMA SortedIs ==
  ASSUME NEW n \in Nat, NEW atoms, DOMAIN atoms = 1 .. n, Sorted(atoms) # Refused
  PROVE  /\ Sorted(atoms) \in Seq(1 .. n)
         /\ Len(Sorted(atoms)) = n
         /\ IsOrder(atoms, Sorted(atoms))
<1> DEFINE items == [i \in DOMAIN atoms |-> i]
<1>1. items \in Seq(1 .. n) /\ Len(items) = n
  OBVIOUS
<1> HIDE DEF items
<1>2. PICK r : Passes("atoms", atoms, r, <<>>, items)
  BY <1>1, PassesExist
<1> DEFINE Right(k) == /\ r[k] \in Seq(1 .. n)
                       /\ Len(r[k]) = k
                       /\ IsOrder(atoms, r[k])
           T == {k \in 0 .. n : r[k] = Refused \/ Right(k)}
<1>3. 0 \in T
  <2>1. r[0] = <<>>
    BY <1>2 DEF Passes
  <2>2. IsOrder(atoms, <<>>)
    BY DEF IsOrder
  <2>3. <<>> \in Seq(1 .. n) /\ Len(<<>>) = 0
    OBVIOUS
  <2>4. Right(0)
    BY <2>1, <2>2, <2>3
  <2>5. 0 \in 0 .. n
    OBVIOUS
  <2> QED BY <2>4, <2>5
<1>4. ASSUME NEW k \in 0 .. n, k < n, k \in T PROVE k + 1 \in T
  <2>1. k + 1 \in 1 .. n /\ k + 1 \in 0 .. n /\ (k + 1) - 1 = k
    BY <1>4
  <2>2. r[k + 1] = StepOf("atoms", atoms, r[k], items[k + 1])
    BY <1>1, <1>2, <2>1 DEF Passes
  <2>3. r[k + 1] = IF r[k] = Refused \/ Ready(atoms, r[k]) = {} THEN Refused
                   ELSE Append(r[k], Smallest(SetToSeq(Ready(atoms, r[k]))))
    BY <2>2 DEF StepOf
  <2>4. CASE r[k] = Refused \/ Ready(atoms, r[k]) = {}
    BY <2>1, <2>3, <2>4
  <2>5. CASE ~(r[k] = Refused \/ Ready(atoms, r[k]) = {})
    <3>1. Right(k)
      BY <1>4, <2>5
    <3> DEFINE x == Smallest(SetToSeq(Ready(atoms, r[k])))
    <3>2. x \in Ready(atoms, r[k])
      BY <2>5, ReadyFirst
    <3>3. r[k + 1] = Append(r[k], x)
      BY <2>3, <2>5
    <3> HIDE DEF x
    <3>4. Right(k + 1)
      BY <3>1, <3>2, <3>3, PlacedNext
    <3> QED BY <2>1, <3>4
  <2> QED BY <2>4, <2>5
<1> HIDE DEF T
<1>5. \A k \in 0 .. n : k \in T
  BY <1>3, <1>4, UpTo
<1>6. n \in T
  BY <1>5
<1>7. Sorted(atoms) = r[n]
  BY <1>1, <1>2, AtomsFold DEF Passes, items
<1> QED BY <1>6, <1>7 DEF T

LEMMA AtomsOfType ==
  ASSUME NEW ability, IsAbility(ability)
  PROVE  /\ Len(ability.compose) \in Nat
         /\ DOMAIN AtomsOf(ability) = 1 .. Len(ability.compose)
         /\ \A i \in DOMAIN ability.compose : AtomsOf(ability)[i] = ability.compose[i].atom
BY ComposedType DEF AtomsOf

\* What compiles: what it is made of, and its order.
LEMMA CompiledIs ==
  ASSUME NEW rs, NEW ability, Compile(rs, ability) # Refused
  PROVE  LET order == RunOrder(AtomsOf(ability))
             targeting == CompiledTargeting(OfKind(ability, "targeting"))
             resolution == CompiledResolution(rs, OfKind(ability, "resolution"))
             p == Powered(ability, order, targeting, resolution)
         IN  /\ LoadsRuleset(rs) /\ Loaded(rs, ability)
             /\ ability.cost # None => ability.cost >= 0
             /\ order # Refused /\ targeting # Refused /\ resolution # Refused
             /\ PowerCompiles(rs, ability, p)
             /\ Compile(rs, ability) = p
BY DEF Compile, Assembled, CompiledOrRefused, Loaded

LEMMA OrderIs ==
  ASSUME NEW atoms, RunOrder(atoms) # Refused
  PROVE  /\ RunOrder(atoms) = Sorted(atoms)
         /\ OneProvider(atoms) /\ ConsumedIsProvided(atoms) /\ PhasesAgree(atoms)
BY DEF RunOrder

\* The effects of a branch are of their type where they all compile.
LEMMA BranchType ==
  ASSUME NEW rs, IsRuleset(rs), NEW ability, IsAbility(ability), Loaded(rs, ability),
         NEW Y, NEW order \in Seq(Y), NEW branch,
         \A e \in ToSet(EffectsOn(ability, order, branch)) : EffectCompiles(rs, e)
  PROVE  EffectsOn(ability, order, branch) \in Seq(CompiledEffects)
<1> DEFINE es == EffectsOn(ability, order, branch)
<1>1. es \in Seq(AllEffects(ability))
  BY EffectsOnType
<1> HIDE DEF es
<1>2. \A i \in 1 .. Len(es) : es[i] \in AllEffects(ability) /\ es[i] \in ToSet(es)
  BY <1>1 DEF ToSet
<1>3. \A i \in 1 .. Len(es) : es[i] \in CompiledEffects
  BY <1>2, EffectType DEF es
<1>4. es \in Seq(CompiledEffects)
  BY <1>1, <1>3
<1> QED BY <1>4 DEF es

LEMMA ToSetBoth ==
  ASSUME NEW X, NEW a \in Seq(X), NEW b \in Seq(X)
  PROVE  ToSet(a \o b) = ToSet(a) \cup ToSet(b)
<1>1. \A x \in ToSet(a) : x \in ToSet(a \o b)
  BY DEF ToSet
<1>2. \A x \in ToSet(b) : x \in ToSet(a \o b)
  <2> SUFFICES ASSUME NEW i \in 1 .. Len(b) PROVE b[i] \in ToSet(a \o b)
    BY DEF ToSet
  <2>1. Len(a) + i \in DOMAIN (a \o b) /\ (a \o b)[Len(a) + i] = b[i]
    OBVIOUS
  <2> QED BY <2>1 DEF ToSet
<1>3. \A x \in ToSet(a \o b) : x \in ToSet(a) \cup ToSet(b)
  <2> SUFFICES ASSUME NEW i \in 1 .. Len(a) + Len(b) PROVE (a \o b)[i] \in ToSet(a) \cup ToSet(b)
    BY DEF ToSet
  <2>1. CASE i <= Len(a)
    BY <2>1 DEF ToSet
  <2>2. CASE i > Len(a)
    <3>1. (a \o b)[i] = b[i - Len(a)] /\ i - Len(a) \in 1 .. Len(b)
      BY <2>2
    <3> QED BY <3>1 DEF ToSet
  <2> QED BY <2>1, <2>2
<1> QED BY <1>1, <1>2, <1>3

LEMMA PowerType ==
  ASSUME NEW rs, IsRuleset(rs), NEW ability, IsAbility(ability), Compile(rs, ability) # Refused
  PROVE  IsPower(Compile(rs, ability)) /\ LoadsRuleset(rs)
<1> DEFINE order == RunOrder(AtomsOf(ability))
           targeting == CompiledTargeting(OfKind(ability, "targeting"))
           resolution == CompiledResolution(rs, OfKind(ability, "resolution"))
           p == Powered(ability, order, targeting, resolution)
           n == Len(ability.compose)
<1>1. /\ LoadsRuleset(rs) /\ Loaded(rs, ability)
      /\ ability.cost # None => ability.cost >= 0
      /\ order # Refused /\ targeting # Refused /\ resolution # Refused
      /\ PowerCompiles(rs, ability, p)
      /\ Compile(rs, ability) = p
  BY CompiledIs
<1>2. order \in Seq(1 .. n)
  <2>1. order = Sorted(AtomsOf(ability)) /\ Sorted(AtomsOf(ability)) # Refused
    BY <1>1, OrderIs
  <2> QED BY <2>1, AtomsOfType, SortedIs
<1>3. p.cost = ability.cost /\ p.resolution = resolution /\ p.effects = EffectsOn(ability, order, "always")
      /\ p.outcomes = IF resolution = None THEN <<<<>>, <<>>>>
                      ELSE [b \in 1 .. 2 |-> EffectsOn(ability, order, resolution.branches[b])]
  BY DEF Powered
<1>4. p.cost # None => p.cost \in Nat
  BY <1>1, <1>3 DEF IsAbility
<1>5. p.resolution # None => p.resolution.roll \in Exprs /\ p.resolution.vs \in Exprs
  <2> DEFINE r == OfKind(ability, "resolution")
  <2>1. r \in Seq(OfEntries(ability, "resolution"))
    BY OfKindType
  <2> HIDE DEF r
  <2>2. resolution = CompiledResolution(rs, r)
    BY DEF r
  <2>3. resolution # None => Len(r) = 1 /\ resolution = ResolutionOf(r[1])
    BY <1>1, <2>1, <2>2 DEF CompiledResolution
  <2>4. Len(r) = 1 => r[1] \in OfEntries(ability, "resolution")
    BY <2>1
  <2> HIDE DEF resolution, p
  <2> QED BY <1>1, <1>3, <2>3, <2>4, ResolutionType
<1> DEFINE X == AllEffects(ability)
<1>6. EffectsOn(ability, order, "always") \in Seq(X)
  BY <1>2, EffectsOnType
<1>7. p.effects \in Seq(X) /\ p.outcomes[1] \in Seq(X) /\ p.outcomes[2] \in Seq(X)
  <2>1. CASE resolution = None
    <3> HIDE DEF resolution, order, p, X
    <3> QED BY <1>3, <1>6, <2>1
  <2>2. CASE resolution # None
    <3>1. EffectsOn(ability, order, resolution.branches[1]) \in Seq(X)
          /\ EffectsOn(ability, order, resolution.branches[2]) \in Seq(X)
      BY <1>2, EffectsOnType
    <3> HIDE DEF resolution, order, p, X
    <3> QED BY <1>3, <1>6, <2>2, <3>1
  <2> QED BY <2>1, <2>2
<1>8. \A e \in ToSet(p.effects) \cup ToSet(p.outcomes[1]) \cup ToSet(p.outcomes[2]) :
        EffectCompiles(rs, e)
  <2> HIDE DEF p, X
  <2>1. p.effects \o p.outcomes[1] \in Seq(X)
    BY <1>7
  <2>2. ToSet(p.effects \o p.outcomes[1] \o p.outcomes[2]) =
          ToSet(p.effects) \cup ToSet(p.outcomes[1]) \cup ToSet(p.outcomes[2])
    <3> DEFINE a == p.effects
               b == p.outcomes[1]
               c == p.outcomes[2]
    <3>1. ToSet(a \o b) = ToSet(a) \cup ToSet(b)
      BY <1>7, ToSetBoth
    <3>2. ToSet((a \o b) \o c) = ToSet(a \o b) \cup ToSet(c)
      BY <1>7, <2>1, ToSetBoth
    <3> QED BY <3>1, <3>2
  <2> QED BY <1>1, <2>2 DEF PowerCompiles
<1>9. p.effects \in Seq(CompiledEffects) /\ p.outcomes[1] \in Seq(CompiledEffects)
      /\ p.outcomes[2] \in Seq(CompiledEffects)
  <2>1. \A s \in {p.effects, p.outcomes[1], p.outcomes[2]} :
          s = <<>> \/ \E branch : s = EffectsOn(ability, order, branch)
    <3> HIDE DEF p, order, resolution
    <3> QED BY <1>3
  <2>2. ASSUME NEW s \in {p.effects, p.outcomes[1], p.outcomes[2]} PROVE s \in Seq(CompiledEffects)
    <3> HIDE DEF p, order
    <3>1. CASE s = <<>>
      BY <3>1
    <3>2. ASSUME NEW branch, s = EffectsOn(ability, order, branch) PROVE s \in Seq(CompiledEffects)
      <4>1. \A e \in ToSet(s) : EffectCompiles(rs, e)
        BY <1>8
      <4> QED BY <1>1, <1>2, <3>2, <4>1, BranchType
    <3> QED BY <2>1, <3>1, <3>2
  <2> QED BY <2>2
<1> HIDE DEF p
<1> QED BY <1>1, <1>4, <1>5, <1>9 DEF IsPower


-----------------------------------------------------------------------------
(* A use of an ability: what it has done so far is what the fold makes of  *)
(* the events so far, and each die it threw is recorded.                   *)

Turns == {e \in Events : e.type \in {"AbilityUsed", "ResourceChanged", "ConditionApplied",
                                       "ConditionRemoved"}}
RunSet == [cur : [Actors -> Int32], conditions : [Actors -> SUBSET Conditions],
           changed : Seq(Actors), events : Seq(Turns), dice : Nat, recorded : Nat]

\* The state a run stands for.
Mirror(st, run) ==
  [st EXCEPT !.actors = [a \in Actors |-> IF HasActor(st, a)
                                          THEN [st.actors[a] EXCEPT !.cur = run.cur[a]] ELSE None],
             !.conditions = run.conditions]

Follows(st, run) ==
  /\ run \in RunSet
  /\ Folded(st, Batch(run)) = Mirror(st, run)
  /\ \A a \in ToSet(run.changed) : HasActor(st, a)
  /\ AllRecorded(run)

Following(st) == {run \in RunSet : Follows(st, run)}
Outcomes(st) == Following(st) \cup {Refused}

LEMMA NarrowedIs ==
  ASSUME NEW n \in Int32
  PROVE  Narrowed(n) = n
<1> DEFINE w == 2 * (MaxInt + 1)
           m == n + MaxInt + 1
<1>1. MaxInt \in Nat
  BY EngineAssumption
<1>2. m \in Nat /\ w \in Nat /\ w > 0 /\ m < w /\ m - (MaxInt + 1) = n
  BY <1>1 DEF Int32
<1> HIDE DEF m, w
<1>3. m % w = m
  BY <1>2
<1> QED BY <1>2, <1>3 DEF Narrowed, m, w

LEMMA MirrorType ==
  ASSUME NEW st \in State, NEW run \in RunSet
  PROVE  /\ Mirror(st, run) \in State
         /\ \A a \in Actors : HasActor(Mirror(st, run), a) <=> HasActor(st, a)
         /\ \A a \in Actors : HasActor(st, a) =>
              Mirror(st, run).actors[a] = [st.actors[a] EXCEPT !.cur = run.cur[a]]
         /\ Mirror(st, run).conditions = run.conditions
<1> DEFINE m == Mirror(st, run)
           A(a) == IF HasActor(st, a) THEN [st.actors[a] EXCEPT !.cur = run.cur[a]] ELSE None
<1>1. run.cur \in [Actors -> Int32] /\ run.conditions \in [Actors -> SUBSET Conditions]
  BY DEF RunSet
<1>2. \A a \in Actors : HasActor(st, a) => A(a) \in Actor
  BY <1>1 DEF HasActor, State, Actor
<1>3. m.actors = [a \in Actors |-> A(a)] /\ m.conditions = run.conditions
  BY DEF Mirror, State
<1>4. \A a \in Actors : A(a) \in Actor \cup {None}
  BY <1>2
<1> HIDE DEF A
<1>5. [a \in Actors |-> A(a)] \in [Actors -> Actor \cup {None}]
  BY <1>4
<1>6. m \in State
  BY <1>1, <1>5 DEF Mirror, State, A
<1>7. \A a \in Actors : m.actors[a] = A(a)
  BY <1>3
<1> HIDE DEF m
<1>8. \A a \in Actors : HasActor(m, a) <=> HasActor(st, a)
  BY <1>2, <1>7, EngineAssumption DEF HasActor, A
<1>9. \A a \in Actors : HasActor(st, a) => m.actors[a] = [st.actors[a] EXCEPT !.cur = run.cur[a]]
  BY <1>7 DEF A
<1> QED BY <1>3, <1>6, <1>8, <1>9 DEF m

\* An event more.
LEMMA OneMore ==
  ASSUME NEW st \in State, NEW run, Follows(st, run), NEW e \in Turns, Accepts(Mirror(st, run), e),
         NEW next, next.events = Append(run.events, e)
  PROVE  Folded(st, Batch(next)) = After(Mirror(st, run), e)
<1> DEFINE used == <<[type |-> "AbilityUsed"]>>
<1>1. run \in RunSet /\ run.events \in Seq(Turns)
  BY DEF Follows, RunSet
<1>2. used \in Seq(Turns)
  BY DEF Events, Turns
<1>3. used \o run.events \in Seq(Turns) /\ <<e>> \in Seq(Turns)
  BY <1>1, <1>2
<1>4. used \o Append(run.events, e) = (used \o run.events) \o <<e>>
  BY <1>1, <1>2
<1>5. Folded(st, Batch(next)) = Folded(Folded(st, used \o run.events), <<e>>)
  <2>1. Batch(next) = (used \o run.events) \o <<e>>
    BY <1>4 DEF Batch
  <2> DEFINE sofar == used \o run.events
             more == <<e>>
  <2>2. sofar \in Seq(Turns) /\ more \in Seq(Turns) /\ Batch(next) = sofar \o more
    BY <1>3, <2>1
  <2> HIDE DEF sofar, more
  <2>3. Folded(st, sofar \o more) = Folded(Folded(st, sofar), more)
    BY <2>2, FoldedBoth
  <2> QED BY <2>2, <2>3 DEF sofar, more
<1>6. Folded(st, used \o run.events) = Mirror(st, run)
  BY DEF Follows, Batch
<1>7. Mirror(st, run) \in State
  BY <1>1, MirrorType
<1> QED BY <1>5, <1>6, <1>7, Steps

\* The start of one.
LEMMA BegunFollows ==
  ASSUME NEW st \in State
  PROVE  Begun(st) \in Following(st)
<1> DEFINE run == Begun(st)
<1>1. 0 \in Int32
  BY EngineAssumption DEF Int32
<1>2. run \in RunSet
  <2>1. \A a \in Actors : HasActor(st, a) => st.actors[a].cur \in Int32
    BY DEF State, HasActor, Actor
  <2>2. [a \in Actors |-> IF HasActor(st, a) THEN st.actors[a].cur ELSE 0] \in [Actors -> Int32]
    BY <1>1, <2>1
  <2>3. st.conditions \in [Actors -> SUBSET Conditions]
    BY DEF State
  <2> QED BY <2>2, <2>3 DEF Begun, RunSet
<1>3. Mirror(st, run) = st
  <2> DEFINE A(a) == IF HasActor(st, a) THEN [st.actors[a] EXCEPT !.cur = run.cur[a]] ELSE None
  <2>1. \A a \in Actors : A(a) = st.actors[a]
    <3>1. ASSUME NEW a \in Actors, HasActor(st, a) PROVE A(a) = st.actors[a]
      <4>1. st.actors[a] \in Actor
        BY <3>1 DEF HasActor, State
      <4>2. run.cur[a] = st.actors[a].cur
        BY <3>1 DEF Begun
      <4> QED BY <3>1, <4>1, <4>2 DEF Actor
    <3>2. ASSUME NEW a \in Actors, ~HasActor(st, a) PROVE A(a) = st.actors[a]
      BY <3>2 DEF HasActor
    <3> QED BY <3>1, <3>2
  <2> HIDE DEF A
  <2>2. [a \in Actors |-> A(a)] = st.actors
    BY <2>1 DEF State
  <2>3. run.conditions = st.conditions
    BY DEF Begun
  <2>4. Mirror(st, run) = [st EXCEPT !.actors = [a \in Actors |-> A(a)], !.conditions = run.conditions]
    BY DEF Mirror, A
  <2> QED BY <2>2, <2>3, <2>4 DEF State
<1>4. Folded(st, Batch(run)) = st
  <2> DEFINE used == [type |-> "AbilityUsed"]
  <2>1. Batch(run) = <<used>>
    <3>1. <<used>> \o <<>> = <<used>>
      OBVIOUS
    <3> QED BY <3>1 DEF Batch, Begun
  <2>2. Accepts(st, used) /\ After(st, used) = st
    BY DEF Accepts, After
  <2> QED BY <2>1, <2>2, Steps
<1>5. AllRecorded(run) /\ ToSet(run.changed) = {}
  BY DEF AllRecorded, Begun, ToSet
<1> QED BY <1>2, <1>3, <1>4, <1>5 DEF Following, Follows

\* A change of a resource: the fold computes it as the resolver did.
LEMMA AppliedFollows ==
  ASSUME NEW st \in State, NEW run \in Following(st), NEW a \in Actors, HasActor(st, a),
         st.actors[a].body # None, NEW delta \in Int32, AppliedTo(st, run, a, delta).cur[a] \in Int32
  PROVE  AppliedTo(st, run, a, delta) \in Following(st)
<1> DEFINE floored == IF run.cur[a] + delta < 0 THEN 0 ELSE run.cur[a] + delta
           upper == st.actors[a].body
           n == IF upper # None /\ upper > 0 /\ floored > upper THEN upper ELSE floored
           e == [type |-> "ResourceChanged", actor |-> a, delta |-> delta, to |-> n]
           next == AppliedTo(st, run, a, delta)
           now == Mirror(st, run)
<1>1. run \in RunSet /\ Follows(st, run)
  BY DEF Following
<1>2. run.cur \in [Actors -> Int32] /\ run.changed \in Seq(Actors) /\ run.events \in Seq(Turns)
      /\ run.conditions \in [Actors -> SUBSET Conditions] /\ run.dice \in Nat /\ run.recorded \in Nat
  BY <1>1 DEF RunSet
<1>3. n \in Int32
  <2>1. next.cur[a] = n
    BY <1>1, <1>2 DEF AppliedTo, RunSet
  <2> QED BY <2>1
<1>4. Narrowed(n) = n /\ Narrowed(delta) = delta
  BY <1>3, NarrowedIs
<1> HIDE DEF n
<1>5. /\ next.cur = [run.cur EXCEPT ![a] = n]
      /\ next.changed = IF a \in ToSet(run.changed) THEN run.changed ELSE Append(run.changed, a)
      /\ next.events = Append(run.events, e)
      /\ next.conditions = run.conditions /\ next.dice = run.dice /\ next.recorded = run.recorded
      /\ next \in [cur : {next.cur}, conditions : {next.conditions}, changed : {next.changed},
                    events : {next.events}, dice : {next.dice}, recorded : {next.recorded}]
  BY <1>1, <1>4 DEF AppliedTo, RunSet, n
<1>6. e \in Turns
  BY <1>3 DEF Events, Turns
<1> HIDE DEF next, e
<1>7. next.changed \in Seq(Actors) /\ ToSet(next.changed) \subseteq ToSet(run.changed) \cup {a}
  <2>1. CASE a \in ToSet(run.changed)
    BY <1>2, <1>5, <2>1
  <2>2. CASE a \notin ToSet(run.changed)
    BY <1>2, <1>5, <2>2 DEF ToSet
  <2> QED BY <2>1, <2>2
<1>8. next \in RunSet
  <2>1. next.cur \in [Actors -> Int32]
    BY <1>2, <1>3, <1>5
  <2>2. next.events \in Seq(Turns)
    BY <1>2, <1>5, <1>6
  <2> QED BY <1>2, <1>5, <1>7, <2>1, <2>2 DEF RunSet
<1>9. now \in State /\ HasActor(now, a) /\ now.actors[a] = [st.actors[a] EXCEPT !.cur = run.cur[a]]
      /\ now.actors[a] \in Actor
  <2>1. now \in State /\ HasActor(now, a) /\ now.actors[a] = [st.actors[a] EXCEPT !.cur = run.cur[a]]
    BY <1>1, MirrorType
  <2> HIDE DEF now
  <2> QED BY <2>1 DEF State, HasActor
<1>10. st.actors[a] \in Actor
  BY DEF State, HasActor
<1>11. now.actors[a].body = upper /\ now.actors[a].cur = run.cur[a]
  BY <1>9, <1>10 DEF Actor
<1>12. Changed(now.actors[a], delta) = n
  <2> HIDE DEF now
  <2>1. Changed(now.actors[a], delta) = Clamp(run.cur[a] + delta, upper)
    BY <1>11 DEF Changed
  <2> QED BY <2>1 DEF Clamp, n
<1>13. Accepts(now, e)
  <2> HIDE DEF now
  <2> QED BY <1>9, <1>11, <1>12 DEF Accepts, AcceptsChange, e
<1>14. Folded(st, Batch(next)) = After(now, e)
  BY <1>1, <1>5, <1>6, <1>13, OneMore
<1>15. After(now, e) = [now EXCEPT !.actors[a].cur = n]
  <2> HIDE DEF now
  <2> QED BY <1>12 DEF After, e
<1>16. [now EXCEPT !.actors[a].cur = n] = Mirror(st, next)
  <2> DEFINE A(r) == [b \in Actors |-> IF HasActor(st, b) THEN [st.actors[b] EXCEPT !.cur = r.cur[b]] ELSE None]
  <2>1. now = [st EXCEPT !.actors = A(run), !.conditions = run.conditions]
    BY DEF Mirror
  <2>2. Mirror(st, next) = [st EXCEPT !.actors = A(next), !.conditions = run.conditions]
    BY <1>5 DEF Mirror
  <2>3. [A(run) EXCEPT ![a].cur = n] = A(next)
    <3>1. ASSUME NEW b \in Actors PROVE [A(run) EXCEPT ![a].cur = n][b] = A(next)[b]
      <4>1. CASE b = a
        <5>1. next.cur[a] = n
          BY <1>2, <1>5
        <5>2. [[st.actors[a] EXCEPT !.cur = run.cur[a]] EXCEPT !.cur = n] = [st.actors[a] EXCEPT !.cur = n]
          BY <1>10 DEF Actor
        <5> QED BY <4>1, <5>1, <5>2
      <4>2. CASE b # a
        <5>1. next.cur[b] = run.cur[b]
          BY <1>2, <1>5, <4>2
        <5> QED BY <4>2, <5>1
      <4> QED BY <4>1, <4>2
    <3> QED BY <3>1
  <2> HIDE DEF A, now
  <2>4. now.actors = A(run)
    BY <2>1 DEF State
  <2>5. [now EXCEPT !.actors[a].cur = n] = [now EXCEPT !.actors = A(next)]
    BY <1>9, <2>3, <2>4 DEF State
  <2>6. [now EXCEPT !.actors = A(next)] = [st EXCEPT !.actors = A(next), !.conditions = run.conditions]
    BY <2>1 DEF State
  <2> QED BY <2>2, <2>5, <2>6
<1>17. \A b \in ToSet(next.changed) : HasActor(st, b)
  BY <1>1, <1>7 DEF Follows
<1>18. AllRecorded(next)
  BY <1>1, <1>5 DEF AllRecorded, Follows
<1>19. Follows(st, next)
  BY <1>8, <1>14, <1>15, <1>16, <1>17, <1>18 DEF Follows
<1> QED BY <1>8, <1>19 DEF Following, next


\* A condition that comes or goes.
LEMMA ConditionedFollows ==
  ASSUME NEW st \in State, NEW run \in Following(st), NEW a \in Actors, HasActor(st, a),
         NEW c \in Conditions, NEW present \in BOOLEAN
  PROVE  Conditioned(run, a, c, present) \in Following(st)
<1> DEFINE e == [type |-> IF present THEN "ConditionApplied" ELSE "ConditionRemoved",
                 actor |-> a, condition |-> c]
           conds == IF present THEN run.conditions[a] \cup {c} ELSE run.conditions[a] \ {c}
           next == Conditioned(run, a, c, present)
           now == Mirror(st, run)
<1>1. run \in RunSet /\ Follows(st, run)
  BY DEF Following
<1>2. run.cur \in [Actors -> Int32] /\ run.changed \in Seq(Actors) /\ run.events \in Seq(Turns)
      /\ run.conditions \in [Actors -> SUBSET Conditions] /\ run.dice \in Nat /\ run.recorded \in Nat
  BY <1>1 DEF RunSet
<1>3. CASE (c \in run.conditions[a]) = present
  BY <1>3 DEF Conditioned
<1>4. CASE (c \in run.conditions[a]) # present
  <2>1. /\ next.conditions = [run.conditions EXCEPT ![a] = conds]
        /\ next.events = Append(run.events, e)
        /\ next.cur = run.cur /\ next.changed = run.changed
        /\ next.dice = run.dice /\ next.recorded = run.recorded
        /\ next \in [cur : {next.cur}, conditions : {next.conditions}, changed : {next.changed},
                     events : {next.events}, dice : {next.dice}, recorded : {next.recorded}]
    BY <1>1, <1>4 DEF Conditioned, RunSet
  <2>2. e \in Turns
    BY DEF Events, Turns
  <2>3. conds \in SUBSET Conditions
    BY <1>2
  <2> HIDE DEF next, conds
  <2>4. next \in RunSet
    <3>1. next.conditions \in [Actors -> SUBSET Conditions]
      BY <1>2, <2>1, <2>3
    <3>2. next.events \in Seq(Turns)
      <4> HIDE DEF e
      <4> QED BY <1>2, <2>1, <2>2
    <3> QED BY <1>2, <2>1, <3>1, <3>2 DEF RunSet
  <2>5. now \in State /\ HasActor(now, a) /\ now.conditions = run.conditions
    BY <1>1, MirrorType
  <2>6. Accepts(now, e)
    <3> HIDE DEF now
    <3>1. CASE present
      BY <1>4, <2>5, <3>1 DEF Accepts
    <3>2. CASE ~present
      BY <1>4, <2>5, <3>2 DEF Accepts
    <3> QED BY <3>1, <3>2
  <2>7. After(now, e) = [now EXCEPT !.conditions[a] = conds]
    <3> HIDE DEF now
    <3>1. CASE present
      BY <2>5, <3>1 DEF After, conds
    <3>2. CASE ~present
      BY <2>5, <3>2 DEF After, conds
    <3> QED BY <3>1, <3>2
  <2> HIDE DEF e
  <2>8. Folded(st, Batch(next)) = After(now, e)
    BY <1>1, <2>1, <2>2, <2>6, OneMore
  <2>9. [now EXCEPT !.conditions[a] = conds] = Mirror(st, next)
    <3> DEFINE A(r) == [b \in Actors |-> IF HasActor(st, b) THEN [st.actors[b] EXCEPT !.cur = r.cur[b]] ELSE None]
    <3>1. A(run) = A(next)
      BY <2>1
    <3>2. now = [st EXCEPT !.actors = A(run), !.conditions = run.conditions]
      BY DEF Mirror
    <3>3. Mirror(st, next) = [st EXCEPT !.actors = A(run), !.conditions = next.conditions]
      BY <2>1 DEF Mirror
    <3> HIDE DEF A, now
    <3>4. [now EXCEPT !.conditions[a] = conds] = [now EXCEPT !.conditions = next.conditions]
      BY <2>1, <2>5
    <3> QED BY <3>2, <3>3, <3>4 DEF State
  <2>10. (\A b \in ToSet(next.changed) : HasActor(st, b)) /\ AllRecorded(next)
    BY <1>1, <2>1 DEF Follows, AllRecorded
  <2>11. Follows(st, next)
    BY <2>4, <2>7, <2>8, <2>9, <2>10 DEF Follows
  <2> QED BY <2>4, <2>11 DEF Following, next
<1> QED BY <1>3, <1>4

\* Dice that were thrown and recorded, or were not thrown.
LEMMA RecordedFollows ==
  ASSUME NEW st \in State, NEW run \in Following(st), NEW v \in ValuesOf(Nat)
  PROVE  Recorded(run, v) \in Following(st)
<1> DEFINE next == Recorded(run, v)
<1>1. run \in RunSet /\ Follows(st, run) /\ v.dice \in Nat
  BY DEF Following, ValuesOf
<1>6. run.dice + v.dice \in Nat /\ run.recorded + v.dice \in Nat
  BY <1>1 DEF RunSet
<1>2. next \in RunSet /\ next.cur = run.cur /\ next.conditions = run.conditions
      /\ next.changed = run.changed /\ next.events = run.events
  BY <1>1, <1>6 DEF Recorded, RunSet
<1>3. AllRecorded(next)
  BY <1>1 DEF Recorded, AllRecorded, Follows, RunSet
<1> HIDE DEF next
<1>4. Batch(next) = Batch(run) /\ Mirror(st, next) = Mirror(st, run)
  BY <1>2 DEF Batch, Mirror
<1>5. Follows(st, next)
  BY <1>1, <1>2, <1>3, <1>4 DEF Follows
<1> QED BY <1>2, <1>5 DEF Following, next

LEMMA ThrewFollows ==
  ASSUME NEW st \in State, NEW run \in Following(st), NEW v \in ValuesOf({0})
  PROVE  Threw(run, v) \in Following(st)
<1>1. run \in RunSet /\ v.dice = 0
  BY DEF Following, ValuesOf
<1>2. Threw(run, v) = run
  BY <1>1 DEF Threw, RunSet
<1> QED BY <1>2

\* What a formula sees of the actors is numbers.
LEMMA SheetContext ==
  ASSUME NEW st \in State, NEW run \in Following(st), NEW D, NEW who \in [D -> Actors]
  PROVE  IsContext(SheetOf(st, run, who))
<1>1. \A a \in Actors : run.cur[a] \in Int
  BY DEF Following, RunSet, Int32
<1> DEFINE seen == {s \in DOMAIN who : st.actors[who[s]].body # None}
           refs == {<<"#", scope, Resource>> : scope \in seen}
<1>2. \A r \in refs : r[2] \in D
  OBVIOUS
<1> HIDE DEF refs
<1>3. \A r \in refs : run.cur[who[r[2]]] \in Int
  BY <1>1, <1>2
<1>4. SheetOf(st, run, who) = [r \in refs |-> run.cur[who[r[2]]]]
  BY DEF SheetOf, refs
<1> QED BY <1>3, <1>4 DEF IsContext

LEMMA ScopedType ==
  ASSUME NEW st \in State, NEW run \in Following(st), NEW t \in Exprs, NEW caster \in Actors,
         NEW target \in Actors, NEW luck \in {0, 1}
  PROVE  EvalScoped(st, run, t, caster, target, luck) \in ValuesOf(Nat) \cup {Refused}
<1>1. [caster |-> caster, target |-> target] \in [{"caster", "target"} -> Actors]
  OBVIOUS
<1>2. IsContext(SheetOf(st, run, [caster |-> caster, target |-> target]))
  BY <1>1, SheetContext
<1> QED BY <1>2, EvalType DEF EvalScoped

LEMMA ChangingFollows ==
  ASSUME NEW st \in State, NEW run \in Following(st), NEW a \in Actors, HasActor(st, a),
         st.actors[a].body # None, NEW v \in ValuesOf(Nat) \cup {Refused}
  PROVE  Changing(st, run, a, v) \in Outcomes(st)
<1>1. CASE v = Refused \/ ~IsInt32(v.n) \/ ~IsInt32(AppliedTo(st, run, a, v.n).cur[a])
  BY <1>1 DEF Changing, Outcomes
<1>2. CASE ~(v = Refused \/ ~IsInt32(v.n) \/ ~IsInt32(AppliedTo(st, run, a, v.n).cur[a]))
  <2> DEFINE next == Recorded(run, v)
  <2>1. v \in ValuesOf(Nat) /\ v.n \in Int32
    BY <1>2 DEF IsInt32
  <2>2. next \in Following(st)
    BY <2>1, RecordedFollows
  <2>3. next.cur = run.cur /\ run \in RunSet
    BY DEF Recorded, Following, RunSet
  <2>4. AppliedTo(st, next, a, v.n).cur[a] = AppliedTo(st, run, a, v.n).cur[a]
    <3>1. next \in RunSet
      BY <2>2 DEF Following
    <3> HIDE DEF next
    <3> QED BY <2>3, <3>1 DEF AppliedTo, RunSet
  <2>5. AppliedTo(st, next, a, v.n).cur[a] \in Int32
    BY <1>2, <2>4 DEF IsInt32
  <2>6. Changing(st, run, a, v) = AppliedTo(st, next, a, v.n)
    BY <1>2 DEF Changing
  <2> HIDE DEF next
  <2>7. AppliedTo(st, next, a, v.n) \in Following(st)
    BY <2>1, <2>2, <2>5, AppliedFollows
  <2> QED BY <2>6, <2>7 DEF Outcomes
<1> QED BY <1>1, <1>2

LEMMA OneEffectFollows ==
  ASSUME NEW st \in State, NEW run \in Following(st), NEW e \in CompiledEffects, NEW caster \in Actors,
         NEW target \in Actors, HasActor(st, target), NEW luck \in {0, 1}
  PROVE  OneEffect(st, run, e, caster, target, luck) \in Outcomes(st)
<1>1. CASE e.is = "change"
  <2>1. e.by \in Exprs
    BY <1>1 DEF CompiledEffects
  <2> DEFINE v == EvalScoped(st, run, e.by, caster, target, luck)
  <2>2. v \in ValuesOf(Nat) \cup {Refused}
    BY <2>1, ScopedType
  <2> HIDE DEF v
  <2>3. OneEffect(st, run, e, caster, target, luck) =
          IF st.actors[target].body = None THEN Refused ELSE Changing(st, run, target, v)
    BY <1>1 DEF OneEffect, v
  <2>4. CASE st.actors[target].body = None
    BY <2>3, <2>4 DEF Outcomes
  <2>5. CASE st.actors[target].body # None
    BY <2>2, <2>3, <2>5, ChangingFollows
  <2> QED BY <2>4, <2>5
<1>2. CASE e.is # "change"
  <2>1. e.is \in {"apply", "remove"} /\ e.condition \in Conditions
    BY <1>2 DEF CompiledEffects
  <2>2. OneEffect(st, run, e, caster, target, luck) = Conditioned(run, target, e.condition, e.is = "apply")
    BY <2>1 DEF OneEffect
  <2>3. Conditioned(run, target, e.condition, e.is = "apply") \in Following(st)
    BY <2>1, ConditionedFollows
  <2> QED BY <2>2, <2>3 DEF Outcomes
<1> QED BY <1>1, <1>2

LEMMA EffectedFollows ==
  ASSUME NEW st \in State, NEW run \in Following(st), NEW es \in Seq(CompiledEffects),
         NEW caster \in Actors, NEW target \in Actors, HasActor(st, target), NEW luck \in {0, 1}
  PROVE  Effected(st, run, es, caster, target, luck) \in Outcomes(st)
<1> DEFINE c == [st |-> st, caster |-> caster, target |-> target, luck |-> luck]
           K == Outcomes(st)
<1>1. run \in K
  BY DEF Outcomes
<1>2. ASSUME NEW s \in K, NEW e \in CompiledEffects PROVE StepOf("effects", c, s, e) \in K
  <2>1. StepOf("effects", c, s, e) =
          IF s = Refused THEN Refused ELSE OneEffect(st, s, e, caster, target, luck)
    BY DEF StepOf
  <2>2. CASE s = Refused
    BY <2>1, <2>2
  <2>3. CASE s # Refused
    <3>1. s \in Following(st)
      BY <2>3 DEF Outcomes
    <3> QED BY <2>1, <2>3, <3>1, OneEffectFollows
  <2> QED BY <2>2, <2>3
<1> HIDE DEF c, K
<1>3. FoldOf("effects", c, run, es) \in K
  BY <1>1, <1>2, FoldOfKeeps
<1> QED BY <1>3, EffectsFold DEF c, K


LEMMA TargetedFollows ==
  ASSUME NEW st \in State, NEW run \in Following(st), NEW pow, IsPower(pow), NEW caster \in Actors,
         NEW target \in Actors, HasActor(st, target), NEW luck \in {0, 1}
  PROVE  Targeted(st, run, pow, caster, target, luck) \in Outcomes(st)
<1> DEFINE roll == EvalScoped(st, run, pow.resolution.roll, caster, target, luck)
           vs == EvalScoped(st, run, pow.resolution.vs, caster, target, luck)
           met == Recorded(Recorded(run, roll), vs)
           es == pow.outcomes[IF roll.n >= vs.n THEN 1 ELSE 2]
<1>1. CASE pow.resolution = None
  BY <1>1 DEF Targeted, Outcomes
<1>2. CASE pow.resolution # None
  <2>1. Targeted(st, run, pow, caster, target, luck) =
          IF roll = Refused \/ vs = Refused \/ ~IsInt32(roll.n) \/ ~IsInt32(vs.n) THEN Refused
          ELSE Effected(st, met, es, caster, target, luck)
    BY <1>2 DEF Targeted, Branched
  <2>2. roll \in ValuesOf(Nat) \cup {Refused} /\ vs \in ValuesOf(Nat) \cup {Refused}
    BY <1>2, ScopedType DEF IsPower
  <2>3. es \in Seq(CompiledEffects)
    <3> HIDE DEF roll, vs
    <3> QED BY DEF IsPower
  <2> HIDE DEF roll, vs
  <2>4. CASE roll = Refused \/ vs = Refused \/ ~IsInt32(roll.n) \/ ~IsInt32(vs.n)
    BY <2>1, <2>4 DEF Outcomes
  <2>5. CASE ~(roll = Refused \/ vs = Refused \/ ~IsInt32(roll.n) \/ ~IsInt32(vs.n))
    <3>1. roll \in ValuesOf(Nat) /\ vs \in ValuesOf(Nat)
      BY <2>2, <2>5
    <3>2. met \in Following(st)
      BY <3>1, RecordedFollows
    <3> HIDE DEF met, es
    <3> QED BY <2>1, <2>3, <2>5, <3>2, EffectedFollows
  <2> QED BY <2>4, <2>5
<1> QED BY <1>1, <1>2

LEMMA OneTargetFollows ==
  ASSUME NEW st \in State, NEW run \in Outcomes(st), NEW pow, IsPower(pow), NEW caster \in Actors,
         NEW target \in Actors, HasActor(st, target), NEW luck \in {0, 1}
  PROVE  OneTarget(st, run, pow, caster, target, luck) \in Outcomes(st)
<1> DEFINE hit == Targeted(st, run, pow, caster, target, luck)
<1>1. CASE run = Refused
  BY <1>1 DEF OneTarget, Outcomes
<1>2. CASE run # Refused
  <2>1. run \in Following(st)
    BY <1>2 DEF Outcomes
  <2>2. hit \in Outcomes(st)
    BY <2>1, TargetedFollows
  <2> HIDE DEF hit
  <2>3. OneTarget(st, run, pow, caster, target, luck) =
          IF hit = Refused THEN Refused ELSE Effected(st, hit, pow.effects, caster, target, luck)
    BY <1>2 DEF OneTarget, hit
  <2>4. CASE hit = Refused
    BY <2>3, <2>4 DEF Outcomes
  <2>5. CASE hit # Refused
    <3>1. hit \in Following(st) /\ pow.effects \in Seq(CompiledEffects)
      BY <2>2, <2>5 DEF Outcomes, IsPower
    <3> QED BY <2>3, <2>5, <3>1, EffectedFollows
  <2> QED BY <2>4, <2>5
<1> QED BY <1>1, <1>2

\* A threshold of a ruleset that loads throws no die.
LEMMA CrossedOneFollows ==
  ASSUME NEW st \in State, NEW run \in Outcomes(st), NEW rs, IsRuleset(rs), LoadsRuleset(rs),
         NEW th \in ToSet(rs.thresholds), NEW a \in Actors, HasActor(st, a)
  PROVE  CrossedOne(st, run, a, th) \in Outcomes(st)
<1> DEFINE v == Eval(th.when, SheetOf(st, run, [none |-> a]), 1)
<1>1. CASE run = Refused
  BY <1>1 DEF CrossedOne, Outcomes
<1>2. CASE run # Refused
  <2>1. run \in Following(st)
    BY <1>2 DEF Outcomes
  <2>2. th \in Thresholds
    <3>1. rs.thresholds \in Seq(Thresholds)
      BY DEF IsRuleset
    <3> QED BY <3>1 DEF ToSet
  <2>3. th.when \in Exprs /\ th.apply \in Conditions /\ th.removes \in BOOLEAN
    BY <2>2 DEF Thresholds
  <2>4. ~HasDice(th.when)
    BY DEF LoadsRuleset, SingleActor
  <2>5. IsContext(SheetOf(st, run, [none |-> a]))
    <3>1. [none |-> a] \in [{"none"} -> Actors]
      OBVIOUS
    <3> QED BY <2>1, <3>1, SheetContext
  <2>6. v \in ValuesOf({0}) \cup {Refused}
    BY <2>3, <2>4, <2>5, NoDiceNoRolls
  <2> HIDE DEF v
  <2>7. CrossedOne(st, run, a, th) = Crossed(run, a, th, v)
    BY <1>2 DEF CrossedOne, v
  <2>8. CASE v = Refused
    BY <2>7, <2>8 DEF Crossed, Outcomes
  <2>9. CASE v # Refused
    <3> DEFINE next == Threw(run, v)
    <3>1. next \in Following(st)
      BY <2>1, <2>6, <2>9, ThrewFollows
    <3>2. Conditioned(next, a, th.apply, TRUE) \in Following(st)
          /\ Conditioned(next, a, th.apply, FALSE) \in Following(st)
      BY <2>3, <3>1, ConditionedFollows
    <3>3. CASE v.n # 0
      BY <2>7, <2>9, <3>2, <3>3 DEF Crossed, Outcomes
    <3>4. CASE v.n = 0
      BY <2>7, <2>9, <3>1, <3>2, <3>4 DEF Crossed, Outcomes
    <3> QED BY <3>3, <3>4
  <2> QED BY <2>8, <2>9
<1> QED BY <1>1, <1>2

LEMMA CrossedAllFollows ==
  ASSUME NEW st \in State, NEW run \in Outcomes(st), NEW rs, IsRuleset(rs), LoadsRuleset(rs),
         NEW a \in Actors, HasActor(st, a)
  PROVE  CrossedAll(rs, st, run, a) \in Outcomes(st)
<1> DEFINE c == [st |-> st, a |-> a]
           K == Outcomes(st)
           X == ToSet(rs.thresholds)
<1>1. rs.thresholds \in Seq(X)
  <2>1. rs.thresholds \in Seq(Thresholds)
    BY DEF IsRuleset
  <2> QED BY <2>1 DEF ToSet
<1>2. ASSUME NEW s \in K, NEW th \in X PROVE StepOf("thresholds", c, s, th) \in K
  <2>1. StepOf("thresholds", c, s, th) = CrossedOne(st, s, a, th)
    BY DEF StepOf
  <2> QED BY <2>1, CrossedOneFollows
<1> HIDE DEF c, K, X
<1>3. FoldOf("thresholds", c, run, rs.thresholds) \in K
  BY <1>1, <1>2, FoldOfKeeps DEF K
<1> QED BY <1>3, ThresholdsFold DEF c, K

LEMMA ThresholdsFollow ==
  ASSUME NEW st \in State, NEW run \in Outcomes(st), NEW rs, IsRuleset(rs), LoadsRuleset(rs)
  PROVE  AfterThresholds(rs, st, run) \in Outcomes(st)
<1> DEFINE c == [rs |-> rs, st |-> st]
           K == Outcomes(st)
           X == {a \in Actors : HasActor(st, a)}
<1>1. CASE run = Refused
  BY <1>1, ChangedFold DEF Outcomes
<1>2. CASE run # Refused
  <2>1. run \in Following(st)
    BY <1>2 DEF Outcomes
  <2>2. run.changed \in Seq(Actors) /\ \A a \in ToSet(run.changed) : HasActor(st, a)
    BY <2>1 DEF Following, Follows, RunSet
  <2>3. run.changed \in Seq(X)
    <3>1. \A i \in 1 .. Len(run.changed) : run.changed[i] \in X
      BY <2>2 DEF ToSet
    <3> HIDE DEF X
    <3> QED BY <2>2, <3>1
  <2>4. ASSUME NEW s \in K, NEW a \in X PROVE StepOf("changed", c, s, a) \in K
    <3>1. StepOf("changed", c, s, a) = CrossedAll(rs, st, s, a)
      BY DEF StepOf
    <3> QED BY <3>1, CrossedAllFollows
  <2> HIDE DEF c, K, X
  <2>5. FoldOf("changed", c, run, run.changed) \in K
    BY <2>3, <2>4, FoldOfKeeps DEF K
  <2> QED BY <1>2, <2>5, ChangedFold DEF c, K
<1> QED BY <1>1, <1>2

\* The cost is one the caster can pay, so its change is the one the fold makes.
LEMMA PaidFollows ==
  ASSUME NEW st \in State, NEW pow, IsPower(pow), NEW caster \in Actors, HasActor(st, caster),
         CanPay(pow, st.actors[caster])
  PROVE  Paid(st, pow, caster) \in Following(st)
<1> DEFINE begun == Begun(st)
           a == st.actors[caster]
           n == a.cur + (-pow.cost)
<1>1. begun \in Following(st)
  BY BegunFollows
<1>2. CASE pow.cost = None
  BY <1>1, <1>2 DEF Paid
<1>3. CASE pow.cost # None
  <2>1. pow.cost \in Nat /\ a.body # None /\ a.cur >= pow.cost
    BY <1>3 DEF IsPower, CanPay
  <2>2. MaxInt \in Nat /\ a.cur \in Int32 /\ a.body \in 0 .. MaxInt
    <3>1. a \in Actor
      BY DEF State, HasActor
    <3>2. a.body \in Bodies
      BY <2>1, <3>1 DEF Actor
    <3> QED BY <3>1, <3>2, EngineAssumption DEF Actor
  <2>3. -pow.cost \in Int32 /\ n \in Int32 /\ ~(n < 0)
    BY <2>1, <2>2 DEF Int32
  <2>4. begun.cur \in [Actors -> Int32] /\ begun.cur[caster] = a.cur
    <3>1. begun \in RunSet
      BY <1>1 DEF Following
    <3>2. begun.cur \in [Actors -> Int32]
      <4> HIDE DEF begun
      <4> QED BY <3>1 DEF RunSet
    <3> QED BY <3>2 DEF Begun
  <2>5. AppliedTo(st, begun, caster, -pow.cost).cur[caster]
          = IF a.body > 0 /\ n > a.body THEN a.body ELSE n
    <3>1. begun \in RunSet
      BY <1>1 DEF Following
    <3> HIDE DEF begun
    <3>2. AppliedTo(st, begun, caster, -pow.cost).cur =
            [begun.cur EXCEPT ![caster] = IF a.body > 0 /\ n > a.body THEN a.body ELSE n]
      BY <2>1, <2>3, <2>4, <3>1 DEF AppliedTo, RunSet
    <3> QED BY <2>4, <3>2
  <2>6. AppliedTo(st, begun, caster, -pow.cost).cur[caster] \in Int32
    BY <2>2, <2>3, <2>5 DEF Int32
  <2>7. AppliedTo(st, begun, caster, -pow.cost) \in Following(st)
    <3> HIDE DEF begun
    <3> QED BY <1>1, <2>1, <2>3, <2>6, AppliedFollows
  <2> QED BY <1>3, <2>7 DEF Paid
<1> QED BY <1>2, <1>3

LEMMA ResolveFollows ==
  ASSUME NEW st \in State, NEW rs, IsRuleset(rs), LoadsRuleset(rs), NEW pow, IsPower(pow),
         NEW cmd, cmd.caster \in Actors, cmd.targets \in Seq(Actors), NEW luck \in Lucks(cmd)
  PROVE  Resolve(rs, pow, st, cmd, luck) \in Outcomes(st)
<1> DEFINE c == [st |-> st, power |-> pow, cmd |-> cmd, luck |-> luck]
           K == Outcomes(st)
           n == Len(cmd.targets)
           items == [i \in DOMAIN cmd.targets |-> i]
           start == Paid(st, pow, cmd.caster)
           X == 1 .. n
<1>1. CASE ~MayUse(pow, st, cmd)
  BY <1>1 DEF Resolve, Outcomes
<1>2. CASE MayUse(pow, st, cmd)
  <2>1. HasActor(st, cmd.caster) /\ CanPay(pow, st.actors[cmd.caster])
        /\ \A t \in ToSet(cmd.targets) : HasActor(st, t)
    BY <1>2 DEF MayUse
  <2>2. start \in K
    BY <2>1, PaidFollows DEF Outcomes
  <2>3. n \in Nat /\ DOMAIN cmd.targets = 1 .. n
    OBVIOUS
  <2>4. items \in Seq(X)
    BY <2>3
  <2>5. ASSUME NEW s \in K, NEW i \in X PROVE StepOf("targets", c, s, i) \in K
    <3>1. StepOf("targets", c, s, i) = OneTarget(st, s, pow, cmd.caster, cmd.targets[i], luck[i])
      BY DEF StepOf
    <3>2. cmd.targets[i] \in Actors /\ HasActor(st, cmd.targets[i]) /\ luck[i] \in {0, 1}
      BY <2>1, <2>3 DEF ToSet, Lucks
    <3> QED BY <3>1, <3>2, OneTargetFollows
  <2> HIDE DEF c, K, items, start, n, X
  <2>6. FoldOf("targets", c, start, items) \in K
    BY <2>2, <2>4, <2>5, FoldOfKeeps
  <2>7. Resolve(rs, pow, st, cmd, luck) = AfterThresholds(rs, st, FoldOf("targets", c, start, items))
    BY <1>2, TargetsFold DEF Resolve, c, start, items
  <2> QED BY <2>6, <2>7, ThresholdsFollow DEF K
<1> QED BY <1>1, <1>2

\* So what an ability came to is what the fold makes of its batch.
LEMMA ResolvedIs ==
  ASSUME NEW st \in State, NEW run \in Following(st)
  PROVE  FoldsAsRun(st, run) /\ AllRecorded(run) /\ Batch(run) \in Seq(Turns)
<1>1. run \in RunSet /\ Follows(st, run)
  BY DEF Following
<1> DEFINE m == Mirror(st, run)
<1>2. /\ m \in State
      /\ \A a \in Actors : HasActor(st, a) => m.actors[a] = [st.actors[a] EXCEPT !.cur = run.cur[a]]
      /\ m.conditions = run.conditions
  BY <1>1, MirrorType
<1>3. Folded(st, Batch(run)) = m /\ \A a \in ToSet(run.changed) : HasActor(st, a)
  BY <1>1 DEF Follows
<1> HIDE DEF m
<1>4. ASSUME NEW a \in ToSet(run.changed) PROVE m.actors[a].cur = run.cur[a]
  <2>1. a \in Actors /\ HasActor(st, a)
    BY <1>1, <1>3 DEF HasActor
  <2>2. st.actors[a] \in Actor
    BY <2>1 DEF HasActor, State
  <2> QED BY <1>2, <2>1, <2>2 DEF Actor
<1>5. m # None
  BY <1>2, EngineAssumption
<1>6. FoldsAsRun(st, run)
  BY <1>2, <1>3, <1>4, <1>5 DEF FoldsAsRun
<1>7. Batch(run) \in Seq(Turns)
  <2>1. run.events \in Seq(Turns)
    BY <1>1 DEF RunSet
  <2>2. <<[type |-> "AbilityUsed"]>> \in Seq(Turns)
    BY DEF Events, Turns
  <2> QED BY <2>1, <2>2, BothFrames DEF Batch
<1> QED BY <1>1, <1>6, <1>7 DEF Follows


-----------------------------------------------------------------------------
(* The invariant of the commands: what the server was started with does    *)
(* not change but for its map files, the world is a sound state, and each  *)
(* batch that waits is of events, and of the adventure's alone where it    *)
(* loads one.                                                              *)

PlayInv ==
  /\ IsPlay(play)
  /\ play.adventure # None => \E dir : LoadsAdventure(play.adventure, dir)
  /\ power = Compile(play.ruleset, play.ability)

\* A batch, and one that loads no adventure.
Plain == {e \in Events : e.type \notin {"AdventureLoaded", "Unknown"}}
IsBatch(adv, batch) ==
  \/ batch \in Seq(Plain)
  \/ adv # None /\ batch = AdventureEvents(adv)

PendingInv == \A c \in Conns : pending[c] # None =>
  /\ DOMAIN pending[c] = {"name", "args", "batch", "map"}
  /\ IsBatch(play.adventure, pending[c].batch)
  /\ pending[c].map # None => IsScene(pending[c].map) /\ pending[c].args.map \in DOMAIN shelf

ShelfInv == \A id \in DOMAIN shelf : IsFile(shelf[id])

\* What was loaded is there: a scene is never taken away.
LedgerInv ==
  /\ DOMAIN ledger = {"loads", "uses", "paid"}
  /\ ledger.loads \in Nat
  /\ play.adventure # None /\ play.adventure.scenes # <<>> =>
       \/ ledger.loads = 0
       \/ ledger.loads = 1 /\ HasScene(world, play.adventure.scenes[1].id)

CommandsInv ==
  /\ PlayInv /\ Good(world)
  /\ DOMAIN pending = Conns /\ PendingInv
  /\ DOMAIN shelf = DOMAIN play.disk /\ ShelfInv
  /\ LedgerInv

-----------------------------------------------------------------------------
(* The batches.                                                            *)

LEMMA InOrderIs ==
  ASSUME NEW S, IsFiniteSet(S)
  PROVE  /\ InOrder(S) \in Seq(S)
         /\ ToSet(InOrder(S)) = S
<1> DEFINE n == Cardinality(S)
<1>1. n \in Nat /\ ExistsBijection(1 .. n, S)
  BY FS_CardinalityType
<1>2. PICK f : f \in Bijection(1 .. n, S)
  BY <1>1 DEF ExistsBijection
<1>3. f \in [1 .. n -> S] /\ \A x \in S : \E i \in 1 .. n : f[i] = x
  BY <1>2 DEF Bijection, Injection, Surjection
<1>4. ToSet(f) = S
  BY <1>3 DEF ToSet
<1>5. InOrder(S) \in [1 .. n -> S] /\ ToSet(InOrder(S)) = S
  <2> HIDE DEF n
  <2>1. \E s \in [1 .. n -> S] : ToSet(s) = S
    BY <1>3, <1>4
  <2> QED BY <2>1 DEF InOrder, n
<1> HIDE DEF n
<1> QED BY <1>1, <1>5

\* A removal's tokens, then its actor.
LEMMA RemovalType ==
  ASSUME NEW a \in Actors, NEW st
  PROVE  RemovalOf(a, st) \in Seq(Plain)
<1> DEFINE S == Standing(st, a)
           order == InOrder(S)
           off == [i \in DOMAIN order |-> [type |-> "TokenRemoved", token |-> order[i]]]
           gone == <<[type |-> "ActorRemoved", actor |-> a]>>
<1>1. S \subseteq Tokens /\ IsFiniteSet(S)
  BY CommandsAssumption, FS_Subset DEF Standing
<1>2. order \in Seq(S)
  BY <1>1, InOrderIs
<1> HIDE DEF S, order
<1>3. \A i \in 1 .. Len(order) : order[i] \in Tokens
  BY <1>1, <1>2
<1>4. DOMAIN order = 1 .. Len(order) /\ Len(order) \in Nat
  BY <1>2
<1>5. \A i \in 1 .. Len(order) : [type |-> "TokenRemoved", token |-> order[i]] \in Plain
  BY <1>3 DEF Plain, Events
<1>6. off \in Seq(Plain)
  <2> HIDE DEF Plain
  <2> QED BY <1>4, <1>5
<1>7. [type |-> "ActorRemoved", actor |-> a] \in Plain
  BY DEF Plain, Events
<1>8. gone \in Seq(Plain)
  BY <1>7, OneFrame
<1>9. RemovalOf(a, st) = off \o gone
  BY DEF RemovalOf, order, S
<1> HIDE DEF off, gone
<1> QED BY <1>6, <1>8, <1>9, BothFrames

LEMMA RevocationsType ==
  ASSUME NEW p \in People, NEW st
  PROVE  RevocationsOf(p, st) \in Seq(Plain)
<1> DEFINE S == {a \in Actors : Controls(st, p, a)}
           order == InOrder(S)
           off == [i \in DOMAIN order |->
                     [type |-> "ActorControlRevoked", actor |-> order[i], person |-> p]]
<1>1. S \subseteq Actors /\ IsFiniteSet(S)
  BY CommandsAssumption, FS_Subset
<1>2. order \in Seq(S)
  BY <1>1, InOrderIs
<1>3. RevocationsOf(p, st) = off
  BY DEF RevocationsOf
<1> HIDE DEF S, order
<1>4. DOMAIN order = 1 .. Len(order) /\ Len(order) \in Nat
      /\ \A i \in 1 .. Len(order) : order[i] \in Actors
  BY <1>1, <1>2
<1>5. \A i \in 1 .. Len(order) :
        [type |-> "ActorControlRevoked", actor |-> order[i], person |-> p] \in Plain
  BY <1>4 DEF Plain, Events
<1>6. off \in Seq(Plain)
  <2> HIDE DEF Plain
  <2> QED BY <1>4, <1>5
<1> QED BY <1>3, <1>6

\* A scene's event and its tokens'.
LEMMA PlacingType ==
  ASSUME NEW m, IsScene(m)
  PROVE  Created(m) \in Plain /\ Placing(m) \in Seq(Plain)
<1>1. m.id \in Scenes /\ m.places \in Seq(Spot)
  BY DEF IsScene
<1>2. Created(m) \in Plain
  BY <1>1 DEF Created, Plain, Events
<1>3. DOMAIN m.places = 1 .. Len(m.places) /\ Len(m.places) \in Nat
      /\ \A i \in 1 .. Len(m.places) : m.places[i] \in Spot
  BY <1>1
<1>4. ASSUME NEW p \in Spot PROVE Placed(m, p) \in Plain
  <2>1. p.token \in Tokens /\ p.actor \in Actors /\ p.at \in Position /\ p.text \in Texts
    BY DEF Spot, Position
  <2> QED BY <1>1, <2>1 DEF Placed, Plain, Events
<1>5. Placing(m) = [i \in DOMAIN m.places |-> Placed(m, m.places[i])]
  BY DEF Placing
<1>6. Placing(m) \in Seq(Plain)
  <2>1. \A i \in 1 .. Len(m.places) : Placed(m, m.places[i]) \in Plain
    BY <1>3, <1>4
  <2> QED BY <1>3, <1>5, <2>1
<1> QED BY <1>2, <1>6

LEMMA MapType ==
  ASSUME NEW m, IsScene(m)
  PROVE  MapEvents(m) \in Seq(Plain)
<1>1. Created(m) \in Plain /\ Placing(m) \in Seq(Plain)
  BY PlacingType
<1>2. <<Created(m)>> \in Seq(Plain)
  BY <1>1, OneFrame
<1> QED BY <1>1, <1>2, BothFrames DEF MapEvents

\* The one event most commands become.
LEMMA ToEventType ==
  ASSUME NEW cmd, cmd.name \in DOMAIN EventOf, ToEvent(cmd) \in Events
  PROVE  <<ToEvent(cmd)>> \in Seq(Plain)
<1>1. ToEvent(cmd).type = EventOf[cmd.name]
  BY DEF ToEvent
<1>2. EventOf[cmd.name] \notin {"AdventureLoaded", "Unknown"}
  BY DEF EventOf
<1> HIDE DEF EventOf
<1>3. ToEvent(cmd) \in Plain
  BY <1>1, <1>2 DEF Plain
<1> QED BY <1>3, OneFrame


\* The batch of an adventure, piece by piece.
CreatedOf(adv) == [i \in DOMAIN adv.scenes |-> Created(adv.scenes[i])]
AddedOf(adv) == [i \in DOMAIN adv.actors |-> [type |-> "ActorAdded", actor |-> adv.actors[i].actor,
                                              is |-> adv.actors[i].is]]
PlacingsOf(adv) == [i \in DOMAIN adv.scenes |-> Placing(adv.scenes[i])]
NotedOf(adv) == [i \in DOMAIN adv.notes |-> [type |-> "NoteUpserted", key |-> adv.notes[i],
                                             visibility |-> "public"]]
Opening == <<[type |-> "AdventureLoaded"]>>
Telling == <<[type |-> "NarrationAdded", from |-> 0, to |-> 0, seq |-> 1]>>

LEMMA AdventureIs ==
  ASSUME NEW adv
  PROVE  AdventureEvents(adv) = Opening \o CreatedOf(adv) \o AddedOf(adv) \o FlattenSeq(PlacingsOf(adv))
                                  \o NotedOf(adv) \o Telling
BY DEF AdventureEvents, CreatedOf, AddedOf, PlacingsOf, NotedOf, Opening, Telling

LEMMA AdventureParts ==
  ASSUME NEW adv, IsAdventure(adv)
  PROVE  /\ Opening \in Seq(Events) /\ Telling \in Seq(Events)
         /\ CreatedOf(adv) \in Seq(Events) /\ AddedOf(adv) \in Seq(Events)
         /\ PlacingsOf(adv) \in Seq(Seq(Events)) /\ NotedOf(adv) \in Seq(Events)
<1>1. adv.scenes \in Seq(ToSet(adv.scenes)) /\ (\A m \in ToSet(adv.scenes) : IsScene(m))
      /\ adv.actors \in Seq([actor : Actors, is : Sheet]) /\ adv.notes \in Seq(NoteKeys)
  BY DEF IsAdventure
<1>2. Plain \subseteq Events
  BY DEF Plain
<1>3. Opening \in Seq(Events)
  <2>1. [type |-> "AdventureLoaded"] \in Events
    BY DEF Events
  <2> QED BY <2>1, OneFrame DEF Opening
<1>4. Telling \in Seq(Events)
  <2>1. 0 \in Int32 /\ 1 \in Nat
    BY EngineAssumption DEF Int32
  <2>2. [type |-> "NarrationAdded", from |-> 0, to |-> 0, seq |-> 1] \in Events
    BY <2>1 DEF Events
  <2> QED BY <2>2, OneFrame DEF Telling
<1>5. /\ DOMAIN adv.scenes = 1 .. Len(adv.scenes) /\ Len(adv.scenes) \in Nat
      /\ \A i \in 1 .. Len(adv.scenes) :
           Created(adv.scenes[i]) \in Events /\ Placing(adv.scenes[i]) \in Seq(Events)
  <2>1. DOMAIN adv.scenes = 1 .. Len(adv.scenes) /\ Len(adv.scenes) \in Nat
    BY <1>1
  <2>2. ASSUME NEW i \in 1 .. Len(adv.scenes)
        PROVE  Created(adv.scenes[i]) \in Events /\ Placing(adv.scenes[i]) \in Seq(Events)
    <3>1. IsScene(adv.scenes[i])
      BY <1>1, <2>1 DEF ToSet
    <3>2. Created(adv.scenes[i]) \in Plain /\ Placing(adv.scenes[i]) \in Seq(Plain)
      BY <3>1, PlacingType
    <3> QED BY <1>2, <3>2, WiderSeq
  <2> QED BY <2>1, <2>2
<1>6. CreatedOf(adv) \in Seq(Events)
  BY <1>5 DEF CreatedOf
<1>7. PlacingsOf(adv) \in Seq(Seq(Events))
  BY <1>5 DEF PlacingsOf
<1>8. AddedOf(adv) \in Seq(Events)
  <2>1. DOMAIN adv.actors = 1 .. Len(adv.actors) /\ Len(adv.actors) \in Nat
        /\ \A i \in 1 .. Len(adv.actors) : adv.actors[i] \in [actor : Actors, is : Sheet]
    <3> DEFINE X == [actor : Actors, is : Sheet]
    <3>1. adv.actors \in Seq(X)
      BY <1>1
    <3> HIDE DEF X
    <3>2. DOMAIN adv.actors = 1 .. Len(adv.actors) /\ Len(adv.actors) \in Nat
          /\ \A i \in 1 .. Len(adv.actors) : adv.actors[i] \in X
      BY <3>1
    <3> QED BY <3>2 DEF X
  <2>2. ASSUME NEW a \in [actor : Actors, is : Sheet]
        PROVE  [type |-> "ActorAdded", actor |-> a.actor, is |-> a.is] \in Events
    BY DEF Sheet, Events
  <2>3. \A i \in 1 .. Len(adv.actors) :
          [type |-> "ActorAdded", actor |-> adv.actors[i].actor, is |-> adv.actors[i].is] \in Events
    BY <2>1, <2>2
  <2> QED BY <2>1, <2>3 DEF AddedOf
<1>9. NotedOf(adv) \in Seq(Events)
  <2>1. DOMAIN adv.notes = 1 .. Len(adv.notes) /\ Len(adv.notes) \in Nat
        /\ \A i \in 1 .. Len(adv.notes) : adv.notes[i] \in NoteKeys
    BY <1>1
  <2>2. \A i \in 1 .. Len(adv.notes) :
          [type |-> "NoteUpserted", key |-> adv.notes[i], visibility |-> "public"] \in Events
    BY <2>1 DEF Events, Visibilities
  <2> QED BY <2>1, <2>2 DEF NotedOf
<1> QED BY <1>3, <1>4, <1>6, <1>7, <1>8, <1>9

LEMMA AdventureType ==
  ASSUME NEW adv, IsAdventure(adv)
  PROVE  AdventureEvents(adv) \in Seq(Events)
<1> DEFINE a == Opening
           b == CreatedOf(adv)
           c == AddedOf(adv)
           d == FlattenSeq(PlacingsOf(adv))
           e == NotedOf(adv)
           f == Telling
<1>1. a \in Seq(Events) /\ b \in Seq(Events) /\ c \in Seq(Events) /\ d \in Seq(Events)
      /\ e \in Seq(Events) /\ f \in Seq(Events)
  BY AdventureParts, FlattenType
<1>2. AdventureEvents(adv) = a \o b \o c \o d \o e \o f
  BY AdventureIs
<1> HIDE DEF a, b, c, d, e, f
<1>3. a \o b \in Seq(Events)
  BY <1>1, BothFrames
<1>4. a \o b \o c \in Seq(Events)
  BY <1>1, <1>3, BothFrames
<1>5. a \o b \o c \o d \in Seq(Events)
  BY <1>1, <1>4, BothFrames
<1>6. a \o b \o c \o d \o e \in Seq(Events)
  BY <1>1, <1>5, BothFrames
<1>7. a \o b \o c \o d \o e \o f \in Seq(Events)
  BY <1>1, <1>6, BothFrames
<1> QED BY <1>2, <1>7

\* Every batch is one.
LEMMA BatchesAre ==
  ASSUME PlayInv, Good(world), NEW cmd \in play.commands,
         cmd.name \notin {"load_map", "remove_participant"}, NEW batch \in BatchesOf(cmd, world)
  PROVE  IsBatch(play.adventure, batch)
<1>1. IsCommand(play, cmd) /\ world \in State
  BY DEF PlayInv, IsPlay, Good
<1>2. CASE cmd.name = "use_ability"
  <2>1. cmd.args.caster \in Actors /\ cmd.args.targets \in Seq(Actors)
    BY <1>1, <1>2 DEF IsCommand
  <2>2. power # Refused /\ batch \in Uses(cmd.args, world)
    BY <1>2 DEF BatchesOf
  <2>3. PICK luck \in Lucks(cmd.args) :
          LET run == Resolve(play.ruleset, power, world, cmd.args, luck)
          IN  run # Refused /\ batch = Batch(run)
    BY <2>2 DEF Uses, RunsOf
  <2>4. IsPower(power) /\ LoadsRuleset(play.ruleset) /\ IsRuleset(play.ruleset)
    BY <2>2, PowerType DEF PlayInv, IsPlay
  <2>5. Resolve(play.ruleset, power, world, cmd.args, luck) \in Outcomes(world)
    BY <1>1, <2>1, <2>4, ResolveFollows
  <2>6. batch \in Seq(Turns)
    BY <1>1, <2>3, <2>5, ResolvedIs DEF Outcomes
  <2>7. Turns \subseteq Plain
    BY DEF Turns, Plain
  <2> QED BY <2>6, <2>7, WiderSeq DEF IsBatch
<1>3. CASE cmd.name = "load_adventure"
  BY <1>3 DEF BatchesOf, IsBatch
<1>4. CASE cmd.name = "remove_actor"
  <2>1. batch = RemovalOf(cmd.args.actor, world) /\ cmd.args.actor \in Actors
    BY <1>1, <1>4 DEF BatchesOf, IsCommand
  <2> QED BY <2>1, RemovalType DEF IsBatch
<1>5. CASE cmd.name \notin {"use_ability", "load_adventure", "remove_actor"}
  <2>1. batch = <<ToEvent(cmd)>>
    BY <1>5 DEF BatchesOf
  <2>2. cmd.name \in DOMAIN EventOf /\ ToEvent(cmd) \in Events
    BY <1>1, <1>5 DEF IsCommand
  <2> QED BY <2>1, <2>2, ToEventType DEF IsBatch
<1> QED BY <1>2, <1>3, <1>4, <1>5


-----------------------------------------------------------------------------
(* What a batch makes of a sound world.                                    *)

LEMMA FoldedNone ==
  ASSUME NEW X, NEW frames \in Seq(X)
  PROVE  Folded(None, frames) = None
<1> DEFINE K == {None}
<1>1. \A s \in K, e \in X : StepBy("server", s, e) \in K
  BY DEF StepBy, FoldStep
<1>2. None \in K
  OBVIOUS
<1> HIDE DEF K
<1>3. Folded(None, frames) \in K
  BY <1>1, <1>2, FoldKeeps
<1> QED BY <1>3 DEF K

LEMMA FoldedGood ==
  ASSUME NEW st, Good(st), NEW frames \in Seq(Events)
  PROVE  Folded(st, frames) # None => Good(Folded(st, frames))
<1> DEFINE K == {None} \cup GoodStates
<1>1. st \in K
  BY GoodIsGood
<1>2. ASSUME NEW s \in K, NEW e \in Events PROVE StepBy("server", s, e) \in K
  <2>1. StepBy("server", s, e) = FoldStep(s, e)
    BY DEF StepBy
  <2>2. CASE s = None \/ ~Accepts(s, e)
    BY <2>1, <2>2 DEF FoldStep
  <2>3. CASE ~(s = None \/ ~Accepts(s, e))
    <3>1. Good(s)
      BY <2>3, GoodIsGood
    <3>2. Good(After(s, e))
      BY <2>3, <3>1, AcceptedKeepsSound
    <3>3. StepBy("server", s, e) = After(s, e)
      BY <2>1, <2>3 DEF FoldStep
    <3> QED BY <3>2, <3>3, GoodIsGood
  <2> QED BY <2>2, <2>3
<1> HIDE DEF K
<1>3. Folded(st, frames) \in K
  BY <1>1, <1>2, FoldKeeps
<1> QED BY <1>3, GoodIsGood DEF K

\* No event takes a scene away.
LEMMA SceneStays ==
  ASSUME NEW st \in State, NEW e \in Events, Accepts(st, e), NEW s, HasScene(st, s)
  PROVE  HasScene(After(st, e), s)
<1>1. s \in Scenes /\ st.scenes[s] \in Scene /\ st.scenes[s] # None
  BY DEF HasScene, State
<1>2. CASE e.type = "SceneCreated"
  <2> DEFINE new == [open |-> {}, visible |-> None, explored |-> {}]
  <2>1. new # None
    <3>1. new \in Scene
      BY DEF Scene
    <3> QED BY <3>1, EngineAssumption
  <2> HIDE DEF new
  <2>2. After(st, e) = [st EXCEPT !.scenes[e.scene] = new]
    BY <1>2 DEF After, new
  <2>3. After(st, e).scenes[s] # None
    BY <1>1, <2>1, <2>2 DEF State
  <2> QED BY <1>1, <2>3 DEF HasScene
<1>3. CASE e.type \in {"DoorOpened", "DoorClosed", "SceneSeen"}
  <2> DEFINE sc == st.scenes[e.scene]
             v == CASE e.type = "DoorOpened" -> [sc EXCEPT !.open = @ \cup {e.at}]
                    [] e.type = "DoorClosed" -> [sc EXCEPT !.open = @ \ {e.at}]
                    [] e.type = "SceneSeen" -> Seen(sc, e)
  <2>1. After(st, e) = [st EXCEPT !.scenes[e.scene] = v]
    BY <1>3 DEF After
  <2>2. HasScene(st, e.scene)
    BY <1>3 DEF Accepts
  <2>3. sc \in Scene
    BY <2>2 DEF HasScene, State
  <2>4. v \in Scene
    <3>1. CASE e.type \in {"DoorOpened", "DoorClosed"}
      <4>1. e.at \in Squares
        BY <1>3, <3>1 DEF Accepts, Events, Position
      <4> HIDE DEF sc
      <4> QED BY <2>3, <3>1, <4>1 DEF Scene
    <3>2. CASE e.type = "SceneSeen"
      <4>1. e.visible \in SUBSET Squares /\ e.tiles \in SUBSET Squares
        BY <3>2 DEF Events
      <4> HIDE DEF sc
      <4> QED BY <2>3, <3>2, <4>1 DEF Scene, Seen
    <3> QED BY <1>3, <3>1, <3>2
  <2>5. v # None
    BY <2>4, EngineAssumption
  <2> HIDE DEF v
  <2>6. After(st, e).scenes[s] # None
    BY <1>1, <2>1, <2>5 DEF State
  <2> QED BY <1>1, <2>6 DEF HasScene
<1>4. CASE e.type \notin {"SceneCreated", "DoorOpened", "DoorClosed", "SceneSeen"}
  <2>1. After(st, e).scenes = st.scenes
    BY <1>4 DEF After, State, WithoutActor
  <2> QED BY <2>1 DEF HasScene
<1> QED BY <1>2, <1>3, <1>4

LEMMA ScenesStay ==
  ASSUME NEW st, Good(st), NEW frames \in Seq(Events), NEW s, HasScene(st, s)
  PROVE  Folded(st, frames) # None => HasScene(Folded(st, frames), s)
<1> DEFINE K == {None} \cup {y \in GoodStates : HasScene(y, s)}
<1>1. st \in K
  BY GoodIsGood
<1>2. ASSUME NEW y \in K, NEW e \in Events PROVE StepBy("server", y, e) \in K
  <2>1. StepBy("server", y, e) = FoldStep(y, e)
    BY DEF StepBy
  <2>2. CASE y = None \/ ~Accepts(y, e)
    BY <2>1, <2>2 DEF FoldStep
  <2>3. CASE ~(y = None \/ ~Accepts(y, e))
    <3>1. Good(y) /\ HasScene(y, s) /\ y \in State
      BY <2>3, GoodIsGood DEF Good
    <3>2. Good(After(y, e)) /\ HasScene(After(y, e), s)
      BY <2>3, <3>1, AcceptedKeepsSound, SceneStays
    <3>3. StepBy("server", y, e) = After(y, e)
      BY <2>1, <2>3 DEF FoldStep
    <3> QED BY <3>2, <3>3, GoodIsGood
  <2> QED BY <2>2, <2>3
<1> HIDE DEF K
<1>3. Folded(st, frames) \in K
  BY <1>1, <1>2, FoldKeeps
<1> QED BY <1>3 DEF K

\* What is created was not there, and is there.
LEMMA CreatedOnce ==
  ASSUME NEW st, Good(st), NEW m, IsScene(m), NEW a \in Seq(Events), NEW b \in Seq(Events),
         Folded(st, a \o <<Created(m)>> \o b) # None
  PROVE  ~HasScene(st, m.id) /\ HasScene(Folded(st, a \o <<Created(m)>> \o b), m.id)
<1> DEFINE e == Created(m)
           x == Folded(st, a)
           y == Folded(x, <<e>>)
           z == Folded(y, b)
<1>1. e \in Events /\ <<e>> \in Seq(Events)
  <2>1. e \in Events
    BY PlacingType DEF Plain
  <2> HIDE DEF e
  <2> QED BY <2>1, OneFrame
<1>2. Folded(st, a \o <<e>> \o b) = z
  <2> DEFINE one == <<e>>
  <2>1. one \in Seq(Events)
    BY <1>1
  <2> HIDE DEF one
  <2>2. a \o one \in Seq(Events)
    BY <2>1, BothFrames
  <2>3. Folded(st, a \o one \o b) = Folded(Folded(st, a \o one), b)
    <3> DEFINE both == a \o one
    <3>1. both \in Seq(Events) /\ b \in Seq(Events)
      BY <2>2
    <3> HIDE DEF both
    <3>2. Folded(st, both \o b) = Folded(Folded(st, both), b)
      BY <3>1, FoldedBoth
    <3> QED BY <3>2 DEF both
  <2>4. Folded(st, a \o one) = Folded(Folded(st, a), one)
    BY <2>1, FoldedBoth
  <2> QED BY <2>3, <2>4 DEF one
<1>3. z # None
  BY <1>2
<1> HIDE DEF e
<1>4. y # None
  <2>1. y = None => z = None
    BY FoldedNone
  <2> QED BY <1>3, <2>1
<1>5. x # None
  <2>1. x = None => y = None
    BY <1>1, FoldedNone
  <2> QED BY <1>4, <2>1
<1>6. Good(x)
  BY <1>5, FoldedGood
<1>7. y = FoldStep(x, e)
  BY FoldedOne
<1>8. Accepts(x, e) /\ y = After(x, e)
  BY <1>4, <1>7 DEF FoldStep
<1>9. ~HasScene(x, m.id)
  BY <1>8 DEF Accepts, e, Created
<1>10. ~HasScene(st, m.id)
  BY <1>5, <1>9, ScenesStay
<1>11. HasScene(y, m.id)
  <2> DEFINE new == [open |-> {}, visible |-> None, explored |-> {}]
  <2>1. new # None
    <3>1. new \in Scene
      BY DEF Scene
    <3> QED BY <3>1, EngineAssumption
  <2> HIDE DEF new
  <2>2. After(x, e) = [x EXCEPT !.scenes[m.id] = new]
    BY DEF After, e, Created, new
  <2>3. x \in State /\ m.id \in Scenes
    BY <1>6 DEF Good, IsScene
  <2> HIDE DEF x
  <2> QED BY <1>8, <2>1, <2>2, <2>3 DEF State, HasScene
<1>12. Good(y)
  BY <1>1, <1>6, <1>8, AcceptedKeepsSound
<1>13. HasScene(z, m.id)
  BY <1>3, <1>11, <1>12, ScenesStay
<1> QED BY <1>2, <1>10, <1>13 DEF e


-----------------------------------------------------------------------------
(* The invariant, part by part.                                            *)

LEMMA CommandsInitInv == CommandsInit => CommandsInv
<1> SUFFICES ASSUME CommandsInit PROVE CommandsInv
  OBVIOUS
<1>1. IsPlay(play) /\ world \in State /\ Sound(world) /\ CommandsStarted(play, world, art)
  BY DEF CommandsInit
<1>2. PlayInv /\ Good(world)
  BY <1>1 DEF PlayInv, CommandsStarted, Good
<1>3. DOMAIN pending = Conns /\ PendingInv
  BY <1>1 DEF CommandsStarted, PendingInv
<1>4. DOMAIN shelf = DOMAIN play.disk /\ ShelfInv
  BY <1>1 DEF CommandsStarted, ShelfInv, IsFile
<1>5. LedgerInv
  BY <1>1 DEF CommandsStarted, LedgerInv
<1> QED BY <1>2, <1>3, <1>4, <1>5 DEF CommandsInv

\* Of what the server was started with only the map files are edited.
PlayStands ==
  /\ power' = power
  /\ play' = play \/ (play' = [play EXCEPT !.disk = play'.disk] /\ DOMAIN play'.disk = DOMAIN play.disk)

LEMMA PlayStep == CommandsInv /\ [CommandsNext]_commands => PlayInv' /\ PlayStands
<1> SUFFICES ASSUME CommandsInv, [CommandsNext]_commands PROVE PlayInv' /\ PlayStands
  OBVIOUS
<1>1. PlayInv
  BY DEF CommandsInv
<1>2. CASE play' = play /\ power' = power
  BY <1>1, <1>2 DEF PlayInv, PlayStands
<1>3. ASSUME NEW id \in DOMAIN play.disk, NEW m \in play.edits.maps, EditMap(id, m)
      PROVE  PlayInv' /\ PlayStands
  <2> DEFINE disk == [play.disk EXCEPT ![id] = m]
  <2>1. play' = [play EXCEPT !.disk = disk] /\ power' = power
    BY <1>3 DEF EditMap
  <2>2. IsPlay(play)
    BY <1>1 DEF PlayInv
  <2>3. DOMAIN disk = DOMAIN play.disk
    OBVIOUS
  <2>4. \A i \in DOMAIN disk : IsFile(disk[i])
    BY <2>2 DEF IsPlay
  <2> HIDE DEF disk
  <2>5. /\ DOMAIN play' = DOMAIN play /\ play'.disk = disk
        /\ play'.ruleset = play.ruleset /\ play'.ability = play.ability
        /\ play'.adventure = play.adventure /\ play'.commands = play.commands
        /\ play'.edits = play.edits
    BY <2>1, <2>2 DEF IsPlay
  <2>6. \A cmd : IsCommand(play, cmd) <=> IsCommand(play', cmd)
    BY <2>3, <2>5 DEF IsCommand
  <2>7. IsPlay(play')
    BY <2>2, <2>4, <2>5, <2>6 DEF IsPlay
  <2>8. PlayInv'
    BY <1>1, <2>1, <2>5, <2>7 DEF PlayInv
  <2>9. PlayStands
    BY <2>1, <2>3, <2>5 DEF PlayStands
  <2> QED BY <2>8, <2>9
<1>4. CommandsNext => \/ play' = play /\ power' = power
                      \/ \E id \in DOMAIN play.disk : \E m \in play.edits.maps : EditMap(id, m)
  BY DEF CommandsNext, Answer, AnswerRemoval, FindMap, KeepMap, AppendPending, EditArt
<1>5. UNCHANGED commands => play' = play /\ power' = power
  BY DEF commands
<1> QED BY <1>2, <1>3, <1>4, <1>5

\* So what depends on the adventure and the commands alone stays as it is.
LEMMA StandsSame ==
  ASSUME PlayInv, PlayStands
  PROVE  /\ play'.adventure = play.adventure
         /\ DOMAIN play'.disk = DOMAIN play.disk
<1>1. DOMAIN play = {"ruleset", "ability", "adventure", "commands", "disk", "edits"}
  BY DEF PlayInv, IsPlay
<1> QED BY <1>1 DEF PlayStands

LEMMA PendsOne ==
  ASSUME CommandsInv, PlayStands, shelf' = shelf, NEW c \in Conns, NEW p,
         p # None =>
           /\ DOMAIN p = {"name", "args", "batch", "map"}
           /\ IsBatch(play.adventure, p.batch)
           /\ p.map # None => IsScene(p.map) /\ p.args.map \in DOMAIN shelf,
         pending' = [pending EXCEPT ![c] = p]
  PROVE  DOMAIN pending' = Conns /\ PendingInv'
<1>1. DOMAIN pending = Conns /\ PendingInv /\ PlayInv
  BY DEF CommandsInv
<1>2. play'.adventure = play.adventure
  BY <1>1, StandsSame
<1>3. ASSUME NEW d \in Conns, pending'[d] # None
      PROVE  /\ DOMAIN pending'[d] = {"name", "args", "batch", "map"}
             /\ IsBatch(play'.adventure, pending'[d].batch)
             /\ pending'[d].map # None => IsScene(pending'[d].map) /\ pending'[d].args.map \in DOMAIN shelf'
  <2>1. CASE d = c
    <3>1. pending'[d] = p
      BY <1>1, <2>1
    <3> QED BY <1>2, <1>3, <3>1
  <2>2. CASE d # c
    <3>1. pending'[d] = pending[d]
      BY <1>1, <2>2
    <3> QED BY <1>1, <1>2, <1>3, <3>1 DEF PendingInv
  <2> QED BY <2>1, <2>2
<1> QED BY <1>1, <1>3 DEF PendingInv


LEMMA PendingStep ==
  CommandsInv /\ [CommandsNext]_commands
    => DOMAIN pending' = Conns /\ PendingInv' /\ DOMAIN shelf' = DOMAIN play'.disk /\ ShelfInv'
<1> SUFFICES ASSUME CommandsInv, [CommandsNext]_commands
             PROVE  DOMAIN pending' = Conns /\ PendingInv' /\ DOMAIN shelf' = DOMAIN play'.disk /\ ShelfInv'
  OBVIOUS
<1>1. PlayInv /\ Good(world) /\ DOMAIN pending = Conns /\ PendingInv /\ DOMAIN shelf = DOMAIN play.disk
      /\ ShelfInv
  BY DEF CommandsInv
<1>2. PlayStands
  BY PlayStep
<1>3. play'.adventure = play.adventure /\ DOMAIN play'.disk = DOMAIN play.disk
  BY <1>1, <1>2, StandsSame
<1> DEFINE Goal == DOMAIN pending' = Conns /\ PendingInv' /\ DOMAIN shelf' = DOMAIN play'.disk /\ ShelfInv'
<1>4. ASSUME shelf' = shelf PROVE DOMAIN shelf' = DOMAIN play'.disk /\ ShelfInv'
  BY <1>1, <1>3, <1>4 DEF ShelfInv
<1>5. ASSUME pending' = pending, DOMAIN shelf' = DOMAIN shelf PROVE DOMAIN pending' = Conns /\ PendingInv'
  BY <1>1, <1>3, <1>5 DEF PendingInv
<1>6. ASSUME NEW c \in Conns, NEW cmd \in play.commands, Answer(c, cmd) PROVE Goal
  <2>1. PICK batch \in BatchesOf(cmd, world) : Pend(c, cmd, batch)
    BY <1>6 DEF Answer
  <2>2. IsBatch(play.adventure, batch)
    BY <1>1, <1>6, <2>1, BatchesAre DEF Answer
  <2> DEFINE p == [name |-> cmd.name, args |-> cmd.args, batch |-> batch, map |-> None]
  <2>3. pending' = [pending EXCEPT ![c] = p] /\ shelf' = shelf
    BY <1>6, <2>1 DEF Pend, Answer
  <2>4. DOMAIN p = {"name", "args", "batch", "map"} /\ p.batch = batch /\ p.map = None
    OBVIOUS
  <2> HIDE DEF p
  <2>5. DOMAIN pending' = Conns /\ PendingInv'
    BY <1>2, <2>2, <2>3, <2>4, PendsOne
  <2> QED BY <1>4, <2>3, <2>5
<1>7. ASSUME NEW c \in Conns, NEW cmd \in play.commands, AnswerRemoval(c, cmd) PROVE Goal
  <2> DEFINE batch == RevocationsOf(cmd.args.person, world)
             p == [name |-> cmd.name, args |-> cmd.args, batch |-> batch, map |-> None]
  <2>1. shelf' = shelf
    BY <1>7 DEF AnswerRemoval
  <2>2. CASE batch = <<>>
    <3>1. pending' = pending
      BY <1>7, <2>2 DEF AnswerRemoval
    <3> QED BY <1>4, <1>5, <2>1, <3>1
  <2>3. CASE batch # <<>>
    <3>1. pending' = [pending EXCEPT ![c] = p]
      BY <1>7, <2>3 DEF AnswerRemoval, Pend
    <3>2. cmd.args.person \in People
      BY <1>1, <1>7 DEF AnswerRemoval, PlayInv, IsPlay, IsCommand
    <3>3. IsBatch(play.adventure, batch)
      BY <3>2, RevocationsType DEF IsBatch
    <3> HIDE DEF batch
    <3>4. DOMAIN p = {"name", "args", "batch", "map"} /\ p.batch = batch /\ p.map = None
      OBVIOUS
    <3> HIDE DEF p
    <3>5. DOMAIN pending' = Conns /\ PendingInv'
      BY <1>2, <2>1, <3>1, <3>3, <3>4, PendsOne
    <3> QED BY <1>4, <2>1, <3>5
  <2> QED BY <2>2, <2>3
<1>8. ASSUME NEW c \in Conns, NEW cmd \in play.commands, FindMap(c, cmd) PROVE Goal
  <2> DEFINE id == cmd.args.map
             found == IF shelf[id] # None THEN shelf[id] ELSE play.disk[id]
             p == [name |-> cmd.name, args |-> cmd.args, batch |-> <<>>, map |-> found]
  <2>1. shelf' = shelf /\ pending' = [pending EXCEPT ![c] = p]
    BY <1>8 DEF FindMap
  <2>2. id \in DOMAIN play.disk /\ \A i \in DOMAIN play.disk : IsFile(play.disk[i])
    BY <1>1, <1>8 DEF FindMap, PlayInv, IsPlay, IsCommand
  <2>3. found # None => IsScene(found)
    BY <1>1, <2>2 DEF ShelfInv, IsFile
  <2>4. IsBatch(play.adventure, <<>>)
    BY NoFrame DEF IsBatch
  <2>5. id \in DOMAIN shelf
    BY <1>1, <2>2
  <2> HIDE DEF found
  <2>6. DOMAIN p = {"name", "args", "batch", "map"} /\ p.batch = <<>> /\ p.map = found /\ p.args = cmd.args
    OBVIOUS
  <2> HIDE DEF p
  <2>7. DOMAIN pending' = Conns /\ PendingInv'
    BY <1>2, <2>1, <2>3, <2>4, <2>5, <2>6, PendsOne
  <2> QED BY <1>4, <2>1, <2>7
<1>9. ASSUME NEW c \in Conns, KeepMap(c) PROVE Goal
  <2> DEFINE id == pending[c].args.map
             kept == IF shelf[id] # None THEN shelf[id] ELSE pending[c].map
             q == pending[c]
             p == IF Builds(kept, art) THEN [q EXCEPT !.batch = MapEvents(kept), !.map = None] ELSE None
  <2>1. shelf' = [shelf EXCEPT ![id] = kept] /\ pending' = [pending EXCEPT ![c] = p] /\ play' = play
    BY <1>1, <1>9 DEF KeepMap
  <2>2. q # None /\ q.map # None
    BY <1>9 DEF KeepMap, Looking
  <2>3. DOMAIN q = {"name", "args", "batch", "map"} /\ IsScene(q.map) /\ id \in DOMAIN shelf
    BY <1>1, <2>2 DEF PendingInv
  <2>4. IsScene(kept)
    BY <1>1, <2>3 DEF ShelfInv, IsFile
  <2> HIDE DEF kept, q
  <2>5. DOMAIN shelf' = DOMAIN shelf
    BY <2>1
  <2>6. ASSUME NEW i \in DOMAIN shelf' PROVE IsFile(shelf'[i])
    <3>1. CASE i = id
      BY <2>1, <2>3, <2>4, <3>1 DEF IsFile
    <3>2. CASE i # id
      BY <1>1, <2>1, <2>6, <3>2 DEF ShelfInv
    <3> QED BY <3>1, <3>2
  <2>7. IsBatch(play.adventure, MapEvents(kept))
    BY <2>4, MapType DEF IsBatch
  <2>8. p # None => /\ DOMAIN p = {"name", "args", "batch", "map"}
                    /\ p.batch = MapEvents(kept) /\ p.map = None
    BY <2>3
  <2> HIDE DEF p
  <2>9. ASSUME NEW d \in Conns, pending'[d] # None
        PROVE  /\ DOMAIN pending'[d] = {"name", "args", "batch", "map"}
               /\ IsBatch(play'.adventure, pending'[d].batch)
               /\ pending'[d].map # None => IsScene(pending'[d].map) /\ pending'[d].args.map \in DOMAIN shelf'
    <3>1. CASE d = c
      <4>1. pending'[d] = p
        BY <1>1, <2>1, <3>1
      <4> QED BY <2>1, <2>7, <2>8, <2>9, <4>1
    <3>2. CASE d # c
      <4>1. pending'[d] = pending[d]
        BY <1>1, <2>1, <3>2
      <4> QED BY <1>1, <2>1, <2>5, <2>9, <4>1 DEF PendingInv
    <3> QED BY <3>1, <3>2
  <2>10. PendingInv'
    BY <2>9 DEF PendingInv
  <2>11. ShelfInv'
    BY <2>6 DEF ShelfInv
  <2>12. DOMAIN pending' = Conns /\ DOMAIN shelf' = DOMAIN play'.disk
    BY <1>1, <2>1, <2>5
  <2> QED BY <2>10, <2>11, <2>12
<1>10. ASSUME NEW c \in Conns, AppendPending(c) PROVE Goal
  <2>1. shelf' = shelf /\ pending' = [pending EXCEPT ![c] = None]
    BY <1>10 DEF AppendPending
  <2>2. DOMAIN pending' = Conns /\ PendingInv'
    BY <1>2, <2>1, PendsOne
  <2> QED BY <1>4, <2>1, <2>2
<1>11. ASSUME pending' = pending, shelf' = shelf PROVE Goal
  BY <1>4, <1>5, <1>11
<1>12. CommandsNext =>
         \/ \E c \in Conns : \E cmd \in play.commands : Answer(c, cmd) \/ AnswerRemoval(c, cmd) \/ FindMap(c, cmd)
         \/ \E c \in Conns : KeepMap(c) \/ AppendPending(c)
         \/ pending' = pending /\ shelf' = shelf
  BY DEF CommandsNext, EditArt, EditMap
<1>13. UNCHANGED commands => pending' = pending /\ shelf' = shelf
  BY DEF commands
<1> HIDE DEF Goal
<1> QED BY <1>6, <1>7, <1>8, <1>9, <1>10, <1>11, <1>12, <1>13 DEF Goal

\* A batch is appended in whole or not at all.
LEMMA AppendIs ==
  ASSUME CommandsInv, NEW c \in Conns, AppendPending(c)
  PROVE  LET batch == pending[c].batch
             log == Logged(world, batch)
         IN  /\ IsBatch(play.adventure, batch) /\ batch \in Seq(Events)
             /\ (log = batch /\ Folded(world, batch) # None) \/ log = <<>>
             /\ log \in Seq(Events) /\ Folded(world, log) # None
             /\ Good(Folded(world, log))
             /\ world' = Folded(world, log) /\ ledger' = Reckoned(pending[c], world, log)
<1> DEFINE batch == pending[c].batch
           log == Logged(world, batch)
<1>1. Good(world) /\ PlayInv /\ PendingInv /\ pending[c] # None
  BY DEF CommandsInv, AppendPending
<1>2. IsBatch(play.adventure, batch)
  BY <1>1 DEF PendingInv
<1>3. batch \in Seq(Events)
  <2>1. Plain \subseteq Events
    BY DEF Plain
  <2>2. play.adventure # None => AdventureEvents(play.adventure) \in Seq(Events)
    BY <1>1, AdventureType DEF PlayInv, IsPlay
  <2> QED BY <1>2, <2>1, <2>2, WiderSeq DEF IsBatch
<1>4. world' = Folded(world, log) /\ ledger' = Reckoned(pending[c], world, log)
  BY DEF AppendPending
<1> HIDE DEF batch
<1>5. (log = batch /\ Folded(world, batch) # None) \/ log = <<>>
  BY DEF Logged
<1>6. <<>> \in Seq(Events)
  BY NoFrame
<1>7. Folded(world, <<>>) = world /\ world # None
  BY <1>1, FoldedEmpty, EngineAssumption DEF Good
<1> HIDE DEF log
<1>8. log \in Seq(Events) /\ Folded(world, log) # None
  BY <1>3, <1>5, <1>6, <1>7
<1>9. Good(Folded(world, log))
  BY <1>1, <1>8, FoldedGood
<1> QED BY <1>2, <1>3, <1>4, <1>5, <1>8, <1>9 DEF batch, log


-----------------------------------------------------------------------------
(* An adventure is loaded once.                                            *)

LEMMA FirstScene ==
  ASSUME NEW adv, IsAdventure(adv), adv.scenes # <<>>
  PROVE  /\ IsScene(adv.scenes[1])
         /\ \E b \in Seq(Events) :
              AdventureEvents(adv) = Opening \o <<Created(adv.scenes[1])>> \o b
<1> DEFINE o == Opening
           s == CreatedOf(adv)
           e == <<s[1]>>
           t == Tail(s)
           c == AddedOf(adv)
           d == FlattenSeq(PlacingsOf(adv))
           n == NotedOf(adv)
           f == Telling
<1>1. o \in Seq(Events) /\ s \in Seq(Events) /\ c \in Seq(Events) /\ d \in Seq(Events)
      /\ n \in Seq(Events) /\ f \in Seq(Events)
  BY AdventureParts, FlattenType
<1>2. adv.scenes \in Seq(ToSet(adv.scenes)) /\ \A m \in ToSet(adv.scenes) : IsScene(m)
  BY DEF IsAdventure
<1>3. Len(adv.scenes) \in Nat /\ Len(adv.scenes) > 0 /\ DOMAIN adv.scenes = 1 .. Len(adv.scenes)
  BY <1>2
<1>4. IsScene(adv.scenes[1])
  BY <1>2, <1>3 DEF ToSet
<1>5. Len(s) = Len(adv.scenes) /\ s[1] = Created(adv.scenes[1])
  BY <1>3 DEF CreatedOf
<1>6. AdventureEvents(adv) = o \o s \o c \o d \o n \o f
  BY AdventureIs
<1> HIDE DEF o, s, c, d, n, f
<1>7. e \in Seq(Events) /\ t \in Seq(Events) /\ s = e \o t
  BY <1>1, <1>3, <1>5
<1> HIDE DEF e, t
<1>8. AdventureEvents(adv) = (o \o e) \o (t \o c \o d \o n \o f) /\ t \o c \o d \o n \o f \in Seq(Events)
  <2> DEFINE E == Events
  <2>1. o \in Seq(E) /\ e \in Seq(E) /\ t \in Seq(E)
    BY <1>1, <1>7
  <2>4. c \in Seq(E)
    BY <1>1
  <2>5. d \in Seq(E)
    BY <1>1
  <2>6. n \in Seq(E)
    BY <1>1
  <2>7. f \in Seq(E)
    BY <1>1
  <2>8. AdventureEvents(adv) = o \o (e \o t) \o c \o d \o n \o f
    BY ONLY <1>6, <1>7, Zenon
  <2> HIDE DEF E
  <2>9. /\ o \o (e \o t) \o c \o d \o n \o f = (o \o e) \o (t \o c \o d \o n \o f)
        /\ t \o c \o d \o n \o f \in Seq(E)
    <3> DEFINE x == o \o e
               y == t \o c
               z == y \o d
               w == z \o n
    <3>1. x \in Seq(E) /\ o \o (e \o t) = x \o t
      BY ONLY <2>1
    <3> HIDE DEF x
    <3>2. y \in Seq(E) /\ (x \o t) \o c = x \o y
      BY ONLY <2>1, <2>4, <3>1
    <3> HIDE DEF y
    <3>3. x \in Seq(E) /\ y \in Seq(E)
      BY ONLY <3>1, <3>2, Zenon
    <3>4. z \in Seq(E) /\ (x \o y) \o d = x \o z
      BY ONLY <2>5, <3>3
    <3> HIDE DEF z
    <3>5. w \in Seq(E) /\ (x \o z) \o n = x \o w
      BY ONLY <2>6, <3>3, <3>4
    <3> HIDE DEF w
    <3>6. w \in Seq(E)
      BY ONLY <3>5, Zenon
    <3>7. w \o f \in Seq(E) /\ (x \o w) \o f = x \o (w \o f)
      BY ONLY <2>7, <3>3, <3>6
    <3> DEFINE r == o \o (e \o t)
    <3>8. r \o c = x \o y
      BY ONLY <3>1, <3>2, Zenon
    <3> HIDE DEF r
    <3>9. r \o c \o d \o n \o f = x \o (w \o f)
      BY ONLY <3>4, <3>5, <3>7, <3>8, Zenon
    <3> QED BY ONLY <3>7, <3>9, Zenon DEF x, y, z, w, r
  <2> QED BY ONLY <2>8, <2>9, Zenon DEF E
<1>9. AdventureEvents(adv) = o \o e \o (t \o c \o d \o n \o f)
  BY <1>8
<1> DEFINE b == t \o c \o d \o n \o f
<1> HIDE DEF b
<1>10. AdventureEvents(adv) = o \o e \o b /\ b \in Seq(Events)
  BY <1>8, <1>9 DEF b
<1> QED BY <1>4, <1>5, <1>10 DEF e, o

\* An adventure's batch is taken where its first scene is not yet there, and then it is.
LEMMA LedgerAppend ==
  ASSUME CommandsInv, PlayStands, NEW c \in Conns, AppendPending(c)
  PROVE  LedgerInv'
<1> DEFINE batch == pending[c].batch
           log == Logged(world, batch)
           adv == play.adventure
           loads == ledger.loads
           uses == [ledger EXCEPT !.uses = @ + 1,
                     !.paid = @ + world.actors[pending[c].args.caster].cur
                                - Changed(world.actors[pending[c].args.caster], -power.cost)]
<1>1. /\ IsBatch(adv, batch) /\ batch \in Seq(Events)
      /\ (log = batch /\ Folded(world, batch) # None) \/ log = <<>>
      /\ log \in Seq(Events) /\ Folded(world, log) # None /\ world' = Folded(world, log)
      /\ ledger' = Reckoned(pending[c], world, log)
  BY AppendIs
<1>2. PlayInv /\ Good(world) /\ LedgerInv
  BY DEF CommandsInv
<1>3. play'.adventure = adv
  BY <1>2, StandsSame
<1>4. DOMAIN ledger = {"loads", "uses", "paid"} /\ loads \in Nat
  BY <1>2 DEF LedgerInv
<1>5. \/ ledger' = uses
      \/ Has(log, "AdventureLoaded") /\ ledger' = [ledger EXCEPT !.loads = @ + 1]
      \/ ledger' = ledger
  <2> HIDE DEF log
  <2> QED BY <1>1 DEF Reckoned
<1>6. /\ DOMAIN ledger' = {"loads", "uses", "paid"}
      /\ ledger'.loads = loads \/ (Has(log, "AdventureLoaded") /\ ledger'.loads = loads + 1)
  <2> HIDE DEF log
  <2>1. CASE ledger' = uses
    <3>1. DOMAIN uses = {"loads", "uses", "paid"} /\ uses.loads = ledger.loads
      BY <1>4
    <3> HIDE DEF uses
    <3> QED BY <2>1, <3>1
  <2>2. CASE Has(log, "AdventureLoaded") /\ ledger' = [ledger EXCEPT !.loads = @ + 1]
    BY <1>4, <2>2
  <2>3. CASE ledger' = ledger
    BY <1>4, <2>3
  <2> HIDE DEF uses
  <2> QED BY <1>5, <2>1, <2>2, <2>3
<1>7. ASSUME adv # None, adv.scenes # <<>>, loads = 1, HasScene(world, adv.scenes[1].id)
      PROVE  HasScene(world', adv.scenes[1].id)
  BY <1>1, <1>2, <1>7, ScenesStay
<1>8. ASSUME adv # None, adv.scenes # <<>>, Has(log, "AdventureLoaded")
      PROVE  ~HasScene(world, adv.scenes[1].id) /\ HasScene(world', adv.scenes[1].id)
  <2>1. log # <<>>
    BY <1>8 DEF Has, ToSet
  <2>2. log = batch /\ log \notin Seq(Plain)
    <3>1. log = batch
      BY <1>1, <2>1
    <3>2. ASSUME log \in Seq(Plain) PROVE FALSE
      <4>1. PICK e \in ToSet(log) : e.type = "AdventureLoaded"
        BY <1>8 DEF Has
      <4> HIDE DEF log
      <4>2. e \in Plain
        BY <3>2 DEF ToSet
      <4> QED BY <4>1, <4>2 DEF Plain
    <3> QED BY <3>1, <3>2
  <2>3. log = AdventureEvents(adv)
    BY <1>1, <2>2 DEF IsBatch
  <2>4. IsAdventure(adv)
    BY <1>2, <1>8 DEF PlayInv, IsPlay
  <2>5. PICK b \in Seq(Events) : AdventureEvents(adv) = Opening \o <<Created(adv.scenes[1])>> \o b
    BY <1>8, <2>4, FirstScene
  <2>6. IsScene(adv.scenes[1]) /\ Opening \in Seq(Events)
    BY <1>8, <2>4, FirstScene, AdventureParts
  <2>7. Folded(world, Opening \o <<Created(adv.scenes[1])>> \o b) = world' /\ world' # None
    BY <1>1, <2>3, <2>5
  <2> HIDE DEF adv, log
  <2> QED BY <1>2, <2>6, <2>7, CreatedOnce
<1>9. ledger'.loads \in Nat
  BY <1>4, <1>6
<1>10. ASSUME adv # None, adv.scenes # <<>>
       PROVE  ledger'.loads = 0 \/ (ledger'.loads = 1 /\ HasScene(world', adv.scenes[1].id))
  <2>1. loads = 0 \/ (loads = 1 /\ HasScene(world, adv.scenes[1].id))
    BY <1>2, <1>10 DEF LedgerInv
  <2>2. CASE Has(log, "AdventureLoaded")
    <3>1. loads = 0 /\ HasScene(world', adv.scenes[1].id)
      BY <1>8, <1>10, <2>1, <2>2
    <3> QED BY <1>6, <3>1
  <2>3. CASE ~Has(log, "AdventureLoaded")
    BY <1>6, <1>7, <1>10, <2>1, <2>3
  <2> QED BY <2>2, <2>3
<1> HIDE DEF adv, loads, log
<1> QED BY <1>3, <1>6, <1>9, <1>10 DEF LedgerInv

LEMMA WorldStep == CommandsInv /\ [CommandsNext]_commands => Good(world') /\ LedgerInv'
<1> SUFFICES ASSUME CommandsInv, [CommandsNext]_commands PROVE Good(world') /\ LedgerInv'
  OBVIOUS
<1>1. PlayInv /\ Good(world) /\ LedgerInv /\ PlayStands
  BY PlayStep DEF CommandsInv
<1>2. ASSUME world' = world, ledger' = ledger PROVE Good(world') /\ LedgerInv'
  <2>1. play'.adventure = play.adventure
    BY <1>1, StandsSame
  <2> QED BY <1>1, <1>2, <2>1 DEF LedgerInv
<1>3. ASSUME NEW c \in Conns, AppendPending(c) PROVE Good(world') /\ LedgerInv'
  BY <1>1, <1>3, AppendIs, LedgerAppend
<1>4. CommandsNext => (world' = world /\ ledger' = ledger) \/ \E c \in Conns : AppendPending(c)
  BY DEF CommandsNext, Answer, AnswerRemoval, FindMap, KeepMap, EditArt, EditMap
<1>5. UNCHANGED commands => world' = world /\ ledger' = ledger
  BY DEF commands
<1> QED BY <1>2, <1>3, <1>4, <1>5

\* What an ability may come to now.
LEMMA RunsFollow ==
  ASSUME CommandsInv, NEW run \in RunsNow
  PROVE  FoldsAsRun(world, run) /\ AllRecorded(run)
<1>1. PlayInv /\ Good(world)
  BY DEF CommandsInv
<1>2. IsPlay(play) /\ world \in State
  BY <1>1 DEF PlayInv, Good
<1>3. PICK use \in UsesOf : power # Refused /\ run \in RunsOf(use, world)
  BY DEF RunsNow
<1>4. use.caster \in Actors /\ use.targets \in Seq(Actors)
  BY <1>2, <1>3 DEF UsesOf, IsPlay, IsCommand
<1>5. PICK luck \in Lucks(use) : run = Resolve(play.ruleset, power, world, use, luck) /\ run # Refused
  BY <1>3 DEF RunsOf
<1>6. IsPower(power) /\ LoadsRuleset(play.ruleset) /\ IsRuleset(play.ruleset)
  BY <1>1, <1>2, <1>3, PowerType DEF PlayInv, IsPlay
<1>7. run \in Outcomes(world)
  BY <1>2, <1>4, <1>5, <1>6, ResolveFollows
<1> QED BY <1>2, <1>5, <1>7, ResolvedIs DEF Outcomes

-----------------------------------------------------------------------------
(* The theorems of the commands.                                           *)

\* What the server was started with, the world, and every batch that waits.
THEOREM CommandsInvHolds == CommandsSpec => []CommandsInv
<1>1. CommandsInit => CommandsInv
  BY CommandsInitInv
<1>2. CommandsInv /\ [CommandsNext]_commands => CommandsInv'
  BY PlayStep, PendingStep, WorldStep DEF CommandsInv
<1> QED BY <1>1, <1>2, PTL DEF CommandsSpec

\* An ability that resolves has a batch the fold takes, and the fold makes of it what
\* the resolver did, for every ruleset, ability, state, target and throw of the dice.
THEOREM AbilitiesFold == CommandsSpec => []AbilitiesAreFolded
<1>1. CommandsInv => AbilitiesAreFolded
  BY RunsFollow DEF AbilitiesAreFolded
<1> QED BY <1>1, CommandsInvHolds, PTL

\* No die is thrown for an ability that is not recorded.
THEOREM EveryDieIsRecorded == CommandsSpec => []DiceAreRecorded
<1>1. CommandsInv => DiceAreRecorded
  BY RunsFollow DEF DiceAreRecorded
<1> QED BY <1>1, CommandsInvHolds, PTL

\* An adventure with a scene is loaded once, whatever is appended between a handler's
\* look at the world and its append.
THEOREM AdventureLoadsOnce == CommandsSpec => []LoadedOnce
<1>1. CommandsInv => LoadedOnce
  BY DEF CommandsInv, LedgerInv, LoadedOnce
<1> QED BY <1>1, CommandsInvHolds, PTL


-----------------------------------------------------------------------------
(* An adventure that collides with nothing.                                *)

\* A fold goes where each of its steps goes.
LEMMA FoldAlong ==
  ASSUME NEW st, NEW X, NEW frames \in Seq(X), NEW K, st \in K[0],
         \A i \in 1 .. Len(frames) : \A y \in K[i - 1] : FoldStep(y, frames[i]) \in K[i]
  PROVE  Folded(st, frames) \in K[Len(frames)]
<1>1. PICK q : Runs("server", q, st, frames) /\ Folded(st, frames) = q[Len(frames)]
  BY RunExists
<1> DEFINE n == Len(frames)
           T == {k \in 0 .. n : q[k] \in K[k]}
<1>2. n \in Nat
  OBVIOUS
<1>3. 0 \in T
  BY <1>1, <1>2 DEF Runs
<1>4. ASSUME NEW k \in 0 .. n, k < n, k \in T PROVE k + 1 \in T
  <2>1. k + 1 \in 1 .. n /\ k + 1 \in 0 .. n /\ (k + 1) - 1 = k
    BY <1>2, <1>4
  <2>2. q[k + 1] = FoldStep(q[k], frames[k + 1])
    BY <1>1, <2>1 DEF Runs, StepBy
  <2>3. FoldStep(q[k], frames[k + 1]) \in K[k + 1]
    BY <1>4, <2>1
  <2> QED BY <2>1, <2>2, <2>3
<1> HIDE DEF T
<1>5. \A k \in 0 .. n : k \in T
  BY <1>2, <1>3, <1>4, UpTo
<1>6. q[n] \in K[n]
  BY <1>2, <1>5 DEF T
<1> QED BY <1>1, <1>6

\* Ids of which none is there twice.
LEMMA DistinctIs ==
  ASSUME NEW n \in Nat, NEW ids, ids = [i \in 1 .. n |-> ids[i]], Distinct(ids)
  PROVE  \A i, j \in 1 .. n : ids[i] = ids[j] => i = j
<1> DEFINE T == ToSet(ids)
<1>1. DOMAIN ids = 1 .. n /\ Len(ids) = n
  OBVIOUS
<1>2. T = {ids[i] : i \in 1 .. n}
  BY <1>1 DEF ToSet
<1>3. ids \in Surjection(1 .. n, T)
  <2>1. ids \in [1 .. n -> T]
    BY <1>2
  <2> QED BY <1>2, <2>1 DEF Surjection
<1>4. IsFiniteSet(1 .. n) /\ Cardinality(1 .. n) = n
  BY FS_Interval
<1>5. Cardinality(T) = n
  BY <1>1 DEF Distinct
<1> HIDE DEF T
<1>6. ids \in Injection(1 .. n, T)
  BY <1>3, <1>4, <1>5, FS_SurjSameCardinalityImpliesInj
<1> QED BY <1>1, <1>6 DEF Injection, IsInjective

\* The scenes.
LEMMA CreatedAll ==
  ASSUME NEW st, Good(st), NEW adv, IsAdventure(adv),
         Distinct([i \in DOMAIN adv.scenes |-> adv.scenes[i].id]),
         \A m \in ToSet(adv.scenes) : ~HasScene(st, m.id)
  PROVE  LET y == Folded(st, CreatedOf(adv))
         IN  /\ Good(y) /\ y.tokens = st.tokens /\ y.actors = st.actors
             /\ \A m \in ToSet(adv.scenes) : HasScene(y, m.id)
<1> DEFINE n == Len(adv.scenes)
           id(i) == adv.scenes[i].id
           K == [i \in 0 .. n |->
                   {y \in GoodStates : /\ y.tokens = st.tokens /\ y.actors = st.actors
                                       /\ \A j \in 1 .. n : HasScene(y, id(j)) <=> j <= i}]
           frames == CreatedOf(adv)
<1>1. n \in Nat /\ DOMAIN adv.scenes = 1 .. n /\ \A i \in 1 .. n : adv.scenes[i] \in ToSet(adv.scenes)
  BY DEF IsAdventure, ToSet
<1>2. \A i \in 1 .. n : IsScene(adv.scenes[i])
  BY <1>1 DEF IsAdventure
<1>3. \A i, j \in 1 .. n : id(i) = id(j) => i = j
  <2> DEFINE ids == [i \in 1 .. n |-> id(i)]
  <2>1. Distinct(ids)
    BY <1>1
  <2>2. ids = [i \in 1 .. n |-> ids[i]] /\ \A i \in 1 .. n : ids[i] = id(i)
    OBVIOUS
  <2> HIDE DEF ids
  <2>3. \A i, j \in 1 .. n : ids[i] = ids[j] => i = j
    BY <1>1, <2>1, <2>2, DistinctIs
  <2> QED BY <2>2, <2>3
<1>4. frames \in Seq(Events) /\ Len(frames) = n /\ \A i \in 1 .. n : frames[i] = Created(adv.scenes[i])
  <2>1. frames \in Seq(Events)
    BY AdventureParts
  <2> QED BY <1>1, <2>1 DEF CreatedOf
<1>5. st \in K[0]
  <2>1. \A j \in 1 .. n : ~HasScene(st, id(j)) /\ ~(j <= 0)
    BY <1>1
  <2>2. st \in GoodStates /\ 0 \in 0 .. n
    BY <1>1, GoodIsGood
  <2> QED BY <2>1, <2>2
<1>6. ASSUME NEW i \in 1 .. n, NEW y \in K[i - 1]
      PROVE  FoldStep(y, Created(adv.scenes[i])) \in K[i]
  <2> DEFINE e == Created(adv.scenes[i])
             new == [open |-> {}, visible |-> None, explored |-> {}]
  <2>1. i - 1 \in 0 .. n /\ i \in 0 .. n /\ ~(i <= i - 1)
    BY <1>1
  <2>2. /\ Good(y) /\ y \in State /\ y.tokens = st.tokens /\ y.actors = st.actors
        /\ \A j \in 1 .. n : HasScene(y, id(j)) <=> j <= i - 1
    BY <2>1, GoodIsGood DEF Good
  <2>3. e \in Events /\ id(i) \in Scenes /\ e.type = "SceneCreated" /\ e.scene = id(i)
    BY <1>2, PlacingType DEF Plain, IsScene, Created
  <2>4. new # None
    <3>1. new \in Scene
      BY DEF Scene
    <3> QED BY <3>1, EngineAssumption
  <2>5. After(y, e) = [y EXCEPT !.scenes[id(i)] = new]
    BY <2>3 DEF After
  <2> HIDE DEF e, new
  <2>6. Accepts(y, e) /\ y # None
    BY <2>1, <2>2, <2>3, EngineAssumption DEF Accepts
  <2>7. Good(After(y, e))
    BY <2>2, <2>3, <2>6, AcceptedKeepsSound
  <2>8. After(y, e).tokens = y.tokens /\ After(y, e).actors = y.actors
        /\ After(y, e).scenes = [y.scenes EXCEPT ![id(i)] = new]
    BY <2>2, <2>5 DEF State
  <2>9. ASSUME NEW j \in 1 .. n PROVE HasScene(After(y, e), id(j)) <=> j <= i
    <3>1. id(j) \in Scenes /\ y.scenes \in [Scenes -> Scene \cup {None}]
      BY <1>2, <2>2 DEF IsScene, State
    <3>2. CASE j = i
      BY <1>1, <2>4, <2>8, <3>1, <3>2 DEF HasScene
    <3>3. CASE j # i
      <4>1. id(j) # id(i)
        BY <1>3, <3>3
      <4>2. HasScene(After(y, e), id(j)) <=> HasScene(y, id(j))
        BY <2>8, <3>1, <4>1 DEF HasScene
      <4>3. j <= i - 1 <=> j <= i
        BY <1>1, <3>3
      <4> QED BY <2>2, <4>2, <4>3
    <3> QED BY <3>2, <3>3
  <2>10. After(y, e) \in K[i]
    BY <2>1, <2>2, <2>7, <2>8, <2>9, GoodIsGood
  <2> QED BY <2>6, <2>10 DEF FoldStep, e
<1> HIDE DEF K, frames
<1>7. Folded(st, frames) \in K[n]
  <2>1. \A i \in 1 .. Len(frames) : \A y \in K[i - 1] : FoldStep(y, frames[i]) \in K[i]
    BY <1>4, <1>6
  <2> QED BY <1>4, <1>5, <2>1, FoldAlong
<1>8. /\ Good(Folded(st, frames)) /\ Folded(st, frames).tokens = st.tokens
      /\ Folded(st, frames).actors = st.actors
      /\ \A j \in 1 .. n : HasScene(Folded(st, frames), id(j))
  <2>1. n \in 0 .. n /\ \A j \in 1 .. n : j <= n
    BY <1>1
  <2> QED BY <1>7, <2>1, GoodIsGood DEF K
<1>9. \A m \in ToSet(adv.scenes) : \E j \in 1 .. n : m.id = id(j)
  BY <1>1 DEF ToSet
<1> QED BY <1>8, <1>9 DEF frames


\* The actors, whom nobody controls yet.
LEMMA AddedAll ==
  ASSUME NEW st, Good(st), NEW adv, IsAdventure(adv),
         Distinct([i \in DOMAIN adv.actors |-> adv.actors[i].actor]),
         \A a \in ToSet(adv.actors) : ~HasActor(st, a.actor)
  PROVE  LET y == Folded(st, AddedOf(adv))
         IN  /\ Good(y) /\ y.tokens = st.tokens /\ y.scenes = st.scenes
             /\ \A a \in ToSet(adv.actors) : HasActor(y, a.actor)
<1> DEFINE n == Len(adv.actors)
           id(i) == adv.actors[i].actor
           K == [i \in 0 .. n |->
                   {y \in GoodStates : /\ y.tokens = st.tokens /\ y.scenes = st.scenes
                                       /\ \A j \in 1 .. n : HasActor(y, id(j)) <=> j <= i}]
           frames == AddedOf(adv)
           Add(i) == [type |-> "ActorAdded", actor |-> id(i), is |-> adv.actors[i].is]
<1>1. n \in Nat /\ DOMAIN adv.actors = 1 .. n /\ \A i \in 1 .. n : adv.actors[i] \in ToSet(adv.actors)
  BY DEF IsAdventure, ToSet
<1>2. \A i \in 1 .. n : adv.actors[i] \in [actor : Actors, is : Sheet]
  <2> DEFINE X == [actor : Actors, is : Sheet]
  <2>1. adv.actors \in Seq(X)
    BY DEF IsAdventure
  <2> HIDE DEF X
  <2>2. \A i \in 1 .. n : adv.actors[i] \in X
    BY <2>1
  <2> QED BY <2>2 DEF X
<1>3. \A i, j \in 1 .. n : id(i) = id(j) => i = j
  <2> DEFINE ids == [i \in 1 .. n |-> id(i)]
  <2>1. Distinct(ids)
    BY <1>1
  <2>2. ids = [i \in 1 .. n |-> ids[i]] /\ \A i \in 1 .. n : ids[i] = id(i)
    OBVIOUS
  <2> HIDE DEF ids
  <2>3. \A i, j \in 1 .. n : ids[i] = ids[j] => i = j
    BY <1>1, <2>1, <2>2, DistinctIs
  <2> QED BY <2>2, <2>3
<1>4. frames \in Seq(Events) /\ Len(frames) = n /\ \A i \in 1 .. n : frames[i] = Add(i)
  <2>1. frames \in Seq(Events)
    BY AdventureParts
  <2> QED BY <1>1, <2>1 DEF AddedOf
<1>5. st \in K[0]
  <2>1. \A j \in 1 .. n : ~HasActor(st, id(j)) /\ ~(j <= 0)
    BY <1>1
  <2>2. st \in GoodStates /\ 0 \in 0 .. n
    BY <1>1, GoodIsGood
  <2> QED BY <2>1, <2>2
<1>6. ASSUME NEW i \in 1 .. n, NEW y \in K[i - 1] PROVE FoldStep(y, Add(i)) \in K[i]
  <2> DEFINE e == Add(i)
             new == adv.actors[i].is
  <2>1. i - 1 \in 0 .. n /\ i \in 0 .. n /\ ~(i <= i - 1)
    BY <1>1
  <2>2. /\ Good(y) /\ y \in State /\ y.tokens = st.tokens /\ y.scenes = st.scenes
        /\ \A j \in 1 .. n : HasActor(y, id(j)) <=> j <= i - 1
    BY <2>1, GoodIsGood DEF Good
  <2>3. id(i) \in Actors /\ new \in Sheet
    BY <1>2
  <2>4. new \in Actor /\ new.ctl = {}
    BY <2>3 DEF Sheet, Actor
  <2>5. new # None /\ id(i) # None
    BY <2>3, <2>4, EngineAssumption
  <2>6. e \in Events
    <3>1. /\ e = [type |-> "ActorAdded", actor |-> id(i), is |-> new]
          /\ new \in [name : Names \cup {None}, body : Bodies \cup {None}, cur : Int32,
                      kind : Kinds, ctl : SUBSET People]
      BY <2>4 DEF Actor
    <3> HIDE DEF e, new
    <3> QED BY <2>3, <3>1 DEF Events
  <2>7. e.type = "ActorAdded" /\ e.actor = id(i) /\ e.is = new
    OBVIOUS
  <2>8. After(y, e) = [y EXCEPT !.actors[id(i)] = new]
    BY <2>7 DEF After
  <2> HIDE DEF e, new
  <2>9. Accepts(y, e) /\ y # None
    BY <2>1, <2>2, <2>4, <2>5, <2>7, EngineAssumption DEF Accepts, AcceptsActor
  <2>10. Good(After(y, e))
    BY <2>2, <2>6, <2>9, AcceptedKeepsSound
  <2>11. After(y, e).tokens = y.tokens /\ After(y, e).scenes = y.scenes
         /\ After(y, e).actors = [y.actors EXCEPT ![id(i)] = new]
    BY <2>2, <2>8 DEF State
  <2>12. ASSUME NEW j \in 1 .. n PROVE HasActor(After(y, e), id(j)) <=> j <= i
    <3>1. id(j) \in Actors /\ y.actors \in [Actors -> Actor \cup {None}]
      BY <1>2, <2>2 DEF State
    <3>2. CASE j = i
      BY <1>1, <2>5, <2>11, <3>1, <3>2 DEF HasActor
    <3>3. CASE j # i
      <4>1. id(j) # id(i)
        BY <1>3, <3>3
      <4>2. HasActor(After(y, e), id(j)) <=> HasActor(y, id(j))
        BY <2>11, <3>1, <4>1 DEF HasActor
      <4>3. j <= i - 1 <=> j <= i
        BY <1>1, <3>3
      <4> QED BY <2>2, <4>2, <4>3
    <3> QED BY <3>2, <3>3
  <2>13. After(y, e) \in K[i]
    BY <2>1, <2>2, <2>10, <2>11, <2>12, GoodIsGood
  <2> QED BY <2>9, <2>13 DEF FoldStep, e
<1> HIDE DEF K, frames, Add
<1>7. Folded(st, frames) \in K[n]
  <2>1. \A i \in 1 .. Len(frames) : \A y \in K[i - 1] : FoldStep(y, frames[i]) \in K[i]
    BY <1>4, <1>6
  <2> QED BY <1>4, <1>5, <2>1, FoldAlong
<1>8. /\ Good(Folded(st, frames)) /\ Folded(st, frames).tokens = st.tokens
      /\ Folded(st, frames).scenes = st.scenes
      /\ \A j \in 1 .. n : HasActor(Folded(st, frames), id(j))
  <2>1. n \in 0 .. n /\ \A j \in 1 .. n : j <= n
    BY <1>1
  <2> QED BY <1>7, <2>1, GoodIsGood DEF K
<1>9. \A a \in ToSet(adv.actors) : \E j \in 1 .. n : a.actor = id(j)
  BY <1>1 DEF ToSet
<1> QED BY <1>8, <1>9 DEF frames

\* The placements of the scenes, and the events they become, each in one sequence.
PlacesOf(adv) == [i \in DOMAIN adv.scenes |-> adv.scenes[i].places]

\* A token an adventure places, on the map it is on.
IsPlacing(adv, e, p) ==
  \E m \in ToSet(adv.scenes) : p \in ToSet(m.places) /\ e = Placed(m, p)

LEMMA PlacedInStep ==
  ASSUME NEW adv, IsAdventure(adv)
  PROVE  LET events == FlattenSeq(PlacingsOf(adv))
             places == FlattenSeq(PlacesOf(adv))
         IN  /\ events \in Seq(Events) /\ places \in Seq(Spot) /\ Len(events) = Len(places)
             /\ \A x \in 1 .. Len(places) : IsPlacing(adv, events[x], places[x])
<1> DEFINE n == Len(adv.scenes)
           P == PlacingsOf(adv)
           Q == PlacesOf(adv)
<1>1. n \in Nat /\ DOMAIN adv.scenes = 1 .. n /\ \A i \in 1 .. n : adv.scenes[i] \in ToSet(adv.scenes)
  BY DEF IsAdventure, ToSet
<1>2. \A i \in 1 .. n : IsScene(adv.scenes[i])
  BY <1>1 DEF IsAdventure
<1>3. P \in Seq(Seq(Events)) /\ Len(P) = n /\ \A i \in 1 .. n : P[i] = Placing(adv.scenes[i])
  <2>1. P \in Seq(Seq(Events))
    BY AdventureParts
  <2> QED BY <1>1, <2>1 DEF PlacingsOf
<1>4. Q \in Seq(Seq(Spot)) /\ Len(Q) = n /\ \A i \in 1 .. n : Q[i] = adv.scenes[i].places
  <2>1. \A i \in 1 .. n : adv.scenes[i].places \in Seq(Spot)
    BY <1>2 DEF IsScene
  <2> QED BY <1>1, <2>1 DEF PlacesOf
<1>5. ASSUME NEW i \in 1 .. n
      PROVE  /\ P[i] \in Seq(Events) /\ Q[i] \in Seq(Spot) /\ Len(P[i]) = Len(Q[i])
             /\ \A x \in 1 .. Len(Q[i]) : IsPlacing(adv, P[i][x], Q[i][x])
  <2> DEFINE m == adv.scenes[i]
  <2>1. P[i] \in Seq(Events) /\ Q[i] \in Seq(Spot)
    BY <1>3, <1>4
  <2>2. P[i] = [x \in DOMAIN m.places |-> Placed(m, m.places[x])] /\ Q[i] = m.places
    BY <1>3, <1>4 DEF Placing
  <2>3. m \in ToSet(adv.scenes)
    BY <1>1
  <2> HIDE DEF P, Q, m
  <2>4. DOMAIN P[i] = DOMAIN Q[i] /\ DOMAIN Q[i] = 1 .. Len(Q[i])
    BY <2>1, <2>2
  <2>5. Len(P[i]) = Len(Q[i])
    BY <2>1, <2>4
  <2>6. ASSUME NEW x \in 1 .. Len(Q[i]) PROVE IsPlacing(adv, P[i][x], Q[i][x])
    <3>1. P[i][x] = Placed(m, Q[i][x]) /\ Q[i][x] \in ToSet(m.places)
      BY <2>2, <2>4 DEF ToSet
    <3> QED BY <2>3, <3>1 DEF IsPlacing
  <2> QED BY <2>1, <2>5, <2>6
<1> HIDE DEF P, Q
<1>6. PICK f : Flattens(f, Events, P)
  BY <1>3, FlattenRuns
<1>7. PICK g : Flattens(g, Spot, Q)
  BY <1>4, FlattenRuns
<1> DEFINE Same(a, b) == /\ a \in Seq(Events) /\ b \in Seq(Spot) /\ Len(a) = Len(b)
                         /\ \A x \in 1 .. Len(b) : IsPlacing(adv, a[x], b[x])
           T == {k \in 0 .. n : Same(f[k], g[k])}
<1>8. 0 \in T
  <2>1. f[0] = <<>> /\ g[0] = <<>> /\ 0 \in 0 .. n
    BY <1>1, <1>6, <1>7 DEF Flattens
  <2>2. Same(<<>>, <<>>)
    OBVIOUS
  <2> QED BY <2>1, <2>2
<1>9. ASSUME NEW a \in Seq(Events), NEW b \in Seq(Spot), NEW c \in Seq(Events), NEW d \in Seq(Spot),
             Same(a, b), Same(c, d)
      PROVE  Same(a \o c, b \o d)
  <2>1. Len(a) = Len(b) /\ Len(c) = Len(d) /\ Len(b) \in Nat /\ Len(d) \in Nat
    BY <1>9
  <2>2. /\ a \o c \in Seq(Events) /\ Len(a \o c) = Len(a) + Len(c)
        /\ \A x \in 1 .. Len(a) + Len(c) : (a \o c)[x] = IF x <= Len(a) THEN a[x] ELSE c[x - Len(a)]
    BY ConcatProperties
  <2>3. /\ b \o d \in Seq(Spot) /\ Len(b \o d) = Len(b) + Len(d)
        /\ \A x \in 1 .. Len(b) + Len(d) : (b \o d)[x] = IF x <= Len(b) THEN b[x] ELSE d[x - Len(b)]
    BY ConcatProperties
  <2> DEFINE ac == a \o c
             bd == b \o d
  <2> HIDE DEF ac, bd
  <2>4. ASSUME NEW x \in 1 .. Len(b) + Len(d) PROVE IsPlacing(adv, ac[x], bd[x])
    <3>1. CASE x <= Len(b)
      <4>1. ac[x] = a[x] /\ bd[x] = b[x] /\ x \in 1 .. Len(b)
        BY <2>1, <2>2, <2>3, <3>1 DEF ac, bd
      <4> QED BY <1>9, <4>1
    <3>2. CASE ~(x <= Len(b))
      <4>1. ac[x] = c[x - Len(b)] /\ bd[x] = d[x - Len(b)] /\ x - Len(b) \in 1 .. Len(d)
        BY <2>1, <2>2, <2>3, <3>2 DEF ac, bd
      <4> QED BY <1>9, <4>1
    <3> QED BY <3>1, <3>2
  <2>5. Same(ac, bd)
    BY <2>1, <2>2, <2>3, <2>4 DEF ac, bd
  <2> QED BY <2>5 DEF ac, bd
<1>10. ASSUME NEW k \in 0 .. n, k < n, k \in T PROVE k + 1 \in T
  <2>1. k + 1 \in 1 .. n /\ k + 1 \in 0 .. n /\ (k + 1) - 1 = k
    BY <1>1, <1>10
  <2>2. f[k + 1] = f[k] \o P[k + 1] /\ g[k + 1] = g[k] \o Q[k + 1]
    BY <1>3, <1>4, <1>6, <1>7, <2>1 DEF Flattens
  <2>3. Same(f[k], g[k]) /\ Same(P[k + 1], Q[k + 1])
    BY <1>5, <1>10, <2>1
  <2> HIDE DEF Same
  <2>4. f[k] \in Seq(Events) /\ g[k] \in Seq(Spot) /\ P[k + 1] \in Seq(Events) /\ Q[k + 1] \in Seq(Spot)
    BY <2>3 DEF Same
  <2>5. Same(f[k] \o P[k + 1], g[k] \o Q[k + 1])
    BY <1>9, <2>3, <2>4
  <2> QED BY <2>1, <2>2, <2>5
<1> HIDE DEF T, Same
<1>11. \A k \in 0 .. n : k \in T
  BY <1>1, <1>8, <1>10, UpTo
<1>12. Same(f[n], g[n])
  BY <1>1, <1>11 DEF T
<1>13. FlattenSeq(P) = f[n] /\ FlattenSeq(Q) = g[n]
  BY <1>3, <1>4, <1>6, <1>7 DEF Flattens
<1> QED BY <1>12, <1>13 DEF Same, P, Q


\* The tokens, each in a scene and for an actor that are there by then.
LEMMA PlacedAll ==
  ASSUME NEW st, Good(st), NEW adv, IsAdventure(adv), TokensDistinct(adv), PlacesItsActors(adv),
         \A m \in ToSet(adv.scenes) : HasScene(st, m.id),
         \A a \in ToSet(adv.actors) : HasActor(st, a.actor),
         \A m \in ToSet(adv.scenes) : \A p \in ToSet(m.places) : ~HasToken(st, p.token)
  PROVE  Good(Folded(st, FlattenSeq(PlacingsOf(adv))))
<1> DEFINE frames == FlattenSeq(PlacingsOf(adv))
           places == FlattenSeq(PlacesOf(adv))
           n == Len(places)
           id(i) == places[i].token
           K == [i \in 0 .. n |->
                   {y \in GoodStates : /\ y.scenes = st.scenes /\ y.actors = st.actors
                                       /\ \A j \in 1 .. n : HasToken(y, id(j)) <=> j <= i}]
<1>1. /\ frames \in Seq(Events) /\ places \in Seq(Spot) /\ Len(frames) = n
      /\ \A i \in 1 .. n : IsPlacing(adv, frames[i], places[i])
  BY PlacedInStep
<1>2. Distinct([i \in DOMAIN places |-> id(i)])
  BY DEF TokensDistinct, PlacesOf
<1> HIDE DEF frames, places
<1>3. n \in Nat /\ DOMAIN places = 1 .. n /\ \A i \in 1 .. n : places[i] \in Spot
  BY <1>1
<1>4. \A i, j \in 1 .. n : id(i) = id(j) => i = j
  <2> DEFINE ids == [i \in 1 .. n |-> id(i)]
  <2>1. Distinct(ids)
    BY <1>2, <1>3
  <2>2. ids = [i \in 1 .. n |-> ids[i]] /\ \A i \in 1 .. n : ids[i] = id(i)
    OBVIOUS
  <2> HIDE DEF ids
  <2>3. \A i, j \in 1 .. n : ids[i] = ids[j] => i = j
    BY <1>3, <2>1, <2>2, DistinctIs
  <2> QED BY <2>2, <2>3
<1>5. ASSUME NEW i \in 1 .. n
      PROVE  /\ id(i) \in Tokens /\ places[i].actor \in Actors /\ places[i].at \in Squares
             /\ HasActor(st, places[i].actor) /\ ~HasToken(st, id(i))
             /\ \E s \in Scenes : /\ HasScene(st, s)
                                  /\ frames[i] = [type |-> "TokenPlaced", token |-> id(i), scene |-> s,
                                                  actor |-> places[i].actor, at |-> places[i].at,
                                                  text |-> places[i].text]
  <2>1. PICK m \in ToSet(adv.scenes) : places[i] \in ToSet(m.places) /\ frames[i] = Placed(m, places[i])
    BY <1>1 DEF IsPlacing
  <2>2. places[i] \in Spot
    BY <1>3
  <2>3. HasScene(st, m.id) /\ m.id \in Scenes /\ ~HasToken(st, id(i))
    BY <2>1 DEF HasScene
  <2>4. HasActor(st, places[i].actor)
    <3>1. PICK a \in ToSet(adv.actors) : a.actor = places[i].actor
      BY <2>1 DEF PlacesItsActors
    <3> QED BY <3>1
  <2> QED BY <2>1, <2>2, <2>3, <2>4 DEF Spot, Placed
<1>6. st \in K[0]
  <2>1. \A j \in 1 .. n : ~HasToken(st, id(j)) /\ ~(j <= 0)
    BY <1>3, <1>5
  <2>2. st \in GoodStates /\ 0 \in 0 .. n
    BY <1>3, GoodIsGood
  <2> QED BY <2>1, <2>2
<1>7. ASSUME NEW i \in 1 .. n, NEW y \in K[i - 1] PROVE FoldStep(y, frames[i]) \in K[i]
  <2> DEFINE p == places[i]
  <2>1. i - 1 \in 0 .. n /\ i \in 0 .. n /\ ~(i <= i - 1)
    BY <1>3
  <2>2. /\ Good(y) /\ y \in State /\ y.scenes = st.scenes /\ y.actors = st.actors
        /\ \A j \in 1 .. n : HasToken(y, id(j)) <=> j <= i - 1
    BY <2>1, GoodIsGood DEF Good
  <2>3. PICK s \in Scenes : /\ HasScene(st, s)
                            /\ frames[i] = [type |-> "TokenPlaced", token |-> id(i), scene |-> s,
                                            actor |-> p.actor, at |-> p.at, text |-> p.text]
    BY <1>5
  <2> DEFINE e == [type |-> "TokenPlaced", token |-> id(i), scene |-> s,
                   actor |-> p.actor, at |-> p.at, text |-> p.text]
             new == [scene |-> s, actor |-> p.actor, at |-> p.at, text |-> p.text]
  <2>4. p \in Spot
    BY <1>3
  <2>5. p.actor \in Actors /\ p.at \in Squares /\ p.at # None /\ id(i) \in Tokens /\ p.text \in Texts
    BY <2>4, EngineAssumption DEF Spot
  <2>6. e \in Events
    BY <1>1, <2>1, <2>3
  <2>7. e.type = "TokenPlaced" /\ e.token = id(i) /\ e.scene = s /\ e.actor = p.actor /\ e.at = p.at
        /\ e.text = p.text
    OBVIOUS
  <2>8. new # None
    <3>1. new \in Token
      BY <2>5 DEF Token
    <3> QED BY <3>1, EngineAssumption
  <2>9. After(y, e) = [y EXCEPT !.tokens[id(i)] = new]
    BY <2>7 DEF After
  <2>10. HasScene(y, s) /\ HasActor(y, p.actor) /\ ~HasToken(y, id(i))
    BY <1>5, <2>1, <2>2, <2>3 DEF HasScene, HasActor
  <2> HIDE DEF e, new, p
  <2>11. Accepts(y, e) /\ y # None
    BY <2>2, <2>5, <2>7, <2>10, EngineAssumption DEF Accepts, AcceptsToken
  <2>12. Good(After(y, e))
    BY <2>2, <2>6, <2>11, AcceptedKeepsSound
  <2>13. After(y, e).scenes = y.scenes /\ After(y, e).actors = y.actors
         /\ After(y, e).tokens = [y.tokens EXCEPT ![id(i)] = new]
    BY <2>2, <2>9 DEF State
  <2>14. ASSUME NEW j \in 1 .. n PROVE HasToken(After(y, e), id(j)) <=> j <= i
    <3>1. id(j) \in Tokens /\ y.tokens \in [Tokens -> Token \cup {None}]
      BY <1>5, <2>2 DEF State
    <3>2. CASE j = i
      BY <1>3, <2>8, <2>13, <3>1, <3>2 DEF HasToken
    <3>3. CASE j # i
      <4>1. id(j) # id(i)
        BY <1>4, <3>3
      <4>2. HasToken(After(y, e), id(j)) <=> HasToken(y, id(j))
        BY <2>13, <3>1, <4>1 DEF HasToken
      <4>3. j <= i - 1 <=> j <= i
        BY <1>3, <3>3
      <4> QED BY <2>2, <4>2, <4>3
    <3> QED BY <3>2, <3>3
  <2>15. After(y, e) \in K[i]
    BY <2>1, <2>2, <2>12, <2>13, <2>14, GoodIsGood
  <2> QED BY <2>3, <2>11, <2>15 DEF FoldStep, e, p
<1> HIDE DEF K
<1>8. Folded(st, frames) \in K[n]
  <2>1. \A i \in 1 .. Len(frames) : \A y \in K[i - 1] : FoldStep(y, frames[i]) \in K[i]
    BY <1>1, <1>7
  <2> QED BY <1>1, <1>6, <2>1, FoldAlong
<1>9. n \in 0 .. n
  BY <1>3
<1> QED BY <1>8, <1>9, GoodIsGood DEF K, frames

\* The notes, and the line that says what was loaded.
LEMMA NotedAll ==
  ASSUME NEW st, Good(st), NEW adv, IsAdventure(adv)
  PROVE  Good(Folded(st, NotedOf(adv)))
<1> DEFINE X == {e \in Events : e.type = "NoteUpserted"}
           K == GoodStates
           frames == NotedOf(adv)
<1>1. ASSUME NEW y \in K, NEW e \in X PROVE StepBy("server", y, e) \in K
  <2>1. Good(y) /\ y # None
    BY GoodIsGood, EngineAssumption DEF Good
  <2>2. Accepts(y, e)
    BY DEF Accepts
  <2>3. Good(After(y, e))
    BY <2>1, <2>2, AcceptedKeepsSound
  <2> QED BY <2>1, <2>2, <2>3, GoodIsGood DEF StepBy, FoldStep
<1>2. frames \in Seq(X)
  <2>1. frames \in Seq(Events)
    BY AdventureParts
  <2>2. \A i \in DOMAIN frames : frames[i].type = "NoteUpserted"
    BY DEF NotedOf
  <2> HIDE DEF frames
  <2>3. \A i \in 1 .. Len(frames) : frames[i] \in X
    BY <2>1, <2>2
  <2> HIDE DEF X
  <2> QED BY <2>1, <2>3
<1>3. st \in K
  BY GoodIsGood
<1> HIDE DEF X, K, frames
<1>4. Folded(st, frames) \in K
  BY <1>1, <1>2, <1>3, FoldKeeps
<1> QED BY <1>4, GoodIsGood DEF K, frames

LEMMA OpenedAndTold ==
  ASSUME NEW st, Good(st)
  PROVE  Folded(st, Opening) = st /\ Folded(st, Telling) = st
<1> DEFINE e == [type |-> "AdventureLoaded"]
           f == [type |-> "NarrationAdded", from |-> 0, to |-> 0, seq |-> 1]
<1>1. Accepts(st, e) /\ After(st, e) = st
  BY DEF Accepts, After
<1>2. Accepts(st, f) /\ After(st, f) = st
  BY DEF Accepts, AcceptsNarration, After
<1>3. st \in State
  BY DEF Good
<1> HIDE DEF e, f
<1>4. Folded(st, <<e>>) = st /\ Folded(st, <<f>>) = st
  BY <1>1, <1>2, <1>3, Steps
<1> QED BY <1>4 DEF Opening, Telling, e, f

LEMMA AdventureFolds ==
  ASSUME NEW st, Good(st), NEW adv, IsAdventure(adv), NEW dir, LoadsAdventure(adv, dir), ~Collides(adv, st)
  PROVE  Folded(st, AdventureEvents(adv)) # None
<1> DEFINE o == Opening
           s == CreatedOf(adv)
           c == AddedOf(adv)
           d == FlattenSeq(PlacingsOf(adv))
           n == NotedOf(adv)
           f == Telling
           s2 == Folded(st, s)
           s3 == Folded(s2, c)
           s4 == Folded(s3, d)
           s5 == Folded(s4, n)
<1>1. o \in Seq(Events) /\ s \in Seq(Events) /\ c \in Seq(Events) /\ d \in Seq(Events)
      /\ n \in Seq(Events) /\ f \in Seq(Events)
  BY AdventureParts, FlattenType
<1>2. AdventureEvents(adv) = o \o s \o c \o d \o n \o f
  BY AdventureIs
<1>3. /\ Distinct([i \in DOMAIN adv.scenes |-> adv.scenes[i].id])
      /\ Distinct([i \in DOMAIN adv.actors |-> adv.actors[i].actor])
      /\ TokensDistinct(adv) /\ PlacesItsActors(adv)
  BY DEF LoadsAdventure, ActorsLoad, ScenesLoad
<1>4. /\ \A m \in ToSet(adv.scenes) : ~HasScene(st, m.id)
      /\ \A m \in ToSet(adv.scenes) : \A p \in ToSet(m.places) : ~HasToken(st, p.token)
      /\ \A a \in ToSet(adv.actors) : ~HasActor(st, a.actor)
  BY DEF Collides
<1>5. /\ Good(s2) /\ s2.tokens = st.tokens /\ s2.actors = st.actors
      /\ \A m \in ToSet(adv.scenes) : HasScene(s2, m.id)
  BY <1>3, <1>4, CreatedAll
<1> HIDE DEF s2
<1>6. /\ Good(s3) /\ s3.tokens = st.tokens /\ s3.scenes = s2.scenes
      /\ \A a \in ToSet(adv.actors) : HasActor(s3, a.actor)
  <2>1. \A a \in ToSet(adv.actors) : ~HasActor(s2, a.actor)
    BY <1>4, <1>5 DEF HasActor
  <2> QED BY <1>3, <1>5, <2>1, AddedAll
<1> HIDE DEF s3
<1>7. Good(s4)
  <2>1. \A m \in ToSet(adv.scenes) : HasScene(s3, m.id)
    BY <1>5, <1>6 DEF HasScene
  <2>2. \A m \in ToSet(adv.scenes) : \A p \in ToSet(m.places) : ~HasToken(s3, p.token)
    BY <1>4, <1>6 DEF HasToken
  <2> QED BY <1>3, <1>6, <2>1, <2>2, PlacedAll
<1> HIDE DEF s4
<1>8. Good(s5)
  BY <1>7, NotedAll
<1> HIDE DEF s5
<1>9. Folded(st, o) = st /\ Folded(s5, f) = s5
  BY <1>8, OpenedAndTold
<1> HIDE DEF o, s, c, d, n, f
<1>10. Folded(st, o \o s) = s2 /\ o \o s \in Seq(Events)
  BY <1>1, <1>9, FoldedBoth, BothFrames DEF s2
<1> DEFINE os == o \o s
<1> HIDE DEF os
<1>11. os \in Seq(Events) /\ Folded(st, os) = s2
  BY <1>10 DEF os
<1>12. Folded(st, os \o c) = s3 /\ os \o c \in Seq(Events)
  BY <1>1, <1>11, FoldedBoth, BothFrames DEF s3
<1> DEFINE osc == os \o c
<1> HIDE DEF osc
<1>13. osc \in Seq(Events) /\ Folded(st, osc) = s3
  BY <1>12 DEF osc
<1>14. Folded(st, osc \o d) = s4 /\ osc \o d \in Seq(Events)
  BY <1>1, <1>13, FoldedBoth, BothFrames DEF s4
<1> DEFINE oscd == osc \o d
<1> HIDE DEF oscd
<1>15. oscd \in Seq(Events) /\ Folded(st, oscd) = s4
  BY <1>14 DEF oscd
<1>16. Folded(st, oscd \o n) = s5 /\ oscd \o n \in Seq(Events)
  BY <1>1, <1>15, FoldedBoth, BothFrames DEF s5
<1> DEFINE oscdn == oscd \o n
<1> HIDE DEF oscdn
<1>17. oscdn \in Seq(Events) /\ Folded(st, oscdn) = s5
  BY <1>16 DEF oscdn
<1>18. Folded(st, oscdn \o f) = s5
  BY <1>1, <1>9, <1>17, FoldedBoth
<1>19. AdventureEvents(adv) = oscdn \o f
  BY <1>2 DEF oscdn, oscd, osc, os
<1>20. s5 # None
  BY <1>8, EngineAssumption DEF Good
<1> QED BY <1>18, <1>19, <1>20

\* What loaded with one art directory builds with any where no art is of a later format.
LEMMA BuildsStill ==
  ASSUME NEW m, NEW was, Builds(m, was), NEW now, \A a \in Arts : ~DeclaresLater(now, a)
  PROVE  Builds(m, now)
BY DEF Builds, TileResolves, ObjectResolves, DeclaresLater

\* An adventure that loaded is taken by every table it collides with nothing of, for
\* any number of scenes, actors, tokens and notes.
THEOREM AdventuresFold == CommandsSpec => []AdventuresAreFolded
<1>1. CommandsInv => AdventuresAreFolded
  <2> SUFFICES ASSUME CommandsInv, play.adventure # None, ~Collides(play.adventure, world)
               PROVE  /\ Folded(world, AdventureEvents(play.adventure)) # None
                      /\ (\A a \in Arts : ~DeclaresLater(art, a)) =>
                           CompilesAdventure(play.adventure, world, art)
    BY DEF AdventuresAreFolded
  <2>1. Good(world) /\ IsAdventure(play.adventure)
    BY DEF CommandsInv, PlayInv, IsPlay
  <2>2. PICK dir : LoadsAdventure(play.adventure, dir)
    BY DEF CommandsInv, PlayInv
  <2>3. Folded(world, AdventureEvents(play.adventure)) # None
    BY <2>1, <2>2, AdventureFolds
  <2>4. \A m \in ToSet(play.adventure.scenes) : Builds(m, dir)
    BY <2>2 DEF LoadsAdventure, ScenesLoad, SceneLoads
  <2>5. ASSUME \A a \in Arts : ~DeclaresLater(art, a)
        PROVE  CompilesAdventure(play.adventure, world, art)
    BY <2>4, <2>5, BuildsStill DEF CompilesAdventure
  <2> QED BY <2>3, <2>5
<1> QED BY <1>1, CommandsInvHolds, PTL


-----------------------------------------------------------------------------
(* The order an ability declares.                                          *)

\* An entry has an outcome of a branch.
HasOutcomeOn(ability, entry, branch) ==
  \E o \in OfEntries(ability, "outcome") : o.entry = entry /\ o.c.branch = branch

\* The effects of the entries of one branch that are in place k of the order.
EffectsAt(ability, order, branch, k) ==
  {x \in AllEffects(ability) : x.entry = order[k] /\ HasOutcomeOn(ability, x.entry, branch)}

\* Each is of an entry among the first k of the order, and none of an entry behind
\* that of the next.
Ranked(order, k, s) == \A x, y \in 1 .. Len(s) : x <= y =>
  \E l, m \in 1 .. k : l <= m /\ order[l] = s[x].entry /\ order[m] = s[y].entry

LEMMA RankedNext ==
  ASSUME NEW X, NEW order, NEW k \in Nat, NEW a \in Seq(X), Ranked(order, k, a), NEW b \in Seq(X),
         \A x \in 1 .. Len(b) : b[x].entry = order[k + 1]
  PROVE  Ranked(order, k + 1, a \o b)
<1> DEFINE ab == a \o b
<1>1. /\ Len(a) \in Nat /\ Len(b) \in Nat /\ Len(ab) = Len(a) + Len(b)
      /\ \A x \in 1 .. Len(a) + Len(b) : ab[x] = IF x <= Len(a) THEN a[x] ELSE b[x - Len(a)]
  BY ConcatProperties
<1> HIDE DEF ab
<1>2. SUFFICES ASSUME NEW x \in 1 .. Len(a) + Len(b), NEW y \in 1 .. Len(a) + Len(b), x <= y
               PROVE  \E l, m \in 1 .. k + 1 : l <= m /\ order[l] = ab[x].entry /\ order[m] = ab[y].entry
  BY <1>1 DEF Ranked, ab
<1>3. \A l \in 1 .. k : l \in 1 .. k + 1 /\ l <= k + 1
  OBVIOUS
<1>4. k + 1 \in 1 .. k + 1
  OBVIOUS
<1>5. CASE y <= Len(a)
  <2>1. x \in 1 .. Len(a) /\ y \in 1 .. Len(a) /\ ab[x] = a[x] /\ ab[y] = a[y]
    BY <1>1, <1>2, <1>5
  <2>2. PICK l, m \in 1 .. k : l <= m /\ order[l] = a[x].entry /\ order[m] = a[y].entry
    BY <1>2, <2>1 DEF Ranked
  <2> QED BY <1>3, <2>1, <2>2
<1>6. CASE ~(y <= Len(a)) /\ x <= Len(a)
  <2>1. x \in 1 .. Len(a) /\ y - Len(a) \in 1 .. Len(b) /\ ab[x] = a[x] /\ ab[y] = b[y - Len(a)]
    BY <1>1, <1>6
  <2>2. x <= x
    BY <2>1
  <2>3. PICK l \in 1 .. k : order[l] = a[x].entry
    BY <2>1, <2>2 DEF Ranked
  <2>4. order[k + 1] = ab[y].entry
    BY <2>1
  <2> QED BY <1>3, <1>4, <2>1, <2>3, <2>4
<1>7. CASE ~(x <= Len(a))
  <2>1. ~(y <= Len(a)) /\ x - Len(a) \in 1 .. Len(b) /\ y - Len(a) \in 1 .. Len(b)
    BY <1>1, <1>2, <1>7
  <2>2. ab[x].entry = order[k + 1] /\ ab[y].entry = order[k + 1]
    BY <1>1, <1>7, <2>1
  <2> QED BY <1>4, <2>2
<1> QED BY <1>5, <1>6, <1>7

\* The effects of a branch stand in the order of their entries.
LEMMA EffectsRanked ==
  ASSUME NEW ability, IsAbility(ability), NEW Y, NEW order \in Seq(Y), NEW branch
  PROVE  LET es == EffectsOn(ability, order, branch)
         IN  /\ es \in Seq({x \in AllEffects(ability) : HasOutcomeOn(ability, x.entry, branch)})
             /\ Ranked(order, Len(order), es)
<1> DEFINE X == {x \in AllEffects(ability) : HasOutcomeOn(ability, x.entry, branch)}
           n == Len(order)
           outs == OfKind(ability, "outcome")
           One(k, o) == IF o.entry = order[k] /\ o.c.branch = branch
                        THEN [m \in DOMAIN o.c.effects |-> EffectOf(o.c.effects[m], o)] ELSE <<>>
           Inner(k) == [i \in DOMAIN outs |-> One(k, outs[i])]
           At(k) == EffectsAt(ability, order, branch, k)
           seqs == [k \in DOMAIN order |-> FlattenSeq(Inner(k))]
<1>1. outs \in Seq(OfEntries(ability, "outcome"))
  BY OfKindType
<1>2. n \in Nat /\ DOMAIN order = 1 .. n
  OBVIOUS
<1>3. ASSUME NEW k \in 1 .. n PROVE FlattenSeq(Inner(k)) \in Seq(At(k))
  <2>1. ASSUME NEW o \in OfEntries(ability, "outcome") PROVE One(k, o) \in Seq(At(k))
    <3>1. CASE ~(o.entry = order[k] /\ o.c.branch = branch)
      <4> HIDE DEF At
      <4> QED BY <3>1
    <3>2. CASE o.entry = order[k] /\ o.c.branch = branch
      <4>1. o.c \in Contributions /\ o.c.is = "outcome"
        BY DEF OfEntries
      <4>2. o.c.effects \in Seq(Effects)
        BY <4>1 DEF Contributions
      <4>3. HasOutcomeOn(ability, o.entry, branch)
        BY <3>2 DEF HasOutcomeOn
      <4>4. ASSUME NEW m \in DOMAIN o.c.effects PROVE EffectOf(o.c.effects[m], o) \in At(k)
        <5> DEFINE x == EffectOf(o.c.effects[m], o)
        <5>1. x.entry = o.entry
          BY DEF EffectOf
        <5>2. x \in AllEffects(ability)
          BY DEF AllEffects, EffectsOf, ToSet
        <5> HIDE DEF x
        <5> QED BY <3>2, <4>3, <5>1, <5>2 DEF EffectsAt, x
      <4>5. Len(o.c.effects) \in Nat /\ DOMAIN o.c.effects = 1 .. Len(o.c.effects)
        BY <4>2
      <4> HIDE DEF At
      <4>6. [m \in DOMAIN o.c.effects |-> EffectOf(o.c.effects[m], o)] \in Seq(At(k))
        BY <4>4, <4>5
      <4> QED BY <3>2, <4>6
    <3> QED BY <3>1, <3>2
  <2> HIDE DEF At, One, outs
  <2>2. DOMAIN outs = 1 .. Len(outs) /\ Len(outs) \in Nat
        /\ \A i \in 1 .. Len(outs) : outs[i] \in OfEntries(ability, "outcome")
    BY <1>1
  <2>3. Inner(k) \in Seq(Seq(At(k)))
    BY <2>1, <2>2
  <2> QED BY <2>3, FlattenType
<1>4. EffectsOn(ability, order, branch) = FlattenSeq(seqs)
  BY DEF EffectsOn
<1>5. \A k \in 1 .. n : At(k) \subseteq X
  BY DEF EffectsAt
<1>6. Len(seqs) = n /\ DOMAIN seqs = 1 .. n /\ \A k \in 1 .. n : seqs[k] \in Seq(At(k))
  <2>1. \A k \in 1 .. n : seqs[k] = FlattenSeq(Inner(k))
    BY <1>2
  <2>2. Len(seqs) = n /\ DOMAIN seqs = 1 .. n
    BY <1>2
  <2> HIDE DEF seqs, Inner, At
  <2> QED BY <1>3, <2>1, <2>2
<1>7. seqs = [k \in 1 .. n |-> seqs[k]]
  BY <1>2
<1> HIDE DEF seqs, Inner, X, At
<1>8. \A k \in 1 .. n : seqs[k] \in Seq(X)
  BY <1>5, <1>6, WiderSeq
<1>9. seqs \in Seq(Seq(X))
  BY <1>2, <1>7, <1>8
<1>10. FlattenSeq(seqs) \in Seq(X)
  BY <1>9, FlattenType
<1>11. PICK f : Flattens(f, X, seqs)
  BY <1>9, FlattenRuns
<1> DEFINE T == {k \in 0 .. n : Ranked(order, k, f[k])}
<1>12. 0 \in T
  <2>1. f[0] = <<>>
    BY <1>11 DEF Flattens
  <2>2. Ranked(order, 0, <<>>)
    BY DEF Ranked
  <2> QED BY <1>2, <2>1, <2>2
<1>13. ASSUME NEW k \in 0 .. n, k < n, k \in T PROVE k + 1 \in T
  <2>1. k + 1 \in 1 .. n /\ k + 1 \in 0 .. n /\ (k + 1) - 1 = k /\ k \in Nat
    BY <1>2, <1>13
  <2>2. f[k + 1] = f[k] \o seqs[k + 1] /\ f[k] \in Seq(X)
    BY <1>6, <1>11, <2>1 DEF Flattens
  <2>3. seqs[k + 1] \in Seq(X) /\ seqs[k + 1] \in Seq(At(k + 1))
    BY <1>6, <1>8, <2>1
  <2>4. \A x \in 1 .. Len(seqs[k + 1]) : seqs[k + 1][x].entry = order[k + 1]
    <3>1. \A x \in 1 .. Len(seqs[k + 1]) : seqs[k + 1][x] \in At(k + 1)
      BY <2>3
    <3> QED BY <3>1 DEF At, EffectsAt
  <2>5. Ranked(order, k + 1, f[k] \o seqs[k + 1])
    BY <1>13, <2>1, <2>2, <2>3, <2>4, RankedNext
  <2> QED BY <2>1, <2>2, <2>5
<1> HIDE DEF T
<1>14. \A k \in 0 .. n : k \in T
  BY <1>2, <1>12, <1>13, UpTo
<1>15. Ranked(order, n, f[n]) /\ FlattenSeq(seqs) = f[n]
  BY <1>2, <1>6, <1>11, <1>14 DEF T, Flattens
<1> QED BY <1>4, <1>10, <1>15 DEF X


LEMMA PhaseType ==
  ASSUME NEW c \in Contributions
  PROVE  ContributionPhase(c) \in 0 .. 3
<1>1. c.is \in {"targeting", "resolution", "outcome"}
  BY DEF Contributions
<1> QED BY <1>1 DEF ContributionPhase, Phases

\* What an atom needs it needs by each of its contributions.
LEMMA ConsumedBy ==
  ASSUME NEW atom, atom.contributes \in Seq(Contributions), NEW c \in ToSet(atom.contributes)
  PROVE  ConsumePhase(atom) \in Int /\ ConsumePhase(atom) <= ContributionPhase(c)
<1> DEFINE cs == atom.contributes
           n == Len(cs)
           phases == [i \in 1 .. n |-> ContributionPhase(cs[i])]
           ns == <<3>> \o phases
<1>1. n \in Nat /\ DOMAIN cs = 1 .. n /\ \A i \in 1 .. n : cs[i] \in Contributions
  OBVIOUS
<1>2. ConsumePhase(atom) = Smallest(ns)
  BY <1>1 DEF ConsumePhase, Phases
<1>3. \A i \in 1 .. n : ContributionPhase(cs[i]) \in Int
  BY <1>1, PhaseType
<1>4. phases \in Seq(Int) /\ Len(phases) = n /\ <<3>> \in Seq(Int) /\ Len(<<3>>) = 1
  BY <1>1, <1>3
<1>5. PICK i \in 1 .. n : c = cs[i]
  BY <1>1 DEF ToSet
<1>6. phases[i] = ContributionPhase(c)
  BY <1>5
<1> HIDE DEF phases
<1>7. /\ ns \in Seq(Int) /\ Len(ns) = 1 + n
      /\ \A j \in 1 .. 1 + n : ns[j] = IF j <= 1 THEN <<3>>[j] ELSE phases[j - 1]
  BY ONLY <1>4
<1>8. i + 1 \in 1 .. 1 + n /\ ns[i + 1] = phases[i]
  BY <1>1, <1>7
<1> HIDE DEF ns
<1>9. Smallest(ns) \in ToSet(ns) /\ \A j \in DOMAIN ns : Smallest(ns) <= ns[j]
  BY <1>1, <1>7, LeastIn
<1>10. DOMAIN ns = 1 .. 1 + n /\ \A m \in ToSet(ns) : m \in Int
  BY <1>7 DEF ToSet
<1> QED BY <1>2, <1>6, <1>8, <1>9, <1>10

\* An atom that resolves nothing has made its keys by the last of its outcomes.
LEMMA ProducedBy ==
  ASSUME NEW atom, atom.contributes \in Seq(Contributions), NEW key,
         ~\E r \in ToSet(atom.contributes) : r.is = "resolution" /\ r.key = key,
         NEW c \in ToSet(atom.contributes), c.is = "outcome"
  PROVE  ProducePhase(atom, key) \in Int /\ ProducePhase(atom, key) >= ContributionPhase(c)
<1> DEFINE cs == atom.contributes
           n == Len(cs)
           phases == [i \in 1 .. n |-> IF cs[i].is = "outcome" THEN ContributionPhase(cs[i]) ELSE 0]
           ns == <<0>> \o phases
<1>1. n \in Nat /\ DOMAIN cs = 1 .. n /\ \A i \in 1 .. n : cs[i] \in Contributions
  OBVIOUS
<1>2. ProducePhase(atom, key) = Largest(ns)
  BY <1>1 DEF ProducePhase, Phases
<1>3. \A i \in 1 .. n : ContributionPhase(cs[i]) \in Int
  BY <1>1, PhaseType
<1>4. phases \in Seq(Int) /\ Len(phases) = n /\ <<0>> \in Seq(Int) /\ Len(<<0>>) = 1
  BY <1>1, <1>3
<1>5. PICK i \in 1 .. n : c = cs[i]
  BY <1>1 DEF ToSet
<1>6. phases[i] = ContributionPhase(c)
  BY <1>5
<1> HIDE DEF phases
<1>7. /\ ns \in Seq(Int) /\ Len(ns) = 1 + n
      /\ \A j \in 1 .. 1 + n : ns[j] = IF j <= 1 THEN <<0>>[j] ELSE phases[j - 1]
  BY ONLY <1>4
<1>8. i + 1 \in 1 .. 1 + n /\ ns[i + 1] = phases[i]
  BY <1>1, <1>7
<1> HIDE DEF ns
<1>9. Largest(ns) \in ToSet(ns) /\ \A j \in DOMAIN ns : Largest(ns) >= ns[j]
  BY <1>1, <1>7, GreatestIn
<1>10. DOMAIN ns = 1 .. 1 + n /\ \A m \in ToSet(ns) : m \in Int
  BY <1>7 DEF ToSet
<1> QED BY <1>2, <1>6, <1>8, <1>9, <1>10

\* No atom needs a key that it makes itself.
LEMMA NotOfItself ==
  ASSUME NEW n \in Nat, NEW atoms, DOMAIN atoms = 1 .. n, NEW order \in Seq(1 .. n), Len(order) = n,
         IsOrder(atoms, order), NEW p \in 1 .. n, NEW key \in atoms[p].provides
  PROVE  key \notin atoms[p].consumes
<1>1. order \in [1 .. n -> 1 .. n] /\ DOMAIN order = 1 .. n
  OBVIOUS
<1>2. order \in Injection(1 .. n, 1 .. n)
  BY <1>1 DEF IsOrder, Injection, IsInjective
<1>3. IsFiniteSet(1 .. n) /\ Cardinality(1 .. n) = n
  BY FS_Interval
<1>4. order \in Surjection(1 .. n, 1 .. n)
  BY <1>2, <1>3, FS_Injection
<1>5. PICK j \in 1 .. n : order[j] = p
  BY <1>4 DEF Surjection
<1>6. SUFFICES ASSUME key \in atoms[p].consumes PROVE FALSE
  OBVIOUS
<1>7. p \in ProvidersOf(atoms, key)
  BY DEF ProvidersOf
<1>8. PICK i \in 1 .. n : i < j /\ order[i] = p
  BY <1>1, <1>5, <1>6, <1>7 DEF IsOrder
<1>9. i = j
  BY <1>1, <1>5, <1>8 DEF IsOrder
<1> QED BY <1>8, <1>9

\* s is four sequences one after the other.
IsFour(s, a, b, c, d) ==
  /\ DOMAIN s = 1 .. Len(a) + Len(b) + Len(c) + Len(d)
  /\ \A i \in DOMAIN s :
       s[i] = IF i <= Len(a) THEN a[i]
              ELSE IF i <= Len(a) + Len(b) THEN b[i - Len(a)]
              ELSE IF i <= Len(a) + Len(b) + Len(c) THEN c[i - (Len(a) + Len(b))]
              ELSE d[i - (Len(a) + Len(b) + Len(c))]

LEMMA FourParts ==
  ASSUME NEW X, NEW a \in Seq(X), NEW b \in Seq(X), NEW c \in Seq(X), NEW d \in Seq(X)
  PROVE  IsFour(a \o b \o c \o d, a, b, c, d)
<1> DEFINE ab == a \o b
           abc == ab \o c
           abcd == abc \o d
<1>1. Len(a) \in Nat /\ Len(b) \in Nat /\ Len(c) \in Nat /\ Len(d) \in Nat
  OBVIOUS
<1>2. /\ ab \in Seq(X) /\ Len(ab) = Len(a) + Len(b)
      /\ \A i \in 1 .. Len(a) + Len(b) : ab[i] = IF i <= Len(a) THEN a[i] ELSE b[i - Len(a)]
  BY ConcatProperties
<1> HIDE DEF ab
<1>3. ab \in Seq(X)
  BY ONLY <1>2, Zenon
<1>4. c \in Seq(X)
  OBVIOUS
<1>5. /\ abc \in Seq(X) /\ Len(abc) = Len(ab) + Len(c)
      /\ \A i \in 1 .. Len(ab) + Len(c) : abc[i] = IF i <= Len(ab) THEN ab[i] ELSE c[i - Len(ab)]
  BY ONLY <1>3, <1>4, ConcatProperties
<1> HIDE DEF abc
<1>6. abc \in Seq(X)
  BY ONLY <1>5, Zenon
<1>7. d \in Seq(X)
  OBVIOUS
<1>8. /\ abcd \in Seq(X) /\ Len(abcd) = Len(abc) + Len(d)
      /\ \A i \in 1 .. Len(abc) + Len(d) : abcd[i] = IF i <= Len(abc) THEN abc[i] ELSE d[i - Len(abc)]
  BY ONLY <1>6, <1>7, ConcatProperties
<1> HIDE DEF abcd
<1> DEFINE la == Len(a)
           lb == Len(b)
           lc == Len(c)
           ld == Len(d)
<1>9. DOMAIN abcd = 1 .. la + lb + lc + ld
  BY <1>1, <1>2, <1>5, <1>8
<1>10. ASSUME NEW i \in 1 .. la + lb + lc + ld
      PROVE  abcd[i] = IF i <= la THEN a[i]
                       ELSE IF i <= la + lb THEN b[i - la]
                       ELSE IF i <= la + lb + lc THEN c[i - (la + lb)]
                       ELSE d[i - (la + lb + lc)]
  <2>1. abcd[i] = IF i <= la + lb + lc THEN abc[i] ELSE d[i - (la + lb + lc)]
    BY <1>1, <1>2, <1>5, <1>8
  <2>2. i <= la + lb + lc => abc[i] = IF i <= la + lb THEN ab[i] ELSE c[i - (la + lb)]
    BY <1>1, <1>2, <1>5
  <2>3. i <= la + lb => ab[i] = IF i <= la THEN a[i] ELSE b[i - la]
    BY <1>1, <1>2
  <2> HIDE DEF la, lb, lc, ld
  <2>4. i \in Int /\ la \in Nat /\ lb \in Nat /\ lc \in Nat
    BY <1>1 DEF la, lb, lc, ld
  <2> QED BY <2>1, <2>2, <2>3, <2>4
<1>11. IsFour(abcd, a, b, c, d)
  BY ONLY <1>9, <1>10 DEF IsFour
<1> QED BY <1>11 DEF abcd, abc, ab


\* What a compiled ability runs, of n entries.
StepsOf(n) == [entry : 1 .. n, is : {"targeting", "resolution", "outcome"}]

\* Steps of one kind, each of an atom that contributes one in a phase.
Stage(atoms, s, kind, phase) == \A x \in 1 .. Len(s) :
  /\ s[x].is = kind
  /\ \E c \in ToSet(atoms[s[x].entry].contributes) : c.is = kind /\ ContributionPhase(c) = phase

\* Two steps of one stage, the one that needs a key no later than one that makes it.
LEMMA RankedApart ==
  ASSUME NEW n \in Nat, NEW atoms, DOMAIN atoms = 1 .. n, NEW order \in Seq(1 .. n), Len(order) = n,
         IsOrder(atoms, order), NEW s, Ranked(order, n, s),
         NEW x \in 1 .. Len(s), NEW y \in 1 .. Len(s), x <= y, s[y].entry \in 1 .. n,
         NEW key \in atoms[s[y].entry].provides
  PROVE  key \notin atoms[s[x].entry].consumes
<1> SUFFICES ASSUME key \in atoms[s[x].entry].consumes PROVE FALSE
  OBVIOUS
<1> DEFINE p == s[y].entry
           q == s[x].entry
<1>1. DOMAIN order = 1 .. n
  OBVIOUS
<1>2. PICK l, m \in 1 .. n : l <= m /\ order[l] = q /\ order[m] = p
  BY DEF Ranked
<1>3. p \in ProvidersOf(atoms, key)
  BY DEF ProvidersOf
<1> HIDE DEF p, q
<1>4. key \in atoms[order[l]].consumes
  BY <1>2 DEF q
<1>5. PICK h \in 1 .. n : h < l /\ order[h] = p
  BY <1>1, <1>3, <1>4 DEF IsOrder
<1>6. h = m
  BY <1>1, <1>2, <1>5 DEF IsOrder
<1> QED BY <1>2, <1>5, <1>6

LEMMA RunHonours ==
  ASSUME NEW n \in Nat, NEW atoms, DOMAIN atoms = 1 .. n, NEW order \in Seq(1 .. n), Len(order) = n,
         IsOrder(atoms, order), PhasesAgree(atoms),
         \A e \in 1 .. n : atoms[e].contributes \in Seq(Contributions),
         NEW t \in Seq(StepsOf(n)), Len(t) = 1, Stage(atoms, t, "targeting", 0),
         NEW r \in Seq(StepsOf(n)), Len(r) <= 1, Stage(atoms, r, "resolution", 1),
         NEW o \in Seq(StepsOf(n)), Stage(atoms, o, "outcome", 2), Ranked(order, n, o),
         NEW e \in Seq(StepsOf(n)), Stage(atoms, e, "outcome", 3), Ranked(order, n, e)
  PROVE  HonouredIn(atoms, t \o r \o o \o e)
<1> DEFINE run == t \o r \o o \o e
           lr == Len(r)
           lo == Len(o)
           le == Len(e)
           At(i) == IF i <= 1 THEN 0 ELSE IF i <= 1 + lr THEN 1 ELSE IF i <= 1 + lr + lo THEN 2 ELSE 3
           Of(i, c) == c \in ToSet(atoms[run[i].entry].contributes) /\ c.is = run[i].is
                       /\ ContributionPhase(c) = At(i)
<1>1. lr \in 0 .. 1 /\ lo \in Nat /\ le \in Nat
  OBVIOUS
<1>2. /\ DOMAIN run = 1 .. 1 + lr + lo + le
      /\ \A i \in DOMAIN run :
           run[i] = IF i <= 1 THEN t[i] ELSE IF i <= 1 + lr THEN r[i - 1]
                    ELSE IF i <= 1 + lr + lo THEN o[i - (1 + lr)] ELSE e[i - (1 + lr + lo)]
  <2> DEFINE X == StepsOf(n)
  <2>1. t \in Seq(X)
    OBVIOUS
  <2>2. r \in Seq(X)
    OBVIOUS
  <2>3. o \in Seq(X)
    OBVIOUS
  <2>4. e \in Seq(X)
    OBVIOUS
  <2> HIDE DEF X
  <2>5. IsFour(run, t, r, o, e)
    BY ONLY <2>1, <2>2, <2>3, <2>4, FourParts, Zenon DEF run
  <2>6. Len(t) = 1
    OBVIOUS
  <2> HIDE DEF run
  <2> QED BY ONLY <2>5, <2>6 DEF IsFour
<1> HIDE DEF run
<1>3. ASSUME NEW i \in DOMAIN run
      PROVE  /\ run[i].entry \in 1 .. n
             /\ \E c : Of(i, c)
             /\ run[i].is = IF At(i) = 0 THEN "targeting" ELSE IF At(i) = 1 THEN "resolution" ELSE "outcome"
  <2>1. i \in 1 .. 1 + lr + lo + le
    BY <1>2
  <2>2. ASSUME NEW s \in Seq(StepsOf(n)), NEW kind, NEW phase, Stage(atoms, s, kind, phase),
               NEW x \in 1 .. Len(s), run[i] = s[x], At(i) = phase
        PROVE  run[i].entry \in 1 .. n /\ run[i].is = kind /\ \E c : Of(i, c)
    <3>1. s[x] \in StepsOf(n)
      BY ONLY s \in Seq(StepsOf(n)), x \in 1 .. Len(s)
    <3>2. s[x].entry \in 1 .. n
      BY ONLY <3>1 DEF StepsOf
    <3>3. PICK c \in ToSet(atoms[s[x].entry].contributes) : c.is = kind /\ ContributionPhase(c) = phase
      BY <2>2 DEF Stage
    <3>4. s[x].is = kind
      BY <2>2 DEF Stage
    <3>5. Of(i, c)
      BY <2>2, <3>3, <3>4, Zenon
    <3> QED BY <2>2, <3>2, <3>4, <3>5, Zenon
  <2>3. CASE i <= 1
    <3>1. run[i] = t[i] /\ i \in 1 .. Len(t) /\ At(i) = 0
      BY <1>1, <1>2, <2>1, <2>3
    <3> HIDE DEF At, Of
    <3>2. run[i].entry \in 1 .. n /\ run[i].is = "targeting" /\ \E c : Of(i, c)
      BY <2>2, <3>1, Zenon
    <3> QED BY ONLY <3>1, <3>2
  <2>4. CASE ~(i <= 1) /\ i <= 1 + lr
    <3>1. run[i] = r[i - 1] /\ i - 1 \in 1 .. Len(r) /\ At(i) = 1
      BY <1>1, <1>2, <2>1, <2>4
    <3> HIDE DEF At, Of
    <3>2. run[i].entry \in 1 .. n /\ run[i].is = "resolution" /\ \E c : Of(i, c)
      BY <2>2, <3>1, Zenon
    <3> QED BY ONLY <3>1, <3>2
  <2>5. CASE ~(i <= 1) /\ ~(i <= 1 + lr) /\ i <= 1 + lr + lo
    <3>1. run[i] = o[i - (1 + lr)] /\ i - (1 + lr) \in 1 .. Len(o) /\ At(i) = 2
      BY <1>1, <1>2, <2>1, <2>5
    <3> HIDE DEF At, Of
    <3>2. run[i].entry \in 1 .. n /\ run[i].is = "outcome" /\ \E c : Of(i, c)
      BY <2>2, <3>1, Zenon
    <3> QED BY ONLY <3>1, <3>2
  <2>6. CASE ~(i <= 1) /\ ~(i <= 1 + lr) /\ ~(i <= 1 + lr + lo)
    <3>1. run[i] = e[i - (1 + lr + lo)] /\ i - (1 + lr + lo) \in 1 .. Len(e) /\ At(i) = 3
      BY <1>1, <1>2, <2>1, <2>6
    <3> HIDE DEF At, Of
    <3>2. run[i].entry \in 1 .. n /\ run[i].is = "outcome" /\ \E c : Of(i, c)
      BY <2>2, <3>1, Zenon
    <3> QED BY ONLY <3>1, <3>2
  <2> QED BY <2>3, <2>4, <2>5, <2>6
<1> SUFFICES ASSUME NEW i \in DOMAIN run, NEW j \in DOMAIN run,
                    NEW key \in atoms[run[i].entry].provides \cap atoms[run[j].entry].consumes,
                    MakesKey(atoms[run[i].entry], run[i], key)
             PROVE  i < j
  BY DEF HonouredIn, run
<1> DEFINE p == run[i].entry
           q == run[j].entry
<1>4. p \in 1 .. n /\ q \in 1 .. n /\ key \in atoms[p].provides /\ key \in atoms[q].consumes
  BY <1>3
<1>5. ProducePhase(atoms[p], key) <= ConsumePhase(atoms[q])
  BY <1>4 DEF PhasesAgree, ProvidersOf
<1>6. ConsumePhase(atoms[q]) \in Int /\ ConsumePhase(atoms[q]) <= At(j)
  <2>1. PICK c : Of(j, c)
    BY <1>3
  <2> QED BY <1>4, <2>1, ConsumedBy
<1>7. ProducePhase(atoms[p], key) \in Int /\ At(i) <= ProducePhase(atoms[p], key) /\ At(i) \in 1 .. 3
  <2> DEFINE Resolves == \E c \in ToSet(atoms[p].contributes) : c.is = "resolution" /\ c.key = key
  <2>1. CASE Resolves
    <3>1. ProducePhase(atoms[p], key) = 1
      BY <2>1 DEF ProducePhase, Phases
    <3>2. run[i].is = "resolution"
      BY <2>1 DEF MakesKey
    <3> QED BY <1>3, <3>1, <3>2
  <2>2. CASE ~Resolves
    <3>1. run[i].is = "outcome"
      BY <2>2 DEF MakesKey
    <3>2. PICK c : Of(i, c)
      BY <1>3
    <3>3. ProducePhase(atoms[p], key) \in Int /\ ProducePhase(atoms[p], key) >= ContributionPhase(c)
      BY <1>4, <2>2, <3>1, <3>2, ProducedBy
    <3>4. ContributionPhase(c) = At(i) /\ At(i) \in 2 .. 3
      BY <1>3, <3>1, <3>2
    <3> QED BY <3>3, <3>4
  <2> QED BY <2>1, <2>2
<1>8. At(i) <= At(j) /\ At(j) \in 0 .. 3
  <2>1. At(j) \in 0 .. 3
    OBVIOUS
  <2> HIDE DEF At
  <2> QED BY <1>5, <1>6, <1>7, <2>1
<1>9. CASE At(i) < At(j)
  BY <1>1, <1>2, <1>9
<1>10. CASE At(i) = 1 /\ At(j) = 1
  <2>1. i = j
    BY <1>1, <1>2, <1>10
  <2> QED BY <1>4, <2>1, NotOfItself
<1>11. CASE At(i) = 2 /\ At(j) = 2
  <2>1. ASSUME NEW h \in DOMAIN run, At(h) = 2
        PROVE  h - (1 + lr) \in 1 .. Len(o) /\ o[h - (1 + lr)] = run[h] /\ h \in Int
    <3>1. h \in 1 .. 1 + lr + lo + le
      BY <1>2
    <3>2. ~(h <= 1) /\ ~(h <= 1 + lr) /\ h <= 1 + lr + lo
      BY <2>1
    <3>3. h - (1 + lr) \in 1 .. lo /\ h \in Int
      <4> HIDE DEF lr, lo, le
      <4> QED BY ONLY <1>1, <3>1, <3>2
    <3>4. run[h] = o[h - (1 + lr)]
      BY <1>2, <3>2, Zenon
    <3> QED BY <3>3, <3>4
  <2> DEFINE x == j - (1 + lr)
             y == i - (1 + lr)
  <2>2. x \in 1 .. Len(o) /\ y \in 1 .. Len(o) /\ o[x] = run[j] /\ o[y] = run[i]
    BY <1>11, <2>1
  <2>3. x <= y \/ i < j
    <3>1. i \in Int /\ j \in Int /\ lr \in Int /\ lo \in Int
      BY <1>1, <1>11, <2>1
    <3> HIDE DEF lr, lo
    <3> QED BY ONLY <3>1 DEF x, y
  <2> HIDE DEF x, y
  <2>4. CASE x <= y
    <3>1. o[y].entry \in 1 .. n /\ key \in atoms[o[y].entry].provides /\ key \in atoms[o[x].entry].consumes
      BY <1>4, <2>2, Zenon
    <3> QED BY <2>2, <2>4, <3>1, RankedApart
  <2> QED BY <2>3, <2>4
<1>12. CASE At(i) = 3 /\ At(j) = 3
  <2>1. ASSUME NEW h \in DOMAIN run, At(h) = 3
        PROVE  h - (1 + lr + lo) \in 1 .. Len(e) /\ e[h - (1 + lr + lo)] = run[h] /\ h \in Int
    <3>1. h \in 1 .. 1 + lr + lo + le
      BY <1>2
    <3>2. ~(h <= 1) /\ ~(h <= 1 + lr) /\ ~(h <= 1 + lr + lo)
      BY <2>1
    <3>3. h - (1 + lr + lo) \in 1 .. le /\ h \in Int
      <4> HIDE DEF lr, lo, le
      <4> QED BY ONLY <1>1, <3>1, <3>2
    <3>4. run[h] = e[h - (1 + lr + lo)]
      BY <1>2, <3>2, Zenon
    <3> QED BY <3>3, <3>4
  <2> DEFINE x == j - (1 + lr + lo)
             y == i - (1 + lr + lo)
  <2>2. x \in 1 .. Len(e) /\ y \in 1 .. Len(e) /\ e[x] = run[j] /\ e[y] = run[i]
    BY <1>12, <2>1
  <2>3. x <= y \/ i < j
    <3>1. i \in Int /\ j \in Int /\ lr \in Int /\ lo \in Int
      BY <1>1, <1>12, <2>1
    <3> HIDE DEF lr, lo
    <3> QED BY ONLY <3>1 DEF x, y
  <2> HIDE DEF x, y
  <2>4. CASE x <= y
    <3>1. e[y].entry \in 1 .. n /\ key \in atoms[e[y].entry].provides /\ key \in atoms[e[x].entry].consumes
      BY <1>4, <2>2, Zenon
    <3> QED BY <2>2, <2>4, <3>1, RankedApart
  <2> QED BY <2>3, <2>4
<1> HIDE DEF At
<1> QED BY <1>7, <1>8, <1>9, <1>10, <1>11, <1>12


\* The steps of the effects of a branch.
OutcomeSteps(es) == [i \in DOMAIN es |-> [entry |-> es[i].entry, is |-> "outcome"]]

LEMMA OutcomeStage ==
  ASSUME NEW ability, IsAbility(ability), NEW n \in Nat, n = Len(ability.compose),
         NEW order \in Seq(1 .. n), Len(order) = n, NEW branch
  PROVE  LET s == OutcomeSteps(EffectsOn(ability, order, branch))
         IN  /\ s \in Seq(StepsOf(n))
             /\ Ranked(order, n, s)
             /\ Stage(AtomsOf(ability), s, "outcome", IF branch = "always" THEN 3 ELSE 2)
<1> DEFINE es == EffectsOn(ability, order, branch)
           s == OutcomeSteps(es)
           X == {x \in AllEffects(ability) : HasOutcomeOn(ability, x.entry, branch)}
           phase == IF branch = "always" THEN 3 ELSE 2
<1>1. es \in Seq(X) /\ Ranked(order, n, es)
  BY EffectsRanked
<1> HIDE DEF es, X
<1>2. /\ Len(es) \in Nat /\ DOMAIN es = 1 .. Len(es)
      /\ \A i \in 1 .. Len(es) : es[i] \in X
  BY <1>1
<1>3. /\ DOMAIN s = 1 .. Len(es) /\ Len(s) = Len(es)
      /\ \A i \in 1 .. Len(es) : s[i] = [entry |-> es[i].entry, is |-> "outcome"]
  BY <1>2 DEF OutcomeSteps
<1>4. \A i \in 1 .. Len(es) : s[i].entry = es[i].entry /\ s[i].is = "outcome"
  BY <1>3
<1>5. ASSUME NEW i \in 1 .. Len(es)
      PROVE  /\ es[i].entry \in 1 .. n
             /\ \E c \in ToSet(AtomsOf(ability)[es[i].entry].contributes) :
                  c.is = "outcome" /\ ContributionPhase(c) = phase
  <2>1. HasOutcomeOn(ability, es[i].entry, branch)
    BY <1>2 DEF X
  <2>2. PICK o \in OfEntries(ability, "outcome") : o.entry = es[i].entry /\ o.c.branch = branch
    BY <2>1 DEF HasOutcomeOn
  <2>3. /\ o.entry \in DOMAIN ability.compose /\ o.c.is = "outcome"
        /\ o.c \in ToSet(ability.compose[o.entry].atom.contributes)
    BY DEF OfEntries
  <2>4. AtomsOf(ability)[o.entry] = ability.compose[o.entry].atom /\ o.entry \in 1 .. n
    BY <2>3, AtomsOfType, ComposedType
  <2>5. ContributionPhase(o.c) = phase
    BY <2>2, <2>3 DEF ContributionPhase, Phases
  <2> HIDE DEF phase
  <2> QED BY <2>2, <2>3, <2>4, <2>5
<1> HIDE DEF s, phase
<1>6. s \in Seq(StepsOf(n))
  <2>1. \A i \in 1 .. Len(es) : s[i] \in StepsOf(n)
    BY <1>3, <1>5 DEF StepsOf
  <2>2. s = [i \in 1 .. Len(es) |-> s[i]]
    BY <1>3 DEF s, OutcomeSteps
  <2> QED BY ONLY <1>2, <2>1, <2>2
<1>7. Ranked(order, n, s)
  BY <1>1, <1>3, <1>4 DEF Ranked
<1>8. Stage(AtomsOf(ability), s, "outcome", phase)
  BY <1>3, <1>4, <1>5 DEF Stage
<1> QED BY <1>6, <1>7, <1>8 DEF s, es, phase

\* The one step of a contribution.
LEMMA OneStage ==
  ASSUME NEW ability, IsAbility(ability), NEW kind \in {"targeting", "resolution"},
         NEW o \in OfEntries(ability, kind)
  PROVE  LET s == <<[entry |-> o.entry, is |-> kind]>>
         IN  /\ s \in Seq(StepsOf(Len(ability.compose))) /\ Len(s) = 1
             /\ Stage(AtomsOf(ability), s, kind, IF kind = "targeting" THEN 0 ELSE 1)
<1> DEFINE step == [entry |-> o.entry, is |-> kind]
           phase == IF kind = "targeting" THEN 0 ELSE 1
<1>1. /\ o.entry \in DOMAIN ability.compose /\ o.c.is = kind
      /\ o.c \in ToSet(ability.compose[o.entry].atom.contributes)
  BY DEF OfEntries
<1>2. AtomsOf(ability)[o.entry] = ability.compose[o.entry].atom /\ o.entry \in 1 .. Len(ability.compose)
  BY <1>1, AtomsOfType, ComposedType
<1>3. ContributionPhase(o.c) = phase
  BY <1>1 DEF ContributionPhase, Phases
<1>4. step \in StepsOf(Len(ability.compose)) /\ step.entry = o.entry /\ step.is = kind
  BY <1>2 DEF StepsOf
<1> HIDE DEF step, phase
<1>5. <<step>> \in Seq(StepsOf(Len(ability.compose))) /\ Len(<<step>>) = 1 /\ <<step>>[1] = step
  BY ONLY <1>4
<1>6. Stage(AtomsOf(ability), <<step>>, kind, phase)
  BY <1>1, <1>2, <1>3, <1>4, <1>5 DEF Stage
<1> QED BY <1>5, <1>6 DEF step, phase

\* Whatever compiles runs in an order it declares.
LEMMA DependenciesHold ==
  ASSUME NEW rs, NEW ability, IsAbility(ability), Compile(rs, ability) # Refused
  PROVE  Honoured(ability, Compile(rs, ability))
<1> DEFINE atoms == AtomsOf(ability)
           order == RunOrder(atoms)
           ts == OfKind(ability, "targeting")
           rr == OfKind(ability, "resolution")
           targeting == CompiledTargeting(ts)
           resolution == CompiledResolution(rs, rr)
           p == Powered(ability, order, targeting, resolution)
           n == Len(ability.compose)
<1>1. /\ Loaded(rs, ability)
      /\ order # Refused /\ targeting # Refused /\ resolution # Refused
      /\ Compile(rs, ability) = p
  BY CompiledIs
<1>2. /\ order \in Seq(1 .. n) /\ Len(order) = n /\ IsOrder(atoms, order) /\ PhasesAgree(atoms)
      /\ n \in Nat /\ DOMAIN atoms = 1 .. n
  <2>1. order = Sorted(atoms) /\ Sorted(atoms) # Refused /\ PhasesAgree(atoms)
    BY <1>1, OrderIs
  <2> QED BY <2>1, AtomsOfType, SortedIs
<1>3. \A e \in 1 .. n : atoms[e].contributes \in Seq(Contributions)
  BY AtomsOfType, ComposedType
<1>4. ts[1] \in OfEntries(ability, "targeting")
  <2>1. ts \in Seq(OfEntries(ability, "targeting"))
    BY OfKindType
  <2> HIDE DEF ts
  <2>2. Len(ts) = 1
    BY <1>1 DEF CompiledTargeting
  <2> QED BY ONLY <2>1, <2>2
<1>5. resolution # None => rr[1] \in OfEntries(ability, "resolution") /\ resolution = ResolutionOf(rr[1])
  <2>1. rr \in Seq(OfEntries(ability, "resolution"))
    BY OfKindType
  <2> HIDE DEF rr
  <2>2. resolution # None => Len(rr) = 1 /\ resolution = ResolutionOf(rr[1])
    BY <1>1, <2>1 DEF CompiledResolution
  <2> HIDE DEF resolution
  <2> QED BY <2>1, <2>2
<1>6. p.resolution = resolution /\ p.effects = EffectsOn(ability, order, "always")
      /\ p.outcomes = IF resolution = None THEN <<<<>>, <<>>>>
                      ELSE [b \in 1 .. 2 |-> EffectsOn(ability, order, resolution.branches[b])]
  BY DEF Powered
<1>7. resolution # None => \A b \in 1 .. 2 : resolution.branches[b] # "always"
  <2> SUFFICES ASSUME resolution # None PROVE \A b \in 1 .. 2 : resolution.branches[b] # "always"
    OBVIOUS
  <2> DEFINE x == rr[1]
  <2>1. x \in OfEntries(ability, "resolution") /\ resolution = ResolutionOf(x)
    BY <1>5
  <2> HIDE DEF x, resolution
  <2>2. /\ x.entry \in DOMAIN ability.compose /\ x.c.is = "resolution" /\ x.c \in Contributions
        /\ x.c \in ToSet(ability.compose[x.entry].atom.contributes)
    BY <2>1 DEF OfEntries
  <2>3. ContributionLoads(ability.compose[x.entry].atom, x.c)
    BY <1>1, <2>2, ComposedType DEF Loaded, LoadsAtom
  <2>4. ToSet(x.c.branches) \cap ReservedBranches = {}
    BY <2>2, <2>3 DEF ContributionLoads, ResolutionLoads
  <2>5. x.c.branches \in STRING \X STRING
    BY <2>2 DEF Contributions
  <2>6. \A b \in 1 .. 2 : x.c.branches[b] \in ToSet(x.c.branches)
    BY <2>5 DEF ToSet
  <2>7. resolution.branches = x.c.branches
    BY <2>1 DEF ResolutionOf
  <2> QED BY <2>4, <2>6, <2>7 DEF ReservedBranches
<1> DEFINE T == <<[entry |-> ts[1].entry, is |-> "targeting"]>>
           R == IF resolution = None THEN <<>> ELSE <<[entry |-> resolution.entry, is |-> "resolution"]>>
           O(b) == OutcomeSteps(p.outcomes[b])
           E == OutcomeSteps(p.effects)
<1>8. T \in Seq(StepsOf(n)) /\ Len(T) = 1 /\ Stage(atoms, T, "targeting", 0)
  BY <1>4, OneStage
<1>9. R \in Seq(StepsOf(n)) /\ Len(R) <= 1 /\ Stage(atoms, R, "resolution", 1)
  <2>1. CASE resolution = None
    <3>1. R = <<>>
      BY <2>1
    <3> HIDE DEF R
    <3>2. R \in Seq(StepsOf(n)) /\ Len(R) = 0
      BY ONLY <3>1
    <3> QED BY <3>2 DEF Stage
  <2>2. CASE resolution # None
    <3>1. resolution.entry = rr[1].entry
      BY <1>5, <2>2 DEF ResolutionOf
    <3>2. R = <<[entry |-> rr[1].entry, is |-> "resolution"]>>
      BY <2>2, <3>1
    <3> HIDE DEF R, resolution
    <3>3. rr[1] \in OfEntries(ability, "resolution")
      BY <1>5, <2>2
    <3> HIDE DEF rr, atoms, n
    <3>4. R \in Seq(StepsOf(n)) /\ Len(R) = 1 /\ Stage(atoms, R, "resolution", 1)
      BY <3>2, <3>3, OneStage DEF atoms, n
    <3> QED BY <3>4
  <2> QED BY <2>1, <2>2
<1>10. E \in Seq(StepsOf(n)) /\ Stage(atoms, E, "outcome", 3) /\ Ranked(order, n, E)
  BY <1>2, <1>6, OutcomeStage
<1>11. ASSUME NEW b \in 1 .. 2
       PROVE  O(b) \in Seq(StepsOf(n)) /\ Stage(atoms, O(b), "outcome", 2) /\ Ranked(order, n, O(b))
  <2>1. CASE resolution = None
    <3> HIDE DEF resolution, p, order, atoms, n
    <3>1. p.outcomes[b] = <<>>
      BY <1>6, <2>1
    <3>2. O(b) \in Seq(StepsOf(n)) /\ Len(O(b)) = 0
      BY <3>1 DEF OutcomeSteps
    <3> HIDE DEF O
    <3> QED BY <3>2 DEF Stage, Ranked
  <2>2. CASE resolution # None
    <3>1. p.outcomes[b] = EffectsOn(ability, order, resolution.branches[b])
      BY <1>6, <2>2
    <3>2. resolution.branches[b] # "always"
      BY <1>7, <2>2
    <3> HIDE DEF resolution, p
    <3> QED BY <1>2, <3>1, <3>2, OutcomeStage
  <2> QED BY <2>1, <2>2
<1>12. ASSUME NEW b \in 1 .. 2 PROVE HonouredIn(atoms, RunOn(ts[1], p, b))
  <2>1. RunOn(ts[1], p, b) = T \o R \o O(b) \o E
    BY <1>6 DEF RunOn, OutcomeSteps
  <2> DEFINE Ob == O(b)
  <2>2. Ob \in Seq(StepsOf(n)) /\ Stage(atoms, Ob, "outcome", 2) /\ Ranked(order, n, Ob)
    BY <1>11
  <2> HIDE DEF T, R, Ob, E, n, order, atoms
  <2>3. HonouredIn(atoms, T \o R \o Ob \o E)
    BY <1>2, <1>3, <1>8, <1>9, <1>10, <2>2, RunHonours
  <2> QED BY <2>1, <2>3 DEF Ob
<1> QED BY <1>1, <1>12 DEF Honoured

\* An ability that compiled runs what makes a key before what needs it, in every
\* composition of atoms: the sort of buildAndSortDAG orders the entries of one phase,
\* and its check of the phases refuses what the fixed order of the phases would break.
THEOREM DependenciesHonoured == CommandsSpec => []DependenciesAreHonoured
<1>1. CommandsInv => DependenciesAreHonoured
  <2> SUFFICES ASSUME CommandsInv, power # Refused PROVE Honoured(play.ability, power)
    BY DEF DependenciesAreHonoured
  <2>1. IsAbility(play.ability) /\ power = Compile(play.ruleset, play.ability)
    BY DEF CommandsInv, PlayInv, IsPlay
  <2> QED BY <2>1, DependenciesHold
<1> QED BY <1>1, CommandsInvHolds, PTL
=============================================================================
