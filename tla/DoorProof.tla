------------------------------ MODULE DoorProof ------------------------------
(***************************************************************************)
(* Theorems about Door, for any people, openers, names and limits: the     *)
(* budget of an opening, what a shut door has spent, what an opened file   *)
(* looks like, and that staff and the revoked stay what they are.          *)
(*                                                                         *)
(* The statements of the handlers are single actions, so what each handler *)
(* remembers between two of them is what the invariant is about: a joiner  *)
(* on the way in is not counted yet and has no row, and a change under way *)
(* is of somebody who was a player or a spectator and so stays one.        *)
(***************************************************************************)
EXTENDS Door, FiniteSetTheorems, TLAPS

\* The rows of the two tables.
DoorRows == [row : BOOLEAN, secret : Nat, open : BOOLEAN, admitted : Nat, limit : Nat]
PersonRows == [name : Names \cup {"none"}, role : Roles \cup {"none"}, revoked : BOOLEAN]

\* Who is counted has passed the UPDATE, and it counted them.
CountInv == /\ IsFiniteSet(entered)
            /\ door.admitted = Cardinality(entered)
            /\ door.admitted <= door.limit
            /\ \A j \in entered : at[j] \notin {"idle", "read", "free"}

\* No row is a shut door, and a shut door has spent nothing.
ShutInv == /\ door.open => door.row
           /\ ~door.open => door.admitted = 0

\* People on their way in have no row.  Those a change is about are players
\* or spectators, and nothing makes staff of them.
PeopleInv == /\ \A p \in People : at[p] # "in" => rows[p] = Absent
             /\ \A c \in change : rows[c.who].role \in Roles \ Staff

IInv == TypeOK /\ CountInv /\ ShutInv /\ OpensMigrate /\ PeopleInv

-----------------------------------------------------------------------------
LEMMA InitInv == Init => IInv
<1> SUFFICES ASSUME Init PROVE IInv
  OBVIOUS
<1> USE DoorAssumption DEF Init, DoorRows, PersonRows
<1>1. TypeOK
  <2>1. rows \in [People -> PersonRows]
    <3>1. \A p \in People : rows[p] \in {Absent} \cup [name : Names, role : Roles, revoked : {FALSE}]
      OBVIOUS
    <3>2. {Absent} \cup [name : Names, role : Roles, revoked : {FALSE}]
            \subseteq PersonRows
      <4>1. Absent \in PersonRows
        BY DEF Absent
      <4>2. [name : Names, role : Roles, revoked : {FALSE}]
              \subseteq PersonRows
        OBVIOUS
      <4> QED BY <4>1, <4>2
    <3> QED BY <3>1, <3>2
  <2>2. at \in [People -> Places]
    BY DEF Places
  <2>3. door \in DoorRows
    OBVIOUS
  <2> QED BY <2>1, <2>2, <2>3 DEF TypeOK
<1>2. CountInv
  BY FS_EmptySet DEF CountInv
<1>3. ShutInv /\ OpensMigrate
  BY DEF ShutInv, OpensMigrate, Served
<1>4. PeopleInv
  BY DEF PeopleInv
<1> QED BY <1>1, <1>2, <1>3, <1>4 DEF IInv

\* A row given a role or marked revoked is a row.
LEMMA RowOfRole ==
  ASSUME NEW N, NEW R, NEW S, NEW r \in [name : N, role : R, revoked : S], NEW x \in R
  PROVE  [r EXCEPT !.role = x] \in [name : N, role : R, revoked : S]
OBVIOUS

LEMMA RevokedRow ==
  ASSUME NEW N, NEW R, NEW r \in [name : N, role : R, revoked : BOOLEAN]
  PROVE  [r EXCEPT !.revoked = TRUE] \in [name : N, role : R, revoked : BOOLEAN]
OBVIOUS

\* Every step keeps the type.
LEMMA TypeStep == TypeOK /\ [Next]_vars => TypeOK'
<1> SUFFICES ASSUME TypeOK, [Next]_vars PROVE TypeOK'
  OBVIOUS
<1> USE DoorAssumption DEF TypeOK, Columns, Absent, Roles, Places, People, DoorRows, PersonRows
<1>1. ASSUME NEW o \in Openers, MigrationPending(o) PROVE TypeOK'
  <2>1. door' \in DoorRows
    BY <1>1 DEF MigrationPending
  <2>2. /\ columns' \subseteq Columns /\ entered' \subseteq Joiners
        /\ at' \in [People -> Places]
        /\ openings' \in 0 .. MaxOpenings
    BY <1>1 DEF MigrationPending, peopleVars, boundVars
  <2> QED BY <1>1, <2>1, <2>2 DEF MigrationPending, peopleVars, boundVars
<1>2. ASSUME NEW o \in Openers, MigrateLocked(o) PROVE TypeOK'
  <2>1. door' \in DoorRows
    BY <1>2 DEF MigrateLocked
  <2>2. /\ columns' \subseteq Columns /\ entered' \subseteq Joiners
        /\ at' \in [People -> Places]
        /\ openings' \in 0 .. MaxOpenings
    BY <1>2 DEF MigrateLocked, peopleVars, boundVars
  <2> QED BY <1>2, <2>1, <2>2 DEF MigrateLocked, peopleVars, boundVars
<1>3. ASSUME NEW open \in BOOLEAN, NEW limit \in Limits, SetJoinOpen(open, limit) PROVE TypeOK'
  <2>1. door' \in DoorRows
    BY <1>3 DEF SetJoinOpen, Opening
  <2>2. /\ columns' \subseteq Columns /\ entered' \subseteq Joiners
        /\ at' \in [People -> Places]
        /\ openings' \in 0 .. MaxOpenings
    BY <1>3 DEF SetJoinOpen, Opening, peopleVars
  <2> QED BY <1>3, <2>1, <2>2 DEF SetJoinOpen, Opening, peopleVars
<1>4. ASSUME RotateJoinSecret PROVE TypeOK'
  <2>1. door' \in DoorRows
    <3>1. door' = [row |-> TRUE, secret |-> door.secret + 1, open |-> door.open,
                   admitted |-> 0, limit |-> door.limit]
      BY <1>4 DEF RotateJoinSecret
    <3> QED BY <3>1
  <2>2. /\ columns' \subseteq Columns /\ entered' \subseteq Joiners
        /\ at' \in [People -> Places]
        /\ openings' \in 0 .. MaxOpenings
    BY <1>4 DEF RotateJoinSecret, Opening, peopleVars
  <2> QED BY <1>4, <2>1, <2>2 DEF RotateJoinSecret, Opening, peopleVars
<1>5. ASSUME JoinSecret PROVE TypeOK'
  <2>1. door' \in DoorRows
    BY <1>5 DEF JoinSecret
  <2>2. /\ columns' \subseteq Columns /\ entered' \subseteq Joiners
        /\ at' \in [People -> Places]
        /\ openings' \in 0 .. MaxOpenings
    BY <1>5 DEF JoinSecret, peopleVars, boundVars
  <2> QED BY <1>5, <2>1, <2>2 DEF JoinSecret, peopleVars, boundVars
<1>6. ASSUME NEW j \in Joiners, Share(j)
     PROVE  TypeOK'
  BY <1>6, SMTT(30) DEF Share, boundVars
<1>7. ASSUME NEW j \in Joiners, ReadDoor(j)
     PROVE  TypeOK'
  BY <1>7, SMTT(30) DEF ReadDoor, Go, boundVars
<1>8. ASSUME NEW j \in Joiners, ReadNames(j)
     PROVE  TypeOK'
  BY <1>8, SMTT(30) DEF ReadNames, Go, boundVars
<1>9. ASSUME NEW j \in Joiners, Spend(j) PROVE TypeOK'
  <2>1. door' \in DoorRows
    BY <1>9 DEF Spend, Go
  <2>2. /\ columns' \subseteq Columns /\ entered' \subseteq Joiners
        /\ at' \in [People -> Places]
        /\ openings' \in 0 .. MaxOpenings
    BY <1>9 DEF Spend, Go, boundVars
  <2> QED BY <1>9, <2>1, <2>2 DEF Spend, Go, boundVars
<1>10. ASSUME NEW p \in Joiners \cup Invited, CheckName(p)
     PROVE  TypeOK'
  BY <1>10, SMTT(30) DEF CheckName, boundVars
<1>11. ASSUME NEW p \in Joiners \cup Invited, Insert(p)
     PROVE  TypeOK'
  BY <1>11, SMTT(30) DEF Insert, Go, boundVars
<1>12. ASSUME NEW p \in People, NEW role \in {"player", "spectator", "none"}, BeginChange(p, role)
     PROVE  TypeOK'
  BY <1>12, SMTT(30) DEF BeginChange, peopleVars
<1>13. ASSUME NEW c \in change, SetRole(c) PROVE TypeOK'
  <2>1. c.who \in People /\ c.role \in Roles /\ rows[c.who] \in PersonRows
    BY <1>13 DEF SetRole
  <2>2. [rows[c.who] EXCEPT !.role = c.role] \in PersonRows
    BY <2>1, RowOfRole
  <2>3. rows' \in [People -> PersonRows]
    BY <1>13, <2>1, <2>2 DEF SetRole
  <2> QED BY <1>13, <2>3 DEF SetRole, boundVars
<1>14. ASSUME NEW c \in change, Revoke(c) PROVE TypeOK'
  <2>1. /\ c.who \in People
        /\ rows[c.who] \in PersonRows
    BY <1>14
  <2>2. [rows[c.who] EXCEPT !.revoked = TRUE]
          \in PersonRows
    BY <2>1, RevokedRow
  <2>3. rows' \in [People -> PersonRows]
    BY <1>14, <2>1, <2>2 DEF Revoke
  <2> QED BY <1>14, <2>3 DEF Revoke, boundVars
<1>15. CASE UNCHANGED vars
  BY <1>15, SMTT(30) DEF vars, peopleVars, boundVars
<1> QED BY <1>1, <1>2, <1>3, <1>4, <1>5, <1>6, <1>7, <1>8,
           <1>9, <1>10, <1>11, <1>12, <1>13, <1>14, <1>15 DEF Next, Join

\* Every step keeps the count: only the UPDATE adds to it, a joiner it has not
\* counted, while there is room; a reset empties both.
LEMMA CountStep == TypeOK /\ CountInv /\ [Next]_vars => CountInv'
<1> SUFFICES ASSUME TypeOK, CountInv, [Next]_vars PROVE CountInv'
  OBVIOUS
<1> USE DoorAssumption DEF TypeOK, CountInv, People
<1>1. ASSUME NEW o \in Openers, MigrationPending(o)
     PROVE  CountInv'
  BY <1>1, SMTT(30) DEF MigrationPending, peopleVars, boundVars
<1>2. ASSUME NEW o \in Openers, MigrateLocked(o)
     PROVE  CountInv'
  BY <1>2, SMTT(30) DEF MigrateLocked, peopleVars, boundVars
<1>3. ASSUME NEW open \in BOOLEAN, NEW limit \in Limits, SetJoinOpen(open, limit) PROVE CountInv'
  <2>1. entered' = {} /\ door'.admitted = 0 /\ door'.limit \in Nat
    BY <1>3 DEF SetJoinOpen
  <2> QED BY <2>1, FS_EmptySet
<1>4. ASSUME RotateJoinSecret PROVE CountInv'
  <2>1. entered' = {} /\ door'.admitted = 0 /\ door'.limit \in Nat
    BY <1>4 DEF RotateJoinSecret
  <2> QED BY <2>1, FS_EmptySet
<1>5. ASSUME JoinSecret
     PROVE  CountInv'
  BY <1>5, SMTT(30) DEF JoinSecret, peopleVars, boundVars
<1>6. ASSUME NEW j \in Joiners, Share(j)
     PROVE  CountInv'
  BY <1>6, SMTT(30) DEF Share, boundVars
<1>7. ASSUME NEW j \in Joiners, ReadDoor(j)
     PROVE  CountInv'
  BY <1>7, SMTT(30) DEF ReadDoor, Go, boundVars
<1>8. ASSUME NEW j \in Joiners, ReadNames(j)
     PROVE  CountInv'
  BY <1>8, SMTT(30) DEF ReadNames, Go, boundVars
<1>9. ASSUME NEW j \in Joiners, Spend(j) PROVE CountInv'
  <2>1. j \notin entered
    BY <1>9 DEF Spend, Go
  <2>2. IsFiniteSet(entered \cup {j}) /\ Cardinality(entered \cup {j}) = Cardinality(entered) + 1
    BY <2>1, FS_AddElement
  <2>3. CASE door.open /\ door.admitted < door.limit
    <3>1. /\ door'.admitted = door.admitted + 1 /\ door'.limit = door.limit
          /\ entered' = entered \cup {j}
      BY <1>9, <2>3 DEF Spend
    <3>2. \A i \in entered' : at'[i] \notin {"idle", "read", "free"}
      BY <1>9, <2>3, <3>1 DEF Spend, Go, People
    <3> QED BY <2>2, <2>3, <3>1, <3>2
  <2>4. CASE ~(door.open /\ door.admitted < door.limit)
    BY <1>9, <2>4 DEF Spend, Go, People
  <2> QED BY <2>3, <2>4
<1>10. ASSUME NEW p \in Joiners \cup Invited, CheckName(p)
     PROVE  CountInv'
  BY <1>10, SMTT(30) DEF CheckName, boundVars
<1>11. ASSUME NEW p \in Joiners \cup Invited, Insert(p)
     PROVE  CountInv'
  BY <1>11, SMTT(30) DEF Insert, Go, boundVars
<1>12. ASSUME NEW p \in People, NEW role \in {"player", "spectator", "none"}, BeginChange(p, role)
     PROVE  CountInv'
  BY <1>12, SMTT(30) DEF BeginChange, peopleVars
<1>13. ASSUME NEW c \in change, SetRole(c)
     PROVE  CountInv'
  BY <1>13, SMTT(30) DEF SetRole, boundVars
<1>14. ASSUME NEW c \in change, Revoke(c)
     PROVE  CountInv'
  BY <1>14, SMTT(30) DEF Revoke, boundVars
<1>15. CASE UNCHANGED vars
  BY <1>15, SMTT(30) DEF vars, peopleVars, boundVars
<1> QED BY <1>1, <1>2, <1>3, <1>4, <1>5, <1>6, <1>7, <1>8,
           <1>9, <1>10, <1>11, <1>12, <1>13, <1>14, <1>15 DEF Next, Join

\* Every step keeps the row behind an open door, and a shut one unspent.
LEMMA ShutStep == TypeOK /\ ShutInv /\ [Next]_vars => ShutInv'
<1> SUFFICES ASSUME TypeOK, ShutInv, [Next]_vars PROVE ShutInv'
  OBVIOUS
<1> USE DoorAssumption DEF TypeOK, ShutInv
<1>1. ASSUME NEW o \in Openers, MigrationPending(o)
     PROVE  ShutInv'
  BY <1>1, SMTT(30) DEF MigrationPending, peopleVars, boundVars
<1>2. ASSUME NEW o \in Openers, MigrateLocked(o)
     PROVE  ShutInv'
  BY <1>2, SMTT(30) DEF MigrateLocked, peopleVars, boundVars
<1>3. ASSUME NEW open \in BOOLEAN, NEW limit \in Limits, SetJoinOpen(open, limit)
     PROVE  ShutInv'
  BY <1>3, SMTT(30) DEF SetJoinOpen, Opening, peopleVars
<1>4. ASSUME RotateJoinSecret
     PROVE  ShutInv'
  BY <1>4, SMTT(30) DEF RotateJoinSecret, Opening, peopleVars
<1>5. ASSUME JoinSecret
     PROVE  ShutInv'
  BY <1>5, SMTT(30) DEF JoinSecret, peopleVars, boundVars
<1>6. ASSUME NEW j \in Joiners, Share(j)
     PROVE  ShutInv'
  BY <1>6, SMTT(30) DEF Share, boundVars
<1>7. ASSUME NEW j \in Joiners, ReadDoor(j)
     PROVE  ShutInv'
  BY <1>7, SMTT(30) DEF ReadDoor, Go, boundVars
<1>8. ASSUME NEW j \in Joiners, ReadNames(j)
     PROVE  ShutInv'
  BY <1>8, SMTT(30) DEF ReadNames, Go, boundVars
<1>9. ASSUME NEW j \in Joiners, Spend(j)
     PROVE  ShutInv'
  BY <1>9, SMTT(30) DEF Spend, Go, boundVars
<1>10. ASSUME NEW p \in Joiners \cup Invited, CheckName(p)
     PROVE  ShutInv'
  BY <1>10, SMTT(30) DEF CheckName, boundVars
<1>11. ASSUME NEW p \in Joiners \cup Invited, Insert(p)
     PROVE  ShutInv'
  BY <1>11, SMTT(30) DEF Insert, Go, boundVars
<1>12. ASSUME NEW p \in People, NEW role \in {"player", "spectator", "none"}, BeginChange(p, role)
     PROVE  ShutInv'
  BY <1>12, SMTT(30) DEF BeginChange, peopleVars
<1>13. ASSUME NEW c \in change, SetRole(c)
     PROVE  ShutInv'
  BY <1>13, SMTT(30) DEF SetRole, boundVars
<1>14. ASSUME NEW c \in change, Revoke(c)
     PROVE  ShutInv'
  BY <1>14, SMTT(30) DEF Revoke, boundVars
<1>15. CASE UNCHANGED vars
  BY <1>15, SMTT(30) DEF vars, peopleVars, boundVars
<1> QED BY <1>1, <1>2, <1>3, <1>4, <1>5, <1>6, <1>7, <1>8,
           <1>9, <1>10, <1>11, <1>12, <1>13, <1>14, <1>15 DEF Next, Join

\* Every step keeps what an Open promises: none fails, and nothing that is done
\* to a served file opens its door without a budget.
LEMMA MigrateStep == TypeOK /\ ShutInv /\ OpensMigrate /\ [Next]_vars => OpensMigrate'
<1> SUFFICES ASSUME TypeOK, ShutInv, OpensMigrate, [Next]_vars PROVE OpensMigrate'
  OBVIOUS
<1> USE DoorAssumption DEF TypeOK, ShutInv, OpensMigrate, Served, Current, Columns
<1>1. ASSUME NEW o \in Openers, MigrationPending(o)
     PROVE  OpensMigrate'
  BY <1>1, SMTT(30) DEF MigrationPending, peopleVars, boundVars
<1>2. ASSUME NEW o \in Openers, MigrateLocked(o)
     PROVE  OpensMigrate'
  BY <1>2, SMTT(30) DEF MigrateLocked, peopleVars, boundVars
<1>3. ASSUME NEW open \in BOOLEAN, NEW limit \in Limits, SetJoinOpen(open, limit)
     PROVE  OpensMigrate'
  BY <1>3, SMTT(30) DEF SetJoinOpen, Opening, peopleVars
<1>4. ASSUME RotateJoinSecret
     PROVE  OpensMigrate'
  BY <1>4, SMTT(30) DEF RotateJoinSecret, Opening, peopleVars
<1>5. ASSUME JoinSecret
     PROVE  OpensMigrate'
  BY <1>5, SMTT(30) DEF JoinSecret, peopleVars, boundVars
<1>6. ASSUME NEW j \in Joiners, Share(j)
     PROVE  OpensMigrate'
  BY <1>6, SMTT(30) DEF Share, boundVars
<1>7. ASSUME NEW j \in Joiners, ReadDoor(j)
     PROVE  OpensMigrate'
  BY <1>7, SMTT(30) DEF ReadDoor, Go, boundVars
<1>8. ASSUME NEW j \in Joiners, ReadNames(j)
     PROVE  OpensMigrate'
  BY <1>8, SMTT(30) DEF ReadNames, Go, boundVars
<1>9. ASSUME NEW j \in Joiners, Spend(j)
     PROVE  OpensMigrate'
  BY <1>9, SMTT(30) DEF Spend, Go, boundVars
<1>10. ASSUME NEW p \in Joiners \cup Invited, CheckName(p)
     PROVE  OpensMigrate'
  BY <1>10, SMTT(30) DEF CheckName, boundVars
<1>11. ASSUME NEW p \in Joiners \cup Invited, Insert(p)
     PROVE  OpensMigrate'
  BY <1>11, SMTT(30) DEF Insert, Go, boundVars
<1>12. ASSUME NEW p \in People, NEW role \in {"player", "spectator", "none"}, BeginChange(p, role)
     PROVE  OpensMigrate'
  BY <1>12, SMTT(30) DEF BeginChange, peopleVars
<1>13. ASSUME NEW c \in change, SetRole(c)
     PROVE  OpensMigrate'
  BY <1>13, SMTT(30) DEF SetRole, boundVars
<1>14. ASSUME NEW c \in change, Revoke(c)
     PROVE  OpensMigrate'
  BY <1>14, SMTT(30) DEF Revoke, boundVars
<1>15. CASE UNCHANGED vars
  BY <1>15, SMTT(30) DEF vars, peopleVars, boundVars
<1> QED BY <1>1, <1>2, <1>3, <1>4, <1>5, <1>6, <1>7, <1>8,
           <1>9, <1>10, <1>11, <1>12, <1>13, <1>14, <1>15 DEF Next, Join

\* Every step keeps what the handlers remember of people between statements.
LEMMA PeopleStep == TypeOK /\ PeopleInv /\ [Next]_vars => PeopleInv'
<1> SUFFICES ASSUME TypeOK, PeopleInv, [Next]_vars PROVE PeopleInv'
  OBVIOUS
<1> USE DEF TypeOK, PeopleInv, People, Absent, Live, Roles, Staff
<1>1. ASSUME NEW o \in Openers, MigrationPending(o)
     PROVE  PeopleInv'
  BY <1>1, SMTT(30) DEF MigrationPending, peopleVars, boundVars
<1>2. ASSUME NEW o \in Openers, MigrateLocked(o)
     PROVE  PeopleInv'
  BY <1>2, SMTT(30) DEF MigrateLocked, peopleVars, boundVars
<1>3. ASSUME NEW open \in BOOLEAN, NEW limit \in Limits, SetJoinOpen(open, limit)
     PROVE  PeopleInv'
  BY <1>3, SMTT(30) DEF SetJoinOpen, Opening, peopleVars
<1>4. ASSUME RotateJoinSecret
     PROVE  PeopleInv'
  BY <1>4, SMTT(30) DEF RotateJoinSecret, Opening, peopleVars
<1>5. ASSUME JoinSecret
     PROVE  PeopleInv'
  BY <1>5, SMTT(30) DEF JoinSecret, peopleVars, boundVars
<1>6. ASSUME NEW j \in Joiners, Share(j)
     PROVE  PeopleInv'
  BY <1>6, SMTT(30) DEF Share, boundVars
<1>7. ASSUME NEW j \in Joiners, ReadDoor(j)
     PROVE  PeopleInv'
  BY <1>7, SMTT(30) DEF ReadDoor, Go, boundVars
<1>8. ASSUME NEW j \in Joiners, ReadNames(j)
     PROVE  PeopleInv'
  BY <1>8, SMTT(30) DEF ReadNames, Go, boundVars
<1>9. ASSUME NEW j \in Joiners, Spend(j)
     PROVE  PeopleInv'
  BY <1>9, SMTT(30) DEF Spend, Go, boundVars
<1>10. ASSUME NEW p \in Joiners \cup Invited, CheckName(p)
     PROVE  PeopleInv'
  BY <1>10, SMTT(30) DEF CheckName, boundVars
<1>11. ASSUME NEW p \in Joiners \cup Invited, Insert(p)
     PROVE  PeopleInv'
  BY <1>11, SMTT(30) DEF Insert, Go, boundVars
<1>12. ASSUME NEW p \in People, NEW role \in {"player", "spectator", "none"}, BeginChange(p, role)
     PROVE  PeopleInv'
  BY <1>12, SMTT(30) DEF BeginChange, peopleVars
<1>13. ASSUME NEW c \in change, SetRole(c)
     PROVE  PeopleInv'
  BY <1>13, SMTT(30) DEF SetRole, boundVars
<1>14. ASSUME NEW c \in change, Revoke(c)
     PROVE  PeopleInv'
  BY <1>14, SMTT(30) DEF Revoke, boundVars
<1>15. CASE UNCHANGED vars
  BY <1>15, SMTT(30) DEF vars, peopleVars, boundVars
<1> QED BY <1>1, <1>2, <1>3, <1>4, <1>5, <1>6, <1>7, <1>8,
           <1>9, <1>10, <1>11, <1>12, <1>13, <1>14, <1>15 DEF Next, Join

-----------------------------------------------------------------------------
\* The inductive invariant: the count is that of the joiners admitted, a shut
\* door has spent nothing, opened files are current, and what a handler found
\* of a person still holds when it writes.
THEOREM IInvHolds == Spec => []IInv
<1>1. Init => IInv
  BY InitInv
<1>2. IInv /\ [Next]_vars => IInv'
  BY TypeStep, CountStep, ShutStep, MigrateStep, PeopleStep DEF IInv
<1> QED BY <1>1, <1>2, PTL DEF Spec

\* Every reachable state is of its type.
THEOREM TypeCorrect == Spec => []TypeOK
<1>1. IInv => TypeOK
  BY DEF IInv
<1> QED BY <1>1, IInvHolds, PTL

\* No opening of the door (SetJoinOpen) admits more than its budget, however
\* many JoinAdmits run at once, and a shut door has spent nothing.
THEOREM BudgetHeld == Spec => []BudgetHolds
<1>1. IInv => BudgetHolds
  BY DEF IInv, CountInv, ShutInv, BudgetHolds
<1> QED BY <1>1, IInvHolds, PTL

\* However many processes Open one file at once, none fails and the file is
\* migrated for all of them.
THEOREM EveryOpenMigrates == Spec => []OpensMigrate
<1>1. IInv => OpensMigrate
  BY DEF IInv
<1> QED BY <1>1, IInvHolds, PTL

\* Whichever promotions, removals and joins race, nobody's revocation is undone
\* and the row of a dm or an agent is never written.
THEOREM StaffAndRevokedStay == Spec => StaffAndRevokedStand
<1>1. TypeOK /\ PeopleInv /\ [Next]_vars
        => [\A p \in People : /\ rows[p].revoked => rows'[p].revoked
                              /\ rows[p].role \in Staff => rows'[p] = rows[p]]_vars
  <2> SUFFICES ASSUME TypeOK, PeopleInv, [Next]_vars, NEW p \in People
               PROVE  /\ rows[p].revoked => rows'[p].revoked
                      /\ rows[p].role \in Staff => rows'[p] = rows[p]
    BY DEF vars, peopleVars
  <2>1. CASE rows' = rows
    BY <2>1
  <2>2. ASSUME NEW q \in Joiners \cup Invited, Insert(q) PROVE rows[p] # rows'[p] => rows[p] = Absent
    BY <2>2 DEF Insert, Go, PeopleInv, TypeOK, People
  <2>3. ASSUME NEW c \in change, SetRole(c) \/ Revoke(c)
        PROVE  /\ rows[p].revoked => rows'[p].revoked
               /\ rows[p].role \in Staff => rows'[p] = rows[p]
    BY <2>3, SMTT(30) DEF SetRole, Revoke, PeopleInv, TypeOK, Roles, Staff
  <2>4. rows' = rows \/ (\E q \in Joiners \cup Invited : Insert(q)) \/ (\E c \in change : SetRole(c) \/ Revoke(c))
    BY DEF Next, Join, vars, peopleVars, MigrationPending, MigrateLocked, SetJoinOpen,
           RotateJoinSecret, JoinSecret, Share, ReadDoor, ReadNames, Spend, CheckName, BeginChange
  <2> QED BY <2>1, <2>2, <2>3, <2>4 DEF Absent, Staff
<1>2. IInv => TypeOK /\ PeopleInv
  BY DEF IInv
<1> QED BY <1>1, <1>2, IInvHolds, PTL DEF Spec, StaffAndRevokedStand

=============================================================================
