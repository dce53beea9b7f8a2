-------------------------------- MODULE Door --------------------------------
(***************************************************************************)
(* Who may sit at the table: src/internal/identity, the handlers that      *)
(* write it (gateway/join.go, and promotion, removal and the join door in  *)
(* gateway/server.go) and the migration each Open runs.                    *)
(*                                                                         *)
(* The two tables share one SQLite file and every statement is one atomic  *)
(* step; a handler is a sequence of statements, each on its own, and many  *)
(* handlers run at once.  Only the migration is a transaction of several   *)
(* statements, under BEGIN IMMEDIATE, and so is one step too.              *)
(*                                                                         *)
(* A name stands for all spellings strings.EqualFold identifies.  A secret *)
(* is the number of rotations before it; a person is the row they become.  *)
(***************************************************************************)
EXTENDS Integers, FiniteSets

CONSTANTS Joiners,     \* people who POST /join, once each
          Invited,     \* people the vtt invite command mints
          Seated,      \* people the table already has
          Openers,     \* processes that open the file
          Names,
          Limits,      \* budgets a set_join_door may state; 0 stands for none
          DefaultAdmitLimit,
          MaxOpenings, \* bound: how often the door is set or the secret rotated
          MaxChanges   \* bound: how many promotions and removals are begun

People == Joiners \cup Invited \cup Seated

ASSUME DoorAssumption ==
  /\ Limits \subseteq Nat
  /\ DefaultAdmitLimit \in Nat \ {0}
  /\ MaxOpenings \in Nat /\ MaxChanges \in Nat

Roles == {"dm", "agent", "player", "spectator"}
Staff == {"dm", "agent"}

VARIABLES
  columns,   \* the budget columns join_access has
  door,      \* the row of join_access
  rows,      \* participants: rows[p], with role "none" where there is no row
  offered,   \* offered[j]: the secret in the link joiner j holds
  wants,     \* wants[p]: the display name p asks for
  at,        \* at[p]: where p's JoinAdmits or CreateInvite is
  entered,   \* the joiners admitted since the count was last reset (history)
  migrating, \* migrating[o]: where opener o is
  change,    \* the promotions and removals under way, past their Lookup
  openings, changes   \* the bounds' counters

vars == <<columns, door, rows, offered, wants, at, entered, migrating, change, openings, changes>>
peopleVars == <<rows, offered, wants, at>>
boundVars  == <<openings, changes>>

Columns == {"admitted", "admit_limit"}
Absent == [name |-> "none", role |-> "none", revoked |-> FALSE]
Live(p) == rows[p].role # "none" /\ ~rows[p].revoked

\* "idle", then in JoinAdmits: "read" past the row, "free" past the names;
\* "admitted" past the UPDATE; in CreateInvite: "checked" past the names.
Places == {"idle", "read", "free", "admitted", "checked", "in", "refused"}

TypeOK ==
  /\ columns \in SUBSET Columns
  /\ door \in [row : BOOLEAN, secret : Nat, open : BOOLEAN, admitted : Nat, limit : Nat]
  /\ rows \in [People -> [name : Names \cup {"none"}, role : Roles \cup {"none"}, revoked : BOOLEAN]]
  /\ offered \in [Joiners -> Nat]
  /\ wants \in [People -> Names]
  /\ at \in [People -> Places]
  /\ entered \in SUBSET Joiners
  /\ migrating \in [Openers -> {"start", "pending", "open", "failed"}]
  /\ change \in SUBSET [who : People, role : {"player", "spectator", "none"}]
  /\ openings \in 0 .. MaxOpenings
  /\ changes \in 0 .. MaxChanges

\* A new file, or one from before the budget whose door was left open or shut.
Init ==
  /\ columns \in {{}, Columns}
  /\ door \in [row : BOOLEAN, secret : {1}, open : BOOLEAN, admitted : {0}, limit : {0}]
  /\ door.open => columns = {} /\ door.row
  /\ offered = [j \in Joiners |-> 1]
  /\ wants \in [People -> Names]
  /\ rows \in [People -> {Absent} \cup [name : Names, role : Roles, revoked : {FALSE}]]
  /\ \A p \in People : IF p \in Seated THEN rows[p].name = wants[p] ELSE rows[p] = Absent
  /\ at = [p \in People |-> IF p \in Seated THEN "in" ELSE "idle"]
  /\ entered = {}
  /\ migrating = [o \in Openers |-> "start"]
  /\ change = {}
  /\ openings = 0
  /\ changes = 0

\* The file is served once an Open has succeeded.
Served == \E o \in Openers : migrating[o] = "open"

Go(p, from, to) == at[p] = from /\ at' = [at EXCEPT ![p] = to]

-----------------------------------------------------------------------------
(* Open and its migration.                                                 *)

\* No column is missing and no open door lacks a budget.
Current == columns = Columns /\ ~(door.row /\ door.open /\ door.limit = 0)

MigrationPending(o) ==
  /\ migrating[o] = "start"
  /\ migrating' = [migrating EXCEPT ![o] = IF Current THEN "open" ELSE "pending"]
  /\ UNCHANGED <<columns, door, peopleVars, entered, change, boundVars>>

\* Mutation: the columns are added on what was read before the lock.
MigrateUnread(o) ==
  /\ migrating[o] = "pending"
  /\ IF columns = {}
     THEN /\ columns' = Columns
          /\ door' = IF door.row /\ door.open /\ door.limit = 0
                     THEN [door EXCEPT !.limit = DefaultAdmitLimit, !.admitted = 0] ELSE door
          /\ migrating' = [migrating EXCEPT ![o] = "open"]
     ELSE UNCHANGED <<columns, door>> /\ migrating' = [migrating EXCEPT ![o] = "failed"]
  /\ UNCHANGED <<peopleVars, entered, change, boundVars>>

\* Under the write lock: the shape is read again, the missing columns added,
\* and a door standing open with no budget given the default.
MigrateLocked(o) ==
  /\ migrating[o] = "pending"
  /\ columns' = columns \cup Columns
  /\ door' = IF door.row /\ door.open /\ door.limit = 0
             THEN [door EXCEPT !.limit = DefaultAdmitLimit, !.admitted = 0] ELSE door
  /\ migrating' = [migrating EXCEPT ![o] = "open"]
  /\ UNCHANGED <<peopleVars, entered, change, boundVars>>

-----------------------------------------------------------------------------
(* The door.                                                               *)

Opening == Served /\ openings < MaxOpenings /\ openings' = openings + 1

SetJoinOpen(open, limit) ==
  /\ Opening
  /\ door' = [door EXCEPT !.row = TRUE, !.open = open, !.admitted = 0,
                          !.limit = IF limit = 0 THEN DefaultAdmitLimit ELSE limit]
  /\ entered' = {}
  /\ UNCHANGED <<columns, peopleVars, migrating, change, changes>>

\* Whether the door is open and its limit stay; no row becomes a shut door.
RotateJoinSecret ==
  /\ Opening
  /\ door' = [door EXCEPT !.row = TRUE, !.secret = @ + 1, !.admitted = 0]
  /\ entered' = {}
  /\ UNCHANGED <<columns, peopleVars, migrating, change, changes>>

\* JoinSecret mints a row on first use; it opens nothing.
JoinSecret ==
  /\ Served /\ ~door.row
  /\ door' = [door EXCEPT !.row = TRUE]
  /\ UNCHANGED <<columns, peopleVars, entered, migrating, change, boundVars>>

\* The DM hands the current link to a joiner.
Share(j) ==
  /\ Served /\ at[j] = "idle"
  /\ offered' = [offered EXCEPT ![j] = door.secret]
  /\ UNCHANGED <<columns, door, rows, wants, at, entered, migrating, change, boundVars>>

-----------------------------------------------------------------------------
(* POST /join: JoinAdmits, then CreateInvite.  vtt invite: CreateInvite.   *)

\* A participant who is not revoked holds the name.
NameHeld(p) == \E q \in People : Live(q) /\ rows[q].name = wants[p]

\* The one SELECT, and every refusal it can decide.
ReadDoor(j) ==
  /\ Served
  /\ IF door.row /\ door.open /\ offered[j] = door.secret /\ door.admitted < door.limit
     THEN Go(j, "idle", "read") ELSE Go(j, "idle", "refused")
  /\ UNCHANGED <<columns, door, rows, offered, wants, entered, migrating, change, boundVars>>

ReadNames(j) ==
  /\ IF NameHeld(j) THEN Go(j, "read", "refused") ELSE Go(j, "read", "free")
  /\ UNCHANGED <<columns, door, rows, offered, wants, entered, migrating, change, boundVars>>

\* Mutation: the UPDATE does not re-state the budget.
SpendPastBudget(j) ==
  /\ IF door.open
     THEN /\ Go(j, "free", "admitted")
          /\ door' = [door EXCEPT !.admitted = @ + 1]
          /\ entered' = entered \cup {j}
     ELSE Go(j, "free", "refused") /\ UNCHANGED <<door, entered>>
  /\ UNCHANGED <<columns, rows, offered, wants, migrating, change, boundVars>>

\* The UPDATE ... WHERE open = 1 AND admitted < admit_limit; a row it did not
\* match is a refusal.  The secret is not read again.
Spend(j) ==
  /\ IF door.open /\ door.admitted < door.limit
     THEN /\ Go(j, "free", "admitted")
          /\ door' = [door EXCEPT !.admitted = @ + 1]
          /\ entered' = entered \cup {j}
     ELSE Go(j, "free", "refused") /\ UNCHANGED <<door, entered>>
  /\ UNCHANGED <<columns, rows, offered, wants, migrating, change, boundVars>>

\* CreateInvite reads the names ...
CheckName(p) ==
  /\ Served
  /\ at[p] = IF p \in Joiners THEN "admitted" ELSE "idle"
  /\ at' = [at EXCEPT ![p] = IF NameHeld(p) THEN "refused" ELSE "checked"]
  /\ UNCHANGED <<columns, door, rows, offered, wants, entered, migrating, change, boundVars>>

\* ... and inserts the row: a joiner is a spectator and nothing else.
Insert(p) ==
  /\ Go(p, "checked", "in")
  /\ \E role \in IF p \in Joiners THEN {"spectator"} ELSE Roles :
        rows' = [rows EXCEPT ![p] = [name |-> wants[p], role |-> role, revoked |-> FALSE]]
  /\ UNCHANGED <<columns, door, offered, wants, entered, migrating, change, boundVars>>

-----------------------------------------------------------------------------
(* promote_participant and remove_participant: Lookup, then the write.     *)

\* Mutation: the handler does not look at the target's role.
BeginChangeOfAnyone(p, role) ==
  /\ Served /\ changes < MaxChanges /\ changes' = changes + 1
  /\ Live(p)
  /\ change' = change \cup {[who |-> p, role |-> role]}
  /\ UNCHANGED <<columns, door, peopleVars, entered, migrating, openings>>

\* Refused for one Lookup does not answer, and for a dm or an agent.
BeginChange(p, role) ==
  /\ Served /\ changes < MaxChanges /\ changes' = changes + 1
  /\ Live(p)
  /\ rows[p].role \notin Staff
  /\ change' = change \cup {[who |-> p, role |-> role]}
  /\ UNCHANGED <<columns, door, peopleVars, entered, migrating, openings>>

\* SetRole finds the row by id, revoked since the Lookup or not.
SetRole(c) ==
  /\ c.role # "none"
  /\ change' = change \ {c}
  /\ rows' = [rows EXCEPT ![c.who].role = c.role]
  /\ UNCHANGED <<columns, door, offered, wants, at, entered, migrating, boundVars>>

Revoke(c) ==
  /\ c.role = "none"
  /\ change' = change \ {c}
  /\ rows' = [rows EXCEPT ![c.who].revoked = TRUE]
  /\ UNCHANGED <<columns, door, offered, wants, at, entered, migrating, boundVars>>

-----------------------------------------------------------------------------
Join(j) == Share(j) \/ ReadDoor(j) \/ ReadNames(j) \/ Spend(j)

Next == \/ \E o \in Openers : MigrationPending(o) \/ MigrateLocked(o)
        \/ \E open \in BOOLEAN, limit \in Limits : SetJoinOpen(open, limit)
        \/ RotateJoinSecret \/ JoinSecret
        \/ \E j \in Joiners : Join(j)
        \/ \E p \in Joiners \cup Invited : CheckName(p) \/ Insert(p)
        \/ \E p \in People, role \in {"player", "spectator", "none"} : BeginChange(p, role)
        \/ \E c \in change : SetRole(c) \/ Revoke(c)

Spec == Init /\ [][Next]_vars

-----------------------------------------------------------------------------
(* Properties.                                                             *)

\* However many join at once, and whatever the DM or another opener of the
\* file does meanwhile, no opening of the door admits more than its budget, and
\* a shut door has nothing spent: a join in flight when it shut is refused.
BudgetHolds ==
  /\ Cardinality(entered) <= door.limit /\ door.admitted = Cardinality(entered)
  /\ ~door.open => door.admitted = 0

\* Two processes that open one old file both succeed, and none of them opens
\* it with a door that stands open and admits nobody.
OpensMigrate == /\ \A o \in Openers : migrating[o] # "failed"
                /\ Served => Current

\* A revocation is for good, and a dm or an agent is never demoted or removed,
\* whichever handlers race on the row.
StaffAndRevokedStand ==
  [][\A p \in People : /\ rows[p].revoked => rows'[p].revoked
                       /\ rows[p].role \in Staff => rows'[p] = rows[p]]_vars

\* blueprint.md, principle 10: no two participants at one table share a name.
NoTwoShareAName ==
  \A p, q \in People : p # q /\ Live(p) /\ Live(q) => rows[p].name # rows[q].name

=============================================================================
