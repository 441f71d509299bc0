------------------------------- MODULE Store -------------------------------
(***************************************************************************)
(* The part of the SQLite store (internal/store) that several requests     *)
(* work on at once: hunt groups, paging groups, their member rows and the  *)
(* inbound trunk routes, and the handle that a restore closes and opens    *)
(* again.                                                                  *)
(*                                                                         *)
(* One statement, or one transaction, is one step, because the pool has    *)
(* one connection.  On a closed handle each of them fails, and its callers *)
(* ignore that.  A member list is known by the group it was meant for: the *)
(* number (birth) that group got when it was created, 0 when there are no  *)
(* rows.  Births and the field ever are not in the code; they tell two     *)
(* groups with the same id apart.                                          *)
(***************************************************************************)
EXTENDS Naturals, FiniteSets

CONSTANTS Numbers,    \* numbers and codes a group can have
          MaxId,      \* ids a table can give out (a bound)
          null        \* no row, no route

ASSUME StoreAssumption == MaxId \in Nat /\ null \notin Numbers \cup [number : Numbers, birth : Nat]

VARIABLES db,      \* the database file
          open,    \* FALSE between Close and Reopen
          born     \* the groups created so far

storeVars == <<db, open, born>>

Ids == 1..MaxId
GroupTables == {"hunt", "paging"}

Rows == {null} \cup [number : Numbers, birth : Nat]

\* A database: the group rows, the AUTOINCREMENT sequence of each table, the
\* member rows, the target of the trunk route, and the births in its history.
Databases == [row : [GroupTables -> [Ids -> Rows]], seq : [GroupTables -> 0..MaxId],
              members : [GroupTables -> [Ids -> Nat]], route : Numbers \cup {null},
              ever : SUBSET Nat]

\* What migrate makes of an empty file.
migrate == [row |-> [g \in GroupTables |-> [i \in Ids |-> null]],
            seq |-> [g \in GroupTables |-> 0],
            members |-> [g \in GroupTables |-> [i \in Ids |-> 0]],
            route |-> null, ever |-> {}]

StoreTypeOK == db \in Databases /\ open \in BOOLEAN /\ born \in Nat

Open == db = migrate /\ open = TRUE /\ born = 0

\* A statement on the handle: it fails without effect when the handle is closed.
Exec(new) == db' = (IF open THEN new ELSE db)

Present(g) == {i \in Ids : db.row[g][i] # null}
WithNumber(g, n) == {i \in Present(g) : db.row[g][i].number = n}

Insert(g, n, id) ==
    [db EXCEPT !.row[g][id] = [number |-> n, birth |-> born + 1], !.seq[g] = id,
               !.ever = @ \cup {born + 1}]

\* Wrong: without AUTOINCREMENT a table gives the id after its largest row again.
CreateGroup_reusesId(g, n) ==
    LET id == 1 + (CHOOSE i \in 0..MaxId : /\ i = 0 \/ i \in Present(g)
                                           /\ \A j \in Present(g) : j <= i)
    IN  /\ id \in Ids
        /\ Exec(IF WithNumber(g, n) = {} THEN Insert(g, n, id) ELSE db)
        /\ born' = born + 1

\* The number is UNIQUE: a second group with it is refused, and no id is used.
CreateGroup(g, n) ==
    /\ db.seq[g] < MaxId
    /\ Exec(IF WithNumber(g, n) = {} THEN Insert(g, n, db.seq[g] + 1) ELSE db)
    /\ born' = born + 1

UpdateGroup(g, id, n) ==
    Exec(IF id \in Present(g) /\ WithNumber(g, n) \subseteq {id}
         THEN [db EXCEPT !.row[g][id].number = n] ELSE db)

\* Deletes and inserts in one transaction; the group need not exist, because
\* foreign keys are not enforced.
SetMembers(g, id, birth) == Exec([db EXCEPT !.members[g][id] = birth])

\* The two statements of DeleteHuntGroup and DeletePagingGroup.
DeleteMembers(g, id) == Exec([db EXCEPT !.members[g][id] = 0])
DeleteRow(g, id) == Exec([db EXCEPT !.row[g][id] = null])

HuntGroupReferenced(n) == open /\ db.route = n

SaveTrunkRoute(n) == Exec([db EXCEPT !.route = n])

\* A group never shows members that were saved for another group of the same
\* database (store.go): deletes leave rows behind when a save comes between, but
\* the id of a deleted group is not given out again.  A save that is under way
\* while a restore replaces the database can land in a database that does not
\* know its group; ever leaves those out.
NoInheritedMembers ==
    \A g \in GroupTables : \A i \in Present(g) :
        db.members[g][i] \in db.ever => db.members[g][i] = db.row[g][i].birth
=============================================================================
