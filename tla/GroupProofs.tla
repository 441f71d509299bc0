---------------------------- MODULE GroupProofs ----------------------------
(***************************************************************************)
(* For any number of requests on hunt and paging groups, of backups and of *)
(* restores: a group does not show the members of another one.  The        *)
(* argument follows where births can be: in the database, in an archive,   *)
(* in the hands of a request.                                              *)
(***************************************************************************)
EXTENDS AdministrationProofs

\* The database, and the copies of it in an archive and on their way to or from
\* one.
Copies == {db} \cup {job[r].files.db : r \in Requests}
          \cup (IF archive = null THEN {} ELSE {archive.db})

\* Database d has birth b as a group of table g with this id, in its row or as
\* the group of its member list.
Holds(d, g, id, b) ==
    /\ id \in Ids
    /\ \/ d.row[g][id] # null /\ d.row[g][id].birth = b
       \/ d.members[g][id] = b

\* So has a copy of the database, or a request has it in its hands.
Claim(g, id, b) ==
    \/ \E d \in Copies : Holds(d, g, id, b)
    \/ \E r \in Requests : /\ r.op \in {"create", "update", "delete"} /\ r.table = g
                           /\ job[r].id = id /\ job[r].birth = b

\* A database whose history has birth b has given it that id, and no other group
\* has had the id since.
Given(d, g, id, b) ==
    /\ id <= d.seq[g]
    /\ id \in Ids /\ d.row[g][id] # null => d.row[g][id].birth = b

History ==
    /\ \A d \in Copies : d.ever \subseteq 1..born
    /\ \A g \in GroupTables, id \in 0..MaxId, b \in Nat : Claim(g, id, b) =>
          /\ b <= born
          /\ \A d \in Copies : b \in d.ever => Given(d, g, id, b)

---------------------------------------------------------------------------

\* d has the history of e, and no group that e does not have.
Derived(d, e) ==
    /\ d.ever = e.ever /\ d.seq = e.seq
    /\ \A g \in GroupTables, id \in Ids :
          d.row[g][id] # null => e.row[g][id] # null /\ d.row[g][id].birth = e.row[g][id].birth

\* Nothing is in d that was not there before.
Known(d) ==
    /\ d.ever = {} \/ \E e \in Copies : Derived(d, e)
    /\ \A g \in GroupTables, id \in 0..MaxId, b \in Nat :
          Holds(d, g, id, b) => b = 0 \/ Claim(g, id, b)

\* What request r holds after a step was there before it: its archive is empty
\* or a copy, and the group in its hands is one that somebody had.
Held(r) ==
    /\ job'[r].files.db \in Copies \cup {migrate}
    /\ r.op \in {"create", "update", "delete"} =>
          job'[r].birth = 0 \/ Claim(r.table, job'[r].id, job'[r].birth)

\* Copies of the database and an empty one are known.
LEMMA CopiesKnown == \A d \in Copies \cup {migrate} : Known(d)
<1>1. ASSUME NEW d \in Copies PROVE Known(d)
  BY DEF Known, Derived, Claim
<1>2. Known(migrate)
  BY DEF Known, migrate, Holds
<1> QED
  BY <1>1, <1>2

\* A step that brings in nothing new keeps the history of ids.
LEMMA HistoryKept ==
    ASSUME AInv, History, born' \in Nat, born <= born', Requests' = Requests,
           \A d \in Copies' : Known(d),
           \A r \in Requests, g \in GroupTables, id \in 0..MaxId, b \in Nat :
              /\ r.op \in {"create", "update", "delete"} /\ r.table = g
              /\ job'[r].id = id /\ job'[r].birth = b
              => b = 0 \/ Claim(g, id, b)
    PROVE  History'
<1>1. born \in Nat
  BY DEF AInv, Types, FilesOK, StoreTypeOK
<1>2. \A d \in Copies' : d.ever \subseteq 1..born
  BY DEF Known, Derived, History
<1>3. ASSUME NEW g \in GroupTables, NEW id \in 0..MaxId, NEW b \in Nat, Claim(g, id, b)'
      PROVE  /\ b <= born'
             /\ \A d \in Copies' : b \in d.ever => Given(d, g, id, b)
  <2>1. b = 0 \/ Claim(g, id, b)
    <3>1. CASE \E d \in Copies' : Holds(d, g, id, b)
      BY <3>1 DEF Known
    <3>2. CASE \E r \in Requests : /\ r.op \in {"create", "update", "delete"} /\ r.table = g
                                   /\ job'[r].id = id /\ job'[r].birth = b
      BY <3>2
    <3> QED
      BY <1>3, <3>1, <3>2 DEF Claim, Holds
  <2>2. CASE b = 0
    BY <1>1, <1>2, <2>2
  <2>3. CASE Claim(g, id, b)
    <3>1. b <= born /\ \A e \in Copies : b \in e.ever => Given(e, g, id, b)
      BY <2>3 DEF History
    <3>2. ASSUME NEW d \in Copies', b \in d.ever PROVE Given(d, g, id, b)
      <4>1. PICK e \in Copies : Derived(d, e)
        BY <3>2 DEF Known
      <4>2. Given(e, g, id, b)
        BY <3>1, <3>2, <4>1 DEF Derived
      <4> QED
        BY <4>1, <4>2 DEF Derived, Given
    <3> QED
      BY <1>1, <3>1, <3>2
  <2> QED
    BY <2>1, <2>2, <2>3
<1>4. \A d \in Copies' : d.ever \subseteq 1..born'
  BY <1>1, <1>2
<1> QED
  BY <1>3, <1>4 DEF History, Given

---------------------------------------------------------------------------
(* Statements *)

\* A new name of a group, new members for the group they are meant for, a
\* delete and a route bring nothing new into the database.
LEMMA StatementsKnown ==
    ASSUME StoreTypeOK, NEW g \in GroupTables, NEW id \in 0..MaxId, NEW n \in Numbers, NEW b \in Nat,
           \/ UpdateGroup(g, id, n)
           \/ SetMembers(g, id, b) /\ (b = 0 \/ Claim(g, id, b))
           \/ DeleteMembers(g, id)
           \/ DeleteRow(g, id)
           \/ SaveTrunkRoute(n)
    PROVE  Known(db')
<1>1. db \in Databases /\ db \in Copies /\ Known(db)
  BY CopiesKnown DEF StoreTypeOK, Copies
<1>2. ASSUME NEW d, d.ever = db.ever, d.seq = db.seq,
             \A h \in GroupTables, i \in Ids :
                /\ d.row[h][i] # null => /\ db.row[h][i] # null
                                         /\ d.row[h][i].birth = db.row[h][i].birth
                /\ d.members[h][i] # db.members[h][i] =>
                      d.members[h][i] = 0 \/ Claim(h, i, d.members[h][i])
      PROVE  Known(d)
  <2>1. Derived(d, db)
    BY <1>2 DEF Derived
  <2>2. \A h \in GroupTables, i \in 0..MaxId, c \in Nat :
            Holds(d, h, i, c) => c = 0 \/ Claim(h, i, c)
    BY <1>1, <1>2 DEF Holds, Claim
  <2> QED
    BY <1>1, <2>1, <2>2 DEF Known
<1>3. CASE db' = db
  BY <1>1, <1>3
<1>4. CASE UpdateGroup(g, id, n)
  <2>1. CASE db' = [db EXCEPT !.row[g][id].number = n] /\ id \in Present(g)
    <3>1. id \in Ids /\ db.row[g][id] # null /\ db.row[g][id] \in [number : Numbers, birth : Nat]
      BY <1>1, <2>1 DEF Present, Databases, Rows
    <3> DEFINE renamed == [db.row[g][id] EXCEPT !.number = n]
    <3>2. /\ db'.ever = db.ever /\ db'.seq = db.seq /\ db'.members = db.members
          /\ db'.row = [db.row EXCEPT ![g][id].number = n]
      BY <1>1, <2>1 DEF Databases
    <3>3. \A h \in GroupTables, i \in Ids :
              db'.row[h][i] = IF h = g /\ i = id THEN renamed ELSE db.row[h][i]
      BY <1>1, <3>1, <3>2 DEF Databases
    <3>4. renamed.birth = db.row[g][id].birth
      BY <3>1
    <3> HIDE DEF renamed
    <3>5. \A h \in GroupTables, i \in Ids :
              db'.row[h][i] # null =>
                 db.row[h][i] # null /\ db'.row[h][i].birth = db.row[h][i].birth
      BY <3>1, <3>3, <3>4
    <3> QED
      BY <1>2, <3>2, <3>5
  <2> QED
    BY <1>3, <1>4, <2>1 DEF UpdateGroup, Exec
<1>5. ASSUME NEW c \in Nat, c = 0 \/ Claim(g, id, c), db' = [db EXCEPT !.members[g][id] = c]
      PROVE  Known(db')
  <2>1. /\ db'.ever = db.ever /\ db'.seq = db.seq /\ db'.row = db.row
        /\ db'.members = [db.members EXCEPT ![g] = [@ EXCEPT ![id] = c]]
    BY <1>1, <1>5 DEF Databases
  <2>2. \A h \in GroupTables, i \in Ids :
            db'.members[h][i] # db.members[h][i] =>
                h = g /\ i = id /\ db'.members[h][i] = c
    BY <1>1, <2>1 DEF Databases
  <2> QED
    BY <1>2, <1>5, <2>1, <2>2
<1>6. CASE SetMembers(g, id, b) /\ (b = 0 \/ Claim(g, id, b))
  BY <1>3, <1>5, <1>6 DEF SetMembers, Exec
<1>7. CASE DeleteMembers(g, id)
  BY <1>3, <1>5, <1>7 DEF DeleteMembers, Exec
<1>8. CASE DeleteRow(g, id)
  <2>1. CASE db' = [db EXCEPT !.row[g][id] = null]
    <3>1. /\ db'.ever = db.ever /\ db'.seq = db.seq /\ db'.members = db.members
          /\ db'.row = [db.row EXCEPT ![g] = [@ EXCEPT ![id] = null]]
      BY <1>1, <2>1 DEF Databases
    <3>2. \A h \in GroupTables, i \in Ids : db'.row[h][i] # null => db'.row[h][i] = db.row[h][i]
      BY <1>1, <3>1 DEF Databases
    <3> QED
      BY <1>2, <3>1, <3>2
  <2> QED
    BY <1>3, <1>8, <2>1 DEF DeleteRow, Exec
<1>9. CASE SaveTrunkRoute(n)
  <2>1. CASE db' = [db EXCEPT !.route = n]
    <3>1. /\ db'.ever = db.ever /\ db'.seq = db.seq /\ db'.members = db.members
          /\ db'.row = db.row
      BY <1>1, <2>1 DEF Databases
    <3> QED
      BY <1>2, <3>1
  <2> QED
    BY <1>3, <1>9, <2>1 DEF SaveTrunkRoute, Exec
<1> QED
  BY <1>4, <1>6, <1>7, <1>8, <1>9

\* A new group gets an id above all that its database has given out, so the
\* births of older groups keep theirs, also in lists that were left behind.
LEMMA InsertKeeps ==
    ASSUME AInv, History, NEW g \in GroupTables, NEW n \in Numbers,
           db.seq[g] < MaxId, db' = Insert(g, n, db.seq[g] + 1), born' = born + 1,
           Requests' = Requests, archive' = archive,
           \A r \in Requests : /\ job'[r].files = job[r].files
                               /\ job'[r].id = job[r].id /\ job'[r].birth = job[r].birth
    PROVE  History'
<1> DEFINE new == db.seq[g] + 1
<1>1. /\ born \in Nat /\ db \in Databases /\ db \in Copies /\ new \in Ids /\ new \in 0..MaxId
      /\ db.seq \in [GroupTables -> 0..MaxId] /\ MaxId \in Nat
  BY StoreAssumption DEF AInv, Types, FilesOK, StoreTypeOK, Databases, Copies, Ids
<1>2. /\ db'.ever = db.ever \cup {born + 1} /\ db'.members = db.members
      /\ db'.seq = [db.seq EXCEPT ![g] = new]
      /\ db'.row = [db.row EXCEPT ![g] = [@ EXCEPT ![new] = [number |-> n, birth |-> born + 1]]]
  BY <1>1 DEF Insert, Databases
<1>3. Copies' \subseteq Copies \cup {db'}
  BY DEF Copies
<1>4. \A d \in Copies : d.ever \subseteq 1..born /\ born + 1 \notin d.ever
  BY <1>1 DEF History
<1>5. \A d \in Copies' : d.ever \subseteq 1..born'
  BY <1>1, <1>2, <1>3, <1>4
<1>6. ASSUME NEW h \in GroupTables, NEW id \in 0..MaxId, NEW b \in Nat, Claim(h, id, b)'
      PROVE  /\ b <= born'
             /\ \A d \in Copies' : b \in d.ever => Given(d, h, id, b)
  <2>1. Claim(h, id, b) \/ (h = g /\ id = new /\ b = born + 1)
    <3>1. ASSUME Holds(db', h, id, b) PROVE Holds(db, h, id, b) \/ (h = g /\ id = new /\ b = born + 1)
      <4>1. CASE h = g /\ id = new
        <5>1. db'.row[g][new] = [number |-> n, birth |-> born + 1]
          BY <1>1, <1>2 DEF Databases
        <5> QED
          BY <1>2, <3>1, <4>1, <5>1 DEF Holds
      <4>2. CASE ~(h = g /\ id = new)
        <5>1. id \in Ids
          BY <3>1 DEF Holds
        <5>2. db'.row[h][id] = db.row[h][id]
          BY <1>1, <1>2, <4>2, <5>1 DEF Databases
        <5> QED
          BY <1>2, <3>1, <5>2 DEF Holds
      <4> QED
        BY <4>1, <4>2
    <3>2. CASE \E d \in Copies' : Holds(d, h, id, b)
      BY <1>1, <1>3, <3>1, <3>2 DEF Claim
    <3>3. CASE \E r \in Requests : /\ r.op \in {"create", "update", "delete"} /\ r.table = h
                                   /\ job'[r].id = id /\ job'[r].birth = b
      BY <3>3 DEF Claim
    <3> QED
      BY <1>6, <3>2, <3>3 DEF Claim, Holds
  <2>2. CASE Claim(h, id, b)
    <3>1. b <= born /\ \A d \in Copies : b \in d.ever => Given(d, h, id, b)
      BY <2>2 DEF History
    <3>2. ASSUME b \in db'.ever PROVE Given(db', h, id, b)
      <4>1. b \in db.ever
        BY <1>1, <1>2, <3>1, <3>2
      <4>2. Given(db, h, id, b)
        BY <1>1, <3>1, <4>1
      <4>3. ~(h = g /\ id = new) /\ id <= db'.seq[h]
        BY <1>1, <1>2, <4>2 DEF Given
      <4>4. id \in Ids => db'.row[h][id] = db.row[h][id]
        BY <1>1, <1>2, <4>3 DEF Databases
      <4> QED
        BY <4>2, <4>3, <4>4 DEF Given
    <3> QED
      BY <1>1, <1>3, <3>1, <3>2
  <2>3. CASE h = g /\ id = new /\ b = born + 1
    <3>1. Given(db', g, new, born + 1)
      <4>1. db'.row[g][new] = [number |-> n, birth |-> born + 1]
        BY <1>1, <1>2 DEF Databases
      <4>2. db'.seq[g] = new
        BY <1>1, <1>2
      <4> QED
        BY <1>1, <4>1, <4>2 DEF Given
    <3> QED
      BY <1>1, <1>3, <1>4, <2>3, <3>1
  <2> QED
    BY <2>1, <2>2, <2>3
<1> QED
  BY <1>5, <1>6 DEF History, Given

---------------------------------------------------------------------------
(* Requests *)

\* A request takes a group from the database, an archive from the one that was
\* downloaded, and otherwise keeps what it has or drops it.
LEMMA HeldStep == ASSUME AInv, NEW r \in Requests, Step(r) PROVE Held(r)
<1> USE DEF At_
<1>1. /\ JobsOK /\ FilesOK /\ StoreTypeOK /\ job[r] \in Job
      /\ Fits(job[r].at, r.op, job[r].ext)
  BY DEF AInv, Types, FilesOK, JobsOK, PlacedAt
<1>2. ASSUME job'[r].files = job[r].files, job'[r].id = job[r].id, job'[r].birth = job[r].birth
      PROVE  Held(r)
  BY <1>2 DEF Held, Claim, Copies
<1>3. ASSUME job'[r].files.db \in Copies \cup {migrate}, job'[r].birth = 0 PROVE Held(r)
  BY <1>3 DEF Held
<1>4. ASSUME Done(r) PROVE Held(r)
  BY <1>1, <1>3, <1>4, DoneStep DEF NoJob
<1>5. ASSUME NEW place \in Places, Goto(r, place) PROVE Held(r)
  BY <1>1, <1>2, <1>5, GotoStep
<1>6. ASSUME NEW g \in GroupTables, NEW id \in Present(g), r.table = g, job'[r].id = id,
             job'[r].birth = db.row[g][id].birth, job'[r].files.db \in Copies \cup {migrate}
      PROVE  Held(r)
  <2>1. id \in Ids /\ Holds(db, g, id, db.row[g][id].birth) /\ db \in Copies
    BY <1>6 DEF Present, Holds, Copies
  <2> QED
    BY <1>6, <2>1 DEF Held, Claim
<1>7. CASE Begin(r)
  <2>1. job'[r] = [NoJob EXCEPT !.at = First[r.op]]
    BY <1>7 DEF Begin, Arrive, Requests
  <2>2. job'[r].files.db = migrate /\ job'[r].birth = 0
    BY <2>1 DEF NoJob
  <2> QED
    BY <1>3, <2>2
<1>8. CASE BeginRestore(r)
  <2>1. job'[r] = [NoJob EXCEPT !.at = First[r.op], !.files = archive]
    BY <1>8 DEF BeginRestore, Arrive, Requests
  <2>2. job'[r].files = archive /\ job'[r].birth = 0
    BY <2>1 DEF NoJob
  <2>3. archive.db \in Copies
    BY <1>8 DEF BeginRestore, Copies
  <2> QED
    BY <1>3, <2>2, <2>3
<1>9. CASE BeginOnGroup(r)
  <2> DEFINE place == IF r.op = "update" THEN "update"
                      ELSE IF r.table = "hunt" THEN "get" ELSE "deleteMembers"
  <2>1. PICK id \in Present(r.table) :
            Arrive(r, [NoJob EXCEPT !.at = place, !.id = id,
                                    !.birth = db.row[r.table][id].birth])
    BY <1>9 DEF BeginOnGroup
  <2>2. job'[r] = [NoJob EXCEPT !.at = place, !.id = id, !.birth = db.row[r.table][id].birth]
    BY <2>1 DEF Arrive, Requests
  <2> HIDE DEF place
  <2>3. /\ job'[r].files.db = migrate /\ job'[r].id = id
        /\ job'[r].birth = db.row[r.table][id].birth
    BY <2>2 DEF NoJob
  <2>4. r.table \in GroupTables
    BY <1>9, RequestForms DEF BeginOnGroup, AInv
  <2> QED
    BY <1>6, <2>3, <2>4
<1>10. CASE GroupFind(r)
  <2>1. r.table \in GroupTables
    BY <1>1, <1>10, RequestForms DEF GroupFind, Fits, AInv
  <2>2. ASSUME NEW id \in WithNumber(r.table, r.number),
               job' = [job EXCEPT ![r].at = "members", ![r].id = id,
                                  ![r].birth = db.row[r.table][id].birth]
        PROVE  Held(r)
    <3>1. /\ job'[r].files = job[r].files /\ job'[r].id = id
          /\ job'[r].birth = db.row[r.table][id].birth
      BY <1>1, <2>2 DEF Requests, Job
    <3>2. job[r].files.db \in Copies /\ id \in Present(r.table)
      BY DEF Copies, WithNumber
    <3> QED
      BY <1>6, <2>1, <3>1, <3>2
  <2> QED
    BY <1>4, <1>10, <2>2 DEF GroupFind
<1>11. CASE HuntGet(r) \/ ExtensionLoadOld(r) \/ ExtensionLoad(r) \/ ReloadExtensions(r) \/ setDND(r)
  <2>1. CASE HuntGet(r)
    BY <1>1, <1>2, <2>1 DEF HuntGet, Requests, Job
  <2>2. CASE ExtensionLoadOld(r)
    BY <1>1, <1>2, <1>4, <2>2 DEF ExtensionLoadOld, Requests, Job
  <2>3. CASE ExtensionLoad(r)
    BY <1>1, <1>2, <2>3 DEF ExtensionLoad, Requests, Job
  <2>4. CASE ReloadExtensions(r)
    <3>1. CASE job[r].next < Len(Parts)
      BY <1>1, <1>2, <2>4, <3>1 DEF ReloadExtensions, Requests, Job
    <3> QED
      BY <1>4, <1>5, <2>4, <3>1 DEF ReloadExtensions, Places
  <2>5. CASE setDND(r)
    BY <1>1, <1>2, <1>4, <2>5 DEF setDND, Requests, Job
  <2> QED
    BY <1>11, <2>1, <2>2, <2>3, <2>4, <2>5
<1>12. CASE ExportConfig(r) \/ ExportExtensions(r)
  <2>1. job[r].files \in Archives
    BY <1>1 DEF Job
  <2>2. /\ job'[r].id = job[r].id /\ job'[r].birth = job[r].birth
        /\ job'[r].files.db = job[r].files.db
    BY <1>1, <1>12, <2>1 DEF ExportConfig, ExportExtensions, Requests, Job, Archives
  <2> QED
    BY <2>2 DEF Held, Claim, Copies
<1>13. CASE CloseStore(r) \/ validateArchive(r) \/ RestoreFails(r) \/ RestoreConfig(r)
            \/ RestoreDb(r) \/ cleanDir(r) \/ RestoreExtensions(r) \/ RestoreAssets(r)
            \/ ReopenClose(r)
  <2>1. \E place \in Restoring : Goto(r, place)
    BY <1>13 DEF RestoreConfig, RestoreDb, cleanDir, AfterClean, RestoreExtensions,
       validateArchive, RestoreFails, CloseStore, RestoreAssets, ReopenClose, Restoring, Writes
  <2>2. Restoring \subseteq Places
    BY DEF Places
  <2> QED
    BY <1>5, <2>1, <2>2
<1>14. CASE Reopen(r) \/ ReopenFails(r) \/ Redirect(r) \/ EditConfig(r) \/ ReloadConfig(r) \/ SnapshotTo(r)
            \/ ExtensionTruncate(r) \/ ExtensionUnlink(r) \/ StoreDND(r)
  BY <1>4, <1>5, <1>14 DEF Reopen, ReopenFails, Redirect, EditConfig, ReloadConfig, SnapshotTo,
     ExtensionTruncate, ExtensionUnlink, StoreDND, Places
<1>15. CASE ExtensionWrite(r)
  BY <1>4, <1>5, <1>15 DEF ExtensionWrite, Places
<1>16. CASE GroupInsert(r) \/ GroupUpdate(r) \/ GroupMembers(r) \/ HuntReferenced(r)
            \/ GroupDeleteMembers(r) \/ GroupDeleteRow(r) \/ handleTrunkRouteSave(r)
  BY <1>4, <1>5, <1>16 DEF GroupInsert, GroupUpdate, GroupMembers, HuntReferenced,
     GroupDeleteMembers, GroupDeleteRow, handleTrunkRouteSave, Places
<1> QED
  BY <1>7, <1>8, <1>9, <1>10, <1>11, <1>12, <1>13, <1>14, <1>15, <1>16
  DEF Step, Handle, GroupSteps, ExtensionSteps, ConfigSteps, BackupSteps, RestoreSteps

\* A backup is a copy of the database.
LEMMA ArchiveStep ==
    ASSUME AInv, NEW r \in Requests, Step(r)
    PROVE  archive' = null \/ archive'.db \in Copies
<1>1. archive = null \/ archive.db \in Copies
  BY DEF Copies
<1> USE DEF KeepFiles, KeepRest
<1>2. CASE Begin(r) \/ BeginRestore(r) \/ BeginOnGroup(r)
  BY <1>1, <1>2, ArriveStep
<1>3. CASE GroupSteps(r)
  BY <1>1, <1>3 DEF GroupSteps, GroupInsert, GroupFind, GroupUpdate, GroupMembers, HuntGet,
     HuntReferenced, GroupDeleteMembers, GroupDeleteRow, handleTrunkRouteSave
<1>4. CASE ExtensionSteps(r) \/ ConfigSteps(r) \/ ExportConfig(r) \/ ExportExtensions(r)
  BY <1>1, <1>4 DEF ExtensionSteps, ExtensionLoadOld, ExtensionTruncate, ExtensionWrite,
     ExtensionUnlink, ExtensionLoad, ReloadExtensions, setDND, StoreDND, ConfigSteps, EditConfig,
     ReloadConfig, ExportConfig, ExportExtensions
<1>5. CASE SnapshotTo(r)
  <2>1. job[r].files \in Archives /\ db \in Copies
    BY DEF AInv, Types, JobsOK, Job, Copies
  <2> QED
    BY <1>1, <1>5, <2>1 DEF SnapshotTo, Archives
<1>6. CASE RestoreSteps(r)
  BY <1>1, <1>6 DEF RestoreSteps, CloseStore, validateArchive, RestoreFails, RestoreConfig,
     RestoreDb, cleanDir, RestoreExtensions, RestoreAssets, ReopenClose, Reopen,
     ReopenFails, Redirect
<1> QED
  BY <1>2, <1>3, <1>4, <1>5, <1>6 DEF Step, Handle, BackupSteps

\* The database becomes one that was there, loses something, or gets a group.
LEMMA DbStep ==
    ASSUME AInv, NEW r \in Requests, Step(r)
    PROVE  /\ born' \in Nat /\ born <= born'
           /\ \/ Known(db')
              \/ /\ GroupInsert(r) /\ r.table \in GroupTables /\ r.number \in Numbers
                 /\ db' = Insert(r.table, r.number, db.seq[r.table] + 1)
<1> USE DEF KeepFiles, KeepRest, KeepServer, storeVars, At_
<1>1. /\ born \in Nat /\ StoreTypeOK /\ db \in Copies /\ Known(db)
      /\ job[r] \in Job /\ Fits(job[r].at, r.op, job[r].ext)
      /\ job[r].id \in 0..MaxId /\ job[r].birth \in Nat
      /\ r.op \in {"create", "update", "delete"} => r.table \in GroupTables /\ r.number \in Numbers
      /\ r.op = "route" => r.number \in Numbers
  BY CopiesKnown, RequestForms
  DEF AInv, Types, FilesOK, JobsOK, PlacedAt, StoreTypeOK, Copies, Job
<1>2. ASSUME UNCHANGED <<db, born>> PROVE born' \in Nat /\ born <= born' /\ Known(db')
  BY <1>1, <1>2
<1>3. CASE Begin(r) \/ BeginRestore(r) \/ BeginOnGroup(r)
  BY <1>2, <1>3, ArriveStep
<1>4. CASE GroupInsert(r)
  <2>1. r.op = "create"
    BY <1>1, <1>4 DEF GroupInsert, Fits
  <2>2. CASE db' = db
    BY <1>1, <1>4, <2>2 DEF GroupInsert, CreateGroup
  <2> QED
    BY <1>1, <1>4, <2>1, <2>2 DEF GroupInsert, CreateGroup, Exec
<1>5. CASE GroupUpdate(r)
  <2>1. r.op = "update"
    BY <1>1, <1>5 DEF GroupUpdate, Fits
  <2>2. UpdateGroup(r.table, job[r].id, r.number) /\ UNCHANGED born
    BY <1>5 DEF GroupUpdate
  <2> QED
    BY <1>1, <2>1, <2>2, StatementsKnown
<1>6. CASE GroupMembers(r)
  <2>1. r.op \in {"create", "update"}
    BY <1>1, <1>6 DEF GroupMembers, Fits
  <2>2. SetMembers(r.table, job[r].id, job[r].birth) /\ UNCHANGED born
    BY <1>6 DEF GroupMembers
  <2>3. Claim(r.table, job[r].id, job[r].birth)
    BY <2>1 DEF Claim
  <2> QED
    BY <1>1, <2>1, <2>2, <2>3, StatementsKnown
<1>7. CASE GroupDeleteMembers(r) \/ GroupDeleteRow(r)
  <2>1. r.op = "delete"
    BY <1>1, <1>7 DEF GroupDeleteMembers, GroupDeleteRow, Fits
  <2>2. /\ DeleteMembers(r.table, job[r].id) \/ DeleteRow(r.table, job[r].id)
        /\ UNCHANGED born
    BY <1>7 DEF GroupDeleteMembers, GroupDeleteRow
  <2> QED
    BY <1>1, <2>1, <2>2, StatementsKnown
<1>8. CASE handleTrunkRouteSave(r)
  <2>1. r.op = "route"
    BY <1>1, <1>8 DEF handleTrunkRouteSave, Fits
  <2>2. SaveTrunkRoute(r.number) /\ UNCHANGED born
    BY <1>8 DEF handleTrunkRouteSave
  <2>3. "hunt" \in GroupTables
    BY DEF GroupTables
  <2> QED
    BY <1>1, <2>1, <2>2, <2>3, StatementsKnown
<1>9. CASE GroupFind(r) \/ HuntGet(r) \/ HuntReferenced(r) \/ ExtensionSteps(r) \/ ConfigSteps(r)
  BY <1>2, <1>9 DEF GroupFind, HuntGet, HuntReferenced, ExtensionSteps, ExtensionLoadOld,
     ExtensionTruncate, ExtensionWrite, ExtensionUnlink, ExtensionLoad, ReloadExtensions, setDND,
     StoreDND, ConfigSteps, EditConfig, ReloadConfig
<1>10. CASE RestoreDb(r)
  <2>1. db' \in Copies \cup {migrate} /\ UNCHANGED born
    BY <1>10 DEF RestoreDb, Copies
  <2> QED
    BY <1>1, <2>1, CopiesKnown
<1>11. CASE BackupSteps(r) \/ CloseStore(r) \/ validateArchive(r) \/ RestoreFails(r)
            \/ RestoreConfig(r) \/ cleanDir(r) \/ RestoreExtensions(r) \/ RestoreAssets(r)
            \/ ReopenClose(r) \/ Reopen(r) \/ ReopenFails(r) \/ Redirect(r)
  BY <1>2, <1>11 DEF BackupSteps, ExportConfig, ExportExtensions, SnapshotTo, CloseStore,
     validateArchive, RestoreFails, RestoreConfig, cleanDir, RestoreExtensions, RestoreAssets,
     ReopenClose, Reopen, ReopenFails, Redirect
<1> QED
  BY <1>3, <1>4, <1>5, <1>6, <1>7, <1>8, <1>9, <1>10, <1>11
  DEF Step, Handle, GroupSteps, RestoreSteps

\* Each step keeps the history of ids.
LEMMA HistoryNext == AInv /\ History /\ [Next]_vars => History'
<1> SUFFICES ASSUME AInv, History, [Next]_vars PROVE History'
  OBVIOUS
<1>1. CASE UNCHANGED <<storeVars, adminVars>>
  BY <1>1 DEF storeVars, adminVars, History, Copies, Claim, Given, Holds, Requests
<1>2. ASSUME NEW r \in Requests, Step(r) PROVE History'
  <2>1. Requests' = Requests /\ \A s \in Requests : s # r => job'[s] = job[s]
    BY <1>2, OwnStep
  <2>2. born' \in Nat /\ born <= born'
    BY <1>2, DbStep
  <2>3. CASE Known(db')
    <3>1. Held(r) /\ (archive' = null \/ archive'.db \in Copies)
      BY <1>2, HeldStep, ArchiveStep
    <3>2. \A s \in Requests : job'[s].files.db \in Copies \cup {migrate}
      BY <2>1, <3>1 DEF Held, Copies
    <3>3. \A d \in Copies' : Known(d)
      <4>1. Copies' \subseteq {db'} \cup Copies \cup {migrate}
        BY <2>1, <3>1, <3>2 DEF Copies
      <4> QED
        BY <2>3, <4>1, CopiesKnown
    <3>4. \A s \in Requests, g \in GroupTables, id \in 0..MaxId, b \in Nat :
             /\ s.op \in {"create", "update", "delete"} /\ s.table = g
             /\ job'[s].id = id /\ job'[s].birth = b
             => b = 0 \/ Claim(g, id, b)
      BY <2>1, <3>1 DEF Held, Claim
    <3> QED
      BY <2>1, <2>2, <3>3, <3>4, HistoryKept
  <2>4. CASE /\ GroupInsert(r) /\ r.table \in GroupTables /\ r.number \in Numbers
             /\ db' = Insert(r.table, r.number, db.seq[r.table] + 1)
    <3>1. /\ db.seq[r.table] < MaxId /\ born' = born + 1 /\ archive' = archive /\ Goto(r, "find")
      BY <2>4 DEF GroupInsert, CreateGroup, KeepRest, KeepFiles
    <3>2. /\ job'[r].files = job[r].files /\ job'[r].id = job[r].id
          /\ job'[r].birth = job[r].birth
      BY <3>1, GotoStep DEF AInv, Types, Places
    <3>3. \A s \in Requests : /\ job'[s].files = job[s].files /\ job'[s].id = job[s].id
                              /\ job'[s].birth = job[s].birth
      BY <2>1, <3>2
    <3> QED
      BY <2>1, <2>4, <3>1, <3>3, InsertKeeps
  <2> QED
    BY <1>2, <2>3, <2>4, DbStep
<1> QED
  BY <1>1, <1>2 DEF Next, Step, vars

\* However creates, saves, deletes, backups and restores overlap, a group of the
\* web administration never shows members that were saved for another group of
\* the same database (store.go): ids are not given out again, also not by a
\* database that has come back from an archive.
THEOREM NotInherited == Spec => []NoInheritedMembers
<1>1. Init => History
  <2> SUFFICES ASSUME Init PROVE History
    OBVIOUS
  <2>1. Copies = {migrate} \/ Copies = {db, migrate}
    BY DEF Init, Open, Copies, Requests, NoJob
  <2>2. db = migrate /\ born = 0
    BY DEF Init, Open
  <2>3. \A d \in Copies : d.ever = {}
    BY <2>1, <2>2 DEF migrate
  <2>4. ASSUME NEW g \in GroupTables, NEW id \in 0..MaxId, NEW b \in Nat, Claim(g, id, b)
        PROVE  b = 0
    <3>1. CASE \E d \in Copies : Holds(d, g, id, b)
      <4>1. Holds(migrate, g, id, b)
        BY <2>1, <2>2, <3>1
      <4>2. id \in Ids => migrate.row[g][id] = null /\ migrate.members[g][id] = 0
        BY DEF migrate
      <4> QED
        BY <4>1, <4>2 DEF Holds
    <3>2. CASE \E r \in Requests : job[r].birth = b
      BY <3>2 DEF Init, Requests, NoJob
    <3> QED
      BY <2>4, <3>1, <3>2 DEF Claim
  <2> QED
    BY <2>2, <2>3, <2>4 DEF History
<1>2. AInv /\ History => NoInheritedMembers
  <2> SUFFICES ASSUME AInv, History, NEW g \in GroupTables, NEW i \in Present(g),
                      db.members[g][i] \in db.ever
               PROVE  db.members[g][i] = db.row[g][i].birth
    BY DEF NoInheritedMembers
  <2>1. i \in Ids /\ i \in 0..MaxId /\ db.members[g][i] \in Nat /\ db.row[g][i] # null
    BY StoreAssumption DEF Present, Ids, AInv, Types, FilesOK, StoreTypeOK, Databases
  <2>2. db \in Copies /\ Claim(g, i, db.members[g][i])
    BY <2>1 DEF Copies, Claim, Holds
  <2>3. Given(db, g, i, db.members[g][i])
    BY <2>1, <2>2 DEF History
  <2> QED
    BY <2>1, <2>3 DEF Given
<1> QED
  BY <1>1, <1>2, AInvInit, AInvNext, HistoryNext, PTL DEF Spec

=============================================================================
