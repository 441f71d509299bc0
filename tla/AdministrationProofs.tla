----------------------- MODULE AdministrationProofs -----------------------
(***************************************************************************)
(* For any number of trunks, keepalive goroutines and requests: files,     *)
(* tables and goroutines keep their types, a keepalive that has not been   *)
(* cancelled can be cancelled by its supervisor, and restores leave the    *)
(* database open and, alone, everything restored.                          *)
(***************************************************************************)
EXTENDS Administration, TLAPS

\* What the supervisors' bookkeeping needs; what the configuration asks for
\* does not matter.
Bookkeeping ==
    /\ want \in [Kinds -> SUBSET Trunks]
    /\ active \in [Kinds -> [Trunks -> Tasks \cup {none}]]
    /\ task \in [Tasks -> {Gone} \cup [at : {"check", "call", "wait"}, kind : Kinds,
                                       trunk : Trunks, cancelled : BOOLEAN]]

KInv == Bookkeeping /\ OneKeepalive

\* A tick of a supervisor: new goroutines are entered for trunks that had none,
\* and whatever leaves active is cancelled.
LEMMA ReconcileStep == ASSUME KInv, NEW k \in Kinds, reconcile(k) PROVE KInv'
<1> USE DEF KInv, Bookkeeping
<1>1. PICK start \in Injections(New(k), Unused) : Supervise(k, Dropped(k), start)
  BY DEF reconcile
<1>2. /\ start \in [New(k) -> Unused] /\ DOMAIN start = New(k)
      /\ \A s, t \in New(k) : start[s] = start[t] => s = t
  BY <1>1 DEF Injections
<1>3. New(k) \subseteq Trunks /\ Unused \subseteq Tasks /\ Dropped(k) \subseteq Trunks
  BY DEF New, Unused, Dropped, Active
<1>4. \A t \in New(k) : start[t] \in Tasks /\ task'[start[t]] = Started(k, t)
  BY <1>1, <1>2, <1>3 DEF Supervise
<1>5. \A x \in Tasks : (\A t \in New(k) : start[t] # x) =>
          task'[x] = IF Live(x) /\ \E t \in Dropped(k) : active[k][t] = x
                     THEN [task[x] EXCEPT !.cancelled = TRUE] ELSE task[x]
  BY <1>1, <1>2 DEF Supervise
<1>6. active' = [active EXCEPT ![k] = [t \in Trunks |->
           IF t \in New(k) THEN start[t] ELSE IF t \in Dropped(k) THEN none ELSE active[k][t]]]
  BY <1>1, <1>2 DEF Supervise
<1>7. Bookkeeping'
  <2>1. want' \in [Kinds -> SUBSET Trunks]
    BY <1>1 DEF Supervise
  <2>2. active' \in [Kinds -> [Trunks -> Tasks \cup {none}]]
    BY <1>2, <1>3, <1>6
  <2>3. DOMAIN task' = Tasks /\ task' = [x \in Tasks |-> task'[x]]
    BY <1>1 DEF Supervise
  <2>4. \A x \in Tasks : task'[x] \in {Gone} \cup [at : {"check", "call", "wait"}, kind : Kinds,
                                                  trunk : Trunks, cancelled : BOOLEAN]
    <3> SUFFICES ASSUME NEW x \in Tasks
                 PROVE  task'[x] \in {Gone} \cup [at : {"check", "call", "wait"}, kind : Kinds,
                                                  trunk : Trunks, cancelled : BOOLEAN]
      OBVIOUS
    <3>1. CASE \E t \in New(k) : start[t] = x
      <4>1. PICK t \in New(k) : start[t] = x
        BY <3>1
      <4>2. t \in Trunks /\ task'[x] = Started(k, t)
        BY <1>3, <1>4, <4>1
      <4>3. Started(k, t) \in [at : {"check", "call", "wait"}, kind : Kinds,
                               trunk : Trunks, cancelled : BOOLEAN]
        BY <4>2 DEF Started
      <4> QED
        BY <4>2, <4>3
    <3>2. CASE \A t \in New(k) : start[t] # x
      BY <1>5, <3>2 DEF Live
    <3> QED
      BY <3>1, <3>2
  <2> QED
    BY <2>1, <2>2, <2>3, <2>4
<1>8. ASSUME NEW x \in Tasks, task'[x] # Gone, ~task'[x].cancelled
      PROVE  active'[task'[x].kind][task'[x].trunk] = x
  <2>1. CASE \E t \in New(k) : start[t] = x
    <3>1. PICK t \in New(k) : start[t] = x
      BY <2>1
    <3>2. t \in Trunks /\ task'[x] = Started(k, t)
      BY <1>3, <1>4, <3>1
    <3>3. task'[x].kind = k /\ task'[x].trunk = t
      BY <3>2 DEF Started
    <3>4. active'[k][t] = start[t]
      BY <1>6, <3>1, <3>2
    <3> QED
      BY <3>1, <3>3, <3>4
  <2>2. CASE \A t \in New(k) : start[t] # x
    <3>1. task'[x] = task[x] /\ Live(x) /\ ~(\E t \in Dropped(k) : active[k][t] = x)
      BY <1>5, <1>8, <2>2 DEF Live
    <3>2. /\ task[x].kind \in Kinds /\ task[x].trunk \in Trunks
          /\ active[task[x].kind][task[x].trunk] = x
      BY <1>8, <3>1 DEF OneKeepalive, Live
    <3>3. CASE task[x].kind # k
      BY <1>6, <3>1, <3>2, <3>3
    <3>4. CASE task[x].kind = k
      <4>1. task[x].trunk \notin New(k) /\ task[x].trunk \notin Dropped(k)
        BY <3>1, <3>2, <3>4, TrunkAssumption DEF New, Active
      <4> QED
        BY <1>6, <3>1, <3>2, <3>4, <4>1
    <3> QED
      BY <3>3, <3>4
  <2> QED
    BY <2>1, <2>2
<1> QED
  BY <1>7, <1>8 DEF OneKeepalive, Live

\* A goroutine moves on or ends, and stays what it is.
LEMMA TaskStep ==
    ASSUME KInv, NEW x \in Tasks,
           maintainTrunk(x) \/ pingTrunkOptions(x) \/ registerSession(x) \/ WaitInterval(x)
    PROVE  KInv'
<1> USE DEF KInv, Bookkeeping
<1>1. task[x] # Gone
  BY DEF maintainTrunk, pingTrunkOptions, registerSession, WaitInterval, Gone
<1>2. PICK r \in {Gone, At(x, "check"), At(x, "call"), At(x, "wait")} : Becomes(x, r)
  BY DEF maintainTrunk, pingTrunkOptions, registerSession, WaitInterval
<1>3. \/ r = Gone
      \/ /\ r \in [at : {"check", "call", "wait"}, kind : Kinds, trunk : Trunks,
                   cancelled : BOOLEAN]
         /\ r.kind = task[x].kind /\ r.trunk = task[x].trunk /\ r.cancelled = task[x].cancelled
  BY <1>1, <1>2 DEF At
<1>4. /\ task' = [task EXCEPT ![x] = r] /\ UNCHANGED <<want, active>>
  BY <1>2 DEF Becomes
<1>5. Bookkeeping'
  BY <1>3, <1>4
<1>6. OneKeepalive'
  BY <1>1, <1>3, <1>4 DEF OneKeepalive, Live
<1> QED
  BY <1>5, <1>6

---------------------------------------------------------------------------

\* Requests change the configuration and nothing else of the trunks.
LEMMA RequestKeepsTrunks ==
    ASSUME NEW r \in Requests, Begin(r) \/ BeginRestore(r) \/ BeginOnGroup(r) \/ Handle(r)
    PROVE  UNCHANGED <<reconciling, want, active, task>>
<1> USE DEF KeepServer, KeepRest, trunkVars
<1>1. CASE Begin(r) \/ BeginRestore(r) \/ BeginOnGroup(r)
  BY <1>1 DEF Begin, BeginRestore, BeginOnGroup, Arrive
<1>2. CASE GroupSteps(r)
  BY <1>2 DEF GroupSteps, GroupInsert, GroupFind, GroupUpdate, GroupMembers, HuntGet,
     HuntReferenced, GroupDeleteMembers, GroupDeleteRow, handleTrunkRouteSave
<1>3. CASE ExtensionSteps(r)
  BY <1>3 DEF ExtensionSteps, ExtensionLoadOld, ExtensionTruncate, ExtensionWrite,
     ExtensionUnlink, ExtensionLoad, ReloadExtensions, setDND, StoreDND
<1>4. CASE ConfigSteps(r) \/ BackupSteps(r)
  BY <1>4 DEF ConfigSteps, EditConfig, ReloadConfig, BackupSteps, ExportConfig,
     ExportExtensions, SnapshotTo
<1>5. CASE RestoreSteps(r)
  BY <1>5 DEF RestoreSteps, CloseStore, validateArchive, RestoreFails, RestoreConfig, RestoreDb,
     cleanDir, RestoreExtensions, RestoreAssets, ReopenClose, Reopen,
     ReopenFails, Redirect
<1> QED
  BY <1>1, <1>2, <1>3, <1>4, <1>5 DEF Handle

\* For any number of trunks and goroutines, and whatever the requests do, a
\* keepalive that has not been cancelled is the one its supervisor can cancel
\* (keepalive.go).
THEOREM Cancellable == Spec => []OneKeepalive
<1>1. Init => KInv
  BY DEF Init, TrunkInit, KInv, Bookkeeping, OneKeepalive, Live
<1>2. KInv /\ [Next]_vars => KInv'
  <2> SUFFICES ASSUME KInv, [Next]_vars PROVE KInv'
    OBVIOUS
  <2>1. ASSUME UNCHANGED <<want, active, task>> PROVE KInv'
    BY <2>1 DEF KInv, Bookkeeping, OneKeepalive, Live
  <2>2. ASSUME NEW k \in Kinds, cfgSnapshot(k) PROVE KInv'
    BY <2>2 DEF cfgSnapshot, EnabledTrunks, KInv, Bookkeeping, OneKeepalive, Live
  <2>3. CASE TrunkNext
    BY <2>2, <2>3, ReconcileStep, TaskStep DEF TrunkNext
  <2>4. CASE \E r \in Requests : Begin(r) \/ BeginRestore(r) \/ BeginOnGroup(r) \/ Handle(r)
    BY <2>1, <2>4, RequestKeepsTrunks
  <2>5. CASE UNCHANGED vars
    BY <2>1, <2>5 DEF vars, trunkVars
  <2> QED
    BY <2>3, <2>4, <2>5 DEF Next
<1>3. KInv => OneKeepalive
  BY DEF KInv
<1> QED
  BY <1>1, <1>2, <1>3, PTL DEF Spec

---------------------------------------------------------------------------
(* Types *)

Step(r) == Begin(r) \/ BeginRestore(r) \/ BeginOnGroup(r) \/ Handle(r)

Job == [at : Places, id : 0..MaxId, birth : Nat, number : Numbers \cup {null},
        ext : ExtFiles \cup {"nil"}, next : 1..Len(Parts), files : Archives]

\* Where a goroutine is depends on what was asked; it writes a flag into the
\* extension's file, and never takes an unreadable file for a table.
Fits(place, op, ext) ==
    /\ place \in {"insert", "find"} => op = "create"
    /\ place = "update" => op = "update"
    /\ place = "members" => op \in {"create", "update"}
    /\ place \in {"get", "referenced", "deleteMembers", "deleteRow"} => op = "delete"
    /\ place = "route" => op = "route"
    /\ place = "loadOld" => op = "save"
    /\ place \in {"setDND", "store"} => op = "dnd"
    /\ place \in {"truncate", "write"} => op \in {"save", "dnd"} /\ ext \in {"off", "on"}
    /\ place = "edit" => op = "edit"
    /\ place = "unlink" => op = "remove"
    /\ place \in {"close", "restored"} \cup Restoring => op = "restore"
    /\ place = "reload" => ext # "empty"

PlacedAt(r) == Fits(job[r].at, r.op, job[r].ext)

Tables == [{"pbx", "registrar", "messages", "presence"} -> {"nil", "none", "off", "on", "known"}]

\* The files and what the server has made of them.
FilesOK ==
    /\ StoreTypeOK
    /\ cfg \in Configs /\ cfgFile \in ConfigFiles /\ extFile \in ExtFiles
    /\ tables \in Tables /\ tables.pbx \in {"nil", "none", "off", "on"}
    /\ \A p \in {"registrar", "messages", "presence"} : tables[p] \in {"none", "known"}
    /\ archive \in Archives \cup {null}

JobsOK ==
    /\ \E p \in Plans : Requests = p.requests
    /\ \A r \in Requests : job[r] \in Job /\ PlacedAt(r)
    /\ alone \subseteq Requests

Types == FilesOK /\ JobsOK

\* A step of a request is its own: the others are where they were.
LEMMA OwnStep ==
    ASSUME NEW r \in Requests, Step(r)
    PROVE  Requests' = Requests /\ \A s \in Requests : s # r => job'[s] = job[s]
<1> USE DEF Requests, Goto, Done
<1>1. CASE Begin(r) \/ BeginRestore(r) \/ BeginOnGroup(r)
  BY <1>1 DEF Begin, BeginRestore, BeginOnGroup, Arrive
<1>2. CASE GroupSteps(r)
  BY <1>2 DEF GroupSteps, GroupInsert, GroupFind, GroupUpdate, GroupMembers, HuntGet,
     HuntReferenced, GroupDeleteMembers, GroupDeleteRow, handleTrunkRouteSave
<1>3. CASE ExtensionSteps(r)
  BY <1>3 DEF ExtensionSteps, ExtensionLoadOld, ExtensionTruncate, ExtensionWrite,
     ExtensionUnlink, ExtensionLoad, ReloadExtensions, setDND, StoreDND
<1>4. CASE ConfigSteps(r) \/ BackupSteps(r)
  BY <1>4 DEF ConfigSteps, EditConfig, ReloadConfig, BackupSteps, ExportConfig,
     ExportExtensions, SnapshotTo
<1>5. CASE RestoreSteps(r)
  BY <1>5 DEF RestoreSteps, CloseStore, validateArchive, RestoreFails, RestoreConfig, RestoreDb,
     cleanDir, RestoreExtensions, RestoreAssets, ReopenClose, Reopen,
     ReopenFails, Redirect
<1> QED
  BY <1>1, <1>2, <1>3, <1>4, <1>5 DEF Step, Handle

\* What every request is.
LEMMA RequestForms ==
    ASSUME Types, NEW r \in Requests
    PROVE  /\ r \in Asked
           /\ r.op \in {"create", "update", "delete"} => r.table \in GroupTables /\ r.number \in Numbers
           /\ r.op = "route" => r.number \in Numbers
           /\ r.op = "dnd" => r.on \in {"off", "on"}
           /\ r.op = "edit" => r.cfg \in ConfigFiles
           /\ r.op \in DOMAIN First \cup {"delete"}
<1>1. r \in Asked
  BY PlansAssumption DEF Types, JobsOK
<1>2. DOMAIN First = {"create", "update", "route", "save", "remove", "dnd", "reload",
                      "download", "restore", "edit"}
  BY DEF First
<1>3. CASE r \in [op : {"create", "update", "delete"}, table : GroupTables, number : Numbers]
  BY <1>1, <1>2, <1>3
<1>4. CASE r \in [op : {"route"}, number : Numbers]
  BY <1>1, <1>2, <1>4
<1>5. CASE r \in [op : {"save"}, password : BOOLEAN]
  BY <1>1, <1>2, <1>5
<1>6. CASE r \in [op : {"dnd"}, on : {"off", "on"}]
  BY <1>1, <1>2, <1>6
<1>7. CASE r \in [op : {"edit"}, cfg : ConfigFiles]
  BY <1>1, <1>2, <1>7
<1>8. CASE r \in [op : {"remove", "reload", "download", "restore"}, n : Nat]
  BY <1>1, <1>2, <1>8
<1> QED
  BY <1>1, <1>3, <1>4, <1>5, <1>6, <1>7, <1>8 DEF Asked
\* A statement changes a database into a database.
LEMMA Databases_Typed ==
    ASSUME StoreTypeOK
    PROVE  /\ migrate \in Databases
           /\ \A g \in GroupTables, id \in Ids, n \in Numbers : Insert(g, n, id) \in Databases
           /\ \A g \in GroupTables, id \in 0..MaxId, n \in Numbers :
                 id \in Present(g) => [db EXCEPT !.row[g][id].number = n] \in Databases
           /\ \A g \in GroupTables, id \in 0..MaxId, b \in Nat :
                 [db EXCEPT !.members[g][id] = b] \in Databases
           /\ \A g \in GroupTables, id \in 0..MaxId :
                 [db EXCEPT !.row[g][id] = null] \in Databases
           /\ \A n \in Numbers : [db EXCEPT !.route = n] \in Databases
<1> USE StoreAssumption DEF StoreTypeOK, Databases, Rows
<1>1. migrate \in Databases
  BY DEF migrate
<1>2. \A g \in GroupTables, id \in Ids, n \in Numbers : Insert(g, n, id) \in Databases
  <2> SUFFICES ASSUME NEW g \in GroupTables, NEW id \in Ids, NEW n \in Numbers
               PROVE  Insert(g, n, id) \in Databases
    OBVIOUS
  <2>1. [number |-> n, birth |-> born + 1] \in Rows
    OBVIOUS
  <2>2. [db.row EXCEPT ![g] = [@ EXCEPT ![id] = [number |-> n, birth |-> born + 1]]]
           \in [GroupTables -> [Ids -> Rows]]
    BY <2>1
  <2>3. id \in 0..MaxId
    BY DEF Ids
  <2>4. db.ever \cup {born + 1} \in SUBSET Nat
    OBVIOUS
  <2> HIDE DEF Rows
  <2> QED
    BY <2>2, <2>3, <2>4 DEF Insert
<1>3. \A g \in GroupTables, id \in 0..MaxId, n \in Numbers :
          id \in Present(g) => [db EXCEPT !.row[g][id].number = n] \in Databases
  <2> SUFFICES ASSUME NEW g \in GroupTables, NEW id \in Present(g), NEW n \in Numbers
               PROVE  [db EXCEPT !.row[g][id].number = n] \in Databases
    OBVIOUS
  <2>1. id \in Ids /\ db.row[g][id] \in [number : Numbers, birth : Nat]
    BY DEF Present
  <2>2. [db.row[g][id] EXCEPT !.number = n] \in Rows
    BY <2>1
  <2> QED
    BY <2>1, <2>2
<1>4. \A g \in GroupTables, id \in 0..MaxId, b \in Nat :
          [db EXCEPT !.members[g][id] = b] \in Databases
  OBVIOUS
<1>5. \A g \in GroupTables, id \in 0..MaxId : [db EXCEPT !.row[g][id] = null] \in Databases
  OBVIOUS
<1>6. \A n \in Numbers : [db EXCEPT !.route = n] \in Databases
  OBVIOUS
<1> QED
  BY <1>1, <1>2, <1>3, <1>4, <1>5, <1>6

\* What a goroutine starts from and leaves behind.
LEMMA NoJob_Typed == ASSUME StoreTypeOK PROVE NoJob \in Job /\ NoJob.at = "new"
<1>1. Off \in ConfigFiles /\ migrate \in Databases
  BY Databases_Typed DEF Off, ConfigFiles, Configs, Modes, Kinds
<1>2. NoJob.files \in Archives
  BY <1>1 DEF NoJob, Archives, ExtFiles
<1> QED
  BY <1>2, StoreAssumption DEF NoJob, Job, Places, ExtFiles, Parts

\* A goroutine goes on with what it holds, or ends.
LEMMA GotoStep ==
    ASSUME JobsOK, NEW r \in Requests, NEW place \in Places, Goto(r, place)
    PROVE  /\ job'[r] \in Job /\ job'[r].at = place
           /\ job'[r].id = job[r].id /\ job'[r].birth = job[r].birth
           /\ job'[r].number = job[r].number /\ job'[r].ext = job[r].ext
           /\ job'[r].next = job[r].next /\ job'[r].files = job[r].files
<1>1. job[r] \in Job
  BY DEF JobsOK
<1>2. job'[r] = [job[r] EXCEPT !.at = place]
  BY DEF Goto, Requests
<1> HIDE DEF Places, Archives, ExtFiles, Parts
<1> QED
  BY <1>1, <1>2 DEF Job

LEMMA DoneStep ==
    ASSUME StoreTypeOK, NEW r \in Requests, Done(r)
    PROVE  job'[r] \in Job /\ job'[r] = [NoJob EXCEPT !.at = "done"] /\ job'[r].at = "done"
           /\ PlacedAt(r)'
<1>1. job'[r] = [NoJob EXCEPT !.at = "done"]
  BY DEF Done, Requests
<1>2. NoJob \in Job /\ "done" \in Places
  BY NoJob_Typed DEF Places
<1>3. job'[r] \in Job /\ job'[r].at = "done"
  BY <1>1, <1>2 DEF Job
<1> QED
  BY <1>1, <1>3 DEF PlacedAt, Fits, Restoring, Writes

\* Files, tables and database stay what they can be.
LEMMA FilesStep == ASSUME Types, NEW r \in Requests, Step(r) PROVE FilesOK'
<1> USE DEF FilesOK, StoreTypeOK
<1>0. /\ job[r] \in Job /\ PlacedAt(r) /\ FilesOK
      /\ job[r].id \in 0..MaxId /\ job[r].birth \in Nat /\ job[r].ext \in ExtFiles \cup {"nil"}
      /\ job[r].next \in 1..Len(Parts) /\ job[r].files \in Archives
  BY DEF Types, JobsOK, Job
<1>1. ASSUME UNCHANGED <<cfgFile, extFile, tables, archive, cfg, db, open, born>> PROVE FilesOK'
  BY <1>0, <1>1
<1>2. CASE Begin(r) \/ BeginRestore(r) \/ BeginOnGroup(r)
  BY <1>0, <1>1, <1>2
  DEF Begin, BeginRestore, BeginOnGroup, Arrive, KeepFiles, KeepServer, KeepRest, trunkVars, storeVars
<1>3. CASE GroupFind(r) \/ HuntGet(r) \/ HuntReferenced(r)
  BY <1>0, <1>1, <1>3
  DEF GroupFind, HuntGet, HuntReferenced, KeepFiles, KeepServer, KeepRest, trunkVars, storeVars
<1>4. CASE GroupInsert(r)
  <2>1. r.table \in GroupTables /\ r.number \in Numbers
    BY <1>0, <1>4, RequestForms DEF GroupInsert, At_, PlacedAt, Fits
  <2>2. db.seq[r.table] \in 0..MaxId /\ db.seq[r.table] < MaxId
    BY <1>0, <1>4, <2>1 DEF GroupInsert, CreateGroup, Databases
  <2>3. db.seq[r.table] + 1 \in Ids
    BY <2>2, StoreAssumption DEF Ids
  <2>4. Insert(r.table, r.number, db.seq[r.table] + 1) \in Databases
    BY <1>0, <2>1, <2>3, Databases_Typed
  <2>5. db' \in Databases /\ born' \in Nat
    BY <1>0, <1>4, <2>4 DEF GroupInsert, CreateGroup, Exec
  <2> QED
    BY <1>0, <1>4, <2>5 DEF GroupInsert, KeepRest, KeepFiles, trunkVars
<1>5. CASE GroupUpdate(r)
  BY <1>0, <1>1, <1>5, Databases_Typed, RequestForms
  DEF GroupUpdate, UpdateGroup, Exec, PlacedAt, Fits, At_, KeepFiles, KeepServer, KeepRest, trunkVars, storeVars
<1>6. CASE GroupMembers(r)
  BY <1>0, <1>1, <1>6, Databases_Typed, RequestForms
  DEF GroupMembers, SetMembers, Exec, PlacedAt, Fits, At_, KeepFiles, KeepServer, KeepRest, trunkVars, storeVars
<1>7. CASE GroupDeleteMembers(r)
  BY <1>0, <1>1, <1>7, Databases_Typed, RequestForms
  DEF GroupDeleteMembers, DeleteMembers, Exec, PlacedAt, Fits, At_, KeepFiles, KeepServer, KeepRest, trunkVars, storeVars
<1>8. CASE GroupDeleteRow(r)
  BY <1>0, <1>1, <1>8, Databases_Typed, RequestForms
  DEF GroupDeleteRow, DeleteRow, Exec, PlacedAt, Fits, At_, KeepFiles, KeepServer, KeepRest, trunkVars, storeVars
<1>9. CASE handleTrunkRouteSave(r)
  BY <1>0, <1>1, <1>9, Databases_Typed, RequestForms
  DEF handleTrunkRouteSave, SaveTrunkRoute, Exec, PlacedAt, Fits, At_, KeepFiles, KeepServer, KeepRest, trunkVars, storeVars
<1>10. CASE ExtensionLoadOld(r) \/ ExtensionLoad(r)
  BY <1>0, <1>1, <1>10
  DEF ExtensionLoadOld, ExtensionLoad, KeepFiles, KeepServer, KeepRest, trunkVars, storeVars
<1>11. CASE ExtensionTruncate(r) \/ ExtensionWrite(r) \/ ExtensionUnlink(r)
  BY <1>0, <1>1, <1>11
  DEF ExtensionTruncate, ExtensionWrite, ExtensionUnlink, ExtFiles, PlacedAt, Fits, At_, KeepFiles, KeepServer, KeepRest, trunkVars, storeVars
<1>12. CASE ReloadExtensions(r)
  BY <1>0, <1>1, <1>12
  DEF ReloadExtensions, ExtFiles, Parts, TablesFor, KnownTo, Tables, PlacedAt, Fits, At_, KeepFiles, KeepServer, KeepRest, trunkVars, storeVars
<1>13. CASE setDND(r) \/ StoreDND(r)
  BY <1>0, <1>1, <1>13, RequestForms
  DEF setDND, StoreDND, Tables, PlacedAt, Fits, At_, KeepFiles, KeepServer, KeepRest, trunkVars, storeVars
<1>14. CASE EditConfig(r)
  BY <1>0, <1>1, <1>14, RequestForms
  DEF EditConfig, PlacedAt, Fits, At_, KeepFiles, KeepServer, KeepRest, trunkVars, storeVars
<1>15. CASE ReloadConfig(r)
  BY <1>0, <1>1, <1>15
  DEF ReloadConfig, UpdateConfig, ConfigFiles, KeepFiles, KeepServer, KeepRest, trunkVars, storeVars
<1>16. CASE ExportConfig(r) \/ ExportExtensions(r)
  BY <1>0, <1>1, <1>16
  DEF ExportConfig, ExportExtensions, KeepFiles, KeepServer, KeepRest, trunkVars, storeVars
<1>17. CASE SnapshotTo(r)
  BY <1>0, <1>1, <1>17
  DEF SnapshotTo, Archives, KeepFiles, KeepServer, KeepRest, trunkVars, storeVars
<1>18. CASE CloseStore(r) \/ ReopenClose(r) \/ Reopen(r) \/ ReopenFails(r)
  BY <1>0, <1>1, <1>18
  DEF CloseStore, ReopenClose, Reopen, ReopenFails, KeepFiles, KeepServer, KeepRest, trunkVars, storeVars
<1>19. CASE validateArchive(r) \/ RestoreFails(r) \/ RestoreAssets(r) \/ Redirect(r)
  BY <1>0, <1>1, <1>19
  DEF validateArchive, RestoreFails, RestoreAssets, Redirect, KeepFiles, KeepServer, KeepRest, trunkVars, storeVars
<1>20. CASE RestoreConfig(r)
  BY <1>0, <1>1, <1>20
  DEF RestoreConfig, Archives, ConfigFiles, Configs, Off, Modes, KeepFiles, KeepServer, KeepRest, trunkVars, storeVars
<1>21. CASE RestoreDb(r)
  BY <1>0, <1>1, <1>21, Databases_Typed
  DEF RestoreDb, Archives, KeepFiles, KeepServer, KeepRest, trunkVars, storeVars
<1>22. CASE cleanDir(r) \/ RestoreExtensions(r)
  BY <1>0, <1>1, <1>22
  DEF cleanDir, RestoreExtensions, Archives, ExtFiles, KeepFiles, KeepServer, KeepRest, trunkVars, storeVars
<1> QED
  BY <1>2, <1>3, <1>4, <1>5, <1>6, <1>7, <1>8, <1>9, <1>10, <1>11, <1>12, <1>13, <1>14, <1>15, <1>16, <1>17, <1>18, <1>19, <1>20, <1>21, <1>22
  DEF Step, Handle, GroupSteps, ExtensionSteps, ConfigSteps, BackupSteps, RestoreSteps

\* A goroutine goes to a place that fits what was asked.
LEMMA JobStep ==
    ASSUME Types, NEW r \in Requests, Step(r)
    PROVE  job'[r] \in Job /\ PlacedAt(r)' /\ alone' \in {alone, {}, {r}}
<1> USE DEF At_, PlacedAt
<1>1. /\ JobsOK /\ FilesOK /\ StoreTypeOK /\ job[r] \in Job
      /\ Fits(job[r].at, r.op, job[r].ext) /\ job[r].ext \in ExtFiles \cup {"nil"}
      /\ NoJob \in Job /\ NoJob.ext = "none"
  BY NoJob_Typed DEF Types, JobsOK, FilesOK, NoJob, Job
<1>2. ASSUME NEW place \in Places, Goto(r, place), Fits(place, r.op, job[r].ext)
      PROVE  job'[r] \in Job /\ PlacedAt(r)'
  BY <1>1, <1>2, GotoStep
<1>3. ASSUME Done(r) PROVE job'[r] \in Job /\ PlacedAt(r)'
  BY <1>1, <1>3, DoneStep
<1>4. ASSUME NEW j \in Job, job' = [job EXCEPT ![r] = j], Fits(j.at, r.op, j.ext)
      PROVE  job'[r] \in Job /\ PlacedAt(r)'
  BY <1>4 DEF Requests
<1>5. ASSUME NEW place \in Places, NEW ext \in ExtFiles \cup {"nil"}, Fits(place, r.op, ext),
             job' = [job EXCEPT ![r].at = place, ![r].ext = ext]
      PROVE  job'[r] \in Job /\ PlacedAt(r)'
  <2> DEFINE j == [job[r] EXCEPT !.at = place, !.ext = ext]
  <2>1. j \in Job /\ j.at = place /\ j.ext = ext
    BY <1>1 DEF Job
  <2>2. job'[r] = j
    BY <1>5 DEF Requests
  <2> QED
    BY <1>5, <2>1, <2>2
<1> DEFINE Goes == job'[r] \in Job /\ PlacedAt(r)'
<1>6. CASE Begin(r)
  <2>1. r.op \in DOMAIN First \ {"update", "restore"}
    BY <1>6 DEF Begin
  <2>2. First[r.op] \in Places /\ Fits(First[r.op], r.op, "none")
    BY <2>1 DEF First, Fits, Places, Restoring, Writes
  <2>3. [NoJob EXCEPT !.at = First[r.op]] \in Job
    BY <1>1, <2>2 DEF Job
  <2>4. [NoJob EXCEPT !.at = First[r.op]].at = First[r.op]
        /\ [NoJob EXCEPT !.at = First[r.op]].ext = "none"
    BY <1>1 DEF NoJob
  <2>5. Goes
    BY <1>4, <1>6, <2>2, <2>3, <2>4 DEF Begin, Arrive
  <2> QED
    BY <1>6, <2>5 DEF Begin, Arrive
<1>7. CASE BeginRestore(r)
  <2> DEFINE j == [NoJob EXCEPT !.at = First[r.op], !.files = archive]
  <2>1. j.at = "close" /\ j.ext = "none" /\ Fits(j.at, r.op, j.ext)
    BY <1>1, <1>7 DEF BeginRestore, First, Fits, Restoring, Writes, NoJob
  <2>2. archive \in Archives /\ "close" \in Places /\ First[r.op] = "close"
    BY <1>1, <1>7 DEF BeginRestore, FilesOK, Places, First
  <2>3. j \in Job
    BY <1>1, <2>2 DEF Job
  <2>4. Goes
    BY <1>4, <1>7, <2>1, <2>3 DEF BeginRestore, Arrive
  <2> QED
    BY <1>7, <2>4 DEF BeginRestore, Arrive
<1>8. CASE BeginOnGroup(r)
  <2>1. /\ r.op \in {"update", "delete"} /\ r.table \in GroupTables
    BY <1>8, RequestForms DEF BeginOnGroup
  <2> DEFINE place == IF r.op = "update" THEN "update"
                      ELSE IF r.table = "hunt" THEN "get" ELSE "deleteMembers"
  <2>2. PICK id \in Present(r.table) :
            Arrive(r, [NoJob EXCEPT !.at = place, !.id = id,
                                    !.birth = db.row[r.table][id].birth])
    BY <1>8 DEF BeginOnGroup
  <2>3. place \in Places /\ Fits(place, r.op, "none")
    BY <2>1 DEF Fits, Places, Restoring, Writes
  <2>4. id \in 0..MaxId /\ db.row[r.table][id].birth \in Nat
    <3>1. id \in Ids /\ db.row[r.table][id] \in Rows /\ db.row[r.table][id] # null
      BY <1>1, <2>1 DEF Present, StoreTypeOK, Databases
    <3> QED
      BY <3>1, StoreAssumption DEF Rows, Ids
  <2> HIDE DEF place
  <2> DEFINE j == [NoJob EXCEPT !.at = place, !.id = id, !.birth = db.row[r.table][id].birth]
  <2>5. j \in Job /\ j.at = place /\ j.ext = "none"
    BY <1>1, <2>3, <2>4 DEF Job
  <2>6. Goes
    BY <1>4, <2>2, <2>3, <2>5 DEF Arrive
  <2> QED
    BY <2>2, <2>6 DEF Arrive
<1>9. CASE GroupFind(r)
  <2>1. r.op = "create" /\ r.table \in GroupTables
    BY <1>1, <1>9, RequestForms DEF GroupFind, Fits
  <2>2. CASE Done(r)
    BY <1>3, <1>9, <2>2 DEF GroupFind, KeepRest, KeepFiles
  <2>3. ASSUME NEW id \in WithNumber(r.table, r.number),
               job' = [job EXCEPT ![r].at = "members", ![r].id = id,
                                  ![r].birth = db.row[r.table][id].birth]
        PROVE  Goes
    <3> DEFINE j == [job[r] EXCEPT !.at = "members", !.id = id,
                                   !.birth = db.row[r.table][id].birth]
    <3>1. id \in Ids /\ db.row[r.table][id] \in Rows /\ db.row[r.table][id] # null
      BY <1>1, <2>1 DEF WithNumber, Present, StoreTypeOK, Databases
    <3>2. id \in 0..MaxId /\ db.row[r.table][id].birth \in Nat
      BY <3>1, StoreAssumption DEF Rows, Ids
    <3>3. "members" \in Places /\ Fits("members", r.op, job[r].ext)
      BY <2>1 DEF Places, Fits, Restoring, Writes
    <3>4. j \in Job /\ j.at = "members" /\ j.ext = job[r].ext
      BY <1>1, <3>2, <3>3 DEF Job
    <3>5. job'[r] = j
      BY <2>3 DEF Requests
    <3> QED
      BY <3>3, <3>4, <3>5
  <2> QED
    BY <1>9, <2>2, <2>3 DEF GroupFind, KeepRest, KeepFiles
<1>10. CASE HuntGet(r)
  <2>1. r.op = "delete"
    BY <1>1, <1>10 DEF HuntGet, Fits
  <2>2. CASE open /\ job[r].id \in Present("hunt")
    <3> DEFINE n == db.row["hunt"][job[r].id].number
               j == [job[r] EXCEPT !.at = "referenced", !.number = n]
    <3>1. n \in Numbers
      BY <1>1, <2>2, StoreAssumption DEF Present, StoreTypeOK, Databases, Rows, GroupTables
    <3>2. "referenced" \in Places /\ Fits("referenced", r.op, job[r].ext)
      BY <2>1 DEF Places, Fits, Restoring, Writes
    <3>3. job'[r] = j
      BY <1>10, <2>2 DEF HuntGet, Requests
    <3>4. j \in Job /\ j.at = "referenced" /\ j.ext = job[r].ext
      <4> HIDE DEF n
      <4> QED
        BY <1>1, <3>1, <3>2 DEF Job
    <3>5. Goes
      BY <3>2, <3>3, <3>4
    <3> QED
      BY <1>10, <3>5 DEF HuntGet, KeepFiles
  <2>3. CASE ~(open /\ job[r].id \in Present("hunt"))
    <3>1. Goto(r, "deleteMembers")
      BY <1>10, <2>3 DEF HuntGet, Goto
    <3>2. Goes
      BY <1>2, <2>1, <3>1 DEF Places, Fits, Restoring, Writes
    <3> QED
      BY <1>10, <3>2 DEF HuntGet, KeepFiles
  <2> QED
    BY <2>2, <2>3
<1>11. CASE ExtensionLoadOld(r)
  <2>1. r.op = "save"
    BY <1>1, <1>11 DEF ExtensionLoadOld, Fits
  <2>2. \A ext \in {"off", "on"} : Fits("truncate", r.op, ext)
    BY <2>1 DEF Fits, Restoring, Writes
  <2>3. ASSUME NEW ext \in {"off", "on"},
               job' = [job EXCEPT ![r].at = "truncate", ![r].ext = ext]
        PROVE  Goes
    BY <1>5, <2>2, <2>3 DEF Places, ExtFiles
  <2>4. Goes
    BY <1>3, <1>11, <2>3 DEF ExtensionLoadOld
  <2> QED
    BY <1>11, <2>4 DEF ExtensionLoadOld, KeepFiles
<1>12. CASE ExtensionTruncate(r)
  <2>1. Fits("write", r.op, job[r].ext)
    BY <1>1, <1>12 DEF ExtensionTruncate, Fits, Restoring, Writes
  <2>2. Goes
    BY <1>2, <1>3, <1>12, <2>1 DEF ExtensionTruncate, Places
  <2> QED
    BY <1>12, <2>2 DEF ExtensionTruncate
<1>13. CASE ExtensionWrite(r)
  <2>1. /\ r.op = "dnd" => Fits("store", r.op, job[r].ext)
        /\ Fits("load", r.op, job[r].ext)
    BY DEF Fits, Restoring, Writes
  <2>2. Goes
    BY <1>2, <1>3, <1>13, <2>1 DEF ExtensionWrite, Places
  <2> QED
    BY <1>13, <2>2 DEF ExtensionWrite
<1>14. CASE ExtensionLoad(r)
  <2>1. /\ LoadExtensions(extFile) \in ExtFiles \cup {"nil"}
        /\ Fits("reload", r.op, LoadExtensions(extFile))
    BY <1>1 DEF LoadExtensions, Fits, Restoring, Writes, FilesOK, ExtFiles
  <2>2. Goes
    BY <1>5, <1>14, <2>1 DEF ExtensionLoad, Places
  <2> QED
    BY <1>14, <2>2 DEF ExtensionLoad, KeepFiles
<1>15. CASE ReloadExtensions(r)
  <2>1. Fits("restored", "restore", job[r].ext) /\ "restored" \in Places
    BY DEF Fits, Restoring, Writes, Places
  <2>2. CASE job[r].next < Len(Parts)
    <3> DEFINE j == [job[r] EXCEPT !.next = @ + 1]
    <3>1. j \in Job /\ j.at = job[r].at /\ j.ext = job[r].ext
      <4>1. job[r].next + 1 \in 1..Len(Parts)
        BY <1>1, <2>2 DEF Job, Parts
      <4> QED
        BY <1>1, <4>1 DEF Job
    <3>2. job'[r] = j
      BY <1>15, <2>2 DEF ReloadExtensions, Requests
    <3> QED
      BY <1>1, <1>15, <3>1, <3>2 DEF ReloadExtensions
  <2>3. CASE ~(job[r].next < Len(Parts))
    <3>1. Goes
      BY <1>2, <1>3, <1>15, <2>1, <2>3 DEF ReloadExtensions
    <3> QED
      BY <1>15, <3>1 DEF ReloadExtensions
  <2> QED
    BY <2>2, <2>3
<1>16. CASE setDND(r)
  <2>1. r.op = "dnd" /\ r.on \in {"off", "on"}
    BY <1>1, <1>16, RequestForms DEF setDND, Fits
  <2>2. Fits("truncate", r.op, r.on) /\ "truncate" \in Places /\ r.on \in ExtFiles \cup {"nil"}
    BY <2>1 DEF Fits, Restoring, Writes, Places, ExtFiles
  <2>3. Goes
    BY <1>3, <1>5, <1>16, <2>2 DEF setDND
  <2> QED
    BY <1>16, <2>3 DEF setDND
<1>17. CASE ExportConfig(r) \/ ExportExtensions(r)
  <2>1. /\ "readExtensions" \in Places /\ Fits("readExtensions", r.op, job[r].ext)
        /\ "snapshot" \in Places /\ Fits("snapshot", r.op, job[r].ext)
    BY DEF Fits, Restoring, Writes, Places
  <2>2. PICK place \in {"readExtensions", "snapshot"}, files \in Archives :
            job'[r] = [job[r] EXCEPT !.at = place, !.files = files]
    <3>1. /\ [job[r].files EXCEPT !.cfg = cfgFile] \in Archives
          /\ [job[r].files EXCEPT !.ext = extFile] \in Archives
      BY <1>1 DEF Job, Archives, FilesOK
    <3>2. CASE ExportConfig(r)
      BY <1>1, <3>1, <3>2 DEF ExportConfig, Requests, Job, Archives
    <3>3. CASE ExportExtensions(r)
      BY <1>1, <3>1, <3>3 DEF ExportExtensions, Requests, Job, Archives
    <3> QED
      BY <1>17, <3>2, <3>3
  <2> DEFINE j == [job[r] EXCEPT !.at = place, !.files = files]
  <2>3. j \in Job /\ j.at = place /\ j.ext = job[r].ext
    BY <1>1, <2>1 DEF Job
  <2>4. Goes
    BY <2>1, <2>2, <2>3
  <2> QED
    BY <1>17, <2>4 DEF ExportConfig, ExportExtensions, KeepFiles
<1>18. CASE RestoreConfig(r) \/ RestoreDb(r) \/ cleanDir(r) \/ RestoreExtensions(r)
            \/ validateArchive(r) \/ RestoreFails(r) \/ CloseStore(r) \/ RestoreAssets(r)
            \/ ReopenClose(r)
  <2>1. job[r].at \in {"close"} \cup Restoring /\ r.op = "restore"
    BY <1>1, <1>18 DEF RestoreConfig, RestoreDb, cleanDir, RestoreExtensions, validateArchive,
       RestoreFails, CloseStore, RestoreAssets, ReopenClose, Fits, Restoring, Writes
  <2>2. \A place \in Restoring : place \in Places /\ Fits(place, r.op, job[r].ext)
    BY <2>1 DEF Fits, Restoring, Writes, Places
  <2>3. \E place \in Restoring : Goto(r, place)
    BY <1>18 DEF RestoreConfig, RestoreDb, cleanDir, AfterClean, RestoreExtensions,
       validateArchive, RestoreFails, CloseStore, RestoreAssets, ReopenClose, Restoring, Writes
  <2>4. Goes
    BY <1>2, <2>2, <2>3
  <2> QED
    BY <1>18, <2>4 DEF RestoreConfig, RestoreDb, cleanDir, RestoreExtensions, validateArchive,
       RestoreFails, CloseStore, RestoreAssets, ReopenClose, KeepRest, KeepFiles
<1>19. CASE ReloadConfig(r) \/ Reopen(r) \/ ReopenFails(r) \/ ExtensionUnlink(r)
  <2>1. \A place \in {"load", "loadConfig", "unopened"} : place \in Places /\ Fits(place, r.op, job[r].ext)
    BY DEF Fits, Restoring, Writes, Places
  <2>2. Goes
    BY <1>2, <1>3, <1>19, <2>1 DEF ReloadConfig, Reopen, ReopenFails, ExtensionUnlink
  <2> QED
    BY <1>19, <2>2 DEF ReloadConfig, Reopen, ReopenFails, ExtensionUnlink, KeepFiles
<1>20. CASE GroupInsert(r) \/ GroupUpdate(r) \/ HuntReferenced(r) \/ GroupDeleteMembers(r)
  <2>1. /\ r.op = "create" => Fits("find", r.op, job[r].ext)
        /\ r.op = "update" => Fits("members", r.op, job[r].ext)
        /\ r.op = "delete" => Fits("deleteMembers", r.op, job[r].ext)
                              /\ Fits("deleteRow", r.op, job[r].ext)
        /\ {"find", "members", "deleteMembers", "deleteRow"} \subseteq Places
    BY DEF Fits, Restoring, Writes, Places
  <2>2. CASE GroupInsert(r)
    BY <1>1, <1>2, <2>1, <2>2 DEF GroupInsert, KeepRest, KeepFiles, Fits
  <2>3. CASE GroupUpdate(r)
    BY <1>1, <1>2, <2>1, <2>3 DEF GroupUpdate, KeepRest, KeepFiles, Fits
  <2>4. CASE HuntReferenced(r)
    BY <1>1, <1>2, <1>3, <2>1, <2>4 DEF HuntReferenced, KeepFiles, Fits
  <2>5. CASE GroupDeleteMembers(r)
    BY <1>1, <1>2, <1>3, <2>1, <2>5 DEF GroupDeleteMembers, KeepRest, KeepFiles, Fits
  <2> QED
    BY <1>20, <2>2, <2>3, <2>4, <2>5
<1>21. CASE StoreDND(r)
  <2>1. Fits("panic", r.op, job[r].ext) /\ "panic" \in Places
    BY DEF Fits, Restoring, Writes, Places
  <2>2. Goes
    BY <1>2, <1>3, <1>21, <2>1 DEF StoreDND
  <2> QED
    BY <1>21, <2>2 DEF StoreDND
<1>22. CASE GroupMembers(r) \/ GroupDeleteRow(r) \/ handleTrunkRouteSave(r) \/ EditConfig(r)
            \/ SnapshotTo(r) \/ Redirect(r)
  BY <1>3, <1>22 DEF GroupMembers, GroupDeleteRow, handleTrunkRouteSave, EditConfig, SnapshotTo,
     Redirect, KeepRest, KeepFiles
<1> QED
  BY <1>6, <1>7, <1>8, <1>9, <1>10, <1>11, <1>12, <1>13, <1>14, <1>15, <1>16, <1>17, <1>18, <1>19,
     <1>20, <1>21, <1>22
  DEF Step, Handle, GroupSteps, ExtensionSteps, ConfigSteps, BackupSteps, RestoreSteps

---------------------------------------------------------------------------

\* All that is kept of types, and the supervisors' bookkeeping.
AInv == Types /\ KInv /\ reconciling \subseteq Kinds

\* A supervisor or its goroutine: configuration and requests are left alone.
LEMMA TrunkStep ==
    ASSUME KInv, reconciling \subseteq Kinds, TrunkNext
    PROVE  KInv' /\ reconciling' \subseteq Kinds /\ UNCHANGED cfg
<1>1. ASSUME NEW k \in Kinds, cfgSnapshot(k)
      PROVE  KInv' /\ reconciling' \subseteq Kinds /\ UNCHANGED cfg
  <2>1. want' \in [Kinds -> SUBSET Trunks]
    BY <1>1 DEF cfgSnapshot, EnabledTrunks, KInv, Bookkeeping
  <2> QED
    BY <1>1, <2>1 DEF cfgSnapshot, KInv, Bookkeeping, OneKeepalive, Live
<1>2. ASSUME NEW k \in Kinds, reconcile(k)
      PROVE  KInv' /\ reconciling' \subseteq Kinds /\ UNCHANGED cfg
  <2>1. reconciling' \subseteq Kinds /\ UNCHANGED cfg
    BY <1>2 DEF reconcile, Supervise
  <2> QED
    BY <1>2, <2>1, ReconcileStep
<1>3. ASSUME NEW x \in Tasks,
             maintainTrunk(x) \/ pingTrunkOptions(x) \/ registerSession(x) \/ WaitInterval(x)
      PROVE  KInv' /\ reconciling' \subseteq Kinds /\ UNCHANGED cfg
  <2>1. UNCHANGED <<reconciling, cfg>>
    BY <1>3 DEF maintainTrunk, pingTrunkOptions, registerSession, WaitInterval, Becomes
  <2> QED
    BY <1>3, <2>1, TaskStep
<1> QED
  BY <1>1, <1>2, <1>3 DEF TrunkNext

\* The server starts with an extension that is known and no request under way.
LEMMA AInvInit == Init => AInv
<1> SUFFICES ASSUME Init PROVE AInv
  OBVIOUS
<1>1. KInv /\ reconciling \subseteq Kinds
  BY DEF Init, TrunkInit, KInv, Bookkeeping, OneKeepalive, Live
<1>2. PICK p \in Plans : cfg = p.cfg /\ cfgFile = p.cfg /\ job = [r \in p.requests |-> NoJob]
  BY DEF Init
<1>3. StoreTypeOK
  <2>1. migrate \in Databases
    BY StoreAssumption DEF migrate, Databases, Rows
  <2> QED
    BY <2>1 DEF Init, Open, StoreTypeOK
<1>4. FilesOK
  BY <1>2, <1>3, PlansAssumption
  DEF Init, FilesOK, ConfigFiles, ExtFiles, Tables, TablesFor, KnownTo
<1>5. JobsOK
  BY <1>2, <1>3, NoJob_Typed DEF JobsOK, Requests, PlacedAt, Fits, Restoring, Writes, Init
<1> QED
  BY <1>1, <1>4, <1>5 DEF AInv, Types

\* Each step keeps them.
LEMMA AInvNext == AInv /\ [Next]_vars => AInv'
<1> SUFFICES ASSUME AInv, [Next]_vars PROVE AInv'
  OBVIOUS
<1>1. CASE TrunkNext /\ UNCHANGED <<storeVars, adminVars>>
  <2>1. KInv' /\ reconciling' \subseteq Kinds /\ UNCHANGED cfg
    BY <1>1, TrunkStep DEF AInv
  <2>2. Types'
    BY <1>1, <2>1 DEF AInv, Types, FilesOK, JobsOK, StoreTypeOK, Requests, PlacedAt, storeVars,
       adminVars
  <2> QED
    BY <2>1, <2>2 DEF AInv
<1>2. ASSUME NEW r \in Requests, Step(r) PROVE AInv'
  <2>1. FilesOK' /\ job'[r] \in Job /\ PlacedAt(r)' /\ alone' \in {alone, {}, {r}}
    BY <1>2, FilesStep, JobStep DEF AInv
  <2>2. Requests' = Requests /\ \A s \in Requests : s # r => job'[s] = job[s]
    BY <1>2, OwnStep
  <2>3. JobsOK'
    <3>1. \A s \in Requests' : job'[s] \in Job /\ PlacedAt(s)'
      BY <2>1, <2>2 DEF AInv, Types, JobsOK, PlacedAt
    <3> QED
      BY <2>1, <2>2, <3>1 DEF AInv, Types, JobsOK
  <2>4. UNCHANGED <<want, active, task, reconciling>>
    BY <1>2, RequestKeepsTrunks DEF Step
  <2>5. KInv' /\ reconciling' \subseteq Kinds
    BY <2>4 DEF AInv, KInv, Bookkeeping, OneKeepalive, Live
  <2> QED
    BY <2>1, <2>3, <2>5 DEF AInv, Types
<1>3. CASE UNCHANGED vars
  <2>1. Types'
    BY <1>3 DEF AInv, Types, FilesOK, JobsOK, StoreTypeOK, Requests, PlacedAt, vars, storeVars,
       adminVars, trunkVars
  <2> QED
    BY <1>3, <2>1 DEF AInv, KInv, Bookkeeping, OneKeepalive, Live, vars, trunkVars
<1> QED
  BY <1>1, <1>2, <1>3 DEF Next, Step

\* They include the types of the specification.
LEMMA TypedAll == AInv => TypeOK
<1> SUFFICES ASSUME AInv PROVE TypeOK
  OBVIOUS
<1>1. TrunkTypeOK
  BY DEF AInv, Types, FilesOK, KInv, Bookkeeping, TrunkTypeOK, Configs
<1>2. \A i \in 2..Len(Parts) : tables[Parts[i]] \in {"none", "known"}
  BY DEF AInv, Types, FilesOK, Parts
<1> QED
  BY <1>1, <1>2 DEF AInv, Types, FilesOK, JobsOK, Job, TypeOK

\* Whatever requests overlap, and however far a restore comes, files, tables,
\* database, archive and goroutines stay what they can be: no archive without a
\* database, no half-written file in a table (web, backup, pbx/server.go).
THEOREM Typing == Spec => []TypeOK
BY AInvInit, AInvNext, TypedAll, PTL DEF Spec

---------------------------------------------------------------------------
(* Restores *)

\* How far a restore has come.
LoadedAll   == {"restored"}
LoadedFiles == LoadedAll \cup {"reload"}
LoadedCfg   == LoadedFiles \cup {"load"}
WroteAll    == LoadedCfg \cup {"assets", "reopen", "opening", "loadConfig"}
WroteDb     == WroteAll \cup {"clean", "truncateExt", "writeExt"}
WroteCfg    == WroteDb \cup {"truncateDb", "writeDb"}

\* What a restore that nobody has overlapped has put back so far; archives
\* without an extension file are done once the directory is empty.
Staged(r) ==
    /\ job[r].at \in WroteCfg => cfgFile = job[r].files.cfg
    /\ job[r].at \in WroteDb => db = job[r].files.db
    /\ job[r].at \in WroteAll => extFile = job[r].files.ext
    /\ job[r].at \in LoadedCfg => cfg = cfgFile
    /\ job[r].at \in LoadedFiles => job[r].ext = LoadExtensions(extFile)
    /\ job[r].at \notin LoadedFiles => job[r].next = 1
    /\ job[r].at = "reload" =>
          \A i \in 1..(job[r].next - 1) : tables[Parts[i]] = TablesFor(job[r].ext)[Parts[i]]
    /\ job[r].at = "restored" => tables = TablesFor(job[r].ext)

Stages == \A r \in alone : r.op = "restore" => Staged(r)

\* A request that nobody has overlapped is the only one under way.
Sole == \A r \in alone : InProgress(r) => \A s \in Requests \ {r} : ~InProgress(s)

\* Only a request that is under way takes a step, and it overlaps nobody new.
LEMMA HandleStep == ASSUME NEW r \in Requests, Handle(r) PROVE InProgress(r) /\ UNCHANGED alone
<1> USE DEF InProgress, At_, KeepRest, KeepFiles
<1>1. CASE GroupSteps(r)
  BY <1>1 DEF GroupSteps, GroupInsert, GroupFind, GroupUpdate, GroupMembers, HuntGet,
     HuntReferenced, GroupDeleteMembers, GroupDeleteRow, handleTrunkRouteSave
<1>2. CASE ExtensionSteps(r)
  BY <1>2 DEF ExtensionSteps, ExtensionLoadOld, ExtensionTruncate, ExtensionWrite,
     ExtensionUnlink, ExtensionLoad, ReloadExtensions, setDND, StoreDND
<1>3. CASE ConfigSteps(r) \/ BackupSteps(r)
  BY <1>3 DEF ConfigSteps, EditConfig, ReloadConfig, BackupSteps, ExportConfig,
     ExportExtensions, SnapshotTo
<1>4. CASE RestoreSteps(r)
  BY <1>4 DEF RestoreSteps, CloseStore, validateArchive, RestoreFails, Writes, RestoreConfig,
     RestoreDb, cleanDir, RestoreExtensions, RestoreAssets, ReopenClose, Reopen,
     ReopenFails, Redirect
<1> QED
  BY <1>1, <1>2, <1>3, <1>4 DEF Handle

\* A request that comes in is alone when nobody is under way.
LEMMA ArriveStep ==
    ASSUME NEW r \in Requests, Begin(r) \/ BeginRestore(r) \/ BeginOnGroup(r)
    PROVE  /\ alone' = IF \E s \in Requests : InProgress(s) THEN {} ELSE {r}
           /\ UNCHANGED <<cfgFile, extFile, tables, archive, trunkVars, storeVars>>
BY DEF Begin, BeginRestore, BeginOnGroup, Arrive, KeepServer

\* Closing and opening the database: whoever closes it goes on restoring until
\* somebody has opened it again.
LEMMA OpenStep ==
    ASSUME Types, NEW r \in Requests, Step(r)
    PROVE  \/ open' = TRUE
           \/ job'[r].at \in Restoring \cup {"unopened"}
           \/ UNCHANGED open /\ job[r].at \notin Restoring \cup {"unopened"}
<1> USE DEF Restoring, Writes, At_, KeepServer, KeepRest, KeepFiles, storeVars
<1>0. /\ JobsOK
      /\ \A place \in Places : Goto(r, place) => job'[r].at = place
  BY GotoStep DEF Types
<1>1. CASE Begin(r) \/ BeginRestore(r) \/ BeginOnGroup(r)
  BY <1>1 DEF Begin, BeginRestore, BeginOnGroup, Arrive
<1>2. CASE GroupSteps(r)
  BY <1>2 DEF GroupSteps, GroupInsert, GroupFind, GroupUpdate, GroupMembers, HuntGet,
     HuntReferenced, GroupDeleteMembers, GroupDeleteRow, handleTrunkRouteSave
<1>3. CASE ExtensionSteps(r)
  BY <1>3 DEF ExtensionSteps, ExtensionLoadOld, ExtensionTruncate, ExtensionWrite,
     ExtensionUnlink, ExtensionLoad, ReloadExtensions, setDND, StoreDND
<1>4. CASE ConfigSteps(r) \/ BackupSteps(r)
  BY <1>4 DEF ConfigSteps, EditConfig, ReloadConfig, BackupSteps, ExportConfig,
     ExportExtensions, SnapshotTo
<1>5. CASE Reopen(r) \/ ReopenFails(r) \/ Redirect(r)
  BY <1>0, <1>5 DEF Reopen, ReopenFails, Redirect, Places
<1>6. CASE CloseStore(r) \/ validateArchive(r) \/ RestoreFails(r) \/ RestoreConfig(r) \/ RestoreDb(r)
           \/ cleanDir(r) \/ RestoreExtensions(r) \/ RestoreAssets(r) \/ ReopenClose(r)
  <2>1. \E place \in Restoring : Goto(r, place)
    BY <1>6 DEF RestoreConfig, RestoreDb, cleanDir, AfterClean, RestoreExtensions,
       validateArchive, RestoreFails, CloseStore, RestoreAssets, ReopenClose
  <2>2. Restoring \subseteq Places
    BY DEF Places
  <2> HIDE DEF Restoring
  <2> QED
    BY <1>0, <2>1, <2>2
<1> QED
  BY <1>1, <1>2, <1>3, <1>4, <1>5, <1>6 DEF Step, Handle, RestoreSteps

\* A restore puts back one file after the other, and each step that counts
\* finds what the steps before it have left.
LEMMA StageStep ==
    ASSUME Types, NEW r \in Requests, Handle(r), r.op = "restore", Staged(r)
    PROVE  Staged(r)'
<1> DEFINE Stay == UNCHANGED <<cfg, cfgFile, extFile, tables, db>>
           j == job[r]
           i == job'[r]
<1> USE DEF At_, KeepServer, KeepRest, KeepFiles, storeVars, trunkVars
<1>1. /\ JobsOK /\ StoreTypeOK /\ j \in Job /\ Fits(j.at, "restore", j.ext)
      /\ j.next \in 1..4 /\ Len(Parts) = 4
      /\ extFile \in ExtFiles /\ tables \in Tables
  BY DEF Types, FilesOK, JobsOK, PlacedAt, Job, Parts
<1>2. ASSUME NEW place \in Places, Goto(r, place)
      PROVE  i.at = place /\ i.ext = j.ext /\ i.next = j.next /\ i.files = j.files
  BY <1>1, <1>2, GotoStep
<1>3. ASSUME Done(r) PROVE Staged(r)'
  <2>1. i.at = "done" /\ i.next = 1
    BY <1>1, <1>3, DoneStep DEF NoJob
  <2> QED
    BY <2>1 DEF Staged, WroteCfg, WroteDb, WroteAll, LoadedCfg, LoadedFiles, LoadedAll
<1>4. ASSUME i.at \notin WroteCfg, i.next = j.next, j.at \notin LoadedFiles PROVE Staged(r)'
  BY <1>4 DEF Staged, WroteCfg, WroteDb, WroteAll, LoadedCfg, LoadedFiles, LoadedAll
<1>5. ASSUME Stay, i.at \in WroteAll \ LoadedCfg, j.at \in WroteAll \ LoadedCfg,
             i.files = j.files, i.next = j.next
      PROVE  Staged(r)'
  BY <1>5 DEF Staged, WroteCfg, WroteDb, WroteAll, LoadedCfg, LoadedFiles, LoadedAll
<1>6. CASE GroupSteps(r)
  BY <1>1, <1>6 DEF Fits, GroupSteps, GroupInsert, GroupFind, GroupUpdate, GroupMembers, HuntGet,
     HuntReferenced, GroupDeleteMembers, GroupDeleteRow, handleTrunkRouteSave
<1>7. CASE ExtensionLoadOld(r) \/ ExtensionTruncate(r) \/ ExtensionWrite(r) \/ ExtensionUnlink(r)
           \/ setDND(r) \/ StoreDND(r) \/ EditConfig(r)
  BY <1>1, <1>7 DEF Fits, ExtensionLoadOld, ExtensionTruncate, ExtensionWrite, ExtensionUnlink,
     setDND, StoreDND, EditConfig
<1>8. CASE ReloadConfig(r)
  <2>1. CASE Goto(r, "load") /\ UpdateConfig(cfgFile)
    <3>1. i.at = "load" /\ i.ext = j.ext /\ i.next = j.next /\ i.files = j.files
      BY <1>2, <2>1 DEF Places
    <3> QED
      BY <1>8, <2>1, <3>1 DEF ReloadConfig, UpdateConfig, Staged, WroteCfg, WroteDb, WroteAll,
         LoadedCfg, LoadedFiles, LoadedAll
  <2> QED
    BY <1>3, <1>8, <2>1 DEF ReloadConfig
<1>9. CASE ExtensionLoad(r)
  <2>1. /\ i.at = "reload" /\ i.ext = LoadExtensions(extFile)
        /\ i.next = j.next /\ i.files = j.files
    BY <1>1, <1>9 DEF ExtensionLoad, Requests, Job
  <2>2. j.at = "load" /\ Stay
    BY <1>9 DEF ExtensionLoad
  <2>3. j.next = 1
    BY <2>2 DEF Staged, LoadedFiles, LoadedAll
  <2> QED
    BY <2>1, <2>2, <2>3 DEF Staged, WroteCfg, WroteDb, WroteAll, LoadedCfg, LoadedFiles, LoadedAll
<1>10. CASE ReloadExtensions(r)
  <2> DEFINE part == Parts[j.next]
  <2>1. /\ j.at = "reload" /\ UNCHANGED <<cfg, cfgFile, extFile, db>>
        /\ tables' = [tables EXCEPT ![part] = TablesFor(j.ext)[part]]
    BY <1>10 DEF ReloadExtensions
  <2>2. /\ cfgFile = j.files.cfg /\ db = j.files.db /\ extFile = j.files.ext /\ cfg = cfgFile
        /\ j.ext = LoadExtensions(extFile)
        /\ \A k \in 1..(j.next - 1) : tables[Parts[k]] = TablesFor(j.ext)[Parts[k]]
    BY <2>1 DEF Staged, WroteCfg, WroteDb, WroteAll, LoadedCfg, LoadedFiles, LoadedAll
  <2>3. DOMAIN tables = {"pbx", "registrar", "messages", "presence"}
    BY <1>1 DEF Tables
  <2>4. \A k \in 1..j.next : tables'[Parts[k]] = TablesFor(j.ext)[Parts[k]]
    <3> SUFFICES ASSUME NEW k \in 1..j.next
                 PROVE  tables'[Parts[k]] = TablesFor(j.ext)[Parts[k]]
      OBVIOUS
    <3>1. Parts[k] \in {"pbx", "registrar", "messages", "presence"}
      BY <1>1 DEF Parts
    <3>2. CASE Parts[k] = part
      BY <2>1, <2>3, <3>1, <3>2
    <3>3. CASE Parts[k] # part
      <4>1. k \in 1..(j.next - 1)
        BY <1>1, <3>3
      <4> QED
        BY <2>1, <2>2, <2>3, <3>1, <3>3, <4>1
    <3> QED
      BY <3>2, <3>3
  <2>5. CASE j.next < Len(Parts)
    <3>1. /\ i.at = "reload" /\ i.ext = j.ext /\ i.next = j.next + 1 /\ i.files = j.files
      BY <1>1, <1>10, <2>5 DEF ReloadExtensions, Requests, Job
    <3>2. 1..(i.next - 1) = 1..j.next
      BY <1>1, <3>1
    <3> QED
      BY <2>1, <2>2, <2>4, <3>1, <3>2 DEF Staged, WroteCfg, WroteDb, WroteAll, LoadedCfg,
         LoadedFiles, LoadedAll
  <2>6. CASE ~(j.next < Len(Parts))
    <3>1. Goto(r, "restored")
      BY <1>10, <2>6 DEF ReloadExtensions
    <3>2. i.at = "restored" /\ i.ext = j.ext /\ i.files = j.files
      BY <1>2, <3>1 DEF Places
    <3>3. j.next = 4
      BY <1>1, <2>6
    <3>4. \A part_ \in {"pbx", "registrar", "messages", "presence"} :
              tables'[part_] = TablesFor(j.ext)[part_]
      BY <2>4, <3>3 DEF Parts
    <3>5. tables' = TablesFor(j.ext)
      <4>1. /\ DOMAIN tables' = {"pbx", "registrar", "messages", "presence"}
            /\ tables' = [q \in DOMAIN tables' |-> tables'[q]]
        BY <2>1, <2>3
      <4>2. TablesFor(j.ext) = [q \in {"pbx", "registrar", "messages", "presence"} |->
                                   TablesFor(j.ext)[q]]
        BY DEF TablesFor
      <4> QED
        BY <3>4, <4>1, <4>2
    <3> QED
      BY <2>1, <2>2, <3>2, <3>5 DEF Staged, WroteCfg, WroteDb, WroteAll, LoadedCfg,
         LoadedFiles, LoadedAll
  <2> QED
    BY <2>5, <2>6
<1>11. CASE BackupSteps(r)
  <2>1. j.at \notin LoadedFiles
    BY <1>11 DEF BackupSteps, ExportConfig, ExportExtensions, SnapshotTo, LoadedFiles, LoadedAll
  <2>2. CASE ExportConfig(r) \/ ExportExtensions(r)
    <3>1. i.at \in {"readExtensions", "snapshot"} /\ i.next = j.next
      BY <1>1, <2>2 DEF ExportConfig, ExportExtensions, Requests, Job
    <3> QED
      BY <1>4, <2>1, <3>1 DEF WroteCfg, WroteDb, WroteAll, LoadedCfg, LoadedFiles, LoadedAll
  <2> QED
    BY <1>3, <1>11, <2>2 DEF BackupSteps, SnapshotTo
<1>12. CASE CloseStore(r) \/ validateArchive(r) \/ RestoreFails(r)
  <2>1. /\ j.at \notin LoadedFiles
        /\ \E place \in {"validate", "truncateConfig", "giveUp"} : Goto(r, place)
    BY <1>12 DEF CloseStore, validateArchive, RestoreFails, Writes, LoadedFiles, LoadedAll
  <2>2. i.at \in {"validate", "truncateConfig", "giveUp"} /\ i.next = j.next
    BY <1>2, <2>1 DEF Places, Restoring, Writes
  <2> QED
    BY <1>4, <2>1, <2>2 DEF WroteCfg, WroteDb, WroteAll, LoadedCfg, LoadedFiles, LoadedAll
<1>13. CASE RestoreConfig(r) \/ RestoreDb(r)
  <2>1. {"writeConfig", "truncateDb", "writeDb", "clean"} \subseteq Places
    BY DEF Places, Restoring, Writes
  <2>2. CASE j.at = "truncateConfig"
    BY <1>2, <1>4, <1>13, <2>1, <2>2
    DEF RestoreConfig, RestoreDb, WroteCfg, WroteDb, WroteAll, LoadedCfg, LoadedFiles, LoadedAll
  <2>3. CASE j.at # "truncateConfig"
    BY <1>2, <1>13, <2>1, <2>3
    DEF RestoreConfig, RestoreDb, Staged, WroteCfg, WroteDb, WroteAll, LoadedCfg, LoadedFiles,
        LoadedAll
  <2> QED
    BY <2>2, <2>3
<1>14. CASE cleanDir(r) \/ RestoreExtensions(r)
  <2>1. {"assets", "truncateExt", "writeExt"} \subseteq Places
    BY DEF Places, Restoring, Writes
  <2> QED
    BY <1>2, <1>14, <2>1
    DEF cleanDir, RestoreExtensions, AfterClean, Staged, WroteCfg, WroteDb, WroteAll, LoadedCfg,
        LoadedFiles, LoadedAll
<1>15. CASE RestoreAssets(r) \/ ReopenClose(r) \/ Reopen(r) \/ ReopenFails(r)
  <2>1. {"reopen", "opening", "openingAnyway", "loadConfig", "unopened"} \subseteq Places
    BY DEF Places, Restoring, Writes
  <2>2. CASE \/ RestoreAssets(r)
             \/ At_(r, "reopen") /\ Goto(r, "opening")
             \/ At_(r, "opening") /\ Goto(r, "loadConfig")
    BY <1>2, <1>5, <1>15, <2>1, <2>2
    DEF RestoreAssets, ReopenClose, Reopen, ReopenFails, WroteAll, LoadedCfg, LoadedFiles, LoadedAll
  <2>3. CASE (At_(r, "giveUp") /\ Goto(r, "openingAnyway")) \/ ReopenFails(r)
    <3>1. j.at \in {"giveUp", "opening", "openingAnyway"} /\ i.at \in {"openingAnyway", "unopened"}
          /\ i.next = j.next
      BY <1>2, <2>1, <2>3 DEF ReopenFails
    <3> QED
      BY <1>4, <3>1 DEF WroteCfg, WroteDb, WroteAll, LoadedCfg, LoadedFiles, LoadedAll
  <2> QED
    BY <1>3, <1>15, <2>2, <2>3 DEF ReopenClose, Reopen
<1>16. CASE Redirect(r)
  BY <1>3, <1>16 DEF Redirect
<1> QED
  BY <1>6, <1>7, <1>8, <1>9, <1>10, <1>11, <1>12, <1>13, <1>14, <1>15, <1>16
  DEF Handle, ExtensionSteps, ConfigSteps, RestoreSteps

RInv == AInv /\ StoreOpen /\ Sole /\ Stages

\* Each step keeps the three.
LEMMA RInvNext == RInv /\ [Next]_vars => RInv'
<1> SUFFICES ASSUME RInv, [Next]_vars PROVE RInv'
  OBVIOUS
<1>1. AInv'
  BY AInvNext DEF RInv
<1>2. ASSUME UNCHANGED <<cfg, storeVars, adminVars>> PROVE RInv'
  BY <1>1, <1>2
  DEF RInv, storeVars, adminVars, StoreOpen, Sole, Stages, Staged, InProgress, Requests
<1>3. ASSUME NEW r \in Requests, Step(r) PROVE RInv'
  <2>1. Requests' = Requests /\ \A s \in Requests : s # r => job'[s] = job[s]
    BY <1>3, OwnStep
  <2>2. StoreOpen'
    <3>1. CASE job'[r].at \in Restoring \cup {"unopened"}
      BY <2>1, <3>1 DEF StoreOpen
    <3>2. CASE UNCHANGED open /\ job[r].at \notin Restoring \cup {"unopened"}
      BY <2>1, <3>2 DEF RInv, StoreOpen
    <3> QED
      BY <1>3, <3>1, <3>2, OpenStep DEF RInv, AInv, StoreOpen
  <2>3. CASE Handle(r)
    <3>1. InProgress(r) /\ alone' = alone
      BY <2>3, HandleStep
    <3>2. \A q \in alone : InProgress(q) => q = r
      BY <3>1 DEF RInv, Sole
    <3>3. alone \subseteq Requests
      BY DEF RInv, AInv, Types, JobsOK
    <3>4. Sole'
      BY <2>1, <3>1, <3>2, <3>3 DEF RInv, Sole, InProgress
    <3>5. ASSUME NEW q \in alone, q.op = "restore" PROVE Staged(q)'
      <4>1. Staged(q)
        BY <3>5 DEF RInv, Stages
      <4>2. CASE q = r
        BY <2>3, <3>5, <4>1, <4>2, StageStep DEF RInv, AInv
      <4>3. CASE q # r
        <5>1. job'[q] = job[q] /\ job[q].at \in {"new", "done", "unopened"}
          BY <2>1, <3>2, <3>3, <4>3 DEF InProgress
        <5> QED
          BY <4>1, <5>1 DEF Staged, WroteCfg, WroteDb, WroteAll, LoadedCfg, LoadedFiles, LoadedAll
      <4> QED
        BY <4>2, <4>3
    <3>6. Stages'
      BY <3>1, <3>5 DEF Stages
    <3> QED
      BY <1>1, <2>2, <3>4, <3>6 DEF RInv
  <2>4. CASE Begin(r) \/ BeginRestore(r) \/ BeginOnGroup(r)
    <3>1. alone' = IF \E s \in Requests : InProgress(s) THEN {} ELSE {r}
      BY <2>4, ArriveStep
    <3>2. Sole'
      BY <2>1, <3>1 DEF Sole, InProgress
    <3>3. ASSUME r.op = "restore" PROVE Staged(r)'
      <4>1. job' = [job EXCEPT ![r] = [NoJob EXCEPT !.at = First[r.op], !.files = archive]]
        BY <2>4, <3>3 DEF Begin, BeginRestore, BeginOnGroup, Arrive
      <4>2. job'[r].at = "close" /\ job'[r].next = 1
        <5>1. job'[r] = [NoJob EXCEPT !.at = First[r.op], !.files = archive]
          BY <4>1 DEF Requests
        <5>2. First[r.op] = "close"
          BY <3>3 DEF First
        <5> QED
          BY <5>1, <5>2 DEF NoJob
      <4> QED
        BY <4>2 DEF Staged, WroteCfg, WroteDb, WroteAll, LoadedCfg, LoadedFiles, LoadedAll
    <3>4. Stages'
      BY <3>1, <3>3 DEF Stages
    <3> QED
      BY <1>1, <2>2, <3>2, <3>4 DEF RInv
  <2> QED
    BY <1>3, <2>3, <2>4 DEF Step
<1>4. CASE TrunkNext /\ UNCHANGED <<storeVars, adminVars>>
  <2>1. UNCHANGED cfg
    BY <1>4, TrunkStep DEF RInv, AInv
  <2> QED
    BY <1>2, <1>4, <2>1
<1>5. CASE UNCHANGED vars
  BY <1>2, <1>5 DEF vars, trunkVars
<1> QED
  BY <1>3, <1>4, <1>5 DEF Next, Step

\* However many restores overlap with each other and with other requests, and
\* wherever each of them fails, the database is only closed while one of them is
\* at work, and one that reports success and that nobody overlapped has put back
\* every file and every table of the server (web/backup.go, backup/restore.go).
THEOREM Restored == Spec => []RestoreCompletes
<1>1. Init => RInv
  BY AInvInit DEF Init, Open, RInv, StoreOpen, Sole, Stages
<1>2. RInv => RestoreCompletes
  <2> SUFFICES ASSUME RInv PROVE RestoreCompletes
    OBVIOUS
  <2>1. ASSUME NEW r \in alone, job[r].at = "restored"
        PROVE  /\ cfgFile = job[r].files.cfg /\ cfg = cfgFile
               /\ db = job[r].files.db
               /\ extFile = job[r].files.ext /\ tables = TablesFor(LoadExtensions(extFile))
    <3>1. r \in Requests /\ Fits("restored", r.op, job[r].ext)
      BY <2>1 DEF RInv, AInv, Types, JobsOK, PlacedAt
    <3>2. Staged(r)
      BY <3>1 DEF Fits, RInv, Stages
    <3> QED
      BY <2>1, <3>2 DEF Staged, WroteCfg, WroteDb, WroteAll, LoadedCfg, LoadedFiles, LoadedAll
  <2> QED
    BY <2>1 DEF RInv, RestoreCompletes, RestoredWhole
<1> QED
  BY <1>1, <1>2, RInvNext, PTL DEF Spec

=============================================================================
