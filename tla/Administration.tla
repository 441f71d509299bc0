-------------------------- MODULE Administration --------------------------
(***************************************************************************)
(* The web administration (internal/web) with the files and tables its     *)
(* requests change: config.toml, the extension files, the database, backup *)
(* archives (internal/backup), and the configuration and extension tables  *)
(* of the running server (internal/pbx, internal/trunk).  Every request    *)
(* runs in a goroutine of its own and no lock spans its steps; the star    *)
(* code for do-not-disturb, which writes an extension file too, and the    *)
(* operator's editor are requests here as well.                            *)
(*                                                                         *)
(* One extension is followed.  Its file, and what a table knows of it, is  *)
(* its do-not-disturb flag, or "none" when it is not there.  A file is     *)
(* truncated before it is written: config.toml then reads as a             *)
(* configuration without trunks, an extension file as an error.  A write   *)
(* that fails has written nothing and leaves the file truncated.  Music on *)
(* hold and the phone book in an archive are only followed as far as their *)
(* files can fail to be written.                                           *)
(***************************************************************************)
EXTENDS TrunkKeepalive, Store, Sequences

CONSTANT Plans       \* what is asked of the server: a configuration and requests

VARIABLES job,       \* request -> where its goroutine is and what it holds
          alone,     \* requests no other request has overlapped so far
          cfgFile,   \* config.toml
          extFile,   \* the extension's .toml file
          tables,    \* what the parts of the server know of the extension
          archive    \* the backup somebody has downloaded

adminVars == <<job, alone, cfgFile, extFile, tables, archive>>
vars == <<trunkVars, storeVars, adminVars>>

Requests == DOMAIN job

\* A file of config.toml, what LoadConfig and Validate make of it.
Configs == [Trunks -> Modes]
Off == [t \in Trunks |-> "off"]
ConfigFiles == Configs \cup {null}   \* null: a file that does not validate

ExtFiles == {"none", "empty", "off", "on"}
Archives == [cfg : ConfigFiles, ext : ExtFiles, db : Databases]

\* LoadExtensions: one file that cannot be read leaves no table at all (nil).
LoadExtensions(file) == IF file = "empty" THEN "nil" ELSE file
KnownTo(ext) == IF ext \in {"off", "on"} THEN "known" ELSE "none"

\* A request: a group's form, a route, an extension's form or star code, the
\* operator's edit, or one without parameters (n tells two of them apart).
Asked == [op : {"create", "update", "delete"}, table : GroupTables, number : Numbers]
         \cup [op : {"route"}, number : Numbers]
         \cup [op : {"save"}, password : BOOLEAN]
         \cup [op : {"dnd"}, on : {"off", "on"}]
         \cup [op : {"edit"}, cfg : ConfigFiles]
         \cup [op : {"remove", "reload", "download", "restore"}, n : Nat]

ASSUME PlansAssumption ==
    /\ \A p \in Plans : p.cfg \in Configs /\ p.requests \subseteq Asked
    /\ null \notin Configs \cup Archives

Parts == <<"pbx", "registrar", "messages", "presence">>
TablesFor(ext) ==
    [p \in {"pbx", "registrar", "messages", "presence"} |->
        IF p = "pbx" THEN ext ELSE KnownTo(ext)]

Writes == {"truncateConfig", "writeConfig", "truncateDb", "writeDb", "clean",
           "truncateExt", "writeExt", "assets"}
Restoring == {"validate", "reopen", "opening", "giveUp", "openingAnyway"} \cup Writes
Places == {"new", "done", "insert", "find", "members", "update", "get", "referenced",
           "deleteMembers", "deleteRow", "route", "loadOld", "truncate", "write",
           "unlink", "load", "reload", "setDND", "store", "panic", "loadConfig",
           "readConfig", "readExtensions", "snapshot", "close", "restored", "edit",
           "unopened"}
          \cup Restoring

NoJob == [at |-> "new", id |-> 0, birth |-> 0, number |-> null, ext |-> "none",
          next |-> 1, files |-> [cfg |-> Off, ext |-> "none", db |-> migrate]]

TypeOK ==
    /\ TrunkTypeOK /\ StoreTypeOK
    /\ \E p \in Plans : Requests = p.requests
    /\ \A r \in Requests :
          job[r] \in [at : Places, id : 0..MaxId, birth : Nat, number : Numbers \cup {null},
                      ext : ExtFiles \cup {"nil"}, next : 1..Len(Parts), files : Archives]
    /\ alone \subseteq Requests
    /\ cfgFile \in ConfigFiles /\ extFile \in ExtFiles
    /\ tables.pbx \in {"nil", "none", "off", "on"}
    /\ \A i \in 2..Len(Parts) : tables[Parts[i]] \in {"none", "known"}
    /\ archive \in Archives \cup {null}

Init ==
    /\ \E p \in Plans :
          /\ cfg = p.cfg /\ cfgFile = p.cfg
          /\ job = [r \in p.requests |-> NoJob]
    /\ TrunkInit /\ Open
    /\ alone = {}
    /\ extFile = "off"
    /\ tables = TablesFor("off")
    /\ archive = null

---------------------------------------------------------------------------
(* Steps of a request *)

InProgress(r) == job[r].at \notin {"new", "done", "unopened"}
At_(r, place) == job[r].at = place
Goto(r, place) == job' = [job EXCEPT ![r].at = place]
Done(r) == job' = [job EXCEPT ![r] = [NoJob EXCEPT !.at = "done"]]

\* Everything but the request's own record.
KeepFiles == UNCHANGED <<alone, cfgFile, extFile, tables, archive>>
KeepServer == UNCHANGED <<trunkVars, storeVars>>

First == [create |-> "insert", update |-> "update", route |-> "route", save |-> "loadOld",
          remove |-> "unlink", dnd |-> "setDND", reload |-> "loadConfig",
          download |-> "readConfig", restore |-> "close", edit |-> "edit"]

\* A request comes in.  A group is updated or deleted by an id of the page the
\* administrator has seen, an archive is one that was downloaded before.
Arrive(r, started) ==
    /\ job[r].at = "new"
    /\ job' = [job EXCEPT ![r] = started]
    /\ alone' = IF \E s \in Requests : InProgress(s) THEN {} ELSE {r}
    /\ UNCHANGED <<cfgFile, extFile, tables, archive>> /\ KeepServer

Begin(r) ==
    /\ r.op \in DOMAIN First \ {"update", "restore"}
    /\ Arrive(r, [NoJob EXCEPT !.at = First[r.op]])

BeginRestore(r) ==
    /\ r.op = "restore" /\ archive # null
    /\ Arrive(r, [NoJob EXCEPT !.at = First[r.op], !.files = archive])

BeginOnGroup(r) ==
    /\ r.op \in {"update", "delete"}
    /\ \E id \in Present(r.table) :
          Arrive(r, [NoJob EXCEPT
              !.at = IF r.op = "update" THEN "update"
                     ELSE IF r.table = "hunt" THEN "get" ELSE "deleteMembers",
              !.id = id, !.birth = db.row[r.table][id].birth])

---------------------------------------------------------------------------
(* Hunt and paging groups, trunk routes *)

KeepRest == KeepFiles /\ UNCHANGED <<trunkVars, open>>

GroupInsert(r) ==
    /\ At_(r, "insert") /\ CreateGroup(r.table, r.number)
    /\ Goto(r, "find") /\ KeepRest

\* GetHuntGroupByNumber, GetPagingByCode: the new group, or an older one with
\* the same number, whose members are then replaced.
GroupFind(r) ==
    /\ At_(r, "find")
    /\ \/ /\ ~open \/ WithNumber(r.table, r.number) = {}
          /\ Done(r)
       \/ /\ open
          /\ \E id \in WithNumber(r.table, r.number) :
                job' = [job EXCEPT ![r].at = "members", ![r].id = id,
                                   ![r].birth = db.row[r.table][id].birth]
    /\ KeepRest /\ UNCHANGED <<db, born>>

GroupUpdate(r) ==
    /\ At_(r, "update") /\ UpdateGroup(r.table, job[r].id, r.number)
    /\ Goto(r, "members") /\ KeepRest /\ UNCHANGED born

GroupMembers(r) ==
    /\ At_(r, "members") /\ SetMembers(r.table, job[r].id, job[r].birth)
    /\ Done(r) /\ KeepRest /\ UNCHANGED born

\* handleHuntDelete: no group found, or no answer from the database, is no
\* reason to stop.
HuntGet(r) ==
    /\ At_(r, "get")
    /\ job' = IF open /\ job[r].id \in Present("hunt")
              THEN [job EXCEPT ![r].at = "referenced",
                               ![r].number = db.row["hunt"][job[r].id].number]
              ELSE [job EXCEPT ![r].at = "deleteMembers"]
    /\ KeepFiles /\ KeepServer

HuntReferenced(r) ==
    /\ At_(r, "referenced")
    /\ IF HuntGroupReferenced(job[r].number) THEN Done(r) ELSE Goto(r, "deleteMembers")
    /\ KeepFiles /\ KeepServer

GroupDeleteMembers(r) ==
    /\ At_(r, "deleteMembers") /\ DeleteMembers(r.table, job[r].id)
    /\ IF open THEN Goto(r, "deleteRow") ELSE Done(r)
    /\ KeepRest /\ UNCHANGED born

GroupDeleteRow(r) ==
    /\ At_(r, "deleteRow") /\ DeleteRow(r.table, job[r].id)
    /\ Done(r) /\ KeepRest /\ UNCHANGED born

handleTrunkRouteSave(r) ==
    /\ At_(r, "route") /\ SaveTrunkRoute(r.number)
    /\ Done(r) /\ KeepRest /\ UNCHANGED born

---------------------------------------------------------------------------
(* Extensions *)

\* handleExtensionSave keeps the flag, and the password when the form leaves it
\* blank, of the file it can read; without a password it gives up.
ExtensionLoadOld(r) ==
    /\ At_(r, "loadOld")
    /\ LET old == LoadExtensions(extFile)
       IN  IF old \in {"off", "on"}
           THEN job' = [job EXCEPT ![r].at = "truncate", ![r].ext = old]
           ELSE IF r.password
           THEN job' = [job EXCEPT ![r].at = "truncate", ![r].ext = "off"]
           ELSE Done(r)
    /\ KeepFiles /\ KeepServer

\* os.Create, in handleExtensionSave and SaveExtension; it may fail.
ExtensionTruncate(r) ==
    /\ At_(r, "truncate")
    /\ \/ Goto(r, "write") /\ extFile' = "empty"
       \/ Done(r) /\ UNCHANGED extFile
    /\ UNCHANGED <<alone, cfgFile, tables, archive>> /\ KeepServer

\* handleExtensionSave ignores an encoder that fails, setDND gives up.
ExtensionWrite(r) ==
    /\ At_(r, "write")
    /\ \/ /\ extFile' = job[r].ext
          /\ Goto(r, IF r.op = "dnd" THEN "store" ELSE "load")
       \/ /\ UNCHANGED extFile
          /\ IF r.op = "dnd" THEN Done(r) ELSE Goto(r, "load")
    /\ UNCHANGED <<alone, cfgFile, tables, archive>> /\ KeepServer

\* The error of os.Remove is ignored as well.
ExtensionUnlink(r) ==
    /\ At_(r, "unlink")
    /\ extFile' \in {"none", extFile} /\ Goto(r, "load")
    /\ UNCHANGED <<alone, cfgFile, tables, archive>> /\ KeepServer

\* loadExtensions, whose error every caller ignores.
ExtensionLoad(r) ==
    /\ At_(r, "load")
    /\ job' = [job EXCEPT ![r].at = "reload", ![r].ext = LoadExtensions(extFile)]
    /\ KeepFiles /\ KeepServer

\* ReloadExtensions replaces four tables, one after the other.
ReloadExtensions(r) ==
    /\ At_(r, "reload")
    /\ LET part == Parts[job[r].next]
       IN  tables' = [tables EXCEPT ![part] = TablesFor(job[r].ext)[part]]
    /\ IF job[r].next < Len(Parts) THEN job' = [job EXCEPT ![r].next = @ + 1]
       ELSE IF r.op = "restore" THEN Goto(r, "restored") ELSE Done(r)
    /\ UNCHANGED <<alone, cfgFile, extFile, archive>> /\ KeepServer

\* handleDND and setDND: memory first, then the file, then the table that is
\* in use by now.  Writing into a nil table is a panic that ends the server.
\* A phone sends one such code at a time.
setDND(r) ==
    /\ At_(r, "setDND")
    /\ IF tables.pbx \in {"off", "on"}
       THEN /\ tables' = [tables EXCEPT !.pbx = r.on]
            /\ job' = [job EXCEPT ![r].at = "truncate", ![r].ext = r.on]
       ELSE Done(r) /\ UNCHANGED tables
    /\ UNCHANGED <<alone, cfgFile, extFile, archive>> /\ KeepServer

\* The other tables that are the same map get an extension that was missing too;
\* which ones are depends on the reloads that overlapped, so any may be.
StoreDND(r) ==
    /\ At_(r, "store")
    /\ IF tables.pbx = "nil" THEN Goto(r, "panic") /\ UNCHANGED tables
       ELSE /\ Done(r)
            /\ \E same \in IF tables.pbx = "none" THEN SUBSET {"registrar", "messages", "presence"}
                           ELSE {{}} :
                  tables' = [p \in DOMAIN tables |-> IF p = "pbx" THEN r.on
                                 ELSE IF p \in same THEN "known" ELSE tables[p]]
    /\ UNCHANGED <<alone, cfgFile, extFile, archive>> /\ KeepServer

---------------------------------------------------------------------------
(* Configuration *)

\* The operator saves config.toml.
EditConfig(r) ==
    /\ At_(r, "edit")
    /\ cfgFile' = r.cfg /\ Done(r)
    /\ UNCHANGED <<alone, extFile, tables, archive>> /\ KeepServer

\* LoadConfig and ReloadConfig, in handleReload and at the end of a restore; a
\* file that does not validate changes nothing.
ReloadConfig(r) ==
    /\ At_(r, "loadConfig")
    /\ IF cfgFile = null THEN Done(r) /\ UNCHANGED cfg
       ELSE Goto(r, "load") /\ UpdateConfig(cfgFile)
    /\ KeepFiles /\ UNCHANGED <<reconciling, want, active, task, storeVars>>

---------------------------------------------------------------------------
(* Backup *)

ExportConfig(r) ==
    /\ At_(r, "readConfig")
    /\ job' = [job EXCEPT ![r].at = "readExtensions", ![r].files.cfg = cfgFile]
    /\ KeepFiles /\ KeepServer

ExportExtensions(r) ==
    /\ At_(r, "readExtensions")
    /\ job' = [job EXCEPT ![r].at = "snapshot", ![r].files.ext = extFile]
    /\ KeepFiles /\ KeepServer

\* Wrong: a download goes on without a database when VACUUM INTO fails.
SnapshotTo_ignoresError(r) ==
    /\ At_(r, "snapshot")
    /\ archive' = [job[r].files EXCEPT !.db = IF open THEN db ELSE null]
    /\ Done(r)
    /\ UNCHANGED <<alone, cfgFile, extFile, tables>> /\ KeepServer

\* VACUUM INTO fails on a closed handle, and with it the download.
SnapshotTo(r) ==
    /\ At_(r, "snapshot")
    /\ archive' = IF open THEN [job[r].files EXCEPT !.db = db] ELSE archive
    /\ Done(r)
    /\ UNCHANGED <<alone, cfgFile, extFile, tables>> /\ KeepServer

---------------------------------------------------------------------------
(* Restore *)

CloseStore(r) ==
    /\ At_(r, "close")
    /\ open' = FALSE /\ Goto(r, "validate")
    /\ KeepFiles /\ UNCHANGED <<trunkVars, db, born>>

validateArchive(r) ==
    /\ At_(r, "validate")
    /\ Goto(r, "truncateConfig") \/ Goto(r, "giveUp")
    /\ KeepFiles /\ KeepServer

\* A file that cannot be opened or written ends Restore where it is.
RestoreFails(r) ==
    /\ job[r].at \in Writes
    /\ Goto(r, "giveUp")
    /\ KeepFiles /\ KeepServer

RestoreConfig(r) ==
    /\ \/ At_(r, "truncateConfig") /\ cfgFile' = Off /\ Goto(r, "writeConfig")
       \/ At_(r, "writeConfig") /\ cfgFile' = job[r].files.cfg /\ Goto(r, "truncateDb")
    /\ UNCHANGED <<alone, extFile, tables, archive>> /\ KeepServer

RestoreDb(r) ==
    /\ \/ At_(r, "truncateDb") /\ db' = migrate /\ Goto(r, "writeDb")
       \/ At_(r, "writeDb") /\ db' = job[r].files.db /\ Goto(r, "clean")
    /\ KeepRest /\ UNCHANGED born

AfterClean(r) == IF job[r].files.ext = "none" THEN "assets" ELSE "truncateExt"

\* Wrong: extension files that are not in the archive stay.
cleanDir_keeps(r) ==
    /\ At_(r, "clean")
    /\ UNCHANGED extFile /\ Goto(r, AfterClean(r))
    /\ UNCHANGED <<alone, cfgFile, tables, archive>> /\ KeepServer

cleanDir(r) ==
    /\ At_(r, "clean")
    /\ extFile' = "none" /\ Goto(r, AfterClean(r))
    /\ UNCHANGED <<alone, cfgFile, tables, archive>> /\ KeepServer

RestoreExtensions(r) ==
    /\ \/ At_(r, "truncateExt") /\ extFile' = "empty" /\ Goto(r, "writeExt")
       \/ At_(r, "writeExt") /\ extFile' = job[r].files.ext /\ Goto(r, "assets")
    /\ UNCHANGED <<alone, cfgFile, tables, archive>> /\ KeepServer

RestoreAssets(r) ==
    /\ At_(r, "assets") /\ Goto(r, "reopen")
    /\ KeepFiles /\ KeepServer

\* Reopen, after a restore and after one that failed, closes whatever handle
\* another restore has opened by then ...
ReopenClose(r) ==
    /\ \/ At_(r, "reopen") /\ Goto(r, "opening")
       \/ At_(r, "giveUp") /\ Goto(r, "openingAnyway")
    /\ open' = FALSE
    /\ KeepFiles /\ UNCHANGED <<trunkVars, db, born>>

\* ... and replaces it by a new one.  When migrate then fails a restore answers
\* 500 and reloads nothing.
Reopen(r) ==
    /\ \/ At_(r, "opening") /\ (Goto(r, "loadConfig") \/ Done(r))
       \/ At_(r, "openingAnyway") /\ Done(r)
    /\ open' = TRUE
    /\ KeepFiles /\ UNCHANGED <<trunkVars, db, born>>

\* An error of Close or of sql.Open leaves the closed handle in place.
ReopenFails(r) ==
    /\ job[r].at \in {"opening", "openingAnyway"}
    /\ Goto(r, "unopened")
    /\ KeepFiles /\ KeepServer

Redirect(r) == At_(r, "restored") /\ Done(r) /\ KeepFiles /\ KeepServer

---------------------------------------------------------------------------

GroupSteps(r) ==
    \/ GroupInsert(r) \/ GroupFind(r) \/ GroupUpdate(r) \/ GroupMembers(r) \/ HuntGet(r)
    \/ HuntReferenced(r) \/ GroupDeleteMembers(r) \/ GroupDeleteRow(r) \/ handleTrunkRouteSave(r)

ExtensionSteps(r) ==
    \/ ExtensionLoadOld(r) \/ ExtensionTruncate(r) \/ ExtensionWrite(r) \/ ExtensionUnlink(r)
    \/ ExtensionLoad(r) \/ ReloadExtensions(r) \/ setDND(r) \/ StoreDND(r)

ConfigSteps(r) == EditConfig(r) \/ ReloadConfig(r)

BackupSteps(r) == ExportConfig(r) \/ ExportExtensions(r) \/ SnapshotTo(r)

RestoreSteps(r) ==
    \/ CloseStore(r) \/ validateArchive(r) \/ RestoreFails(r) \/ RestoreConfig(r) \/ RestoreDb(r)
    \/ cleanDir(r) \/ RestoreExtensions(r) \/ RestoreAssets(r) \/ ReopenClose(r) \/ Reopen(r)
    \/ ReopenFails(r) \/ Redirect(r)

Handle(r) ==
    GroupSteps(r) \/ ExtensionSteps(r) \/ ConfigSteps(r) \/ BackupSteps(r) \/ RestoreSteps(r)

Panicked == \E r \in Requests : job[r].at = "panic"

Next ==
    /\ ~Panicked
    /\ \/ TrunkNext /\ UNCHANGED <<storeVars, adminVars>>
       \/ \E r \in Requests : Begin(r) \/ BeginRestore(r) \/ BeginOnGroup(r) \/ Handle(r)

(***************************************************************************)
(* The tickers and timers of the trunk supervisors fire and their          *)
(* goroutines run, as long as the server does.  A registration may last    *)
(* for ever unless it is cancelled.  Nothing is assumed of requests.       *)
(***************************************************************************)
Runs(A) == ~Panicked /\ A /\ UNCHANGED <<storeVars, adminVars>>

Loop(x) == maintainTrunk(x) \/ pingTrunkOptions(x) \/ WaitInterval(x)
EndSession(x) == task[x].cancelled /\ registerSession(x)

Fairness ==
    /\ \A k \in Kinds : WF_vars(Runs(cfgSnapshot(k))) /\ WF_vars(Runs(reconcile(k)))
    /\ \A x \in Tasks : WF_vars(Runs(Loop(x))) /\ WF_vars(Runs(EndSession(x)))

Spec == Init /\ [][Next]_vars /\ Fairness

\* The database is closed only while a restore is at work (web/backup.go), also
\* after one that failed half-way and when several overlap, unless a restore
\* could not open it again and said so.
StoreOpen == open \/ \E r \in Requests : job[r].at \in Restoring \cup {"unopened"}

\* A restore that reports success, and that no other request overlapped, has put
\* back everything: the files, the database and what the running server knows
\* are those of the archive (web/backup.go, backup/restore.go).
RestoredWhole ==
    \A r \in alone : job[r].at = "restored" =>
        /\ cfgFile = job[r].files.cfg /\ cfg = cfgFile
        /\ db = job[r].files.db
        /\ extFile = job[r].files.ext /\ tables = TablesFor(LoadExtensions(extFile))

\* Both together: a restore never leaves the server half of what it was.
RestoreCompletes == StoreOpen /\ RestoredWhole
=============================================================================
