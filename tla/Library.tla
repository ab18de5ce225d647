-------------------------------- MODULE Library --------------------------------
(***************************************************************************)
(* RecordingRepository: the rows of the Room table recordings and the      *)
(* audio files they point to, in the app's recordings directory, in a      *)
(* folder picked through the Storage Access Framework (the tree) and on    *)
(* another volume.                                                         *)
(*                                                                         *)
(* Every operation is a coroutine and nothing excludes two of them: the    *)
(* finalizer of a take (RecordingController.finalizeRecording), the sync   *)
(* that indexes files without a row, the purge of old trash at process     *)
(* start, the permanent deletes, and the read-modify-write edits of a row. *)
(* One action is one DAO call or one file operation.                       *)
(*                                                                         *)
(* A path is a location and a name.  The name of take k in progress,       *)
(* FLAMBO_<ms>.m4a, is k itself; the other names are titles.  A file's     *)
(* content is the audio it holds.                                          *)
(***************************************************************************)
EXTENDS Naturals, FiniteSets

CONSTANTS
    Takes,        \* recordings that will be stopped and saved
    Foreign,      \* audio the user may copy in with a file manager
    Titles,       \* file names other than FLAMBO_<ms>
    Syncs,        \* syncExternalFiles coroutines
    Editors,      \* coroutines running rename, toggleFavorite, softDelete, ...
    Movers,       \* those of them that may run moveToDirectory
    Erasers,      \* coroutines running deletePermanently or emptyTrash
    UseTree,      \* a system folder is picked as the save location
    Serial,       \* TRUE: operations run one at a time and to their end
    MaxRows,      \* bound on the rows ever inserted
    MaxRestarts,  \* bound on process deaths
    None

ASSUME AudioAssumption ==
    /\ Takes \cap Foreign = {} /\ Titles \cap Takes = {}
    /\ None \notin Takes \cup Foreign /\ "partial" \notin Takes \cup Foreign
ASSUME MoverAssumption == Movers \subseteq Editors
ASSUME SwitchAssumption == UseTree \in BOOLEAN /\ Serial \in BOOLEAN
ASSUME BoundAssumption == MaxRows \in Nat /\ MaxRestarts \in Nat

VARIABLES
    disk,      \* what each path holds
    db,        \* the table: a row per id in use
    nextId,    \* SQLite's autoincrement
    fin,       \* finalizer of each take: step, local file, document in the tree
    sync,      \* each sync: step, known, and the files still to look at
    edit,      \* each editor: operation, id, the row it read, and for a move
               \* the target and what the open source holds
    erase,     \* each eraser: ids still to delete, and the one in hand
    purge,     \* purgeOldTrash: step and the rows it still has to delete files of
    boot,      \* onCreate's sync has not begun
    watching,  \* StorageWatcher observes the recordings directory
    debounce,  \* its delayed onChange() is pending
    restarts,  \* process deaths so far
    erased     \* content of the rows whose files were deleted (history)

fileVars  == <<disk, db, nextId, erased>>
watchVars == <<watching, debounce>>
vars == <<fileVars, fin, sync, edit, erase, purge, boot, watchVars, restarts>>

-----------------------------------------------------------------------------
Audio == Takes \cup Foreign
Content == Audio \cup {"partial", None}  \* "partial": a copy cut short
Names == Titles \cup Takes
Paths == {"app", "tree", "vol"} \X Names
Ids == 1 .. MaxRows
\* "of" is history: the audio the row was inserted for.
Row == [path: Paths, of: Content, trashed: BOOLEAN, old: BOOLEAN]

In(loc) == {loc} \X Names
OnDisk(p) == disk[p] # None

\* uniqueDisplayName, moveFile: the file's own name, or when the directory has
\* it already a name "<title> (i)" that it has not
Targets(loc, n) ==
    IF OnDisk(<<loc, n>>) THEN {p \in {loc} \X Titles : ~OnDisk(p)} ELSE {<<loc, n>>}
Stored(a) == \E p \in Paths : disk[p] = a

Rows == {i \in Ids : db[i] # None}
\* (mutant: WHERE isTrashed = 0)
RowPathsActive == {db[i].path : i \in {j \in Rows : ~db[j].trashed}}
RowPaths == {db[i].path : i \in Rows}
Trash == {i \in Rows : db[i].trashed}

TempOf(k) == <<"app", k>>
NewRow(p, a) == [path |-> p, of |-> a, trashed |-> FALSE, old |-> FALSE]
Off == [pc |-> "off"]

Init ==
    /\ disk = [p \in Paths |-> None]
    /\ db = [i \in Ids |-> None]
    /\ nextId = 1
    /\ fin = [k \in Takes |-> [pc |-> "recording", file |-> TempOf(k), doc |-> None]]
    /\ sync = [s \in Syncs |-> Off]
    /\ edit = [e \in Editors |-> Off]
    /\ erase = [x \in Erasers |-> Off]
    /\ purge = [pc |-> "ready", todo |-> {}]
    /\ boot = TRUE
    /\ watching = FALSE
    /\ debounce = FALSE
    /\ restarts = 0
    /\ erased = {}

\* No operation is running.
Idle ==
    /\ \A k \in Takes : fin[k].pc \in {"recording", "done"}
    /\ \A s \in Syncs : sync[s].pc = "off"
    /\ \A e \in Editors : edit[e].pc = "off"
    /\ \A x \in Erasers : erase[x].pc = "off"
    /\ purge.pc \in {"ready", "done"}

MayBegin == Serial => Idle

-----------------------------------------------------------------------------
(* Files and rows.                                                         *)

\* FileObserver: CREATE, DELETE, MOVED_FROM or MOVED_TO in the directory
\* re-arms the debounced onChange().
AppDirEvent(happened) == debounce' = (debounce \/ (watching /\ happened))

\* dao.insert: autoGenerate gives an id that was never used.
Insert(p, a) ==
    /\ nextId \in Ids
    /\ db' = [db EXCEPT ![nextId] = NewRow(p, a)]
    /\ nextId' = nextId + 1

\* (mutant: an upsert)
UpdateUpserts(i, row) == db' = [db EXCEPT ![i] = row]

\* dao.update: nothing when the row is gone.
Update(i, row) == db' = IF db[i] = None THEN db ELSE [db EXCEPT ![i] = row]

\* deleteAudio(path), then deleteSafCopy(name): when a folder is picked, the
\* document of that display name in the tree, whosever it is.
DeletedPaths(p) ==
    {p} \cup IF UseTree /\ p[1] # "tree" THEN {<<"tree", p[2]>>} ELSE {}

DeleteFiles(row) ==
    /\ disk' = [q \in Paths |-> IF q \in DeletedPaths(row.path) THEN None ELSE disk[q]]
    /\ erased' = erased \cup {row.of}
    /\ AppDirEvent(OnDisk(row.path) /\ row.path[1] = "app")

-----------------------------------------------------------------------------
(* finalizeRecording(): rename, move to the tree, insert.                  *)

FinAt(k, step) == fin[k].pc = step
FinGo(k, step, file, doc) ==
    fin' = [fin EXCEPT ![k] = [pc |-> step, file |-> file, doc |-> doc]]
AfterRename == IF UseTree THEN "copy" ELSE "insert"

\* RecordingController.stop() hands over the closed temp file.
TakeStopped(k) ==
    /\ MayBegin
    /\ FinAt(k, "recording")
    /\ disk' = [disk EXCEPT ![TempOf(k)] = k]
    /\ FinGo(k, "choose", TempOf(k), None)
    /\ AppDirEvent(TRUE)
    /\ UNCHANGED <<db, nextId, erased, sync, edit, erase, purge, boot, watching, restarts>>

\* generateTitle(), getUniqueFile(): a name no file has at that moment
ChooseName(k) ==
    /\ FinAt(k, "choose")
    /\ \E n \in Titles :
          /\ ~OnDisk(<<"app", n>>)
          /\ FinGo(k, "rename", <<"app", n>>, None)
    /\ UNCHANGED <<fileVars, sync, edit, erase, purge, boot, watchVars, restarts>>

\* tempFile.renameTo(target), or copyTo() and delete(): either replaces a
\* file of that name
Rename(k) ==
    /\ FinAt(k, "rename")
    /\ disk' = [disk EXCEPT ![fin[k].file] = disk[TempOf(k)], ![TempOf(k)] = None]
    /\ FinGo(k, AfterRename, fin[k].file, None)
    /\ AppDirEvent(TRUE)
    /\ UNCHANGED <<db, nextId, erased, sync, edit, erase, purge, boot, watching, restarts>>

\* ... or both fail: the take keeps its temp path
RenameFails(k) ==
    /\ FinAt(k, "rename")
    /\ disk' \in {disk, [disk EXCEPT ![fin[k].file] = "partial"]}
    /\ FinGo(k, AfterRename, TempOf(k), None)
    /\ AppDirEvent(disk' # disk)
    /\ UNCHANGED <<db, nextId, erased, sync, edit, erase, purge, boot, watching, restarts>>

\* copyFileToTree(): the document is created and filled
CopyToTree(k) ==
    /\ FinAt(k, "copy")
    /\ OnDisk(fin[k].file)
    /\ \E q \in Targets("tree", fin[k].file[2]) :
          /\ disk' = [disk EXCEPT ![q] = disk[fin[k].file]]
          /\ FinGo(k, "deleteLocal", fin[k].file, q)
    /\ UNCHANGED <<db, nextId, erased, sync, edit, erase, purge, boot, watchVars, restarts>>

\* (mutant: the local file is deleted without a document)
CopyFailsDeletes(k) ==
    /\ FinAt(k, "copy")
    /\ disk' = [disk EXCEPT ![fin[k].file] = None]
    /\ FinGo(k, "insert", fin[k].file, None)
    /\ UNCHANGED <<db, nextId, erased, sync, edit, erase, purge, boot, watchVars, restarts>>

\* ... or null, before or after the document exists: the take stays local
CopyFails(k) ==
    /\ FinAt(k, "copy")
    /\ \/ UNCHANGED disk
       \/ /\ OnDisk(fin[k].file)
          /\ \E q \in Targets("tree", fin[k].file[2]) :
                disk' = [disk EXCEPT ![q] = "partial"]
    /\ FinGo(k, "insert", fin[k].file, None)
    /\ UNCHANGED <<db, nextId, erased, sync, edit, erase, purge, boot, watchVars, restarts>>

DeleteLocal(k) ==
    /\ FinAt(k, "deleteLocal")
    /\ disk' = [disk EXCEPT ![fin[k].file] = None]
    /\ FinGo(k, "insert", fin[k].file, fin[k].doc)
    /\ AppDirEvent(TRUE)
    /\ UNCHANGED <<db, nextId, erased, sync, edit, erase, purge, boot, watching, restarts>>

\* filePath = finalPath: the document when there is one
InsertTake(k) ==
    /\ FinAt(k, "insert")
    /\ Insert(IF fin[k].doc = None THEN fin[k].file ELSE fin[k].doc, k)
    /\ FinGo(k, "done", fin[k].file, fin[k].doc)
    /\ UNCHANGED <<disk, erased, sync, edit, erase, purge, boot, watchVars, restarts>>

Finalize(k) ==
    \/ ChooseName(k) \/ Rename(k) \/ RenameFails(k) \/ CopyToTree(k)
    \/ CopyFails(k) \/ DeleteLocal(k) \/ InsertTake(k)

-----------------------------------------------------------------------------
(* syncExternalFiles()                                                     *)

SyncStep(s, state) == sync' = [sync EXCEPT ![s] = state]

\* listFiles(); what a listed file held is history
Listed(loc) == {[path |-> p, of |-> disk[p]] : p \in {q \in In(loc) : OnDisk(q)}}
Fresh(s) == {f \in sync[s].todo : f.path \notin sync[s].known}

\* known = getAllPaths().  A sync of syncStorage() or onCreate() re-arms the
\* watcher afterwards, one launched by the watcher does not.
SyncStart(s, rearms) ==
    /\ MayBegin
    /\ sync[s].pc = "off"
    /\ SyncStep(s, [pc |-> "list", rearms |-> rearms, known |-> RowPaths, todo |-> {}])

\* onCreate()
SyncOnBoot(s) ==
    /\ boot
    /\ SyncStart(s, TRUE)
    /\ boot' = FALSE
    /\ UNCHANGED <<fileVars, fin, edit, erase, purge, watchVars, restarts>>

\* onResume(): syncStorage()
SyncOnResume(s) ==
    /\ SyncStart(s, TRUE)
    /\ UNCHANGED <<fileVars, fin, edit, erase, purge, boot, watchVars, restarts>>

\* delay(800) elapsed: onChange()
SyncOnEvent(s) ==
    /\ debounce
    /\ SyncStart(s, FALSE)
    /\ debounce' = FALSE
    /\ UNCHANGED <<fileVars, fin, edit, erase, purge, boot, watching, restarts>>

\* (mutant: takes in progress are listed too)
ListAppTemps(s) ==
    /\ sync[s].pc = "list"
    /\ SyncStep(s, [sync[s] EXCEPT !.pc = "app",
                                   !.todo = Listed("app")])
    /\ UNCHANGED <<fileVars, fin, edit, erase, purge, boot, watchVars, restarts>>

\* dir.listFiles(), without the FLAMBO_ files
ListApp(s) ==
    /\ sync[s].pc = "list"
    /\ SyncStep(s, [sync[s] EXCEPT !.pc = "app",
           !.todo = {f \in Listed("app") : f.path[2] \notin Takes}])
    /\ UNCHANGED <<fileVars, fin, edit, erase, purge, boot, watchVars, restarts>>

\* if (!known.add(path)) return@forEach
SkipKnown(s) ==
    /\ sync[s].pc \in {"app", "tree"}
    /\ Fresh(s) # sync[s].todo
    /\ SyncStep(s, [sync[s] EXCEPT !.todo = Fresh(s)])
    /\ UNCHANGED <<fileVars, fin, edit, erase, purge, boot, watchVars, restarts>>

\* insertForeignFile()
Adopt(s) ==
    /\ sync[s].pc \in {"app", "tree"}
    /\ \E f \in Fresh(s) :
          /\ Insert(f.path, f.of)
          /\ SyncStep(s, [sync[s] EXCEPT !.todo = @ \ {f}, !.known = @ \cup {f.path}])
    /\ UNCHANGED <<disk, erased, fin, edit, erase, purge, boot, watchVars, restarts>>

ListTree(s) ==
    /\ sync[s].pc = "app" /\ sync[s].todo = {}
    /\ UseTree
    /\ SyncStep(s, [sync[s] EXCEPT !.pc = "tree",
                                   !.todo = Listed("tree")])
    /\ UNCHANGED <<fileVars, fin, edit, erase, purge, boot, watchVars, restarts>>

\* storageTick; then storageWatcher.start(), which begins with stop() and so
\* drops a pending onChange()
SyncEnd(s) ==
    /\ sync[s].pc = (IF UseTree THEN "tree" ELSE "app") /\ sync[s].todo = {}
    /\ SyncStep(s, Off)
    /\ IF sync[s].rearms THEN watching' = TRUE /\ debounce' = FALSE
       ELSE UNCHANGED watchVars
    /\ UNCHANGED <<fileVars, fin, edit, erase, purge, boot, restarts>>

Sync(s) == ListApp(s) \/ SkipKnown(s) \/ Adopt(s) \/ ListTree(s) \/ SyncEnd(s)

-----------------------------------------------------------------------------
(* Edits of a row: read it, then write the whole row back.                 *)

\* getById(id)
EditRead(e) ==
    /\ MayBegin
    /\ edit[e].pc = "off"
    /\ \E i \in Rows : \E op \in {"touch", "trash", "restore", "move"} :
          /\ op = "move" => e \in Movers
          /\ edit' = [edit EXCEPT ![e] = [pc |-> op, id |-> i, row |-> db[i]]]
    /\ UNCHANGED <<fileVars, fin, sync, erase, purge, boot, watchVars, restarts>>

EditDone(e, row) ==
    /\ Update(edit[e].id, row)
    /\ edit' = [edit EXCEPT ![e] = Off]
    /\ UNCHANGED <<nextId, erased, fin, sync, erase, purge, boot, watching, restarts>>

\* rename, toggleFavorite, updateTags, addTagToAll: the other columns go back
\* as they were read
EditTouch(e) ==
    /\ edit[e].pc = "touch"
    /\ EditDone(e, edit[e].row)
    /\ UNCHANGED <<disk, debounce>>

EditTrash(e) ==
    /\ edit[e].pc = "trash"
    /\ EditDone(e, [edit[e].row EXCEPT !.trashed = TRUE, !.old = FALSE])
    /\ UNCHANGED <<disk, debounce>>

EditRestore(e) ==
    /\ edit[e].pc = "restore"
    /\ EditDone(e, [edit[e].row EXCEPT !.trashed = FALSE, !.old = FALSE])
    /\ UNCHANGED <<disk, debounce>>

\* moveToDirectory: documents and missing files are skipped
MoveSkipped(e) ==
    /\ edit[e].pc = "move"
    /\ edit[e].row.path[1] = "tree" \/ ~OnDisk(edit[e].row.path)
    /\ edit' = [edit EXCEPT ![e] = Off]
    /\ UNCHANGED <<fileVars, fin, sync, erase, purge, boot, watchVars, restarts>>

\* moveFile(): the editor goes on in step "step" to the path "to"
EditFile(e) == edit[e].row.path
OtherVolume(p) == IF p[1] = "app" THEN "vol" ELSE "app"
MoveGo(e, step, to) ==
    edit' = [edit EXCEPT ![e] = [pc |-> step, id |-> @.id, row |-> @.row, to |-> to]]
MoveEnds(e, to) ==
    edit' = [edit EXCEPT ![e] = [pc |-> "moved", id |-> @.id,
                                 row |-> [@.row EXCEPT !.path = to]]]

\* (mutant: dest.exists() is not asked)
MoveTargetTaken(e) ==
    /\ edit[e].pc = "move"
    /\ EditFile(e)[1] # "tree" /\ OnDisk(EditFile(e))
    /\ MoveGo(e, "target", <<OtherVolume(EditFile(e)), EditFile(e)[2]>>)
    /\ UNCHANGED <<fileVars, fin, sync, erase, purge, boot, watchVars, restarts>>

\* a name free in the target directory at that moment
MoveTarget(e) ==
    /\ edit[e].pc = "move"
    /\ EditFile(e)[1] # "tree" /\ OnDisk(EditFile(e))
    /\ \E q \in Targets(OtherVolume(EditFile(e)), EditFile(e)[2]) :
          MoveGo(e, "target", q)
    /\ UNCHANGED <<fileVars, fin, sync, erase, purge, boot, watchVars, restarts>>

\* src.renameTo(dest), which replaces
MoveRename(e) ==
    /\ edit[e].pc = "target"
    /\ OnDisk(EditFile(e))
    /\ disk' = [disk EXCEPT ![edit[e].to] = disk[EditFile(e)], ![EditFile(e)] = None]
    /\ MoveEnds(e, edit[e].to)
    /\ AppDirEvent(TRUE)
    /\ UNCHANGED <<db, nextId, erased, fin, sync, erase, purge, boot, watching, restarts>>

\* ... or false, as between two volumes: copyTo(dest, overwrite = true) opens
\* the source and re-creates dest
MoveCopyBegins(e) ==
    /\ edit[e].pc = "target"
    /\ OnDisk(EditFile(e))
    /\ disk' = [disk EXCEPT ![edit[e].to] = "partial"]
    /\ edit' = [edit EXCEPT ![e] = [pc |-> "copying", id |-> @.id, row |-> @.row,
                                    to |-> @.to, audio |-> disk[@.row.path]]]
    /\ AppDirEvent(edit[e].to[1] = "app")
    /\ UNCHANGED <<db, nextId, erased, fin, sync, erase, purge, boot, watching, restarts>>

\* All is written; into no file, when dest was deleted or replaced meanwhile.
\* (Another unfinished copy at that path is taken for this one.)
MoveCopied(e) ==
    /\ edit[e].pc = "copying"
    /\ disk' = IF disk[edit[e].to] = "partial"
               THEN [disk EXCEPT ![edit[e].to] = edit[e].audio] ELSE disk
    /\ MoveGo(e, "copied", edit[e].to)
    /\ UNCHANGED <<db, nextId, erased, fin, sync, erase, purge, boot, watchVars, restarts>>

\* src.delete()
MoveDelete(e) ==
    /\ edit[e].pc = "copied"
    /\ disk' = [disk EXCEPT ![EditFile(e)] = None]
    /\ MoveEnds(e, edit[e].to)
    /\ AppDirEvent(EditFile(e)[1] = "app")
    /\ UNCHANGED <<db, nextId, erased, fin, sync, erase, purge, boot, watching, restarts>>

\* (mutant: the source is deleted although the copy threw)
MoveFailsDeletes(e) ==
    /\ edit[e].pc \in {"target", "copying"}
    /\ disk' = [disk EXCEPT ![EditFile(e)] = None]
    /\ edit' = [edit EXCEPT ![e] = Off]
    /\ UNCHANGED <<db, nextId, erased, fin, sync, erase, purge, boot, watchVars, restarts>>

\* an exception, null: the source is gone or cannot be read, or the copy was
\* cut short and what was written stays; the row keeps its path
MoveFails(e) ==
    /\ edit[e].pc \in {"target", "copying"}
    /\ edit' = [edit EXCEPT ![e] = Off]
    /\ UNCHANGED <<fileVars, fin, sync, erase, purge, boot, watchVars, restarts>>

\* (mutant: the row keeps the old path)
MoveRowForgotten(e) ==
    /\ edit[e].pc = "moved"
    /\ edit' = [edit EXCEPT ![e] = Off]
    /\ UNCHANGED <<fileVars, fin, sync, erase, purge, boot, watchVars, restarts>>

\* dao.update(rec.copy(filePath = ...))
MoveRow(e) ==
    /\ edit[e].pc = "moved"
    /\ EditDone(e, edit[e].row)
    /\ UNCHANGED <<disk, debounce>>

Edit(e) ==
    \/ EditTouch(e) \/ EditTrash(e) \/ EditRestore(e)
    \/ MoveSkipped(e) \/ MoveTarget(e) \/ MoveRename(e) \/ MoveCopyBegins(e)
    \/ MoveCopied(e) \/ MoveDelete(e) \/ MoveFails(e) \/ MoveRow(e)

-----------------------------------------------------------------------------
(* deletePermanently(id) and emptyTrash()                                  *)

\* The trash screen: one recording, or a snapshot of the whole trash.
EraseBegin(x) ==
    /\ MayBegin
    /\ erase[x].pc = "off"
    /\ \E todo \in {{i} : i \in Trash} \cup {Trash} :
          /\ todo # {}
          /\ erase' = [erase EXCEPT ![x] = [pc |-> "files", todo |-> todo]]
    /\ UNCHANGED <<fileVars, fin, sync, edit, purge, boot, watchVars, restarts>>

\* getById(id), then the files of that row
EraseFiles(x) ==
    /\ erase[x].pc = "files"
    /\ \E i \in erase[x].todo \cap Rows :
          /\ DeleteFiles(db[i])
          /\ erase' = [erase EXCEPT ![x] = [pc |-> "row", todo |-> @.todo, id |-> i]]
    /\ UNCHANGED <<db, nextId, fin, sync, edit, purge, boot, watching, restarts>>

EraseRow(x) ==
    /\ erase[x].pc = "row"
    /\ db' = [db EXCEPT ![erase[x].id] = None]
    /\ erase' = [erase EXCEPT ![x] =
                   [pc |-> "files", todo |-> @.todo \ {erase[x].id}]]
    /\ UNCHANGED <<disk, nextId, erased, fin, sync, edit, purge, boot, watchVars, restarts>>

\* rows already gone: getById(id) ?: return
EraseEnd(x) ==
    /\ erase[x].pc = "files"
    /\ erase[x].todo \cap Rows = {}
    /\ erase' = [erase EXCEPT ![x] = Off]
    /\ UNCHANGED <<fileVars, fin, sync, edit, purge, boot, watchVars, restarts>>

Erase(x) == EraseFiles(x) \/ EraseRow(x) \/ EraseEnd(x)

-----------------------------------------------------------------------------
(* purgeOldTrash(7), once per process                                      *)

PurgeBegin ==
    /\ MayBegin
    /\ purge.pc = "ready"
    /\ purge' = [pc |-> "files", todo |-> {db[i] : i \in {j \in Trash : db[j].old}}]
    /\ UNCHANGED <<fileVars, fin, sync, edit, erase, boot, watchVars, restarts>>

PurgeFiles ==
    /\ purge.pc = "files"
    /\ \E row \in purge.todo :
          /\ DeleteFiles(row)
          /\ purge' = [purge EXCEPT !.todo = @ \ {row}]
    /\ UNCHANGED <<db, nextId, fin, sync, edit, erase, boot, watching, restarts>>

\* DELETE ... WHERE isTrashed = 1 AND trashedAt < :cutoff
PurgeRows ==
    /\ purge.pc = "files" /\ purge.todo = {}
    /\ db' = [i \in Ids |-> IF i \in Trash /\ db[i].old THEN None ELSE db[i]]
    /\ purge' = [purge EXCEPT !.pc = "done"]
    /\ UNCHANGED <<disk, nextId, erased, fin, sync, edit, erase, boot, watchVars, restarts>>

Purge == PurgeFiles \/ PurgeRows

-----------------------------------------------------------------------------
(* Outside: a file manager, process death.                                 *)

ExternalAdd(f) ==
    /\ MayBegin
    /\ ~Stored(f) /\ f \notin erased
    /\ \E p \in {"app", "tree"} \X Titles :
          /\ p[1] = "tree" => UseTree
          /\ ~OnDisk(p)
          /\ disk' = [disk EXCEPT ![p] = f]
          /\ AppDirEvent(p[1] = "app")
    /\ UNCHANGED <<db, nextId, erased, fin, sync, edit, erase, purge, boot, watching, restarts>>

\* (mutant: onCreate does not sync)
RestartUnsynced ==
    /\ MayBegin
    /\ restarts < MaxRestarts
    /\ restarts' = restarts + 1
    /\ fin' = [k \in Takes |-> IF FinAt(k, "recording") THEN fin[k]
                               ELSE [fin[k] EXCEPT !.pc = "done"]]
    /\ sync' = [s \in Syncs |-> Off]
    /\ edit' = [e \in Editors |-> Off]
    /\ erase' = [x \in Erasers |-> Off]
    /\ purge' = [pc |-> "ready", todo |-> {}]
    /\ boot' = FALSE
    /\ watching' = FALSE
    /\ debounce' = FALSE
    /\ UNCHANGED <<disk, db, nextId, erased>>

\* The process dies and is started again, perhaps a week later: coroutines
\* and the watcher are gone; onCreate purges and syncs.
Restart ==
    /\ MayBegin
    /\ restarts < MaxRestarts
    /\ restarts' = restarts + 1
    /\ \E aged \in SUBSET Trash :
          db' = [i \in Ids |-> IF i \in aged THEN [db[i] EXCEPT !.old = TRUE] ELSE db[i]]
    /\ fin' = [k \in Takes |-> IF FinAt(k, "recording") THEN fin[k]
                               ELSE [fin[k] EXCEPT !.pc = "done"]]
    /\ sync' = [s \in Syncs |-> Off]
    /\ edit' = [e \in Editors |-> Off]
    /\ erase' = [x \in Erasers |-> Off]
    /\ purge' = [pc |-> "ready", todo |-> {}]
    /\ boot' = TRUE
    /\ watching' = FALSE
    /\ debounce' = FALSE
    /\ UNCHANGED <<disk, nextId, erased>>

-----------------------------------------------------------------------------
Next ==
    \/ \E k \in Takes : TakeStopped(k) \/ Finalize(k)
    \/ \E s \in Syncs : SyncOnBoot(s) \/ SyncOnResume(s) \/ SyncOnEvent(s) \/ Sync(s)
    \/ \E e \in Editors : EditRead(e) \/ Edit(e)
    \/ \E x \in Erasers : EraseBegin(x) \/ Erase(x)
    \/ PurgeBegin \/ Purge
    \/ \E f \in Foreign : ExternalAdd(f)
    \/ Restart

Spec == Init /\ [][Next]_vars

\* A coroutine that runs goes on to its end.  The sync of onCreate and the one
\* of the watcher's timer are launched whatever else goes on; here they may
\* have to wait for a member of Syncs again and again, hence strong fairness.
Fairness ==
    /\ \A k \in Takes : WF_vars(Finalize(k))
    /\ \A s \in Syncs : WF_vars(Sync(s))
    /\ SF_vars(\E s \in Syncs : SyncOnBoot(s))
    /\ SF_vars(\E s \in Syncs : SyncOnEvent(s))
    /\ \A e \in Editors : WF_vars(Edit(e))
    /\ \A x \in Erasers : WF_vars(Erase(x))
    /\ WF_vars(Purge)

FairSpec == Spec /\ Fairness

-----------------------------------------------------------------------------
(* Properties.                                                             *)

\* Every variable has its type; the files a sync has still to look at never
\* include a take in progress in the app's directory (RecordingRepository
\* 238-240).
TypeOK ==
    /\ disk \in [Paths -> Content]
    /\ db \in [Ids -> Row \cup {None}]
    /\ nextId \in 1 .. MaxRows + 1
    /\ fin \in [Takes -> [pc: {"recording", "choose", "rename", "copy",
                               "deleteLocal", "insert", "done"},
                          file: In("app"), doc: In("tree") \cup {None}]]
    /\ sync \in [Syncs -> {Off} \cup
                 [pc: {"list", "app", "tree"}, rearms: BOOLEAN,
                  known: SUBSET Paths,
                  todo: SUBSET [path: Paths \ {TempOf(k) : k \in Takes}, of: Content]]]
    /\ edit \in [Editors -> {Off} \cup
                 [pc: {"touch", "trash", "restore", "move", "moved"}, id: Ids, row: Row]
                 \cup [pc: {"target", "copied"}, id: Ids, row: Row, to: Paths]
                 \cup [pc: {"copying"}, id: Ids, row: Row, to: Paths, audio: Content]]
    /\ erase \in [Erasers -> {Off} \cup [pc: {"files"}, todo: SUBSET Ids]
                                   \cup [pc: {"row"}, todo: SUBSET Ids, id: Ids]]
    /\ purge \in [pc: {"ready", "files", "done"}, todo: SUBSET Row]
    /\ {boot, watching, debounce} \subseteq BOOLEAN
    /\ restarts \in 0 .. MaxRestarts
    /\ erased \subseteq Content

\* Two recordings of the library never share a file: each file is indexed by
\* the finalizer that wrote it or by a sync that saw "no DB row yet", not both
\* (RecordingRepository 224-247, RecordingController 434-444).
OneRowPerFile ==
    \A i, j \in Rows : db[i].path = db[j].path => i = j

\* When nothing runs, a recording outside the trash still has its audio:
\* purging or emptying the trash, deleting a namesake, moving and syncing
\* leave no dead row behind (RecordingRepository 74-161, 196-210).
ActiveRowHasFile ==
    Idle => \A i \in Rows : ~db[i].trashed => OnDisk(db[i].path)

\* The audio of a stopped take is somewhere on disk unless the files of its
\* own row were deleted: no rename, copy, move or delete by name loses it.
AudioKept ==
    \A k \in Takes : fin[k].pc # "recording" => Stored(k) \/ k \in erased

\* The same while a sync, a move, a failing copy and the death of the process
\* cut into each other, until the files of a row are deleted that a sync made
\* from half a copy: the copy may be whole by then, and the only one
\* (RecordingRepository 87-122, 238-246).
AudioSurvivesMoves ==
    \A k \in Takes : fin[k].pc # "recording" =>
        Stored(k) \/ erased \cap {k, "partial"} # {}

\* A recording deleted for good stays deleted: a coroutine that read its row
\* before does not write it back, and its id is not used again.
DeletedStaysDeleted ==
    [][\A i \in Ids : i < nextId /\ db[i] = None => db'[i] = None]_vars

\* The audio a is in the library.
Indexed(a) == \E i \in Rows : disk[db[i].path] = a

\* Take k has its final name, in the app's directory or in the tree.
Named(k) ==
    \/ \E n \in Titles : disk[<<"app", n>>] = k
    \/ \E n \in Names : disk[<<"tree", n>>] = k

\* A take that has its final name gets into the library, by its finalizer or,
\* when the process dies first, by the sync of the next start (FlamboApp
\* 82-85).
TakeIndexed ==
    \A k \in Takes : Named(k) ~> Indexed(k) \/ k \in erased
=============================================================================
