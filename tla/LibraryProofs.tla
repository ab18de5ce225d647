----------------------------- MODULE LibraryProofs -----------------------------
(* Proofs about Library, for every value of its constants. *)
EXTENDS Library, TLAPS

\* The table is a function of the ids and the next id is past none.
TableShape ==
    /\ db = [i \in Ids |-> db[i]]
    /\ nextId \in Nat \ {0}

\* Every action either leaves the table alone, inserts at the next id,
\* updates or removes rows that are there.
TableChange ==
    \/ UNCHANGED <<db, nextId>>
    \/ \E row : db' = [db EXCEPT ![nextId] = row] /\ nextId' = nextId + 1
    \/ /\ nextId' = nextId
       /\ \E row : db' = [i \in Ids |-> IF db[i] = None THEN None ELSE row[i]]

\* dao.insert adds one row at the next id (RecordingDao 37-38).
LEMMA InsertChanges ==
    ASSUME NEW p, NEW a, Insert(p, a)
    PROVE  TableChange
BY DEF Insert, TableChange

\* dao.update changes a row that is there or nothing (RecordingDao 40-41).
LEMMA UpdateChanges ==
    ASSUME TableShape, NEW i, NEW row, Update(i, row), nextId' = nextId
    PROVE  TableChange
<1>1. CASE db[i] = None
  BY <1>1 DEF Update, TableChange
<1>2. CASE db[i] # None
  <2> DEFINE new == [j \in Ids |-> IF j = i THEN row ELSE db[j]]
  <2>1. db' = [db EXCEPT ![i] = row]
    BY <1>2 DEF Update
  <2>2. db' = [j \in Ids |-> IF db[j] = None THEN None ELSE new[j]]
    BY <1>2, <2>1 DEF TableShape
  <2> QED
    BY <2>2 DEF TableChange
<1> QED
  BY <1>1, <1>2

\* Whatever operation takes a step, the table changes in one of the three ways.
LEMMA StepChanges ==
    ASSUME TableShape, [Next]_vars
    PROVE  TableChange
<1>1. ASSUME NEW k \in Takes, TakeStopped(k) \/ Finalize(k)
      PROVE  TableChange
  <2>1. CASE InsertTake(k)
    BY <2>1, InsertChanges DEF InsertTake
  <2>2. CASE ~InsertTake(k)
    BY <1>1, <2>2 DEF TakeStopped, Finalize, ChooseName, Rename, RenameFails,
        CopyToTree, CopyFails, DeleteLocal, TableChange, fileVars
  <2> QED
    BY <2>1, <2>2
<1>2. ASSUME NEW s \in Syncs,
             SyncOnBoot(s) \/ SyncOnResume(s) \/ SyncOnEvent(s) \/ Sync(s)
      PROVE  TableChange
  <2>1. CASE Adopt(s)
    BY <2>1, InsertChanges DEF Adopt
  <2>2. CASE ~Adopt(s)
    BY <1>2, <2>2 DEF SyncOnBoot, SyncOnResume, SyncOnEvent, Sync, ListApp,
        SkipKnown, ListTree, SyncEnd, TableChange, fileVars
  <2> QED
    BY <2>1, <2>2
<1>3. ASSUME NEW e \in Editors, EditRead(e) \/ Edit(e)
      PROVE  TableChange
  <2>1. ASSUME NEW row, EditDone(e, row)
        PROVE  TableChange
    BY <2>1, UpdateChanges DEF EditDone
  <2>2. CASE EditTouch(e) \/ EditTrash(e) \/ EditRestore(e) \/ MoveRow(e)
    BY <2>1, <2>2 DEF EditTouch, EditTrash, EditRestore, MoveRow
  <2>3. CASE ~(EditTouch(e) \/ EditTrash(e) \/ EditRestore(e) \/ MoveRow(e))
    BY <1>3, <2>3 DEF EditRead, Edit, MoveSkipped, MoveTarget, MoveRename, MoveCopyBegins,
        MoveCopied, MoveDelete, MoveFails, TableChange, fileVars
  <2> QED
    BY <2>2, <2>3
<1>4. ASSUME NEW x \in Erasers, EraseBegin(x) \/ Erase(x)
      PROVE  TableChange
  <2>1. CASE EraseRow(x)
    <3> DEFINE new == [j \in Ids |-> IF j = erase[x].id THEN None ELSE db[j]]
    <3>1. db' = [j \in Ids |-> IF db[j] = None THEN None ELSE new[j]]
      BY <2>1 DEF EraseRow, TableShape
    <3> QED
      BY <2>1, <3>1 DEF EraseRow, TableChange
  <2>2. CASE ~EraseRow(x)
    BY <1>4, <2>2 DEF EraseBegin, Erase, EraseFiles, EraseEnd, TableChange, fileVars
  <2> QED
    BY <2>1, <2>2
<1>5. CASE PurgeBegin \/ Purge
  <2>1. CASE PurgeRows
    <3> DEFINE new == [j \in Ids |-> IF j \in Trash /\ db[j].old THEN None ELSE db[j]]
    <3>1. db' = [j \in Ids |-> IF db[j] = None THEN None ELSE new[j]]
      BY <2>1 DEF PurgeRows, Trash, Rows
    <3> QED
      BY <2>1, <3>1 DEF PurgeRows, TableChange
  <2>2. CASE ~PurgeRows
    BY <1>5, <2>2 DEF PurgeBegin, Purge, PurgeFiles, TableChange, fileVars
  <2> QED
    BY <2>1, <2>2
<1>6. CASE \E f \in Foreign : ExternalAdd(f)
  BY <1>6 DEF ExternalAdd, TableChange
<1>7. CASE Restart
  <2>1. PICK aged \in SUBSET Trash :
            db' = [i \in Ids |-> IF i \in aged THEN [db[i] EXCEPT !.old = TRUE] ELSE db[i]]
    BY <1>7 DEF Restart
  <2> DEFINE new == [j \in Ids |-> IF j \in aged THEN [db[j] EXCEPT !.old = TRUE] ELSE db[j]]
  <2>2. db' = [j \in Ids |-> IF db[j] = None THEN None ELSE new[j]]
    BY <2>1 DEF Trash, Rows
  <2> QED
    BY <1>7, <2>2 DEF Restart, TableChange
<1>8. CASE UNCHANGED vars
  BY <1>8 DEF vars, fileVars, TableChange
<1> QED
  BY <1>1, <1>2, <1>3, <1>4, <1>5, <1>6, <1>7, <1>8 DEF Next

\* The shape of the table is an invariant.
LEMMA ShapeInvariant == Spec => []TableShape
<1>1. Init => TableShape
  BY DEF Init, TableShape
<1>2. TableShape /\ [Next]_vars => TableShape'
  <2> SUFFICES ASSUME TableShape, [Next]_vars
               PROVE  TableShape'
    OBVIOUS
  <2>1. TableChange
    BY StepChanges
  <2> QED
    BY <2>1 DEF TableShape, TableChange
<1> QED
  BY <1>1, <1>2, PTL DEF Spec

\* A row deleted for good is never written back and its id never used again,
\* however many coroutines hold a copy of it (RecordingDao 37-47).
THEOREM DeletedForGood == Spec => DeletedStaysDeleted
<1>1. TableShape /\ [Next]_vars
        => [\A i \in Ids : i < nextId /\ db[i] = None => db'[i] = None]_vars
  <2> SUFFICES ASSUME TableShape, [Next]_vars,
                      NEW i \in Ids, i < nextId, db[i] = None
               PROVE  db'[i] = None
    OBVIOUS
  <2>1. TableChange
    BY StepChanges
  <2>2. i # nextId
    BY DEF TableShape, Ids
  <2> QED
    BY <2>1, <2>2 DEF TableShape, TableChange
<1> QED
  BY <1>1, ShapeInvariant, PTL DEF Spec, DeletedStaysDeleted

-----------------------------------------------------------------------------
(* The types, in parts.                                                    *)

DiskTyped == disk \in [Paths -> Content]
TableTyped == db \in [Ids -> Row \cup {None}] /\ nextId \in 1 .. MaxRows + 1
ErasedTyped == erased \subseteq Content
FlagsTyped ==
    /\ boot \in BOOLEAN /\ watching \in BOOLEAN /\ debounce \in BOOLEAN
    /\ restarts \in 0 .. MaxRestarts
FinTyped ==
    fin \in [Takes -> [pc: {"recording", "choose", "rename", "copy", "deleteLocal", "insert", "done"},
                       file: In("app"), doc: In("tree") \cup {None}]]
SyncTyped ==
    sync \in [Syncs -> {Off} \cup
               [pc: {"list", "app", "tree"}, rearms: BOOLEAN, known: SUBSET Paths,
                todo: SUBSET [path: Paths \ {TempOf(k) : k \in Takes}, of: Content]]]
EditTyped ==
    edit \in [Editors -> {Off} \cup
               [pc: {"touch", "trash", "restore", "move", "moved"}, id: Ids, row: Row]
               \cup [pc: {"target", "copied"}, id: Ids, row: Row, to: Paths]
               \cup [pc: {"copying"}, id: Ids, row: Row, to: Paths, audio: Content]]
EraseTyped ==
    erase \in [Erasers -> {Off} \cup [pc: {"files"}, todo: SUBSET Ids]
                                \cup [pc: {"row"}, todo: SUBSET Ids, id: Ids]]
PurgeTyped == purge \in [pc: {"ready", "files", "done"}, todo: SUBSET Row]

Typed ==
    /\ DiskTyped /\ TableTyped /\ ErasedTyped /\ FlagsTyped
    /\ FinTyped /\ SyncTyped /\ EditTyped /\ EraseTyped /\ PurgeTyped

\* Every name the repository picks for a copy or a move is a path.
LEMMA TargetsArePaths ==
    ASSUME NEW l \in {"app", "tree", "vol"}, NEW n \in Names
    PROVE  Targets(l, n) \subseteq Paths
BY DEF Targets, Paths, Names

\* What an editor has in hand.
LEMMA EditHas ==
    ASSUME Typed, NEW e \in Editors, edit[e].pc # "off"
    PROVE  /\ edit[e].id \in Ids /\ edit[e].row \in Row /\ EditFile(e) \in Paths
           /\ edit[e].pc \in {"target", "copying", "copied"} => edit[e].to \in Paths
           /\ edit[e].pc = "copying" => edit[e].audio \in Content
<1>1. edit[e].row \in Row /\ edit[e].id \in Ids
  BY DEF Typed, EditTyped, Off
<1>2. /\ edit[e].pc \in {"target", "copying", "copied"} => edit[e].to \in Paths
      /\ edit[e].pc = "copying" => edit[e].audio \in Content
  BY DEF Typed, EditTyped, Off
<1> QED
  BY <1>1, <1>2 DEF EditFile, Row

\* A move goes on to its next step ...
LEMMA MoveGoes ==
    ASSUME Typed, NEW e \in Editors, edit[e].pc # "off", NEW q \in Paths,
           NEW step \in {"target", "copied"}, MoveGo(e, step, q)
    PROVE  /\ EditTyped'
           /\ edit'[e].pc = step /\ edit'[e].id = edit[e].id /\ edit'[e].row = edit[e].row
           /\ edit'[e].to = q
           /\ \A d \in Editors \ {e} : edit'[d] = edit[d]
<1>1. edit[e].row \in Row /\ edit[e].id \in Ids
  BY EditHas
<1>2. /\ edit'[e] = [pc |-> step, id |-> edit[e].id, row |-> edit[e].row, to |-> q]
      /\ \A d \in Editors \ {e} : edit'[d] = edit[d]
  BY DEF MoveGo, Typed, EditTyped
<1>3. EditTyped'
  BY <1>1 DEF MoveGo, Typed, EditTyped
<1> QED
  BY <1>2, <1>3

\* ... or has moved the file.
LEMMA MoveSteps ==
    ASSUME Typed, NEW e \in Editors, edit[e].pc # "off", NEW q \in Paths, MoveEnds(e, q)
    PROVE  /\ EditTyped'
           /\ edit'[e].pc = "moved" /\ edit'[e].id = edit[e].id
           /\ edit'[e].row.path = q /\ edit'[e].row.of = edit[e].row.of
           /\ \A d \in Editors \ {e} : edit'[d] = edit[d]
<1> DEFINE new == [edit[e].row EXCEPT !.path = q]
<1>1. edit[e].row \in Row /\ edit[e].id \in Ids
  BY EditHas
<1>2. new \in Row /\ new.path = q /\ new.of = edit[e].row.of
  BY <1>1 DEF Row
<1>3. edit' = [edit EXCEPT ![e] = [pc |-> "moved", id |-> edit[e].id, row |-> new]]
  BY DEF MoveEnds
<1> HIDE DEF new
<1>4. /\ edit'[e] = [pc |-> "moved", id |-> edit[e].id, row |-> new]
      /\ \A d \in Editors \ {e} : edit'[d] = edit[d]
  BY <1>3 DEF Typed, EditTyped
<1>5. EditTyped'
  BY <1>1, <1>2, <1>3 DEF Typed, EditTyped
<1> QED
  BY <1>2, <1>4, <1>5

\* Where a move goes to: another directory, a name free there, its own or a
\* title.
LEMMA MoveTargets ==
    ASSUME Typed, NEW e \in Editors, MoveTarget(e)
    PROVE  \E q \in Paths :
              /\ q \in Targets(OtherVolume(EditFile(e)), EditFile(e)[2])
              /\ MoveGo(e, "target", q)
              /\ disk[q] = None /\ q # EditFile(e)
              /\ q[2] = EditFile(e)[2] \/ q[2] \in Titles
<1> DEFINE p == EditFile(e)
           loc == OtherVolume(p)
<1>1. p \in Paths
  BY EditHas DEF MoveTarget
<1>2. loc \in {"app", "vol"} /\ p[2] \in Names /\ loc # p[1]
  BY <1>1 DEF OtherVolume, Paths, MoveTarget
<1>3. PICK q \in Targets(loc, p[2]) : MoveGo(e, "target", q)
  BY DEF MoveTarget
<1> HIDE DEF loc, p
<1>4. /\ q \in Paths /\ disk[q] = None /\ q[1] = loc
      /\ q[2] = p[2] \/ q[2] \in Titles
  BY <1>2, <1>3 DEF Targets, OnDisk, Paths, Names
<1>5. q # p
  BY <1>2, <1>4
<1> QED
  BY <1>3, <1>4, <1>5 DEF p, loc

\* The steps of a move keep the types.
LEMMA MoveTypesKept ==
    ASSUME Typed, NEW e \in Editors,
           \/ MoveTarget(e) \/ MoveRename(e) \/ MoveCopyBegins(e)
           \/ MoveCopied(e) \/ MoveDelete(e) \/ MoveFails(e)
    PROVE  Typed'
<1> USE AudioAssumption DEF fileVars, watchVars
<1>1. /\ UNCHANGED <<db, nextId, erased, fin, sync, erase, purge, boot, watching, restarts>>
      /\ edit[e].pc # "off"
  BY DEF MoveTarget, MoveRename, MoveCopyBegins, MoveCopied, MoveDelete, MoveFails
<1>2. /\ edit[e].id \in Ids /\ edit[e].row \in Row /\ EditFile(e) \in Paths
      /\ edit[e].pc \in {"target", "copying", "copied"} => edit[e].to \in Paths
      /\ edit[e].pc = "copying" => edit[e].audio \in Content
      /\ disk[EditFile(e)] \in Content /\ {None, "partial"} \subseteq Content
  <2>1. disk[EditFile(e)] \in Content
    BY <1>1, EditHas DEF Typed, DiskTyped
  <2> QED
    BY <1>1, <2>1, EditHas DEF Content
<1>3. DiskTyped'
  <2>1. CASE MoveTarget(e) \/ MoveFails(e)
    BY <2>1 DEF MoveTarget, MoveFails, Typed, DiskTyped
  <2>2. CASE MoveRename(e) \/ MoveDelete(e)
    BY <1>2, <2>2 DEF MoveRename, MoveDelete, Typed, DiskTyped
  <2>3. CASE MoveCopyBegins(e) \/ MoveCopied(e)
    BY <1>2, <2>3 DEF MoveCopyBegins, MoveCopied, Typed, DiskTyped
  <2> QED
    BY <2>1, <2>2, <2>3
<1>4. FlagsTyped'
  <2>1. debounce' \in BOOLEAN
    BY DEF MoveTarget, MoveRename, MoveCopyBegins, MoveCopied, MoveDelete, MoveFails,
        AppDirEvent, Typed, FlagsTyped
  <2> QED
    BY <1>1, <2>1 DEF Typed, FlagsTyped
<1>5. EditTyped'
  <2>1. CASE MoveTarget(e)
    BY <1>1, <2>1, MoveTargets, MoveGoes
  <2>2. CASE MoveRename(e) \/ MoveDelete(e)
    BY <1>1, <1>2, <2>2, MoveSteps DEF MoveRename, MoveDelete
  <2>3. CASE MoveCopyBegins(e)
    <3> DEFINE new == [pc |-> "copying", id |-> edit[e].id, row |-> edit[e].row,
                       to |-> edit[e].to, audio |-> disk[edit[e].row.path]]
    <3>1. edit' = [edit EXCEPT ![e] = new] /\ edit[e].pc = "target"
      BY <2>3 DEF MoveCopyBegins
    <3>2. new \in [pc: {"copying"}, id: Ids, row: Row, to: Paths, audio: Content]
      BY <1>2, <3>1 DEF EditFile
    <3> QED
      BY <3>1, <3>2 DEF Typed, EditTyped
  <2>4. CASE MoveCopied(e)
    BY <1>1, <1>2, <2>4, MoveGoes DEF MoveCopied
  <2>5. CASE MoveFails(e)
    BY <2>5 DEF MoveFails, Typed, EditTyped
  <2> QED
    BY <2>1, <2>2, <2>3, <2>4, <2>5
<1>6. (TableTyped /\ ErasedTyped /\ FinTyped /\ SyncTyped /\ EraseTyped /\ PurgeTyped)'
  BY <1>1 DEF Typed, TableTyped, ErasedTyped, FinTyped, SyncTyped, EraseTyped, PurgeTyped
<1> QED
  BY <1>3, <1>4, <1>5, <1>6 DEF Typed

\* Every step of every operation keeps the types.
LEMMA TypesKept ==
    ASSUME Typed, [Next]_vars
    PROVE  Typed'
<1> USE AudioAssumption, SwitchAssumption, BoundAssumption DEF Typed, fileVars, watchVars
<1>1. ASSUME NEW k \in Takes, TakeStopped(k)
      PROVE  Typed'
  <2>1. UNCHANGED <<db, nextId, erased, sync, edit, erase, purge, boot, watching, restarts>>
    BY <1>1 DEF TakeStopped
  <2>2. DiskTyped'
    BY <1>1, <2>1 DEF TakeStopped, FinGo, FinAt, DiskTyped, Paths, Names, Content, Audio,
        In, OnDisk, TempOf, FinTyped, EditTyped, Row
  <2>3. FlagsTyped'
    BY <1>1, <2>1 DEF TakeStopped, FinGo, FinAt, FlagsTyped, AppDirEvent
  <2>4. FinTyped'
    BY <1>1, <2>1 DEF TakeStopped, FinGo, FinAt, FinTyped, In, TempOf, Paths, Names,
        OnDisk
  <2>5. (TableTyped /\ ErasedTyped /\ SyncTyped /\ EditTyped /\ EraseTyped /\ PurgeTyped)'
    BY <2>1 DEF TableTyped, ErasedTyped, SyncTyped, EditTyped, EraseTyped, PurgeTyped
  <2> QED
    BY <2>2, <2>3, <2>4, <2>5
<1>2. ASSUME NEW k \in Takes, ChooseName(k)
      PROVE  Typed'
  <2>1. UNCHANGED <<disk, db, nextId, erased, sync, edit, erase, purge, boot, watching,
                    debounce, restarts>>
    BY <1>2 DEF ChooseName
  <2>2. FinTyped'
    BY <1>2, <2>1 DEF ChooseName, FinGo, FinAt, FinTyped, In, TempOf, Paths, Names, OnDisk
  <2>3. (DiskTyped /\ TableTyped /\ ErasedTyped /\ FlagsTyped /\ SyncTyped /\ EditTyped /\
      EraseTyped /\ PurgeTyped)'
    BY <2>1 DEF DiskTyped, TableTyped, ErasedTyped, FlagsTyped, SyncTyped, EditTyped,
        EraseTyped, PurgeTyped
  <2> QED
    BY <2>2, <2>3
<1>3. ASSUME NEW k \in Takes, Rename(k)
      PROVE  Typed'
  <2>1. UNCHANGED <<db, nextId, erased, sync, edit, erase, purge, boot, watching, restarts>>
    BY <1>3 DEF Rename
  <2>2. DiskTyped'
    BY <1>3, <2>1 DEF Rename, FinGo, FinAt, AfterRename, DiskTyped, Paths, Names, Content,
        Audio, In, OnDisk, TempOf, FinTyped, EditTyped, Row
  <2>3. FlagsTyped'
    BY <1>3, <2>1 DEF Rename, FinGo, FinAt, AfterRename, FlagsTyped, AppDirEvent
  <2>4. FinTyped'
    BY <1>3, <2>1 DEF Rename, FinGo, FinAt, AfterRename, FinTyped, In, TempOf, Paths,
        Names, OnDisk
  <2>5. (TableTyped /\ ErasedTyped /\ SyncTyped /\ EditTyped /\ EraseTyped /\ PurgeTyped)'
    BY <2>1 DEF TableTyped, ErasedTyped, SyncTyped, EditTyped, EraseTyped, PurgeTyped
  <2> QED
    BY <2>2, <2>3, <2>4, <2>5
<1>4. ASSUME NEW k \in Takes, RenameFails(k)
      PROVE  Typed'
  <2>1. UNCHANGED <<db, nextId, erased, sync, edit, erase, purge, boot, watching, restarts>>
    BY <1>4 DEF RenameFails
  <2>2. DiskTyped'
    BY <1>4, <2>1 DEF RenameFails, FinGo, FinAt, AfterRename, DiskTyped, Paths, Names,
        Content, Audio, In, OnDisk, TempOf, FinTyped, EditTyped, Row
  <2>3. FlagsTyped'
    BY <1>4, <2>1 DEF RenameFails, FinGo, FinAt, AfterRename, FlagsTyped, AppDirEvent
  <2>4. FinTyped'
    BY <1>4, <2>1 DEF RenameFails, FinGo, FinAt, AfterRename, FinTyped, In, TempOf, Paths,
        Names, OnDisk
  <2>5. (TableTyped /\ ErasedTyped /\ SyncTyped /\ EditTyped /\ EraseTyped /\ PurgeTyped)'
    BY <2>1 DEF TableTyped, ErasedTyped, SyncTyped, EditTyped, EraseTyped, PurgeTyped
  <2> QED
    BY <2>2, <2>3, <2>4, <2>5
<1>5. ASSUME NEW k \in Takes, CopyToTree(k)
      PROVE  Typed'
  <2>1. UNCHANGED <<db, nextId, erased, sync, edit, erase, purge, boot, watching,
                    debounce, restarts>>
    BY <1>5 DEF CopyToTree
  <2>2. DiskTyped'
    BY <1>5, <2>1, TargetsArePaths DEF CopyToTree, FinGo, FinAt, Targets, DiskTyped,
        Paths, Names, Content, Audio, In, OnDisk, TempOf, FinTyped, EditTyped, Row
  <2>3. FinTyped'
    BY <1>5, <2>1, TargetsArePaths DEF CopyToTree, FinGo, FinAt, Targets, FinTyped, In,
        TempOf, Paths, Names, OnDisk
  <2>4. (TableTyped /\ ErasedTyped /\ FlagsTyped /\ SyncTyped /\ EditTyped /\ EraseTyped
      /\ PurgeTyped)'
    BY <2>1 DEF TableTyped, ErasedTyped, FlagsTyped, SyncTyped, EditTyped, EraseTyped,
        PurgeTyped
  <2> QED
    BY <2>2, <2>3, <2>4
<1>6. ASSUME NEW k \in Takes, CopyFails(k)
      PROVE  Typed'
  <2>1. UNCHANGED <<db, nextId, erased, sync, edit, erase, purge, boot, watching,
                    debounce, restarts>>
    BY <1>6 DEF CopyFails
  <2>2. DiskTyped'
    <3>1. CASE UNCHANGED disk
      BY <3>1 DEF DiskTyped
    <3>2. CASE \E q \in Targets("tree", fin[k].file[2]) : disk' = [disk EXCEPT ![q] = "partial"]
      BY <3>2 DEF DiskTyped, Content
    <3> QED
      BY <1>6, <3>1, <3>2 DEF CopyFails
  <2>3. FinTyped'
    BY <1>6, <2>1, TargetsArePaths DEF CopyFails, FinGo, FinAt, Targets, FinTyped, In,
        TempOf, Paths, Names, OnDisk
  <2>4. (TableTyped /\ ErasedTyped /\ FlagsTyped /\ SyncTyped /\ EditTyped /\ EraseTyped
      /\ PurgeTyped)'
    BY <2>1 DEF TableTyped, ErasedTyped, FlagsTyped, SyncTyped, EditTyped, EraseTyped,
        PurgeTyped
  <2> QED
    BY <2>2, <2>3, <2>4
<1>7. ASSUME NEW k \in Takes, DeleteLocal(k)
      PROVE  Typed'
  <2>1. UNCHANGED <<db, nextId, erased, sync, edit, erase, purge, boot, watching, restarts>>
    BY <1>7 DEF DeleteLocal
  <2>2. DiskTyped'
    BY <1>7, <2>1 DEF DeleteLocal, FinGo, FinAt, DiskTyped, Paths, Names, Content, Audio,
        In, OnDisk, TempOf, FinTyped, EditTyped, Row
  <2>3. FlagsTyped'
    BY <1>7, <2>1 DEF DeleteLocal, FinGo, FinAt, FlagsTyped, AppDirEvent
  <2>4. FinTyped'
    BY <1>7, <2>1 DEF DeleteLocal, FinGo, FinAt, FinTyped, In, TempOf, Paths, Names,
        OnDisk
  <2>5. (TableTyped /\ ErasedTyped /\ SyncTyped /\ EditTyped /\ EraseTyped /\ PurgeTyped)'
    BY <2>1 DEF TableTyped, ErasedTyped, SyncTyped, EditTyped, EraseTyped, PurgeTyped
  <2> QED
    BY <2>2, <2>3, <2>4, <2>5
<1>8. ASSUME NEW k \in Takes, InsertTake(k)
      PROVE  Typed'
  <2>1. UNCHANGED <<disk, erased, sync, edit, erase, purge, boot, watching, debounce,
                    restarts>>
    BY <1>8 DEF InsertTake, Insert
  <2>2. TableTyped'
    BY <1>8, <2>1 DEF InsertTake, FinGo, FinAt, Insert, NewRow, TableTyped, Ids, Rows,
        Row, Trash, FinTyped, SyncTyped, EditTyped, EraseTyped, Paths, Names, In, TempOf,
        Content, Audio, Off
  <2>3. FinTyped'
    BY <1>8, <2>1 DEF InsertTake, FinGo, FinAt, Insert, NewRow, FinTyped, In, TempOf,
        Paths, Names, OnDisk
  <2>4. (DiskTyped /\ ErasedTyped /\ FlagsTyped /\ SyncTyped /\ EditTyped /\ EraseTyped /\
      PurgeTyped)'
    BY <2>1 DEF DiskTyped, ErasedTyped, FlagsTyped, SyncTyped, EditTyped, EraseTyped,
        PurgeTyped
  <2> QED
    BY <2>2, <2>3, <2>4
<1>9. ASSUME NEW s \in Syncs, SyncOnBoot(s)
      PROVE  Typed'
  <2>1. UNCHANGED <<disk, db, nextId, erased, fin, edit, erase, purge, watching, debounce,
                    restarts>>
    BY <1>9 DEF SyncOnBoot, SyncStart
  <2>2. FlagsTyped'
    BY <1>9, <2>1 DEF SyncOnBoot, SyncStart, SyncStep, RowPaths, FlagsTyped, AppDirEvent
  <2>3. SyncTyped'
    BY <1>9, <2>1 DEF SyncOnBoot, SyncStart, SyncStep, RowPaths, SyncTyped, Off, Paths,
        Names, In, TempOf, OnDisk, DiskTyped, Content, Audio, TableTyped, Rows, Row
  <2>4. (DiskTyped /\ TableTyped /\ ErasedTyped /\ FinTyped /\ EditTyped /\ EraseTyped /\
      PurgeTyped)'
    BY <2>1 DEF DiskTyped, TableTyped, ErasedTyped, FinTyped, EditTyped, EraseTyped,
        PurgeTyped
  <2> QED
    BY <2>2, <2>3, <2>4
<1>10. ASSUME NEW s \in Syncs, SyncOnResume(s)
      PROVE  Typed'
  <2>1. UNCHANGED <<disk, db, nextId, erased, fin, edit, erase, purge, boot, watching,
                    debounce, restarts>>
    BY <1>10 DEF SyncOnResume, SyncStart
  <2>2. SyncTyped'
    BY <1>10, <2>1 DEF SyncOnResume, SyncStart, SyncStep, RowPaths, SyncTyped, Off, Paths,
        Names, In, TempOf, OnDisk, DiskTyped, Content, Audio, TableTyped, Rows, Row
  <2>3. (DiskTyped /\ TableTyped /\ ErasedTyped /\ FlagsTyped /\ FinTyped /\ EditTyped /\
      EraseTyped /\ PurgeTyped)'
    BY <2>1 DEF DiskTyped, TableTyped, ErasedTyped, FlagsTyped, FinTyped, EditTyped,
        EraseTyped, PurgeTyped
  <2> QED
    BY <2>2, <2>3
<1>11. ASSUME NEW s \in Syncs, SyncOnEvent(s)
      PROVE  Typed'
  <2>1. UNCHANGED <<disk, db, nextId, erased, fin, edit, erase, purge, boot, watching,
                    restarts>>
    BY <1>11 DEF SyncOnEvent, SyncStart
  <2>2. FlagsTyped'
    BY <1>11, <2>1 DEF SyncOnEvent, SyncStart, SyncStep, RowPaths, FlagsTyped, AppDirEvent
  <2>3. SyncTyped'
    BY <1>11, <2>1 DEF SyncOnEvent, SyncStart, SyncStep, RowPaths, SyncTyped, Off, Paths,
        Names, In, TempOf, OnDisk, DiskTyped, Content, Audio, TableTyped, Rows, Row
  <2>4. (DiskTyped /\ TableTyped /\ ErasedTyped /\ FinTyped /\ EditTyped /\ EraseTyped /\
      PurgeTyped)'
    BY <2>1 DEF DiskTyped, TableTyped, ErasedTyped, FinTyped, EditTyped, EraseTyped,
        PurgeTyped
  <2> QED
    BY <2>2, <2>3, <2>4
<1>12. ASSUME NEW s \in Syncs, ListApp(s)
      PROVE  Typed'
  <2>1. UNCHANGED <<disk, db, nextId, erased, fin, edit, erase, purge, boot, watching,
                    debounce, restarts>>
    BY <1>12 DEF ListApp
  <2>2. SyncTyped'
    <3>1. {f \in Listed("app") : f.path[2] \notin Takes}
            \in SUBSET [path: Paths \ {TempOf(k) : k \in Takes}, of: Content]
      BY DEF DiskTyped, Listed, In, Paths, Names, TempOf
    <3>2. sync[s] \in [pc: {"list", "app", "tree"}, rearms: BOOLEAN, known: SUBSET Paths,
            todo: SUBSET [path: Paths \ {TempOf(k) : k \in Takes}, of: Content]]
      BY <1>12 DEF ListApp, SyncTyped, Off
    <3> QED
      BY <1>12, <3>1, <3>2 DEF ListApp, SyncStep, SyncTyped
  <2>3. (DiskTyped /\ TableTyped /\ ErasedTyped /\ FlagsTyped /\ FinTyped /\ EditTyped /\
      EraseTyped /\ PurgeTyped)'
    BY <2>1 DEF DiskTyped, TableTyped, ErasedTyped, FlagsTyped, FinTyped, EditTyped,
        EraseTyped, PurgeTyped
  <2> QED
    BY <2>2, <2>3
<1>13. ASSUME NEW s \in Syncs, SkipKnown(s)
      PROVE  Typed'
  <2>1. UNCHANGED <<disk, db, nextId, erased, fin, edit, erase, purge, boot, watching,
                    debounce, restarts>>
    BY <1>13 DEF SkipKnown
  <2>2. SyncTyped'
    BY <1>13, <2>1 DEF SkipKnown, SyncStep, Fresh, SyncTyped, Off, Paths, Names, In,
        TempOf, OnDisk, DiskTyped, Content, Audio, TableTyped, Rows, Row
  <2>3. (DiskTyped /\ TableTyped /\ ErasedTyped /\ FlagsTyped /\ FinTyped /\ EditTyped /\
      EraseTyped /\ PurgeTyped)'
    BY <2>1 DEF DiskTyped, TableTyped, ErasedTyped, FlagsTyped, FinTyped, EditTyped,
        EraseTyped, PurgeTyped
  <2> QED
    BY <2>2, <2>3
<1>14. ASSUME NEW s \in Syncs, Adopt(s)
      PROVE  Typed'
  <2>1. UNCHANGED <<disk, erased, fin, edit, erase, purge, boot, watching, debounce,
                    restarts>>
    BY <1>14 DEF Adopt, Insert
  <2>2. TableTyped'
    BY <1>14, <2>1 DEF Adopt, SyncStep, Fresh, Insert, NewRow, TableTyped, Ids, Rows, Row,
        Trash, FinTyped, SyncTyped, EditTyped, EraseTyped, Paths, Names, In, TempOf,
        Content, Audio, Off
  <2>3. SyncTyped'
    <3>1. sync[s] \in [pc: {"list", "app", "tree"}, rearms: BOOLEAN, known: SUBSET Paths,
            todo: SUBSET [path: Paths \ {TempOf(k) : k \in Takes}, of: Content]]
      BY <1>14 DEF Adopt, SyncTyped, Off
    <3>2. PICK f \in sync[s].todo :
            sync' = [sync EXCEPT ![s] = [sync[s] EXCEPT !.todo = @ \ {f}, !.known = @ \cup {f.path}]]
      BY <1>14 DEF Adopt, SyncStep, Fresh
    <3>3. f.path \in Paths
      BY <3>1
    <3> QED
      BY <3>1, <3>2, <3>3 DEF SyncTyped
  <2>4. (DiskTyped /\ ErasedTyped /\ FlagsTyped /\ FinTyped /\ EditTyped /\ EraseTyped /\
      PurgeTyped)'
    BY <2>1 DEF DiskTyped, ErasedTyped, FlagsTyped, FinTyped, EditTyped, EraseTyped,
        PurgeTyped
  <2> QED
    BY <2>2, <2>3, <2>4
<1>15. ASSUME NEW s \in Syncs, ListTree(s)
      PROVE  Typed'
  <2>1. UNCHANGED <<disk, db, nextId, erased, fin, edit, erase, purge, boot, watching,
                    debounce, restarts>>
    BY <1>15 DEF ListTree
  <2>2. SyncTyped'
    <3>1. Listed("tree") \in SUBSET [path: Paths \ {TempOf(k) : k \in Takes}, of: Content]
      BY DEF DiskTyped, Listed, In, Paths, Names, TempOf
    <3>2. sync[s] \in [pc: {"list", "app", "tree"}, rearms: BOOLEAN, known: SUBSET Paths,
            todo: SUBSET [path: Paths \ {TempOf(k) : k \in Takes}, of: Content]]
      BY <1>15 DEF ListTree, SyncTyped, Off
    <3> QED
      BY <1>15, <3>1, <3>2 DEF ListTree, SyncStep, SyncTyped
  <2>3. (DiskTyped /\ TableTyped /\ ErasedTyped /\ FlagsTyped /\ FinTyped /\ EditTyped /\
      EraseTyped /\ PurgeTyped)'
    BY <2>1 DEF DiskTyped, TableTyped, ErasedTyped, FlagsTyped, FinTyped, EditTyped,
        EraseTyped, PurgeTyped
  <2> QED
    BY <2>2, <2>3
<1>16. ASSUME NEW s \in Syncs, SyncEnd(s)
      PROVE  Typed'
  <2>1. UNCHANGED <<disk, db, nextId, erased, fin, edit, erase, purge, boot, restarts>>
    BY <1>16 DEF SyncEnd
  <2>2. FlagsTyped'
    BY <1>16, <2>1 DEF SyncEnd, SyncStep, FlagsTyped, AppDirEvent
  <2>3. SyncTyped'
    BY <1>16, <2>1 DEF SyncEnd, SyncStep, SyncTyped, Off, Paths, Names, In, TempOf,
        OnDisk, DiskTyped, Content, Audio, TableTyped, Rows, Row
  <2>4. (DiskTyped /\ TableTyped /\ ErasedTyped /\ FinTyped /\ EditTyped /\ EraseTyped /\
      PurgeTyped)'
    BY <2>1 DEF DiskTyped, TableTyped, ErasedTyped, FinTyped, EditTyped, EraseTyped,
        PurgeTyped
  <2> QED
    BY <2>2, <2>3, <2>4
<1>17. ASSUME NEW e \in Editors, EditRead(e)
      PROVE  Typed'
  <2>1. UNCHANGED <<disk, db, nextId, erased, fin, sync, erase, purge, boot, watching,
                    debounce, restarts>>
    BY <1>17 DEF EditRead
  <2>2. EditTyped'
    BY <1>17, <2>1 DEF EditRead, Rows, EditTyped, Off, TableTyped, Row, Paths, Names,
        OnDisk
  <2>3. (DiskTyped /\ TableTyped /\ ErasedTyped /\ FlagsTyped /\ FinTyped /\ SyncTyped /\
      EraseTyped /\ PurgeTyped)'
    BY <2>1 DEF DiskTyped, TableTyped, ErasedTyped, FlagsTyped, FinTyped, SyncTyped,
        EraseTyped, PurgeTyped
  <2> QED
    BY <2>2, <2>3
<1>18. ASSUME NEW e \in Editors, EditTouch(e)
      PROVE  Typed'
  <2>1. UNCHANGED <<disk, nextId, erased, fin, sync, erase, purge, boot, watching,
                    debounce, restarts>>
    BY <1>18 DEF EditTouch, EditDone
  <2>2. TableTyped'
    BY <1>18, <2>1 DEF EditTouch, EditDone, Update, TableTyped, Ids, Rows, Row, Trash,
        FinTyped, SyncTyped, EditTyped, EraseTyped, Paths, Names, In, TempOf, Content,
        Audio, Off
  <2>3. EditTyped'
    BY <1>18, <2>1 DEF EditTouch, EditDone, Update, EditTyped, Off, TableTyped, Rows, Row,
        Paths, Names, OnDisk
  <2>4. (DiskTyped /\ ErasedTyped /\ FlagsTyped /\ FinTyped /\ SyncTyped /\ EraseTyped /\
      PurgeTyped)'
    BY <2>1 DEF DiskTyped, ErasedTyped, FlagsTyped, FinTyped, SyncTyped, EraseTyped,
        PurgeTyped
  <2> QED
    BY <2>2, <2>3, <2>4
<1>19. ASSUME NEW e \in Editors, EditTrash(e)
      PROVE  Typed'
  <2>1. UNCHANGED <<disk, nextId, erased, fin, sync, erase, purge, boot, watching,
                    debounce, restarts>>
    BY <1>19 DEF EditTrash, EditDone
  <2>2. TableTyped'
    <3>1. edit[e].row \in Row
      BY <1>19 DEF EditTrash, EditTyped, Off
    <3>2. [edit[e].row EXCEPT !.trashed = TRUE, !.old = FALSE] \in Row
      BY <3>1 DEF Row
    <3> QED
      BY <1>19, <3>2 DEF EditTrash, EditDone, Update, TableTyped
  <2>3. EditTyped'
    BY <1>19, <2>1 DEF EditTrash, EditDone, Update, EditTyped, Off, TableTyped, Rows, Row,
        Paths, Names, OnDisk
  <2>4. (DiskTyped /\ ErasedTyped /\ FlagsTyped /\ FinTyped /\ SyncTyped /\ EraseTyped /\
      PurgeTyped)'
    BY <2>1 DEF DiskTyped, ErasedTyped, FlagsTyped, FinTyped, SyncTyped, EraseTyped,
        PurgeTyped
  <2> QED
    BY <2>2, <2>3, <2>4
<1>20. ASSUME NEW e \in Editors, EditRestore(e)
      PROVE  Typed'
  <2>1. UNCHANGED <<disk, nextId, erased, fin, sync, erase, purge, boot, watching,
                    debounce, restarts>>
    BY <1>20 DEF EditRestore, EditDone
  <2>2. TableTyped'
    <3>1. edit[e].row \in Row
      BY <1>20 DEF EditRestore, EditTyped, Off
    <3>2. [edit[e].row EXCEPT !.trashed = FALSE, !.old = FALSE] \in Row
      BY <3>1 DEF Row
    <3> QED
      BY <1>20, <3>2 DEF EditRestore, EditDone, Update, TableTyped
  <2>3. EditTyped'
    BY <1>20, <2>1 DEF EditRestore, EditDone, Update, EditTyped, Off, TableTyped, Rows,
        Row, Paths, Names, OnDisk
  <2>4. (DiskTyped /\ ErasedTyped /\ FlagsTyped /\ FinTyped /\ SyncTyped /\ EraseTyped /\
      PurgeTyped)'
    BY <2>1 DEF DiskTyped, ErasedTyped, FlagsTyped, FinTyped, SyncTyped, EraseTyped,
        PurgeTyped
  <2> QED
    BY <2>2, <2>3, <2>4
<1>21. ASSUME NEW e \in Editors, MoveSkipped(e)
      PROVE  Typed'
  <2>1. UNCHANGED <<disk, db, nextId, erased, fin, sync, erase, purge, boot, watching,
                    debounce, restarts>>
    BY <1>21 DEF MoveSkipped
  <2>2. EditTyped'
    BY <1>21, <2>1 DEF MoveSkipped, Off, EditTyped, TableTyped, Rows, Row, Paths, Names,
        OnDisk
  <2>3. (DiskTyped /\ TableTyped /\ ErasedTyped /\ FlagsTyped /\ FinTyped /\ SyncTyped /\
      EraseTyped /\ PurgeTyped)'
    BY <2>1 DEF DiskTyped, TableTyped, ErasedTyped, FlagsTyped, FinTyped, SyncTyped,
        EraseTyped, PurgeTyped
  <2> QED
    BY <2>2, <2>3
<1>22. ASSUME NEW e \in Editors,
              \/ MoveTarget(e) \/ MoveRename(e) \/ MoveCopyBegins(e)
              \/ MoveCopied(e) \/ MoveDelete(e) \/ MoveFails(e)
      PROVE  Typed'
  BY <1>22, MoveTypesKept
<1>23. ASSUME NEW e \in Editors, MoveRow(e)
      PROVE  Typed'
  <2>1. UNCHANGED <<disk, nextId, erased, fin, sync, erase, purge, boot, watching,
                    debounce, restarts>>
    BY <1>23 DEF MoveRow, EditDone
  <2>2. TableTyped'
    BY <1>23, <2>1 DEF MoveRow, EditDone, Update, TableTyped, Ids, Rows, Row, Trash,
        FinTyped, SyncTyped, EditTyped, EraseTyped, Paths, Names, In, TempOf, Content,
        Audio, Off
  <2>3. EditTyped'
    BY <1>23, <2>1 DEF MoveRow, EditDone, Update, EditTyped, Off, TableTyped, Rows, Row,
        Paths, Names, OnDisk
  <2>4. (DiskTyped /\ ErasedTyped /\ FlagsTyped /\ FinTyped /\ SyncTyped /\ EraseTyped /\
      PurgeTyped)'
    BY <2>1 DEF DiskTyped, ErasedTyped, FlagsTyped, FinTyped, SyncTyped, EraseTyped,
        PurgeTyped
  <2> QED
    BY <2>2, <2>3, <2>4
<1>24. ASSUME NEW x \in Erasers, EraseBegin(x)
      PROVE  Typed'
  <2>1. UNCHANGED <<disk, db, nextId, erased, fin, sync, edit, purge, boot, watching,
                    debounce, restarts>>
    BY <1>24 DEF EraseBegin
  <2>2. EraseTyped'
    BY <1>24, <2>1 DEF EraseBegin, Off, EraseTyped, Ids, Rows, Trash
  <2>3. (DiskTyped /\ TableTyped /\ ErasedTyped /\ FlagsTyped /\ FinTyped /\ SyncTyped /\
      EditTyped /\ PurgeTyped)'
    BY <2>1 DEF DiskTyped, TableTyped, ErasedTyped, FlagsTyped, FinTyped, SyncTyped,
        EditTyped, PurgeTyped
  <2> QED
    BY <2>2, <2>3
<1>25. ASSUME NEW x \in Erasers, EraseFiles(x)
      PROVE  Typed'
  <2>1. UNCHANGED <<db, nextId, fin, sync, edit, purge, boot, watching, restarts>>
    BY <1>25 DEF EraseFiles, DeleteFiles
  <2>2. DiskTyped'
    BY <1>25, <2>1 DEF EraseFiles, DeleteFiles, DeletedPaths, DiskTyped, Paths, Names,
        Content, Audio, In, OnDisk, TempOf, FinTyped, EditTyped, Row
  <2>3. ErasedTyped'
    BY <1>25, <2>1 DEF EraseFiles, DeleteFiles, ErasedTyped, TableTyped, Rows, Row
  <2>4. FlagsTyped'
    BY <1>25, <2>1 DEF EraseFiles, DeleteFiles, DeletedPaths, FlagsTyped, AppDirEvent
  <2>5. EraseTyped'
    BY <1>25, <2>1 DEF EraseFiles, DeleteFiles, DeletedPaths, EraseTyped, Off, Ids, Rows,
        Trash
  <2>6. (TableTyped /\ FinTyped /\ SyncTyped /\ EditTyped /\ PurgeTyped)'
    BY <2>1 DEF TableTyped, FinTyped, SyncTyped, EditTyped, PurgeTyped
  <2> QED
    BY <2>2, <2>3, <2>4, <2>5, <2>6
<1>26. ASSUME NEW x \in Erasers, EraseRow(x)
      PROVE  Typed'
  <2>1. UNCHANGED <<disk, nextId, erased, fin, sync, edit, purge, boot, watching,
                    debounce, restarts>>
    BY <1>26 DEF EraseRow
  <2>2. TableTyped'
    BY <1>26, <2>1 DEF EraseRow, Off, TableTyped, Ids, Rows, Row, Trash, FinTyped,
        SyncTyped, EditTyped, EraseTyped, Paths, Names, In, TempOf, Content, Audio
  <2>3. EraseTyped'
    BY <1>26, <2>1 DEF EraseRow, Off, EraseTyped, Ids, Rows, Trash
  <2>4. (DiskTyped /\ ErasedTyped /\ FlagsTyped /\ FinTyped /\ SyncTyped /\ EditTyped /\
      PurgeTyped)'
    BY <2>1 DEF DiskTyped, ErasedTyped, FlagsTyped, FinTyped, SyncTyped, EditTyped,
        PurgeTyped
  <2> QED
    BY <2>2, <2>3, <2>4
<1>27. ASSUME NEW x \in Erasers, EraseEnd(x)
      PROVE  Typed'
  <2>1. UNCHANGED <<disk, db, nextId, erased, fin, sync, edit, purge, boot, watching,
                    debounce, restarts>>
    BY <1>27 DEF EraseEnd
  <2>2. EraseTyped'
    BY <1>27, <2>1 DEF EraseEnd, Off, EraseTyped, Ids, Rows, Trash
  <2>3. (DiskTyped /\ TableTyped /\ ErasedTyped /\ FlagsTyped /\ FinTyped /\ SyncTyped /\
      EditTyped /\ PurgeTyped)'
    BY <2>1 DEF DiskTyped, TableTyped, ErasedTyped, FlagsTyped, FinTyped, SyncTyped,
        EditTyped, PurgeTyped
  <2> QED
    BY <2>2, <2>3
<1>28. ASSUME PurgeBegin
      PROVE  Typed'
  <2>1. UNCHANGED <<disk, db, nextId, erased, fin, sync, edit, erase, boot, watching,
                    debounce, restarts>>
    BY <1>28 DEF PurgeBegin
  <2>2. PurgeTyped'
    BY <1>28, <2>1 DEF PurgeBegin, Off, PurgeTyped, TableTyped, Rows, Trash
  <2>3. (DiskTyped /\ TableTyped /\ ErasedTyped /\ FlagsTyped /\ FinTyped /\ SyncTyped /\
      EditTyped /\ EraseTyped)'
    BY <2>1 DEF DiskTyped, TableTyped, ErasedTyped, FlagsTyped, FinTyped, SyncTyped,
        EditTyped, EraseTyped
  <2> QED
    BY <2>2, <2>3
<1>29. ASSUME PurgeFiles
      PROVE  Typed'
  <2>1. UNCHANGED <<db, nextId, fin, sync, edit, erase, boot, watching, restarts>>
    BY <1>29 DEF PurgeFiles, DeleteFiles
  <2>2. DiskTyped'
    BY <1>29, <2>1 DEF PurgeFiles, DeleteFiles, DeletedPaths, DiskTyped, Paths, Names,
        Content, Audio, In, OnDisk, TempOf, FinTyped, EditTyped, Row
  <2>3. ErasedTyped'
    BY <1>29, <2>1 DEF PurgeFiles, DeleteFiles, ErasedTyped, PurgeTyped, Row
  <2>4. FlagsTyped'
    BY <1>29, <2>1 DEF PurgeFiles, DeleteFiles, DeletedPaths, FlagsTyped, AppDirEvent
  <2>5. PurgeTyped'
    BY <1>29, <2>1 DEF PurgeFiles, DeleteFiles, DeletedPaths, PurgeTyped, TableTyped,
        Rows, Trash
  <2>6. (TableTyped /\ FinTyped /\ SyncTyped /\ EditTyped /\ EraseTyped)'
    BY <2>1 DEF TableTyped, FinTyped, SyncTyped, EditTyped, EraseTyped
  <2> QED
    BY <2>2, <2>3, <2>4, <2>5, <2>6
<1>30. ASSUME PurgeRows
      PROVE  Typed'
  <2>1. UNCHANGED <<disk, nextId, erased, fin, sync, edit, erase, boot, watching,
                    debounce, restarts>>
    BY <1>30 DEF PurgeRows
  <2>2. TableTyped'
    BY <1>30, <2>1 DEF PurgeRows, Off, TableTyped, Ids, Rows, Row, Trash, FinTyped,
        SyncTyped, EditTyped, EraseTyped, Paths, Names, In, TempOf, Content, Audio
  <2>3. PurgeTyped'
    BY <1>30, <2>1 DEF PurgeRows, Off, PurgeTyped, TableTyped, Rows, Trash
  <2>4. (DiskTyped /\ ErasedTyped /\ FlagsTyped /\ FinTyped /\ SyncTyped /\ EditTyped /\
      EraseTyped)'
    BY <2>1 DEF DiskTyped, ErasedTyped, FlagsTyped, FinTyped, SyncTyped, EditTyped,
        EraseTyped
  <2> QED
    BY <2>2, <2>3, <2>4
<1>31. ASSUME NEW f \in Foreign, ExternalAdd(f)
      PROVE  Typed'
  <2>1. UNCHANGED <<db, nextId, erased, fin, sync, edit, erase, purge, boot, watching,
                    restarts>>
    BY <1>31 DEF ExternalAdd
  <2>2. DiskTyped'
    BY <1>31, <2>1 DEF ExternalAdd, Stored, DiskTyped, Paths, Names, Content, Audio, In,
        OnDisk, TempOf, FinTyped, EditTyped, Row
  <2>3. FlagsTyped'
    BY <1>31, <2>1 DEF ExternalAdd, Stored, FlagsTyped, AppDirEvent
  <2>4. (TableTyped /\ ErasedTyped /\ FinTyped /\ SyncTyped /\ EditTyped /\ EraseTyped /\
      PurgeTyped)'
    BY <2>1 DEF TableTyped, ErasedTyped, FinTyped, SyncTyped, EditTyped, EraseTyped,
        PurgeTyped
  <2> QED
    BY <2>2, <2>3, <2>4
<1>32. ASSUME Restart
      PROVE  Typed'
  <2>1. UNCHANGED <<disk, nextId, erased>>
    BY <1>32 DEF Restart
  <2>2. TableTyped'
    <3>1. ASSUME NEW i \in Ids, db[i] # None
          PROVE  [db[i] EXCEPT !.old = TRUE] \in Row
      BY <3>1 DEF TableTyped, Row
    <3> QED
      BY <1>32, <3>1 DEF Restart, TableTyped, Trash, Rows
  <2>3. FlagsTyped'
    <3>1. restarts' \in 0 .. MaxRestarts
      BY <1>32 DEF Restart, FlagsTyped
    <3> QED
      BY <1>32, <3>1 DEF Restart, FlagsTyped
  <2>4. FinTyped'
    <3>1. ASSUME NEW k \in Takes
          PROVE  [fin[k] EXCEPT !.pc = "done"]
                   \in [pc: {"recording", "choose", "rename", "copy", "deleteLocal", "insert", "done"},
                        file: In("app"), doc: In("tree") \cup {None}]
      BY DEF FinTyped
    <3> QED
      BY <1>32, <3>1 DEF Restart, FinTyped
  <2>5. SyncTyped'
    BY <1>32, <2>1 DEF Restart, FinAt, SyncTyped, Off, Paths, Names, In, TempOf, OnDisk,
        DiskTyped, Content, Audio, TableTyped, Rows, Row
  <2>6. EditTyped'
    BY <1>32, <2>1 DEF Restart, FinAt, EditTyped, Off, TableTyped, Rows, Row, Paths,
        Names, OnDisk
  <2>7. EraseTyped'
    BY <1>32, <2>1 DEF Restart, FinAt, EraseTyped, Off, Ids, Rows, Trash
  <2>8. PurgeTyped'
    BY <1>32, <2>1 DEF Restart, FinAt, PurgeTyped, TableTyped, Rows, Trash
  <2>9. (DiskTyped /\ ErasedTyped)'
    BY <2>1 DEF DiskTyped, ErasedTyped
  <2> QED
    BY <2>2, <2>3, <2>4, <2>5, <2>6, <2>7, <2>8, <2>9
<1>33. CASE UNCHANGED vars
  BY <1>33 DEF vars, DiskTyped, TableTyped, ErasedTyped, FlagsTyped, FinTyped,
      SyncTyped, EditTyped, EraseTyped, PurgeTyped
<1> QED
  BY <1>1, <1>2, <1>3, <1>4, <1>5, <1>6, <1>7, <1>8, <1>9, <1>10, <1>11, <1>12, <1>13,
      <1>14, <1>15, <1>16, <1>17, <1>18, <1>19, <1>20, <1>21, <1>22, <1>23, <1>24, <1>25,
      <1>26, <1>27, <1>28, <1>29, <1>30, <1>31, <1>32, <1>33 DEF Next, Finalize, Sync,
      Edit, Erase, Purge

LEMMA TypedInvariant == Spec => []Typed
<1>1. Init => Typed
  <2> SUFFICES ASSUME Init
               PROVE  Typed
    OBVIOUS
  <2>1. DiskTyped /\ ErasedTyped
    BY DEF Init, DiskTyped, ErasedTyped, Content
  <2>2. TableTyped /\ FlagsTyped
    <3>1. db \in [Ids -> Row \cup {None}]
      BY DEF Init
    <3>2. nextId \in 1 .. MaxRows + 1 /\ restarts \in 0 .. MaxRestarts
      BY BoundAssumption DEF Init
    <3>3. boot \in BOOLEAN /\ watching \in BOOLEAN /\ debounce \in BOOLEAN
      BY DEF Init
    <3> QED
      BY <3>1, <3>2, <3>3 DEF TableTyped, FlagsTyped
  <2>3. FinTyped /\ SyncTyped /\ EditTyped /\ EraseTyped /\ PurgeTyped
    BY DEF Init, FinTyped, SyncTyped, EditTyped, EraseTyped, PurgeTyped, Off, TempOf,
        In, Names
  <2> QED
    BY <2>1, <2>2, <2>3 DEF Typed
<1>2. Typed /\ [Next]_vars => Typed'
  BY TypesKept
<1> QED
  BY <1>1, <1>2, PTL DEF Spec

\* In whatever way the finalizers, syncs, edits and deletes of the library
\* interleave, every variable keeps its type, and no sync ever has a take in
\* progress among the files it may adopt (RecordingRepository 238-240).
THEOREM LibraryTypes == Spec => []TypeOK
<1>1. Typed => TypeOK
  BY DEF Typed, TypeOK, DiskTyped, TableTyped, ErasedTyped, FlagsTyped, FinTyped,
      SyncTyped, EditTyped, EraseTyped, PurgeTyped
<1> QED
  BY <1>1, TypedInvariant, PTL

-----------------------------------------------------------------------------
(* Operations that run one at a time, no folder picked.                    *)
(*                                                                         *)
(* The three invariants of the rows are false when operations interleave   *)
(* or a folder is picked; here they are proved without both.  The          *)
(* invariant says that at most one operation is running, that every row    *)
(* has its audio but for the one row which that operation has in hand      *)
(* between its file step and its table step, and what each operation still *)
(* has to find when it gets there.                                         *)

SerialLocal == Serial = TRUE /\ UseTree = FALSE

\* Operation k, s, e, x or the purge is between its first step and its last.
FinOn(k) == fin[k].pc \notin {"recording", "done"}
SyncOn(s) == sync[s].pc # "off"
EditOn(e) == edit[e].pc # "off"
EraseOn(x) == erase[x].pc # "off"
PurgeOn == purge.pc = "files"

\* Two operations never run together.
Alone ==
    /\ \A k, l \in Takes : FinOn(k) /\ FinOn(l) => k = l
    /\ \A s, t \in Syncs : SyncOn(s) /\ SyncOn(t) => s = t
    /\ \A e, d \in Editors : EditOn(e) /\ EditOn(d) => e = d
    /\ \A x, y \in Erasers : EraseOn(x) /\ EraseOn(y) => x = y
    /\ \A k \in Takes : FinOn(k) =>
          /\ \A s \in Syncs : ~SyncOn(s)
          /\ \A e \in Editors : ~EditOn(e)
          /\ \A x \in Erasers : ~EraseOn(x)
          /\ ~PurgeOn
    /\ \A s \in Syncs : SyncOn(s) =>
          /\ \A e \in Editors : ~EditOn(e)
          /\ \A x \in Erasers : ~EraseOn(x)
          /\ ~PurgeOn
    /\ \A e \in Editors : EditOn(e) => (\A x \in Erasers : ~EraseOn(x)) /\ ~PurgeOn
    /\ \A x \in Erasers : EraseOn(x) => ~PurgeOn

\* The next id is above every row.
Below == \A i \in Rows : i < nextId

\* The running operation has dealt with the file of row i and not yet with
\* the row.
Gone(i) ==
    \/ \E x \in Erasers : erase[x].pc = "row" /\ erase[x].id = i
    \/ PurgeOn /\ db[i].trashed /\ db[i].old /\ db[i] \notin purge.todo
    \/ \E e \in Editors : edit[e].pc = "moved" /\ edit[e].id = i

\* Every other row has the audio it was inserted for.
Holds == \A i \in Rows : Gone(i) \/ (disk[db[i].path] = db[i].of /\ db[i].of # None)

\* A name FLAMBO_<ms> is in the table only when its take is done, and on disk
\* only when it was stopped.
OwnName(p) == \A k \in Takes : p[2] = k => fin[k].pc = "done"
NamesDone == \A i \in Rows : OwnName(db[i].path)
Unused ==
    \A k \in Takes : fin[k].pc = "recording" =>
        \A p \in Paths : p[2] = k => disk[p] = None

\* The finalizer finds the take where it left it; its target is free when it
\* renames, and no row has the path it inserts.
FinOk ==
    \A k \in Takes :
      /\ fin[k].pc \notin {"copy", "deleteLocal"}
      /\ fin[k].doc = None
      /\ fin[k].pc = "choose" => disk[TempOf(k)] = k /\ fin[k].file = TempOf(k)
      /\ fin[k].pc = "rename" =>
           disk[TempOf(k)] = k /\ fin[k].file[2] \in Titles /\ ~OnDisk(fin[k].file)
      /\ fin[k].pc = "insert" =>
           /\ disk[fin[k].file] = k
           /\ fin[k].file[2] \in Titles \cup {k}
           /\ \A i \in Rows : db[i].path # fin[k].file

\* A sync knows every row, and the files it has still to look at are there.
SyncOk ==
    \A s \in Syncs :
      /\ sync[s].pc # "tree"
      /\ SyncOn(s) =>
           /\ \A i \in Rows : db[i].path \in sync[s].known
           /\ \A f \in sync[s].todo : disk[f.path] = f.of /\ f.of # None /\ f.path[2] \notin Takes

\* A move in progress: its row is the one in the table, and its target is no
\* row's, holds nothing, half a copy or the copy.
TargetOk(e) ==
    /\ edit[e].id \in Rows /\ db[edit[e].id] = edit[e].row
    /\ edit[e].to # EditFile(e) /\ OwnName(edit[e].to)
    /\ \A i \in Rows : db[i].path # edit[e].to
    /\ edit[e].pc = "target" => disk[edit[e].to] = None
    /\ edit[e].pc = "copying" =>
          disk[edit[e].to] = "partial" /\ edit[e].audio = disk[EditFile(e)]
    /\ edit[e].pc = "copied" => disk[edit[e].to] = disk[EditFile(e)]

\* An edit writes back the row as it is in the table; a moved file has no row
\* until its row is updated.
EditOk ==
    \A e \in Editors :
      /\ edit[e].pc \in {"touch", "trash", "restore", "move"} =>
            edit[e].id \in Rows /\ db[edit[e].id] = edit[e].row
      /\ edit[e].pc \in {"target", "copying", "copied"} => TargetOk(e)
      /\ edit[e].pc = "moved" =>
            /\ \A i \in Rows : db[i].path # edit[e].row.path
            /\ disk[edit[e].row.path] = edit[e].row.of /\ edit[e].row.of # None
            /\ OwnName(edit[e].row.path)

\* The purge deletes files of rows it will delete.
PurgeOk == PurgeOn => \A r \in purge.todo : \E i \in Rows : db[i] = r /\ r.trashed /\ r.old

\* The invariant.
SerialInv ==
    /\ Alone /\ Below /\ OneRowPerFile /\ Holds /\ NamesDone /\ Unused
    /\ FinOk /\ SyncOk /\ EditOk /\ PurgeOk /\ AudioKept

\* Every row has its audio.
AllHeld == \A i \in Rows : disk[db[i].path] = db[i].of /\ db[i].of # None

\* Unless an operation is between its file and its table step, every row has
\* its audio.
LEMMA RowsHeld ==
    ASSUME SerialInv, \A x \in Erasers : erase[x].pc # "row",
           \A e \in Editors : edit[e].pc # "moved", ~PurgeOn
    PROVE  AllHeld
BY DEF SerialInv, Holds, Gone, AllHeld

\* While a finalizer runs nothing else does.
LEMMA FinRunsAlone ==
    ASSUME SerialInv, NEW k \in Takes, FinOn(k)
    PROVE  /\ AllHeld
           /\ \A l \in Takes : FinOn(l) => l = k
           /\ \A s \in Syncs : ~SyncOn(s)
           /\ \A e \in Editors : ~EditOn(e)
           /\ \A x \in Erasers : ~EraseOn(x)
           /\ ~PurgeOn
BY RowsHeld DEF SerialInv, Alone, EditOn, EraseOn

\* Nothing runs when an operation begins.
LEMMA NothingRuns ==
    ASSUME SerialInv, SerialLocal, MayBegin
    PROVE  /\ AllHeld
           /\ \A l \in Takes : ~FinOn(l)
           /\ \A s \in Syncs : ~SyncOn(s)
           /\ \A e \in Editors : ~EditOn(e)
           /\ \A x \in Erasers : ~EraseOn(x)
           /\ ~PurgeOn
BY RowsHeld DEF SerialLocal, MayBegin, Idle, FinOn, SyncOn, EditOn, EraseOn, PurgeOn

\* An operation that is not running stays so unless it steps, and nothing is
\* asked of the files and rows on its account.
LEMMA StaysOff ==
    ASSUME SerialInv
    PROVE  /\ (\A k \in Takes : ~FinOn(k)) /\ UNCHANGED fin => FinOk'
           /\ (\A s \in Syncs : ~SyncOn(s)) /\ UNCHANGED sync => SyncOk'
           /\ (\A e \in Editors : ~EditOn(e)) /\ UNCHANGED edit => EditOk'
           /\ ~PurgeOn /\ UNCHANGED purge => PurgeOk'
BY DEF SerialInv, FinOn, FinOk, SyncOn, SyncOk, EditOn, EditOk, PurgeOn, PurgeOk

\* While a sync runs nothing else does.
LEMMA SyncRunsAlone ==
    ASSUME SerialInv, NEW s \in Syncs, SyncOn(s)
    PROVE  /\ AllHeld
           /\ \A k \in Takes : ~FinOn(k)
           /\ \A t \in Syncs : SyncOn(t) => t = s
           /\ \A e \in Editors : ~EditOn(e)
           /\ \A x \in Erasers : ~EraseOn(x)
           /\ ~PurgeOn
BY RowsHeld DEF SerialInv, Alone, EditOn, EraseOn

\* While a permanent delete runs nothing else does.
LEMMA EraseRunsAlone ==
    ASSUME SerialInv, NEW x \in Erasers, EraseOn(x)
    PROVE  /\ erase[x].pc # "row" => AllHeld
           /\ \A k \in Takes : ~FinOn(k)
           /\ \A s \in Syncs : ~SyncOn(s)
           /\ \A e \in Editors : ~EditOn(e)
           /\ \A y \in Erasers : EraseOn(y) => y = x
           /\ ~PurgeOn
<1>1. /\ \A k \in Takes : ~FinOn(k)
      /\ \A s \in Syncs : ~SyncOn(s)
      /\ \A e \in Editors : ~EditOn(e)
      /\ \A y \in Erasers : EraseOn(y) => y = x
      /\ ~PurgeOn
  BY DEF SerialInv, Alone
<1> QED
  BY <1>1, RowsHeld DEF EditOn, EraseOn

\* While the purge runs nothing else does.
LEMMA PurgeRunsAlone ==
    ASSUME SerialInv, PurgeOn
    PROVE  /\ \A k \in Takes : ~FinOn(k)
           /\ \A s \in Syncs : ~SyncOn(s)
           /\ \A e \in Editors : ~EditOn(e)
           /\ \A x \in Erasers : ~EraseOn(x)
BY DEF SerialInv, Alone

\* What a row is.
LEMMA RowTyped ==
    ASSUME Typed, NEW i \in Rows
    PROVE  i \in Ids /\ db[i] # None /\ db[i] \in Row /\ db[i].path \in Paths /\ db[i].of \in Content
BY DEF Typed, TableTyped, Rows, Row

\* The temp file of a stopped take is new: no row points at it.
LEMMA TakeStoppedHeld ==
    ASSUME SerialLocal, Typed, SerialInv, NEW k \in Takes, TakeStopped(k)
    PROVE  Holds' /\ FinOk'
<1>0. /\ fin[k].pc = "recording" /\ TempOf(k) \in Paths /\ TempOf(k)[2] = k
      /\ disk \in [Paths -> Content]
  BY DEF TakeStopped, FinAt, TempOf, Paths, Names, Typed, DiskTyped
<1>1. AllHeld /\ (\A l \in Takes : ~FinOn(l))
  BY NothingRuns DEF TakeStopped
<1>2. disk' = [disk EXCEPT ![TempOf(k)] = k] /\ UNCHANGED <<db, erase, edit, purge>>
  BY DEF TakeStopped
<1>3. \A i \in Rows : db[i].path # TempOf(k)
  BY <1>0 DEF SerialInv, NamesDone, OwnName
<1>4. Holds'
  BY <1>0, <1>1, <1>2, <1>3, RowTyped DEF Holds, AllHeld, Rows
<1>5. fin' = [fin EXCEPT ![k] = [pc |-> "choose", file |-> TempOf(k), doc |-> None]]
  BY DEF TakeStopped, FinGo
<1>6. \A l \in Takes \ {k} :
        fin'[l] = fin[l] /\ fin[l].pc \in {"recording", "done"} /\ fin[l].doc = None
  BY <1>1, <1>5 DEF FinOn, SerialInv, FinOk
<1>7. fin'[k] = [pc |-> "choose", file |-> TempOf(k), doc |-> None] /\ disk'[TempOf(k)] = k
  BY <1>0, <1>2, <1>5 DEF Typed, FinTyped
<1> QED
  BY <1>4, <1>6, <1>7 DEF FinOk

\* The chosen name is free.
LEMMA ChooseNameHeld ==
    ASSUME SerialLocal, Typed, SerialInv, NEW k \in Takes, ChooseName(k)
    PROVE  FinOk'
<1>0. /\ fin[k].pc = "choose"
      /\ fin \in [Takes -> [pc: {"recording", "choose", "rename", "copy",
                               "deleteLocal", "insert", "done"},
                          file: In("app"), doc: In("tree") \cup {None}]]
  BY DEF ChooseName, FinAt, Typed, FinTyped
<1>1. \A l \in Takes : FinOn(l) => l = k
  BY <1>0, FinRunsAlone DEF FinOn
<1>2. PICK n \in Titles :
        ~OnDisk(<<"app", n>>) /\ fin' = [fin EXCEPT ![k] = [pc |-> "rename", file |-> <<"app", n>>, doc |-> None]]
  BY DEF ChooseName, FinGo
<1>3. UNCHANGED <<disk, db>>
  BY DEF ChooseName, fileVars
<1>6. \A l \in Takes \ {k} :
        fin'[l] = fin[l] /\ fin[l].pc \in {"recording", "done"} /\ fin[l].doc = None
  BY <1>0, <1>1, <1>2 DEF FinOn, SerialInv, FinOk
<1>7. /\ fin'[k] = [pc |-> "rename", file |-> <<"app", n>>, doc |-> None]
      /\ disk[TempOf(k)] = k
  BY <1>0, <1>2 DEF SerialInv, FinOk
<1> QED
  BY <1>2, <1>3, <1>6, <1>7 DEF FinOk, OnDisk

\* The rename replaces nothing, because the name is still free.
LEMMA RenameHeld ==
    ASSUME SerialLocal, Typed, SerialInv, NEW k \in Takes, Rename(k)
    PROVE  Holds' /\ FinOk'
<1>0. /\ fin[k].pc = "rename"
      /\ fin[k] \in [pc: {"rename"}, file: In("app"), doc: In("tree") \cup {None}]
  BY DEF Rename, FinAt, Typed, FinTyped
<1>1. AllHeld /\ (\A l \in Takes : FinOn(l) => l = k)
  BY <1>0, FinRunsAlone DEF FinOn
<1> DEFINE p == fin[k].file
<1>2. /\ p \in Paths /\ TempOf(k) \in Paths /\ TempOf(k)[2] = k /\ p[2] \in Titles
      /\ disk[p] = None
      /\ disk[TempOf(k)] = k /\ p # TempOf(k) /\ disk \in [Paths -> Content]
  BY <1>0, AudioAssumption DEF SerialInv, FinOk, OnDisk, In, Paths, Names, TempOf,
      Typed, DiskTyped
<1>3. /\ disk' = [disk EXCEPT ![p] = disk[TempOf(k)], ![TempOf(k)] = None]
      /\ UNCHANGED <<db, erase, edit, purge>>
  BY DEF Rename
<1>4. \A i \in Rows : db[i].path # TempOf(k) /\ db[i].path # p
  BY <1>0, <1>1, <1>2 DEF SerialInv, NamesDone, OwnName, AllHeld
<1>5. \A i \in Rows : disk'[db[i].path] = disk[db[i].path]
  BY <1>2, <1>3, <1>4, RowTyped
<1>6. Holds'
  BY <1>1, <1>3, <1>5 DEF Holds, AllHeld, Rows
<1>7. fin' = [fin EXCEPT ![k] = [pc |-> "insert", file |-> p, doc |-> None]]
  BY DEF Rename, FinGo, AfterRename, SerialLocal
<1>8. \A l \in Takes \ {k} :
        fin'[l] = fin[l] /\ fin[l].pc \in {"recording", "done"} /\ fin[l].doc = None
  BY <1>1, <1>7 DEF FinOn, SerialInv, FinOk
<1>9. fin'[k] = [pc |-> "insert", file |-> p, doc |-> None] /\ disk'[p] = k
  BY <1>2, <1>3, <1>7 DEF Typed, FinTyped
<1>10. \A i \in Rows' : db'[i].path # p
  BY <1>3, <1>4 DEF Rows
<1> HIDE DEF p
<1> QED
  BY <1>2, <1>6, <1>8, <1>9, <1>10 DEF FinOk

\* A failed rename leaves the take at its temp path.
LEMMA RenameFailsHeld ==
    ASSUME SerialLocal, Typed, SerialInv, NEW k \in Takes, RenameFails(k)
    PROVE  FinOk'
<1>0. /\ fin[k].pc = "rename"
      /\ fin[k] \in [pc: {"rename"}, file: In("app"), doc: In("tree") \cup {None}]
  BY DEF RenameFails, FinAt, Typed, FinTyped
<1>1. AllHeld /\ (\A l \in Takes : FinOn(l) => l = k)
  BY <1>0, FinRunsAlone DEF FinOn
<1>2. /\ fin[k].file \in Paths /\ TempOf(k) \in Paths /\ TempOf(k)[2] = k /\ fin[k].file[2] \in Titles
      /\ disk[TempOf(k)] = k /\ fin[k].file # TempOf(k) /\ disk \in [Paths -> Content]
  BY <1>0, AudioAssumption DEF SerialInv, FinOk, OnDisk, In, Paths, Names, TempOf,
      Typed, DiskTyped
<1>3. disk'[TempOf(k)] = k /\ UNCHANGED db
  BY <1>2 DEF RenameFails
<1>4. \A i \in Rows : db[i].path # TempOf(k)
  BY <1>0, <1>2 DEF SerialInv, NamesDone, OwnName
<1>7. fin' = [fin EXCEPT ![k] = [pc |-> "insert", file |-> TempOf(k), doc |-> None]]
  BY DEF RenameFails, FinGo, AfterRename, SerialLocal
<1>8. \A l \in Takes \ {k} :
        fin'[l] = fin[l] /\ fin[l].pc \in {"recording", "done"} /\ fin[l].doc = None
  BY <1>1, <1>7 DEF FinOn, SerialInv, FinOk
<1>9. fin'[k] = [pc |-> "insert", file |-> TempOf(k), doc |-> None]
  BY <1>7 DEF Typed, FinTyped
<1>10. \A i \in Rows' : db'[i].path # TempOf(k)
  BY <1>3, <1>4 DEF Rows
<1> QED
  BY <1>2, <1>3, <1>8, <1>9, <1>10 DEF FinOk

\* A new row gets an id above all others.
LEMMA InsertBelow ==
    ASSUME Typed, SerialInv, NEW p, NEW a, Insert(p, a)
    PROVE  Below'
<1>1. nextId \in Nat /\ nextId' = nextId + 1
  BY BoundAssumption DEF Typed, TableTyped, Insert
<1>2. \A i \in Rows' : i = nextId \/ i \in Rows
  BY DEF Insert, Rows, Typed, TableTyped
<1>3. \A i \in Rows : i \in Nat /\ i < nextId
  BY DEF SerialInv, Below, Rows, Ids
<1> QED
  BY <1>1, <1>2, <1>3 DEF Below

\* The row of a finished take is the first for its file.
LEMMA InsertTakeHeld ==
    ASSUME SerialLocal, Typed, SerialInv, NEW k \in Takes, InsertTake(k)
    PROVE  OneRowPerFile' /\ Holds' /\ NamesDone' /\ FinOk'
<1>0. /\ fin[k].pc = "insert"
      /\ fin[k] \in [pc: {"insert"}, file: In("app"), doc: In("tree") \cup {None}]
  BY DEF InsertTake, FinAt, Typed, FinTyped
<1>1. AllHeld /\ (\A l \in Takes : FinOn(l) => l = k)
  BY <1>0, FinRunsAlone DEF FinOn
<1> DEFINE p == fin[k].file
<1>2. /\ disk[p] = k /\ p[2] \in Titles \cup {k} /\ (\A i \in Rows : db[i].path # p) /\ fin[k].doc = None
      /\ k # None
  BY <1>0, AudioAssumption DEF SerialInv, FinOk
<1>3. /\ nextId \in Ids /\ db' = [db EXCEPT ![nextId] = NewRow(p, k)]
      /\ UNCHANGED <<disk, erase, edit, purge>>
  BY <1>2 DEF InsertTake, Insert
<1>4. \A i \in Rows' : \/ i = nextId /\ db'[i].path = p /\ db'[i].of = k
                       \/ i \in Rows /\ i # nextId /\ db'[i] = db[i]
  BY <1>3 DEF Rows, Typed, TableTyped, NewRow
<1>5. OneRowPerFile'
  BY <1>2, <1>4 DEF SerialInv, OneRowPerFile
<1>6. Holds'
  BY <1>1, <1>2, <1>3, <1>4 DEF Holds, AllHeld
<1>7. fin' = [fin EXCEPT ![k] = [pc |-> "done", file |-> p, doc |-> fin[k].doc]]
  BY DEF InsertTake, FinGo
<1>8. \A l \in Takes \ {k} :
        fin'[l] = fin[l] /\ fin[l].pc \in {"recording", "done"} /\ fin[l].doc = None
  BY <1>1, <1>7 DEF FinOn, SerialInv, FinOk
<1>9. fin'[k] = [pc |-> "done", file |-> p, doc |-> None]
  BY <1>2, <1>7 DEF Typed, FinTyped
<1>10. FinOk'
  BY <1>8, <1>9 DEF FinOk
<1>11. \A l \in Takes : fin[l].pc = "done" => fin'[l].pc = "done"
  BY <1>8, <1>9
<1>12. \A l \in Takes : p[2] = l => fin'[l].pc = "done"
  BY <1>2, <1>9, AudioAssumption
<1> HIDE DEF p
<1>13. NamesDone'
  BY <1>4, <1>11, <1>12 DEF SerialInv, NamesDone, OwnName
<1> QED
  BY <1>5, <1>6, <1>10, <1>13

\* A file that no row has yet gets one row.
LEMMA AdoptHeld ==
    ASSUME Typed, SerialInv, NEW s \in Syncs, Adopt(s)
    PROVE  OneRowPerFile' /\ Holds' /\ NamesDone' /\ SyncOk'
<1>0. /\ SyncOn(s)
      /\ sync[s] \in [pc: {"list", "app", "tree"}, rearms: BOOLEAN, known: SUBSET Paths,
          todo: SUBSET [path: Paths \ {TempOf(k) : k \in Takes}, of: Content]]
  BY DEF Adopt, SyncOn, Typed, SyncTyped, Off
<1>1. AllHeld /\ (\A t \in Syncs : SyncOn(t) => t = s)
  BY <1>0, SyncRunsAlone
<1>2. PICK f \in Fresh(s) :
          /\ Insert(f.path, f.of)
          /\ sync' = [sync EXCEPT ![s] = [sync[s] EXCEPT !.todo = @ \ {f}, !.known = @ \cup {f.path}]]
  BY DEF Adopt, SyncStep
<1>3. /\ disk[f.path] = f.of /\ f.of # None /\ f.path[2] \notin Takes
      /\ \A i \in Rows : db[i].path # f.path
  BY <1>0 DEF SerialInv, SyncOk, Fresh
<1>4. nextId \in Ids /\ db' = [db EXCEPT ![nextId] = NewRow(f.path, f.of)]
      /\ UNCHANGED <<disk, fin, erase, edit, purge>>
  BY <1>2 DEF Adopt, Insert
<1>5. \A i \in Rows' : \/ i = nextId /\ db'[i].path = f.path /\ db'[i].of = f.of
                       \/ i \in Rows /\ db'[i] = db[i]
  BY <1>4 DEF Rows, Typed, TableTyped, NewRow
<1>6. OneRowPerFile'
  BY <1>3, <1>5 DEF SerialInv, OneRowPerFile
<1>7. Holds'
  BY <1>1, <1>3, <1>4, <1>5 DEF Holds, AllHeld
<1>8. NamesDone'
  BY <1>3, <1>4, <1>5 DEF SerialInv, NamesDone, OwnName
<1>9. SyncOk'
  <2>1. /\ sync'[s].pc = sync[s].pc
        /\ sync'[s].todo \subseteq sync[s].todo
        /\ sync'[s].known = sync[s].known \cup {f.path}
    BY <1>0, <1>2 DEF Typed, SyncTyped
  <2>2. \A t \in Syncs \ {s} : sync'[t] = sync[t] /\ ~SyncOn(t)
    BY <1>1, <1>2
  <2>3. \A i \in Rows' : db'[i].path \in sync'[s].known
    BY <1>0, <1>5, <2>1 DEF SerialInv, SyncOk
  <2> QED
    BY <1>0, <1>4, <2>1, <2>2, <2>3 DEF SerialInv, SyncOk, SyncOn
<1> QED
  BY <1>6, <1>7, <1>8, <1>9

\* While an edit runs nothing else does.
LEMMA EditRunsAlone ==
    ASSUME SerialInv, NEW e \in Editors, EditOn(e)
    PROVE  /\ edit[e].pc # "moved" => AllHeld
           /\ \A k \in Takes : ~FinOn(k)
           /\ \A s \in Syncs : ~SyncOn(s)
           /\ \A d \in Editors : EditOn(d) => d = e
           /\ \A x \in Erasers : ~EraseOn(x)
           /\ ~PurgeOn
<1>1. /\ \A k \in Takes : ~FinOn(k)
      /\ \A s \in Syncs : ~SyncOn(s)
      /\ \A d \in Editors : EditOn(d) => d = e
      /\ \A x \in Erasers : ~EraseOn(x)
      /\ ~PurgeOn
  BY DEF SerialInv, Alone
<1> QED
  BY <1>1, RowsHeld DEF EditOn, EraseOn

\* Reading a row changes nothing.
LEMMA EditReadHeld ==
    ASSUME SerialLocal, Typed, SerialInv, NEW e \in Editors, EditRead(e)
    PROVE  Holds'
<1>1. AllHeld
  BY NothingRuns DEF EditRead
<1>2. UNCHANGED <<disk, db>>
  BY DEF EditRead, fileVars
<1> QED
  BY <1>1, <1>2 DEF Holds, AllHeld, Rows

\* The end of an edit leaves no editor running.
LEMMA EditEndsIdle ==
    ASSUME Typed, SerialInv, NEW e \in Editors, EditOn(e), edit' = [edit EXCEPT ![e] = Off]
    PROVE  EditOk'
<1>1. \A d \in Editors : edit'[d].pc = "off"
  BY EditRunsAlone DEF EditOn, Off, Typed, EditTyped
<1> QED
  BY <1>1 DEF EditOk

\* A row is written back as it was read, but for the flags of the trash.
LEMMA WrittenBack ==
    ASSUME SerialLocal, Typed, SerialInv, NEW e \in Editors, EditTouch(e) \/ EditTrash(e) \/ EditRestore(e)
    PROVE  OneRowPerFile' /\ Holds' /\ NamesDone' /\ EditOk'
<1>0. EditOn(e) /\ edit[e].pc \in {"touch", "trash", "restore"}
  BY DEF EditTouch, EditTrash, EditRestore, EditOn
<1>1. AllHeld
  BY <1>0, EditRunsAlone
<1>2. edit[e].id \in Rows /\ db[edit[e].id] = edit[e].row
  BY <1>0 DEF SerialInv, EditOk
<1>3. UNCHANGED <<disk, fin>>
  BY DEF EditTouch, EditTrash, EditRestore, EditDone
<1>4. PICK row : /\ Update(edit[e].id, row)
                 /\ row.path = edit[e].row.path /\ row.of = edit[e].row.of
  <2>1. edit[e].row \in Row
    BY <1>2, RowTyped
  <2>2. CASE EditTouch(e)
    BY <2>2 DEF EditTouch, EditDone
  <2>3. CASE EditTrash(e)
    <3> DEFINE new == [edit[e].row EXCEPT !.trashed = TRUE, !.old = FALSE]
    <3>1. new.path = edit[e].row.path /\ new.of = edit[e].row.of
      BY <2>1 DEF Row
    <3>2. Update(edit[e].id, new)
      BY <2>3 DEF EditTrash, EditDone
    <3> QED
      BY <3>1, <3>2
  <2>4. CASE EditRestore(e)
    <3> DEFINE new == [edit[e].row EXCEPT !.trashed = FALSE, !.old = FALSE]
    <3>1. new.path = edit[e].row.path /\ new.of = edit[e].row.of
      BY <2>1 DEF Row
    <3>2. Update(edit[e].id, new)
      BY <2>4 DEF EditRestore, EditDone
    <3> QED
      BY <3>1, <3>2
  <2> QED
    BY <2>2, <2>3, <2>4
<1>5. \A i \in Rows' : i \in Rows /\ db'[i].path = db[i].path /\ db'[i].of = db[i].of
  BY <1>2, <1>4 DEF Update, Rows, Typed, TableTyped
<1>6. Holds'
  BY <1>1, <1>3, <1>5 DEF Holds, AllHeld
<1>7. NamesDone'
  BY <1>3, <1>5 DEF SerialInv, NamesDone, OwnName
<1>8. OneRowPerFile'
  BY <1>5 DEF SerialInv, OneRowPerFile
<1>9. EditOk'
  BY <1>0, EditEndsIdle DEF EditTouch, EditTrash, EditRestore, EditDone
<1> QED
  BY <1>6, <1>7, <1>8, <1>9

\* A move looks for its target.
LEMMA MoveTargetHeld ==
    ASSUME SerialLocal, Typed, SerialInv, NEW e \in Editors, MoveTarget(e)
    PROVE  EditOk'
<1>0. EditOn(e) /\ edit[e].pc = "move" /\ UNCHANGED <<disk, db, fin>>
  BY DEF MoveTarget, EditOn, fileVars
<1>1. AllHeld /\ (\A d \in Editors : EditOn(d) => d = e)
  BY <1>0, EditRunsAlone
<1>2. edit[e].id \in Rows /\ db[edit[e].id] = edit[e].row
  BY <1>0 DEF SerialInv, EditOk
<1>3. PICK q \in Paths : /\ MoveGo(e, "target", q)
                         /\ disk[q] = None /\ q # EditFile(e)
                         /\ q[2] = EditFile(e)[2] \/ q[2] \in Titles
  BY MoveTargets
<1>4. /\ edit'[e].pc = "target" /\ edit'[e].id = edit[e].id /\ edit'[e].row = edit[e].row
      /\ edit'[e].to = q
      /\ \A d \in Editors \ {e} : edit'[d] = edit[d]
  BY <1>0, <1>3, MoveGoes DEF EditOn
<1>5. \A d \in Editors \ {e} : edit'[d].pc = "off"
  BY <1>1, <1>4 DEF EditOn
<1>6. \A i \in Rows : db[i].path # q
  BY <1>1, <1>3 DEF AllHeld
<1>7. OwnName(q)
  BY <1>2, <1>3, AudioAssumption DEF SerialInv, NamesDone, OwnName, EditFile
<1>8. TargetOk(e)'
  BY <1>0, <1>2, <1>3, <1>4, <1>6, <1>7 DEF TargetOk, EditFile, Rows, OwnName
<1> QED
  BY <1>4, <1>5, <1>8 DEF EditOk

\* While a move copies, the rows keep their audio and the takes their names.
LEMMA CopyHeld ==
    ASSUME SerialLocal, Typed, SerialInv, NEW e \in Editors, MoveCopyBegins(e) \/ MoveCopied(e)
    PROVE  Holds' /\ Unused' /\ EditOk' /\ AudioKept'
<1>0. /\ EditOn(e) /\ edit[e].pc \in {"target", "copying"}
      /\ UNCHANGED <<db, fin, erased, purge, erase>>
  BY DEF MoveCopyBegins, MoveCopied, EditOn
<1>1. AllHeld /\ (\A d \in Editors : EditOn(d) => d = e)
  BY <1>0, EditRunsAlone
<1> DEFINE p == EditFile(e)
           q == edit[e].to
<1>2. TargetOk(e)
  BY <1>0 DEF SerialInv, EditOk
<1>3. p \in Paths /\ q \in Paths
  BY <1>0, EditHas DEF EditOn
<1>4. PICK x : /\ disk' = [disk EXCEPT ![q] = x]
               /\ MoveCopyBegins(e) => x = "partial"
               /\ MoveCopied(e) => x = disk[p]
  <2>1. CASE MoveCopyBegins(e)
    BY <2>1 DEF MoveCopyBegins, MoveCopied
  <2>2. CASE MoveCopied(e)
    BY <2>2, <1>2 DEF MoveCopyBegins, MoveCopied, TargetOk
  <2> QED
    BY <2>1, <2>2
<1>5. /\ edit'[e].pc = IF MoveCopyBegins(e) THEN "copying" ELSE "copied"
      /\ edit'[e].id = edit[e].id /\ edit'[e].row = edit[e].row /\ edit'[e].to = q
      /\ MoveCopyBegins(e) => edit'[e].audio = disk[p]
      /\ \A d \in Editors \ {e} : edit'[d] = edit[d]
  <2>1. CASE MoveCopyBegins(e)
    BY <2>1 DEF MoveCopyBegins, EditFile, Typed, EditTyped
  <2>2. CASE MoveCopied(e)
    <3>1. edit[e].pc = "copying" /\ MoveGo(e, "copied", q) /\ ~MoveCopyBegins(e)
      BY <2>2 DEF MoveCopyBegins, MoveCopied
    <3> QED
      BY <1>0, <1>3, <3>1, MoveGoes DEF EditOn
  <2> QED
    BY <2>1, <2>2
<1>6. /\ \A r \in Paths \ {q} : disk'[r] = disk[r]
      /\ disk'[q] = x /\ p # q
  BY <1>2, <1>3, <1>4 DEF Typed, DiskTyped, TargetOk
<1>7. \A d \in Editors \ {e} : edit'[d].pc = "off"
  BY <1>1, <1>5 DEF EditOn
<1>8. disk[q] \notin Takes
  BY <1>0, <1>2, AudioAssumption DEF TargetOk
<1>9. \A i \in Rows : db[i].path # q
  BY <1>2 DEF TargetOk
<1>10. OwnName(q)
  BY <1>2 DEF TargetOk
<1>11. edit'[e].row.path = p
  BY <1>5 DEF EditFile
<1>12. edit[e].id \in Rows /\ db[edit[e].id] = edit[e].row
  BY <1>2 DEF TargetOk
<1> HIDE DEF p, q
<1>13. Holds'
  BY <1>0, <1>1, <1>6, <1>9, RowTyped DEF Holds, AllHeld, Rows
<1>14. Unused'
  <2>1. ASSUME NEW k \in Takes, NEW r \in Paths, fin[k].pc = "recording", r[2] = k
        PROVE  disk'[r] = None
    BY <1>6, <1>10, <2>1 DEF SerialInv, Unused, OwnName
  <2> QED
    BY <1>0, <2>1 DEF Unused
<1>15. AudioKept'
  <2> SUFFICES ASSUME NEW k \in Takes, fin'[k].pc # "recording", k \notin erased'
               PROVE  Stored(k)'
    BY DEF AudioKept
  <2>1. PICK r \in Paths : disk[r] = k
    BY <1>0 DEF SerialInv, AudioKept, Stored
  <2> QED
    BY <1>6, <1>8, <2>1 DEF Stored
<1>16. TargetOk(e)'
  <2>1. Rows' = Rows
    BY <1>0 DEF Rows
  <2>2. /\ EditFile(e)' = p /\ EditFile(e) = p /\ edit[e].to = q
        /\ disk'[p] = disk[p]
    BY <1>3, <1>6, <1>11 DEF EditFile, p, q
  <2>3. MoveCopyBegins(e) \/ (~MoveCopyBegins(e) /\ MoveCopied(e))
    OBVIOUS
  <2>4. /\ (edit[e].id \in Rows /\ db[edit[e].id] = edit[e].row)'
        /\ (edit[e].to # EditFile(e) /\ OwnName(edit[e].to))'
        /\ (\A i \in Rows : db[i].path # edit[e].to)'
    BY <1>0, <1>5, <1>6, <1>9, <1>10, <1>12, <2>1, <2>2 DEF OwnName
  <2>5. /\ edit'[e].pc = "copying" => disk'[q] = "partial" /\ edit'[e].audio = disk'[p]
        /\ edit'[e].pc = "copied" => disk'[q] = disk'[p]
        /\ edit'[e].pc # "target"
    BY <1>4, <1>5, <1>6, <2>2, <2>3
  <2> QED
    BY <1>5, <2>2, <2>4, <2>5 DEF TargetOk
<1>17. EditOk'
  BY <1>5, <1>7, <1>16 DEF EditOk
<1> QED
  BY <1>13, <1>14, <1>15, <1>17

\* A move replaces no file and leaves only its own row behind.
LEMMA FileMovedHeld ==
    ASSUME SerialLocal, Typed, SerialInv, NEW e \in Editors, MoveRename(e) \/ MoveDelete(e)
    PROVE  Holds' /\ Unused' /\ EditOk' /\ AudioKept'
<1>0. /\ EditOn(e) /\ edit[e].pc \in {"target", "copied"} /\ MoveEnds(e, edit[e].to)
      /\ UNCHANGED <<db, fin, erased, purge, erase>>
  BY DEF MoveRename, MoveDelete, EditOn
<1>1. AllHeld /\ (\A d \in Editors : EditOn(d) => d = e)
  BY <1>0, EditRunsAlone
<1> DEFINE p == EditFile(e)
           q == edit[e].to
           id == edit[e].id
<1>2. TargetOk(e)
  BY <1>0 DEF SerialInv, EditOk
<1>3. p \in Paths /\ q \in Paths /\ p # q
  BY <1>0, <1>2, EditHas DEF EditOn, TargetOk
<1>4. id \in Rows /\ db[id] = edit[e].row
  BY <1>2 DEF TargetOk
<1>5. disk[p] = edit[e].row.of /\ edit[e].row.of # None
  BY <1>1, <1>4 DEF AllHeld, EditFile
<1>6. disk'[q] = disk[p] /\ (\A r \in Paths \ {p, q} : disk'[r] = disk[r]) /\ disk'[p] = None
  <2>1. CASE MoveRename(e)
    BY <1>3, <2>1 DEF MoveRename, Typed, DiskTyped
  <2>2. CASE MoveDelete(e)
    BY <1>2, <1>3, <2>2 DEF MoveDelete, TargetOk, Typed, DiskTyped
  <2> QED
    BY <2>1, <2>2
<1>7. \A i \in Rows : db[i].path # q /\ (i # id => db[i].path # p)
  BY <1>2, <1>4 DEF TargetOk, EditFile, SerialInv, OneRowPerFile
<1>8. /\ edit'[e].row.path = q /\ edit'[e].row.of = edit[e].row.of
      /\ edit'[e].pc = "moved" /\ edit'[e].id = id
      /\ \A d \in Editors \ {e} : edit'[d] = edit[d]
  BY <1>0, <1>3, MoveSteps DEF EditOn
<1>9. \A d \in Editors \ {e} : edit'[d].pc = "off"
  BY <1>1, <1>8 DEF EditOn
<1>10. OwnName(q)
  BY <1>2 DEF TargetOk
<1>11. \A k \in Takes : disk[q] = k => disk[p] = k
  BY <1>0, <1>2, AudioAssumption DEF TargetOk
<1> HIDE DEF p, q, id
<1>12. Holds'
  <2> SUFFICES ASSUME NEW i \in Rows'
               PROVE  Gone(i)' \/ (disk'[db'[i].path] = db'[i].of /\ db'[i].of # None)
    BY DEF Holds
  <2>1. CASE i = id
    BY <2>1, <1>8 DEF Gone
  <2>2. CASE i # id
    BY <2>2, <1>0, <1>1, <1>6, <1>7, RowTyped DEF AllHeld, Rows
  <2> QED
    BY <2>1, <2>2
<1>13. EditOk'
  BY <1>0, <1>5, <1>6, <1>7, <1>8, <1>9, <1>10 DEF EditOk, OwnName, Rows
<1>14. AudioKept'
  <2> SUFFICES ASSUME NEW k \in Takes, fin'[k].pc # "recording", k \notin erased'
               PROVE  Stored(k)'
    BY DEF AudioKept
  <2>1. PICK r \in Paths : disk[r] = k
    BY <1>0 DEF SerialInv, AudioKept, Stored
  <2> QED
    BY <2>1, <1>3, <1>6, <1>11 DEF Stored
<1>15. Unused'
  <2>1. ASSUME NEW k \in Takes, NEW r \in Paths, fin[k].pc = "recording", r[2] = k
        PROVE  disk'[r] = None
    BY <1>6, <1>10, <2>1 DEF SerialInv, Unused, OwnName
  <2> QED
    BY <1>0, <2>1 DEF Unused
<1> QED
  BY <1>12, <1>13, <1>14, <1>15

\* ... until that row is updated.
LEMMA MoveRowHeld ==
    ASSUME SerialLocal, Typed, SerialInv, NEW e \in Editors, MoveRow(e)
    PROVE  OneRowPerFile' /\ Holds' /\ NamesDone' /\ EditOk'
<1>0. EditOn(e) /\ edit[e].pc = "moved"
  BY DEF MoveRow, EditOn
<1>1. /\ \A d \in Editors : EditOn(d) => d = e
      /\ \A x \in Erasers : ~EraseOn(x)
      /\ ~PurgeOn
  BY <1>0, EditRunsAlone
<1> DEFINE id == edit[e].id
           row == edit[e].row
<1>2. /\ (\A i \in Rows : db[i].path # row.path) /\ disk[row.path] = row.of
      /\ row.of # None /\ OwnName(row.path)
  BY <1>0 DEF SerialInv, EditOk
<1>3. UNCHANGED <<disk, fin>>
  BY DEF MoveRow, EditDone
<1>4. Update(id, row)
  BY DEF MoveRow, EditDone
<1>5. \A i \in Rows' : i \in Rows /\ (IF i = id THEN db'[i] = row ELSE db'[i] = db[i])
  BY <1>4 DEF Update, Rows, Typed, TableTyped
<1>6. \A i \in Rows : i # id => disk[db[i].path] = db[i].of /\ db[i].of # None
  BY <1>0, <1>1 DEF SerialInv, Holds, Gone, EditOn, EraseOn
<1> HIDE DEF id, row
<1>7. Holds'
  BY <1>2, <1>3, <1>5, <1>6 DEF Holds
<1>8. NamesDone'
  BY <1>2, <1>3, <1>5 DEF SerialInv, NamesDone, OwnName
<1>9. OneRowPerFile'
  BY <1>2, <1>5 DEF SerialInv, OneRowPerFile
<1>10. EditOk'
  BY <1>0, EditEndsIdle DEF MoveRow, EditDone
<1> QED
  BY <1>7, <1>8, <1>9, <1>10

\* Deleting the files of a row deletes its own file and no other.
LEMMA OwnFileDeleted ==
    ASSUME SerialLocal, Typed, SerialInv, NEW i \in Rows, DeleteFiles(db[i]),
           disk[db[i].path] = db[i].of
    PROVE  /\ \A j \in Rows \ {i} : disk'[db[j].path] = disk[db[j].path]
           /\ \A k \in Takes : Stored(k) => Stored(k)' \/ k \in erased'
<1>1. DeletedPaths(db[i].path) = {db[i].path}
  BY DEF DeletedPaths, SerialLocal
<1>2. /\ \A q \in Paths \ {db[i].path} : disk'[q] = disk[q]
      /\ erased' = erased \cup {db[i].of}
  BY <1>1 DEF DeleteFiles
<1>3. \A j \in Rows \ {i} : db[j].path # db[i].path /\ db[j].path \in Paths
  BY RowTyped DEF SerialInv, OneRowPerFile
<1>4. ASSUME NEW k \in Takes, Stored(k) PROVE Stored(k)' \/ k \in erased'
  <2>1. PICK q \in Paths : disk[q] = k
    BY <1>4 DEF Stored
  <2>2. CASE q = db[i].path
    BY <1>2, <2>1, <2>2
  <2>3. CASE q # db[i].path
    BY <1>2, <2>1, <2>3 DEF Stored
  <2> QED
    BY <2>2, <2>3
<1> QED
  BY <1>2, <1>3, <1>4

\* A permanent delete removes the file of one row ...
LEMMA EraseFilesHeld ==
    ASSUME SerialLocal, Typed, SerialInv, NEW x \in Erasers, EraseFiles(x)
    PROVE  Holds' /\ AudioKept'
<1>0. EraseOn(x) /\ erase[x].pc = "files"
  BY DEF EraseFiles, EraseOn
<1>1. AllHeld
  BY <1>0, RowsHeld DEF SerialInv, Alone, EditOn, EraseOn
<1>2. PICK i \in Rows : /\ DeleteFiles(db[i])
                        /\ erase' = [erase EXCEPT ![x] = [pc |-> "row", todo |-> @.todo, id |-> i]]
  BY DEF EraseFiles
<1>3. UNCHANGED <<db, fin>>
  BY DEF EraseFiles
<1>4. erase'[x].pc = "row" /\ erase'[x].id = i
  BY <1>2 DEF Typed, EraseTyped
<1>5. /\ \A j \in Rows \ {i} : disk'[db[j].path] = disk[db[j].path]
      /\ \A k \in Takes : Stored(k) => Stored(k)' \/ k \in erased'
  BY <1>1, <1>2, OwnFileDeleted DEF AllHeld
<1>6. Holds'
  BY <1>1, <1>3, <1>4, <1>5 DEF Holds, Gone, AllHeld, Rows
<1>7. AudioKept'
  BY <1>2, <1>3, <1>5 DEF SerialInv, AudioKept, DeleteFiles
<1> QED
  BY <1>6, <1>7

\* ... and then that row.
LEMMA EraseRowHeld ==
    ASSUME SerialLocal, Typed, SerialInv, NEW x \in Erasers, EraseRow(x)
    PROVE  Holds' /\ NamesDone'
<1>0. EraseOn(x) /\ erase[x].pc = "row"
  BY DEF EraseRow, EraseOn
<1>1. (\A y \in Erasers : EraseOn(y) => y = x) /\ (\A e \in Editors : ~EditOn(e)) /\ ~PurgeOn
  BY <1>0 DEF SerialInv, Alone
<1>2. UNCHANGED <<disk, fin>> /\ db' = [db EXCEPT ![erase[x].id] = None]
  BY DEF EraseRow
<1>3. \A i \in Rows' : i \in Rows /\ i # erase[x].id /\ db'[i] = db[i]
  BY <1>0, <1>2 DEF Rows, Typed, TableTyped
<1>4. \A i \in Rows : i # erase[x].id => disk[db[i].path] = db[i].of /\ db[i].of # None
  BY <1>0, <1>1 DEF SerialInv, Holds, Gone, EditOn, EraseOn
<1>5. Holds'
  BY <1>2, <1>3, <1>4 DEF Holds
<1>6. NamesDone'
  BY <1>2, <1>3 DEF SerialInv, NamesDone, OwnName
<1> QED
  BY <1>5, <1>6

\* The purge deletes the files of rows that are old in the trash ...
LEMMA PurgeFilesHeld ==
    ASSUME SerialLocal, Typed, SerialInv, PurgeFiles
    PROVE  Holds' /\ AudioKept'
<1>0. PurgeOn /\ purge \in [pc: {"ready", "files", "done"}, todo: SUBSET Row]
  BY DEF PurgeFiles, PurgeOn, Typed, PurgeTyped
<1>1. PICK row \in purge.todo : /\ DeleteFiles(row)
                                /\ purge' = [purge EXCEPT !.todo = @ \ {row}]
  BY DEF PurgeFiles
<1>2. PICK i \in Rows : db[i] = row /\ row.trashed /\ row.old
  BY <1>0 DEF SerialInv, PurgeOk
<1>3. \A j \in Rows : Gone(j) \/ (disk[db[j].path] = db[j].of /\ db[j].of # None)
  BY DEF SerialInv, Holds
<1>4. disk[db[i].path] = db[i].of
  BY <1>0, <1>1, <1>2, <1>3, PurgeRunsAlone DEF Gone, EditOn, EraseOn
<1>5. /\ \A j \in Rows \ {i} : disk'[db[j].path] = disk[db[j].path]
      /\ \A k \in Takes : Stored(k) => Stored(k)' \/ k \in erased'
  BY <1>1, <1>2, <1>4, OwnFileDeleted
<1>6. UNCHANGED <<db, fin, erase, edit>> /\ erased \subseteq erased'
  BY <1>1 DEF PurgeFiles, DeleteFiles
<1>7. PurgeOn' /\ purge'.todo = purge.todo \ {row}
  BY <1>0, <1>1 DEF PurgeOn
<1>8. Gone(i)' /\ \A j \in Rows : Gone(j) => Gone(j)'
  BY <1>2, <1>6, <1>7 DEF Gone
<1>9. Holds'
  BY <1>3, <1>5, <1>6, <1>8 DEF Holds, Rows
<1>10. AudioKept'
  BY <1>5, <1>6 DEF SerialInv, AudioKept
<1> QED
  BY <1>9, <1>10

\* ... and then exactly those rows.
LEMMA PurgeRowsHeld ==
    ASSUME SerialLocal, Typed, SerialInv, PurgeRows
    PROVE  Holds' /\ NamesDone'
<1>0. PurgeOn
  BY DEF PurgeRows, PurgeOn
<1>1. \A i \in Rows' : i \in Rows /\ db'[i] = db[i] /\ ~(db[i].trashed /\ db[i].old)
  BY DEF PurgeRows, Rows, Trash
<1>2. UNCHANGED <<disk, fin>>
  BY DEF PurgeRows
<1>3. \A i \in Rows : ~(db[i].trashed /\ db[i].old) => disk[db[i].path] = db[i].of /\ db[i].of # None
  BY <1>0, PurgeRunsAlone DEF SerialInv, Holds, Gone, EditOn, EraseOn
<1>4. Holds'
  BY <1>1, <1>2, <1>3 DEF Holds
<1>5. NamesDone'
  BY <1>1, <1>2 DEF SerialInv, NamesDone, OwnName
<1> QED
  BY <1>4, <1>5

\* A process death between two operations loses nothing.
LEMMA RestartHeld ==
    ASSUME SerialLocal, Typed, SerialInv, Restart
    PROVE  Below' /\ OneRowPerFile' /\ Holds' /\ NamesDone' /\ FinOk'
<1>1. AllHeld /\ (\A k \in Takes : ~FinOn(k))
  BY NothingRuns DEF Restart
<1>2. PICK aged \in SUBSET Trash :
          db' = [i \in Ids |-> IF i \in aged THEN [db[i] EXCEPT !.old = TRUE] ELSE db[i]]
  BY DEF Restart
<1>3. UNCHANGED <<disk, nextId>>
  BY DEF Restart
<1>4. \A i \in Rows' : i \in Rows /\ db'[i].path = db[i].path /\ db'[i].of = db[i].of
  BY <1>2, RowTyped DEF Trash, Rows, Row
<1>5. \A k \in Takes : fin'[k].pc = fin[k].pc /\ fin'[k].doc = fin[k].doc /\ fin[k].pc \in {"recording", "done"}
  BY <1>1 DEF Restart, FinAt, FinOn, Typed, FinTyped
<1>6. Holds'
  BY <1>1, <1>3, <1>4 DEF Holds, AllHeld
<1>7. NamesDone'
  BY <1>4, <1>5 DEF SerialInv, NamesDone, OwnName
<1>8. FinOk'
  BY <1>5 DEF SerialInv, FinOk
<1>9. Below' /\ OneRowPerFile'
  BY <1>3, <1>4 DEF SerialInv, Below, OneRowPerFile
<1> QED
  BY <1>6, <1>7, <1>8, <1>9

\* Every step keeps the invariant.  The operations that are not running ask for
\* nothing; the conjuncts that do not mention what a step changes stay.
LEMMA SerialKept ==
    ASSUME SerialLocal, Typed, SerialInv, [Next]_vars
    PROVE  SerialInv'
<1>1. ASSUME NEW k \in Takes, TakeStopped(k)
      PROVE  SerialInv'
  <2>1. UNCHANGED <<db, nextId, erased, sync, edit, erase, purge, boot, watching, restarts>>
    BY <1>1 DEF TakeStopped, fileVars, watchVars
  <2>2. /\ \A l \in Takes : ~FinOn(l)
        /\ \A t \in Syncs : ~SyncOn(t)
        /\ \A d \in Editors : ~EditOn(d)
        /\ \A y \in Erasers : ~EraseOn(y)
        /\ ~PurgeOn
    BY <1>1, NothingRuns DEF TakeStopped
  <2>3. SyncOk' /\ EditOk' /\ PurgeOk'
    BY <2>1, <2>2, StaysOff
  <2>4. Holds' /\ FinOk'
    BY <1>1, TakeStoppedHeld
  <2>5. Below' /\ OneRowPerFile'
    BY <2>1 DEF SerialInv, Below, Rows, OneRowPerFile
  <2>6. Alone'
    BY <1>1, <2>2 DEF TakeStopped, FinGo, Alone, FinOn, SyncOn, EditOn, EraseOn, PurgeOn
  <2>7. NamesDone'
    BY <1>1 DEF TakeStopped, FinGo, FinAt, NamesDone, OwnName, Rows, SerialInv
  <2>8. Unused'
    BY <1>1 DEF TakeStopped, FinGo, Unused, Typed, FinTyped, SerialInv, TempOf
  <2>9. AudioKept'
    BY <1>1, AudioAssumption DEF TakeStopped, FinGo, FinAt, AudioKept, Stored, Unused,
        Typed, DiskTyped, SerialInv, TempOf, Paths, Names
  <2> QED
    BY <2>3, <2>4, <2>5, <2>6, <2>7, <2>8, <2>9 DEF SerialInv
<1>2. ASSUME NEW k \in Takes, ChooseName(k)
      PROVE  SerialInv'
  <2>1. UNCHANGED <<disk, db, nextId, erased, sync, edit, erase, purge, boot, watching,
                    debounce, restarts>>
    BY <1>2 DEF ChooseName, fileVars, watchVars
  <2>2. /\ \A t \in Syncs : ~SyncOn(t)
        /\ \A d \in Editors : ~EditOn(d)
        /\ \A y \in Erasers : ~EraseOn(y)
        /\ ~PurgeOn
    BY <1>2, FinRunsAlone DEF ChooseName, FinAt, FinOn
  <2>3. SyncOk' /\ EditOk' /\ PurgeOk'
    BY <2>1, <2>2, StaysOff
  <2>4. FinOk'
    BY <1>2, ChooseNameHeld
  <2>5. Below' /\ OneRowPerFile' /\ Holds'
    BY <2>1 DEF SerialInv, Below, Rows, OneRowPerFile, Holds, Gone, PurgeOn
  <2>6. Alone'
    BY <1>2 DEF ChooseName, FinGo, FinAt, Alone, FinOn, SyncOn, EditOn, EraseOn, PurgeOn,
        SerialInv
  <2>7. NamesDone'
    BY <1>2, <2>1 DEF ChooseName, FinGo, FinAt, NamesDone, OwnName, Rows, SerialInv
  <2>8. Unused'
    BY <1>2, <2>1 DEF ChooseName, FinGo, Unused, SerialInv
  <2>9. AudioKept'
    BY <1>2, <2>1 DEF ChooseName, FinGo, FinAt, AudioKept, Stored, SerialInv
  <2> QED
    BY <2>3, <2>4, <2>5, <2>6, <2>7, <2>8, <2>9 DEF SerialInv
<1>3. ASSUME NEW k \in Takes, Rename(k)
      PROVE  SerialInv'
  <2>1. UNCHANGED <<db, nextId, erased, sync, edit, erase, purge, boot, watching, restarts>>
    BY <1>3 DEF Rename, fileVars, watchVars
  <2>2. /\ \A t \in Syncs : ~SyncOn(t)
        /\ \A d \in Editors : ~EditOn(d)
        /\ \A y \in Erasers : ~EraseOn(y)
        /\ ~PurgeOn
    BY <1>3, FinRunsAlone DEF Rename, FinAt, FinOn
  <2>3. SyncOk' /\ EditOk' /\ PurgeOk'
    BY <2>1, <2>2, StaysOff
  <2>4. Holds' /\ FinOk'
    BY <1>3, RenameHeld
  <2>5. Below' /\ OneRowPerFile'
    BY <2>1 DEF SerialInv, Below, Rows, OneRowPerFile
  <2>6. Alone'
    BY <1>3 DEF Rename, FinGo, FinAt, Alone, FinOn, SyncOn, EditOn, EraseOn, PurgeOn,
        SerialInv
  <2>7. NamesDone'
    BY <1>3 DEF Rename, FinGo, FinAt, NamesDone, OwnName, Rows, SerialInv
  <2>8. Unused'
    BY <1>3, AudioAssumption DEF Rename, FinGo, FinAt, AfterRename, Unused, FinOk, Typed,
        DiskTyped, SerialInv
  <2>9. AudioKept'
    BY <1>3, AudioAssumption DEF Rename, FinGo, FinAt, AudioKept, Stored, FinOk, Typed,
        DiskTyped, FinTyped, SerialInv, In, Paths, OnDisk
  <2> QED
    BY <2>3, <2>4, <2>5, <2>6, <2>7, <2>8, <2>9 DEF SerialInv
<1>4. ASSUME NEW k \in Takes, RenameFails(k)
      PROVE  SerialInv'
  <2>1. UNCHANGED <<db, nextId, erased, sync, edit, erase, purge, boot, watching, restarts>>
    BY <1>4 DEF RenameFails, fileVars, watchVars
  <2>2. /\ \A t \in Syncs : ~SyncOn(t)
        /\ \A d \in Editors : ~EditOn(d)
        /\ \A y \in Erasers : ~EraseOn(y)
        /\ ~PurgeOn
    BY <1>4, FinRunsAlone DEF RenameFails, FinAt, FinOn
  <2>3. SyncOk' /\ EditOk' /\ PurgeOk'
    BY <2>1, <2>2, StaysOff
  <2>4. FinOk'
    BY <1>4, RenameFailsHeld
  <2>5. Below' /\ OneRowPerFile'
    BY <2>1 DEF SerialInv, Below, Rows, OneRowPerFile
  <2>6. Alone'
    BY <1>4 DEF RenameFails, FinGo, FinAt, Alone, FinOn, SyncOn, EditOn, EraseOn, PurgeOn,
        SerialInv
  <2>7. Holds'
    <3>1. AllHeld /\ ~OnDisk(fin[k].file)
      BY <1>4, FinRunsAlone DEF RenameFails, FinAt, FinOn, SerialInv, FinOk
    <3>2. disk' \in {disk, [disk EXCEPT ![fin[k].file] = "partial"]}
      BY <1>4 DEF RenameFails
    <3>3. \A i \in Rows : disk'[db[i].path] = disk[db[i].path]
      BY <3>1, <3>2, RowTyped DEF AllHeld, OnDisk, Typed, DiskTyped
    <3> QED
      BY <2>1, <3>1, <3>3 DEF AllHeld, Holds, Rows
  <2>8. NamesDone'
    BY <1>4 DEF RenameFails, FinGo, FinAt, NamesDone, OwnName, Rows, SerialInv
  <2>9. Unused'
    BY <1>4, AudioAssumption DEF RenameFails, FinGo, FinAt, AfterRename, Unused, FinOk,
        Typed, DiskTyped, SerialInv
  <2>10. AudioKept'
    BY <1>4, AudioAssumption DEF RenameFails, FinGo, FinAt, AudioKept, Stored, FinOk,
        Typed, DiskTyped, SerialInv, OnDisk
  <2> QED
    BY <2>3, <2>4, <2>5, <2>6, <2>7, <2>8, <2>9, <2>10 DEF SerialInv
<1>5. ASSUME NEW k \in Takes, CopyToTree(k)
      PROVE  SerialInv'
  BY <1>5 DEF CopyToTree, FinAt, SerialInv, FinOk
<1>6. ASSUME NEW k \in Takes, CopyFails(k)
      PROVE  SerialInv'
  BY <1>6 DEF CopyFails, FinAt, SerialInv, FinOk
<1>7. ASSUME NEW k \in Takes, DeleteLocal(k)
      PROVE  SerialInv'
  BY <1>7 DEF DeleteLocal, FinAt, SerialInv, FinOk
<1>8. ASSUME NEW k \in Takes, InsertTake(k)
      PROVE  SerialInv'
  <2>1. UNCHANGED <<disk, erased, sync, edit, erase, purge, boot, watching, debounce,
                    restarts>>
    BY <1>8 DEF InsertTake, fileVars, watchVars, Insert
  <2>2. /\ \A t \in Syncs : ~SyncOn(t)
        /\ \A d \in Editors : ~EditOn(d)
        /\ \A y \in Erasers : ~EraseOn(y)
        /\ ~PurgeOn
    BY <1>8, FinRunsAlone DEF InsertTake, FinAt, FinOn
  <2>3. SyncOk' /\ EditOk' /\ PurgeOk'
    BY <2>1, <2>2, StaysOff
  <2>4. OneRowPerFile' /\ Holds' /\ NamesDone' /\ FinOk'
    BY <1>8, InsertTakeHeld
  <2>5. Alone'
    BY <1>8 DEF InsertTake, FinGo, Alone, FinOn, SyncOn, EditOn, EraseOn, PurgeOn, SerialInv
  <2>6. Below'
    BY <1>8, InsertBelow DEF InsertTake
  <2>7. Unused'
    BY <1>8 DEF InsertTake, FinGo, Unused, SerialInv
  <2>8. AudioKept'
    BY <1>8 DEF InsertTake, FinGo, FinAt, AudioKept, Stored, SerialInv
  <2> QED
    BY <2>3, <2>4, <2>5, <2>6, <2>7, <2>8 DEF SerialInv
<1>9. ASSUME NEW s \in Syncs, SyncOnBoot(s)
      PROVE  SerialInv'
  <2>1. UNCHANGED <<disk, db, nextId, erased, fin, edit, erase, purge, watching, debounce,
                    restarts>>
    BY <1>9 DEF SyncOnBoot, fileVars, watchVars, SyncStart
  <2>2. /\ \A l \in Takes : ~FinOn(l)
        /\ \A t \in Syncs : ~SyncOn(t)
        /\ \A d \in Editors : ~EditOn(d)
        /\ \A y \in Erasers : ~EraseOn(y)
        /\ ~PurgeOn
    BY <1>9, NothingRuns DEF SyncOnBoot, SyncStart
  <2>3. FinOk' /\ EditOk' /\ PurgeOk'
    BY <2>1, <2>2, StaysOff
  <2>4. Below' /\ OneRowPerFile' /\ Holds' /\ NamesDone' /\ Unused' /\ AudioKept'
    BY <2>1 DEF SerialInv, Below, Rows, OneRowPerFile, Holds, Gone, PurgeOn, NamesDone,
        OwnName, Unused, AudioKept, Stored
  <2>5. Alone'
    BY <1>9, <2>2 DEF SyncOnBoot, SyncStart, SyncStep, Alone, FinOn, SyncOn, EditOn,
        EraseOn, PurgeOn
  <2>6. SyncOk'
    BY <1>9, <2>1, <2>2 DEF SyncOnBoot, SyncStart, SyncStep, RowPaths, SyncOk, SyncOn,
        Rows
  <2> QED
    BY <2>3, <2>4, <2>5, <2>6 DEF SerialInv
<1>10. ASSUME NEW s \in Syncs, SyncOnResume(s)
      PROVE  SerialInv'
  <2>1. UNCHANGED <<disk, db, nextId, erased, fin, edit, erase, purge, boot, watching,
                    debounce, restarts>>
    BY <1>10 DEF SyncOnResume, fileVars, watchVars, SyncStart
  <2>2. /\ \A l \in Takes : ~FinOn(l)
        /\ \A t \in Syncs : ~SyncOn(t)
        /\ \A d \in Editors : ~EditOn(d)
        /\ \A y \in Erasers : ~EraseOn(y)
        /\ ~PurgeOn
    BY <1>10, NothingRuns DEF SyncOnResume, SyncStart
  <2>3. FinOk' /\ EditOk' /\ PurgeOk'
    BY <2>1, <2>2, StaysOff
  <2>4. Below' /\ OneRowPerFile' /\ Holds' /\ NamesDone' /\ Unused' /\ AudioKept'
    BY <2>1 DEF SerialInv, Below, Rows, OneRowPerFile, Holds, Gone, PurgeOn, NamesDone,
        OwnName, Unused, AudioKept, Stored
  <2>5. Alone'
    BY <1>10, <2>2 DEF SyncOnResume, SyncStart, SyncStep, Alone, FinOn, SyncOn, EditOn,
        EraseOn, PurgeOn
  <2>6. SyncOk'
    BY <1>10, <2>1, <2>2 DEF SyncOnResume, SyncStart, SyncStep, RowPaths, SyncOk, SyncOn,
        Rows
  <2> QED
    BY <2>3, <2>4, <2>5, <2>6 DEF SerialInv
<1>11. ASSUME NEW s \in Syncs, SyncOnEvent(s)
      PROVE  SerialInv'
  <2>1. UNCHANGED <<disk, db, nextId, erased, fin, edit, erase, purge, boot, watching,
                    restarts>>
    BY <1>11 DEF SyncOnEvent, fileVars, watchVars, SyncStart
  <2>2. /\ \A l \in Takes : ~FinOn(l)
        /\ \A t \in Syncs : ~SyncOn(t)
        /\ \A d \in Editors : ~EditOn(d)
        /\ \A y \in Erasers : ~EraseOn(y)
        /\ ~PurgeOn
    BY <1>11, NothingRuns DEF SyncOnEvent, SyncStart
  <2>3. FinOk' /\ EditOk' /\ PurgeOk'
    BY <2>1, <2>2, StaysOff
  <2>4. Below' /\ OneRowPerFile' /\ Holds' /\ NamesDone' /\ Unused' /\ AudioKept'
    BY <2>1 DEF SerialInv, Below, Rows, OneRowPerFile, Holds, Gone, PurgeOn, NamesDone,
        OwnName, Unused, AudioKept, Stored
  <2>5. Alone'
    BY <1>11, <2>2 DEF SyncOnEvent, SyncStart, SyncStep, Alone, FinOn, SyncOn, EditOn,
        EraseOn, PurgeOn
  <2>6. SyncOk'
    BY <1>11, <2>1, <2>2 DEF SyncOnEvent, SyncStart, SyncStep, RowPaths, SyncOk, SyncOn,
        Rows
  <2> QED
    BY <2>3, <2>4, <2>5, <2>6 DEF SerialInv
<1>12. ASSUME NEW s \in Syncs, ListApp(s)
      PROVE  SerialInv'
  <2>1. UNCHANGED <<disk, db, nextId, erased, fin, edit, erase, purge, boot, watching,
                    debounce, restarts>>
    BY <1>12 DEF ListApp, fileVars, watchVars
  <2>2. /\ \A l \in Takes : ~FinOn(l)
        /\ \A d \in Editors : ~EditOn(d)
        /\ \A y \in Erasers : ~EraseOn(y)
        /\ ~PurgeOn
    BY <1>12, SyncRunsAlone DEF ListApp, SyncOn
  <2>3. FinOk' /\ EditOk' /\ PurgeOk'
    BY <2>1, <2>2, StaysOff
  <2>4. Below' /\ OneRowPerFile' /\ Holds' /\ NamesDone' /\ Unused' /\ AudioKept'
    BY <2>1 DEF SerialInv, Below, Rows, OneRowPerFile, Holds, Gone, PurgeOn, NamesDone,
        OwnName, Unused, AudioKept, Stored
  <2>5. Alone'
    BY <1>12 DEF ListApp, SyncStep, Alone, FinOn, SyncOn, EditOn, EraseOn, PurgeOn,
        SerialInv
  <2>6. SyncOk'
    BY <1>12, <2>1 DEF ListApp, SyncStep, Listed, SyncOk, SerialInv, Rows, OnDisk, SyncOn
  <2> QED
    BY <2>3, <2>4, <2>5, <2>6 DEF SerialInv
<1>13. ASSUME NEW s \in Syncs, SkipKnown(s)
      PROVE  SerialInv'
  <2>1. UNCHANGED <<disk, db, nextId, erased, fin, edit, erase, purge, boot, watching,
                    debounce, restarts>>
    BY <1>13 DEF SkipKnown, fileVars, watchVars
  <2>2. /\ \A l \in Takes : ~FinOn(l)
        /\ \A d \in Editors : ~EditOn(d)
        /\ \A y \in Erasers : ~EraseOn(y)
        /\ ~PurgeOn
    BY <1>13, SyncRunsAlone DEF SkipKnown, SyncOn
  <2>3. FinOk' /\ EditOk' /\ PurgeOk'
    BY <2>1, <2>2, StaysOff
  <2>4. Below' /\ OneRowPerFile' /\ Holds' /\ NamesDone' /\ Unused' /\ AudioKept'
    BY <2>1 DEF SerialInv, Below, Rows, OneRowPerFile, Holds, Gone, PurgeOn, NamesDone,
        OwnName, Unused, AudioKept, Stored
  <2>5. Alone'
    BY <1>13 DEF SkipKnown, SyncStep, Alone, FinOn, SyncOn, EditOn, EraseOn, PurgeOn,
        SerialInv
  <2>6. SyncOk'
    BY <1>13, <2>1 DEF SkipKnown, SyncStep, Fresh, SyncOk, SyncOn, Rows, SerialInv
  <2> QED
    BY <2>3, <2>4, <2>5, <2>6 DEF SerialInv
<1>14. ASSUME NEW s \in Syncs, Adopt(s)
      PROVE  SerialInv'
  <2>1. UNCHANGED <<disk, erased, fin, edit, erase, purge, boot, watching, debounce,
                    restarts>>
    BY <1>14 DEF Adopt, fileVars, watchVars, Insert
  <2>2. /\ \A l \in Takes : ~FinOn(l)
        /\ \A d \in Editors : ~EditOn(d)
        /\ \A y \in Erasers : ~EraseOn(y)
        /\ ~PurgeOn
    BY <1>14, SyncRunsAlone DEF Adopt, SyncOn
  <2>3. FinOk' /\ EditOk' /\ PurgeOk'
    BY <2>1, <2>2, StaysOff
  <2>4. OneRowPerFile' /\ Holds' /\ NamesDone' /\ SyncOk'
    BY <1>14, AdoptHeld
  <2>5. Unused' /\ AudioKept'
    BY <2>1 DEF SerialInv, Unused, AudioKept, Stored
  <2>6. Alone'
    BY <1>14 DEF Adopt, SyncStep, Alone, FinOn, SyncOn, EditOn, EraseOn, PurgeOn, SerialInv
  <2>7. Below'
    BY <1>14, InsertBelow DEF Adopt
  <2> QED
    BY <2>3, <2>4, <2>5, <2>6, <2>7 DEF SerialInv
<1>15. ASSUME NEW s \in Syncs, ListTree(s)
      PROVE  SerialInv'
  BY <1>15 DEF ListTree, SerialLocal
<1>16. ASSUME NEW s \in Syncs, SyncEnd(s)
      PROVE  SerialInv'
  <2>1. UNCHANGED <<disk, db, nextId, erased, fin, edit, erase, purge, boot, restarts>>
    BY <1>16 DEF SyncEnd, fileVars, watchVars
  <2>2. /\ \A l \in Takes : ~FinOn(l)
        /\ \A d \in Editors : ~EditOn(d)
        /\ \A y \in Erasers : ~EraseOn(y)
        /\ ~PurgeOn
    BY <1>16, SyncRunsAlone DEF SyncEnd, SyncOn
  <2>3. FinOk' /\ EditOk' /\ PurgeOk'
    BY <2>1, <2>2, StaysOff
  <2>4. Below' /\ OneRowPerFile' /\ Holds' /\ NamesDone' /\ Unused' /\ AudioKept'
    BY <2>1 DEF SerialInv, Below, Rows, OneRowPerFile, Holds, Gone, PurgeOn, NamesDone,
        OwnName, Unused, AudioKept, Stored
  <2>5. Alone'
    BY <1>16 DEF SyncEnd, SyncStep, Alone, FinOn, SyncOn, EditOn, EraseOn, PurgeOn,
        SerialInv
  <2>6. SyncOk'
    BY <1>16, <2>1 DEF SyncEnd, SyncStep, SyncOk, SyncOn, Rows, Off, SerialInv
  <2> QED
    BY <2>3, <2>4, <2>5, <2>6 DEF SerialInv
<1>17. ASSUME NEW e \in Editors, EditRead(e)
      PROVE  SerialInv'
  <2>1. UNCHANGED <<disk, db, nextId, erased, fin, sync, erase, purge, boot, watching,
                    debounce, restarts>>
    BY <1>17 DEF EditRead, fileVars, watchVars
  <2>2. /\ \A l \in Takes : ~FinOn(l)
        /\ \A t \in Syncs : ~SyncOn(t)
        /\ \A d \in Editors : ~EditOn(d)
        /\ \A y \in Erasers : ~EraseOn(y)
        /\ ~PurgeOn
    BY <1>17, NothingRuns DEF EditRead
  <2>3. FinOk' /\ SyncOk' /\ PurgeOk'
    BY <2>1, <2>2, StaysOff
  <2>4. Holds'
    BY <1>17, EditReadHeld
  <2>5. Below' /\ OneRowPerFile' /\ NamesDone' /\ Unused' /\ AudioKept'
    BY <2>1 DEF SerialInv, Below, Rows, OneRowPerFile, NamesDone, OwnName, Unused,
        AudioKept,
        Stored
  <2>6. Alone'
    BY <1>17, <2>2 DEF EditRead, Alone, FinOn, SyncOn, EditOn, EraseOn, PurgeOn
  <2>7. EditOk'
    BY <1>17, <2>1, <2>2 DEF EditRead, Rows, EditOk, EditOn
  <2> QED
    BY <2>3, <2>4, <2>5, <2>6, <2>7 DEF SerialInv
<1>18. ASSUME NEW e \in Editors, EditTouch(e)
      PROVE  SerialInv'
  <2>1. UNCHANGED <<disk, nextId, erased, fin, sync, erase, purge, boot, watching,
                    debounce, restarts>>
    BY <1>18 DEF EditTouch, fileVars, watchVars, EditDone
  <2>2. /\ \A l \in Takes : ~FinOn(l)
        /\ \A t \in Syncs : ~SyncOn(t)
        /\ \A y \in Erasers : ~EraseOn(y)
        /\ ~PurgeOn
    BY <1>18, EditRunsAlone DEF EditTouch, EditOn
  <2>3. FinOk' /\ SyncOk' /\ PurgeOk'
    BY <2>1, <2>2, StaysOff
  <2>4. OneRowPerFile' /\ Holds' /\ NamesDone' /\ EditOk'
    BY <1>18, WrittenBack
  <2>5. Unused' /\ AudioKept'
    BY <2>1 DEF SerialInv, Unused, AudioKept, Stored
  <2>6. Alone'
    BY <1>18 DEF EditTouch, EditDone, Alone, FinOn, SyncOn, EditOn, EraseOn, PurgeOn,
        SerialInv
  <2>7. Below'
    BY <1>18 DEF EditTouch, EditDone, Update, Below, Rows, SerialInv
  <2> QED
    BY <2>3, <2>4, <2>5, <2>6, <2>7 DEF SerialInv
<1>19. ASSUME NEW e \in Editors, EditTrash(e)
      PROVE  SerialInv'
  <2>1. UNCHANGED <<disk, nextId, erased, fin, sync, erase, purge, boot, watching,
                    debounce, restarts>>
    BY <1>19 DEF EditTrash, fileVars, watchVars, EditDone
  <2>2. /\ \A l \in Takes : ~FinOn(l)
        /\ \A t \in Syncs : ~SyncOn(t)
        /\ \A y \in Erasers : ~EraseOn(y)
        /\ ~PurgeOn
    BY <1>19, EditRunsAlone DEF EditTrash, EditOn
  <2>3. FinOk' /\ SyncOk' /\ PurgeOk'
    BY <2>1, <2>2, StaysOff
  <2>4. OneRowPerFile' /\ Holds' /\ NamesDone' /\ EditOk'
    BY <1>19, WrittenBack
  <2>5. Unused' /\ AudioKept'
    BY <2>1 DEF SerialInv, Unused, AudioKept, Stored
  <2>6. Alone'
    BY <1>19 DEF EditTrash, EditDone, Alone, FinOn, SyncOn, EditOn, EraseOn, PurgeOn,
        SerialInv
  <2>7. Below'
    BY <1>19 DEF EditTrash, EditDone, Update, Below, Rows, SerialInv
  <2> QED
    BY <2>3, <2>4, <2>5, <2>6, <2>7 DEF SerialInv
<1>20. ASSUME NEW e \in Editors, EditRestore(e)
      PROVE  SerialInv'
  <2>1. UNCHANGED <<disk, nextId, erased, fin, sync, erase, purge, boot, watching,
                    debounce, restarts>>
    BY <1>20 DEF EditRestore, fileVars, watchVars, EditDone
  <2>2. /\ \A l \in Takes : ~FinOn(l)
        /\ \A t \in Syncs : ~SyncOn(t)
        /\ \A y \in Erasers : ~EraseOn(y)
        /\ ~PurgeOn
    BY <1>20, EditRunsAlone DEF EditRestore, EditOn
  <2>3. FinOk' /\ SyncOk' /\ PurgeOk'
    BY <2>1, <2>2, StaysOff
  <2>4. OneRowPerFile' /\ Holds' /\ NamesDone' /\ EditOk'
    BY <1>20, WrittenBack
  <2>5. Unused' /\ AudioKept'
    BY <2>1 DEF SerialInv, Unused, AudioKept, Stored
  <2>6. Alone'
    BY <1>20 DEF EditRestore, EditDone, Alone, FinOn, SyncOn, EditOn, EraseOn, PurgeOn,
        SerialInv
  <2>7. Below'
    BY <1>20 DEF EditRestore, EditDone, Update, Below, Rows, SerialInv
  <2> QED
    BY <2>3, <2>4, <2>5, <2>6, <2>7 DEF SerialInv
<1>21. ASSUME NEW e \in Editors, MoveSkipped(e) \/ MoveFails(e)
      PROVE  SerialInv'
  <2>1. UNCHANGED <<disk, db, nextId, erased, fin, sync, erase, purge, boot, watching,
                    debounce, restarts>>
    BY <1>21 DEF MoveSkipped, MoveFails, fileVars, watchVars
  <2>2. /\ \A l \in Takes : ~FinOn(l)
        /\ \A t \in Syncs : ~SyncOn(t)
        /\ \A y \in Erasers : ~EraseOn(y)
        /\ ~PurgeOn
    BY <1>21, EditRunsAlone DEF MoveSkipped, MoveFails, EditOn
  <2>3. FinOk' /\ SyncOk' /\ PurgeOk'
    BY <2>1, <2>2, StaysOff
  <2>4. Below' /\ OneRowPerFile' /\ NamesDone' /\ Unused' /\ AudioKept'
    BY <2>1 DEF SerialInv, Below, Rows, OneRowPerFile, NamesDone, OwnName, Unused,
        AudioKept,
        Stored
  <2>5. Alone'
    <3>1. \A d \in Editors : edit'[d].pc # "off" => EditOn(d)
      BY <1>21 DEF MoveSkipped, MoveFails, EditOn, Off, Typed, EditTyped
    <3> QED
      BY <2>1, <3>1 DEF Alone, FinOn, SyncOn, EditOn, EraseOn, PurgeOn, SerialInv
  <2>6. Holds'
    <3>1. AllHeld
      BY <1>21, EditRunsAlone DEF MoveSkipped, MoveFails, EditOn
    <3> QED
      BY <2>1, <3>1 DEF AllHeld, Holds, Rows
  <2>7. EditOk'
    BY <1>21, EditEndsIdle DEF MoveSkipped, MoveFails, EditOn
  <2> QED
    BY <2>3, <2>4, <2>5, <2>6, <2>7 DEF SerialInv
<1>22. ASSUME NEW e \in Editors,
              \/ MoveTarget(e) \/ MoveRename(e) \/ MoveCopyBegins(e)
              \/ MoveCopied(e) \/ MoveDelete(e)
      PROVE  SerialInv'
  <2>1. /\ UNCHANGED <<db, nextId, erased, fin, sync, erase, purge, boot, watching, restarts>>
        /\ EditOn(e) /\ edit[e].pc # "moved"
    BY <1>22 DEF MoveTarget, MoveRename, MoveCopyBegins, MoveCopied, MoveDelete, EditOn,
        fileVars, watchVars
  <2>2. /\ \A l \in Takes : ~FinOn(l)
        /\ \A t \in Syncs : ~SyncOn(t)
        /\ \A d \in Editors : EditOn(d) => d = e
        /\ \A y \in Erasers : ~EraseOn(y)
        /\ ~PurgeOn
        /\ AllHeld
    BY <2>1, EditRunsAlone
  <2>3. FinOk' /\ SyncOk' /\ PurgeOk'
    BY <2>1, <2>2, StaysOff
  <2>4. Holds' /\ Unused' /\ EditOk' /\ AudioKept'
    <3>1. CASE MoveTarget(e)
      <4>1. UNCHANGED disk
        BY <3>1 DEF MoveTarget, fileVars
      <4>2. Holds' /\ Unused' /\ AudioKept'
        BY <2>1, <2>2, <4>1 DEF SerialInv, Holds, AllHeld, Rows, Unused, AudioKept, Stored
      <4> QED
        BY <3>1, <4>2, MoveTargetHeld
    <3>2. CASE MoveRename(e) \/ MoveDelete(e)
      BY <3>2, FileMovedHeld
    <3>3. CASE MoveCopyBegins(e) \/ MoveCopied(e)
      BY <3>3, CopyHeld
    <3> QED
      BY <1>22, <3>1, <3>2, <3>3
  <2>5. Below' /\ OneRowPerFile' /\ NamesDone'
    BY <2>1 DEF SerialInv, Below, Rows, OneRowPerFile, NamesDone, OwnName
  <2>6. \A d \in Editors : edit'[d].pc # "off" => EditOn(d)
    BY <1>22, <2>1 DEF MoveTarget, MoveRename, MoveCopyBegins, MoveCopied, MoveDelete,
        MoveGo, MoveEnds, EditOn, Typed, EditTyped
  <2>7. Alone'
    BY <2>1, <2>6 DEF Alone, FinOn, SyncOn, EditOn, EraseOn, PurgeOn, SerialInv
  <2> QED
    BY <2>3, <2>4, <2>5, <2>7 DEF SerialInv
<1>23. ASSUME NEW e \in Editors, MoveRow(e)
      PROVE  SerialInv'
  <2>1. UNCHANGED <<disk, nextId, erased, fin, sync, erase, purge, boot, watching,
                    debounce, restarts>>
    BY <1>23 DEF MoveRow, fileVars, watchVars, EditDone
  <2>2. /\ \A l \in Takes : ~FinOn(l)
        /\ \A t \in Syncs : ~SyncOn(t)
        /\ \A y \in Erasers : ~EraseOn(y)
        /\ ~PurgeOn
    BY <1>23, EditRunsAlone DEF MoveRow, EditOn
  <2>3. FinOk' /\ SyncOk' /\ PurgeOk'
    BY <2>1, <2>2, StaysOff
  <2>4. OneRowPerFile' /\ Holds' /\ NamesDone' /\ EditOk'
    BY <1>23, MoveRowHeld
  <2>5. Unused' /\ AudioKept'
    BY <2>1 DEF SerialInv, Unused, AudioKept, Stored
  <2>6. Alone'
    BY <1>23 DEF MoveRow, EditDone, Alone, FinOn, SyncOn, EditOn, EraseOn, PurgeOn,
        SerialInv
  <2>7. Below'
    BY <1>23 DEF MoveRow, EditDone, Update, Below, Rows, SerialInv
  <2> QED
    BY <2>3, <2>4, <2>5, <2>6, <2>7 DEF SerialInv
<1>24. ASSUME NEW x \in Erasers, EraseBegin(x)
      PROVE  SerialInv'
  <2>1. UNCHANGED <<disk, db, nextId, erased, fin, sync, edit, purge, boot, watching,
                    debounce, restarts>>
    BY <1>24 DEF EraseBegin, fileVars, watchVars
  <2>2. /\ \A l \in Takes : ~FinOn(l)
        /\ \A t \in Syncs : ~SyncOn(t)
        /\ \A d \in Editors : ~EditOn(d)
        /\ \A y \in Erasers : ~EraseOn(y)
        /\ ~PurgeOn
    BY <1>24, NothingRuns DEF EraseBegin
  <2>3. FinOk' /\ SyncOk' /\ EditOk' /\ PurgeOk'
    BY <2>1, <2>2, StaysOff
  <2>4. Below' /\ OneRowPerFile' /\ NamesDone' /\ Unused' /\ AudioKept'
    BY <2>1 DEF SerialInv, Below, Rows, OneRowPerFile, NamesDone, OwnName, Unused,
        AudioKept,
        Stored
  <2>5. Alone'
    BY <1>24, <2>2 DEF EraseBegin, Alone, FinOn, SyncOn, EditOn, EraseOn, PurgeOn
  <2>6. Holds'
    <3>1. AllHeld
      BY <1>24, NothingRuns DEF EraseBegin
    <3> QED
      BY <2>1, <3>1 DEF AllHeld, Holds, Rows
  <2> QED
    BY <2>3, <2>4, <2>5, <2>6 DEF SerialInv
<1>25. ASSUME NEW x \in Erasers, EraseFiles(x)
      PROVE  SerialInv'
  <2>1. UNCHANGED <<db, nextId, fin, sync, edit, purge, boot, watching, restarts>>
    BY <1>25 DEF EraseFiles, fileVars, watchVars, DeleteFiles
  <2>2. /\ \A l \in Takes : ~FinOn(l)
        /\ \A t \in Syncs : ~SyncOn(t)
        /\ \A d \in Editors : ~EditOn(d)
        /\ ~PurgeOn
    BY <1>25, EraseRunsAlone DEF EraseFiles, EraseOn
  <2>3. FinOk' /\ SyncOk' /\ EditOk' /\ PurgeOk'
    BY <2>1, <2>2, StaysOff
  <2>4. Holds' /\ AudioKept'
    BY <1>25, EraseFilesHeld
  <2>5. Below' /\ OneRowPerFile' /\ NamesDone'
    BY <2>1 DEF SerialInv, Below, Rows, OneRowPerFile, NamesDone, OwnName
  <2>6. Alone'
    BY <1>25 DEF EraseFiles, Alone, FinOn, SyncOn, EditOn, EraseOn, PurgeOn, SerialInv
  <2>7. Unused'
    BY <1>25 DEF EraseFiles, DeleteFiles, Unused, SerialInv
  <2> QED
    BY <2>3, <2>4, <2>5, <2>6, <2>7 DEF SerialInv
<1>26. ASSUME NEW x \in Erasers, EraseRow(x)
      PROVE  SerialInv'
  <2>1. UNCHANGED <<disk, nextId, erased, fin, sync, edit, purge, boot, watching,
                    debounce, restarts>>
    BY <1>26 DEF EraseRow, fileVars, watchVars
  <2>2. /\ \A l \in Takes : ~FinOn(l)
        /\ \A t \in Syncs : ~SyncOn(t)
        /\ \A d \in Editors : ~EditOn(d)
        /\ ~PurgeOn
    BY <1>26, EraseRunsAlone DEF EraseRow, EraseOn
  <2>3. FinOk' /\ SyncOk' /\ EditOk' /\ PurgeOk'
    BY <2>1, <2>2, StaysOff
  <2>4. Holds' /\ NamesDone'
    BY <1>26, EraseRowHeld
  <2>5. Unused' /\ AudioKept'
    BY <2>1 DEF SerialInv, Unused, AudioKept, Stored
  <2>6. Alone'
    BY <1>26 DEF EraseRow, Alone, FinOn, SyncOn, EditOn, EraseOn, PurgeOn, SerialInv
  <2>7. Below'
    BY <1>26 DEF EraseRow, Below, Rows, SerialInv
  <2>8. OneRowPerFile'
    BY <1>26 DEF EraseRow, OneRowPerFile, Rows, SerialInv
  <2> QED
    BY <2>3, <2>4, <2>5, <2>6, <2>7, <2>8 DEF SerialInv
<1>27. ASSUME NEW x \in Erasers, EraseEnd(x)
      PROVE  SerialInv'
  <2>1. UNCHANGED <<disk, db, nextId, erased, fin, sync, edit, purge, boot, watching,
                    debounce, restarts>>
    BY <1>27 DEF EraseEnd, fileVars, watchVars
  <2>2. /\ \A l \in Takes : ~FinOn(l)
        /\ \A t \in Syncs : ~SyncOn(t)
        /\ \A d \in Editors : ~EditOn(d)
        /\ ~PurgeOn
    BY <1>27, EraseRunsAlone DEF EraseEnd, EraseOn
  <2>3. FinOk' /\ SyncOk' /\ EditOk' /\ PurgeOk'
    BY <2>1, <2>2, StaysOff
  <2>4. Below' /\ OneRowPerFile' /\ NamesDone' /\ Unused' /\ AudioKept'
    BY <2>1 DEF SerialInv, Below, Rows, OneRowPerFile, NamesDone, OwnName, Unused,
        AudioKept,
        Stored
  <2>5. Alone'
    BY <1>27 DEF EraseEnd, Alone, FinOn, SyncOn, EditOn, EraseOn, PurgeOn, SerialInv
  <2>6. Holds'
    <3>1. AllHeld
      BY <1>27, EraseRunsAlone DEF EraseEnd, EraseOn
    <3> QED
      BY <2>1, <3>1 DEF AllHeld, Holds, Rows
  <2> QED
    BY <2>3, <2>4, <2>5, <2>6 DEF SerialInv
<1>28. ASSUME PurgeBegin
      PROVE  SerialInv'
  <2>1. UNCHANGED <<disk, db, nextId, erased, fin, sync, edit, erase, boot, watching,
                    debounce, restarts>>
    BY <1>28 DEF PurgeBegin, fileVars, watchVars
  <2>2. /\ \A l \in Takes : ~FinOn(l)
        /\ \A t \in Syncs : ~SyncOn(t)
        /\ \A d \in Editors : ~EditOn(d)
        /\ \A y \in Erasers : ~EraseOn(y)
        /\ ~PurgeOn
    BY <1>28, NothingRuns DEF PurgeBegin
  <2>3. FinOk' /\ SyncOk' /\ EditOk'
    BY <2>1, <2>2, StaysOff
  <2>4. Below' /\ OneRowPerFile' /\ NamesDone' /\ Unused' /\ AudioKept'
    BY <2>1 DEF SerialInv, Below, Rows, OneRowPerFile, NamesDone, OwnName, Unused,
        AudioKept,
        Stored
  <2>5. Alone'
    BY <1>28, <2>2 DEF PurgeBegin, Alone, FinOn, SyncOn, EditOn, EraseOn
  <2>6. Holds'
    <3>1. AllHeld
      BY <1>28, NothingRuns DEF PurgeBegin
    <3> QED
      BY <2>1, <3>1 DEF AllHeld, Holds, Rows
  <2>7. PurgeOk'
    BY <1>28, <2>1 DEF PurgeBegin, PurgeOk, Rows, Trash
  <2> QED
    BY <2>3, <2>4, <2>5, <2>6, <2>7 DEF SerialInv
<1>29. ASSUME PurgeFiles
      PROVE  SerialInv'
  <2>1. UNCHANGED <<db, nextId, fin, sync, edit, erase, boot, watching, restarts>>
    BY <1>29 DEF PurgeFiles, fileVars, watchVars, DeleteFiles
  <2>2. /\ \A l \in Takes : ~FinOn(l)
        /\ \A t \in Syncs : ~SyncOn(t)
        /\ \A d \in Editors : ~EditOn(d)
        /\ \A y \in Erasers : ~EraseOn(y)
    BY <1>29, PurgeRunsAlone DEF PurgeFiles, PurgeOn
  <2>3. FinOk' /\ SyncOk' /\ EditOk'
    BY <2>1, <2>2, StaysOff
  <2>4. Holds' /\ AudioKept'
    BY <1>29, PurgeFilesHeld
  <2>5. Below' /\ OneRowPerFile' /\ NamesDone'
    BY <2>1 DEF SerialInv, Below, Rows, OneRowPerFile, NamesDone, OwnName
  <2>6. Alone'
    BY <1>29, <2>2 DEF PurgeFiles, Alone, FinOn, SyncOn, EditOn, EraseOn
  <2>7. Unused'
    BY <1>29 DEF PurgeFiles, DeleteFiles, Unused, SerialInv
  <2>8. PurgeOk'
    BY <1>29 DEF PurgeFiles, PurgeOk, PurgeOn, Rows, SerialInv
  <2> QED
    BY <2>3, <2>4, <2>5, <2>6, <2>7, <2>8 DEF SerialInv
<1>30. ASSUME PurgeRows
      PROVE  SerialInv'
  <2>1. UNCHANGED <<disk, nextId, erased, fin, sync, edit, erase, boot, watching,
                    debounce, restarts>>
    BY <1>30 DEF PurgeRows, fileVars, watchVars
  <2>2. /\ \A l \in Takes : ~FinOn(l)
        /\ \A t \in Syncs : ~SyncOn(t)
        /\ \A d \in Editors : ~EditOn(d)
        /\ \A y \in Erasers : ~EraseOn(y)
    BY <1>30, PurgeRunsAlone DEF PurgeRows, PurgeOn
  <2>3. FinOk' /\ SyncOk' /\ EditOk'
    BY <2>1, <2>2, StaysOff
  <2>4. Holds' /\ NamesDone'
    BY <1>30, PurgeRowsHeld
  <2>5. Unused' /\ AudioKept'
    BY <2>1 DEF SerialInv, Unused, AudioKept, Stored
  <2>6. Alone'
    BY <1>30, <2>2 DEF PurgeRows, Alone, FinOn, SyncOn, EditOn, EraseOn
  <2>7. Below'
    BY <1>30 DEF PurgeRows, Below, Rows, SerialInv
  <2>8. OneRowPerFile'
    BY <1>30 DEF PurgeRows, OneRowPerFile, Rows, SerialInv
  <2>9. PurgeOk'
    BY <1>30 DEF PurgeRows, PurgeOk
  <2> QED
    BY <2>3, <2>4, <2>5, <2>6, <2>7, <2>8, <2>9 DEF SerialInv
<1>31. ASSUME NEW f \in Foreign, ExternalAdd(f)
      PROVE  SerialInv'
  <2>1. UNCHANGED <<db, nextId, erased, fin, sync, edit, erase, purge, boot, watching,
                    restarts>>
    BY <1>31 DEF ExternalAdd, fileVars, watchVars
  <2>2. /\ \A l \in Takes : ~FinOn(l)
        /\ \A t \in Syncs : ~SyncOn(t)
        /\ \A d \in Editors : ~EditOn(d)
        /\ \A y \in Erasers : ~EraseOn(y)
        /\ ~PurgeOn
    BY <1>31, NothingRuns DEF ExternalAdd
  <2>3. FinOk' /\ SyncOk' /\ EditOk' /\ PurgeOk'
    BY <2>1, <2>2, StaysOff
  <2>4. Alone' /\ Below' /\ OneRowPerFile' /\ NamesDone'
    BY <2>1 DEF SerialInv, Alone, FinOn, SyncOn, EditOn, EraseOn, PurgeOn, Below, Rows,
        OneRowPerFile, NamesDone, OwnName
  <2>5. Holds'
    BY <1>31, <2>2 DEF ExternalAdd, Holds, Gone, SerialInv, Rows, OnDisk
  <2>6. Unused'
    BY <1>31, AudioAssumption DEF ExternalAdd, Unused, SerialInv
  <2>7. AudioKept'
    BY <1>31, AudioAssumption DEF ExternalAdd, Stored, AudioKept, SerialInv, OnDisk
  <2> QED
    BY <2>3, <2>4, <2>5, <2>6, <2>7 DEF SerialInv
<1>32. ASSUME Restart
      PROVE  SerialInv'
  <2>1. UNCHANGED <<disk, nextId, erased>>
    BY <1>32 DEF Restart, fileVars, watchVars
  <2>2. /\ \A l \in Takes : ~FinOn(l)
        /\ \A t \in Syncs : ~SyncOn(t)
        /\ \A d \in Editors : ~EditOn(d)
        /\ \A y \in Erasers : ~EraseOn(y)
        /\ ~PurgeOn
    BY <1>32, NothingRuns DEF Restart
  <2>3. Below' /\ OneRowPerFile' /\ Holds' /\ NamesDone' /\ FinOk'
    BY <1>32, RestartHeld
  <2>4. Alone'
    BY <1>32, <2>2 DEF Restart, Alone, Off, FinOn, SyncOn, EditOn, EraseOn
  <2>5. Unused'
    BY <1>32 DEF Restart, Unused, SerialInv
  <2>6. SyncOk'
    BY <1>32, <2>2 DEF Restart, SyncOk, SyncOn, Typed, SyncTyped
  <2>7. EditOk'
    BY <1>32, <2>2 DEF Restart, EditOk, EditOn, Typed, EditTyped
  <2>8. PurgeOk'
    BY <1>32 DEF Restart, PurgeOk
  <2>9. AudioKept'
    BY <1>32 DEF Restart, FinAt, AudioKept, Stored, SerialInv
  <2> QED
    BY <2>3, <2>4, <2>5, <2>6, <2>7, <2>8, <2>9 DEF SerialInv
<1>33. CASE UNCHANGED vars
  <2>1. Alone' /\ Below' /\ OneRowPerFile' /\ Holds' /\ NamesDone' /\ Unused' /\ AudioKept'
    BY <1>33 DEF SerialInv, vars, fileVars, Alone, FinOn, SyncOn, EditOn, EraseOn, PurgeOn,
        Below, Rows, OneRowPerFile, Holds, Gone, NamesDone, OwnName, Unused, AudioKept,
        Stored
  <2>2. FinOk' /\ SyncOk' /\ PurgeOk'
    BY <1>33 DEF SerialInv, vars, fileVars, SyncOn, PurgeOn, Rows, FinOk, OnDisk, SyncOk,
        PurgeOk
  <2>3. EditOk'
    BY <1>33 DEF SerialInv, vars, fileVars, EditOk, TargetOk, EditFile, Rows, OwnName
  <2> QED
    BY <2>1, <2>2, <2>3 DEF SerialInv
<1> QED
  BY <1>1, <1>2, <1>3, <1>4, <1>5, <1>6, <1>7, <1>8, <1>9, <1>10, <1>11, <1>12, <1>13,
      <1>14, <1>15, <1>16, <1>17, <1>18, <1>19, <1>20, <1>21, <1>22, <1>23, <1>24, <1>25,
      <1>26, <1>27, <1>28, <1>29, <1>30, <1>31, <1>32, <1>33 DEF Next, Finalize, Sync,
      Edit, Erase, Purge

LEMMA SerialInvariant ==
    ASSUME SerialLocal
    PROVE  Spec => []SerialInv
<1>1. Init => SerialInv
  <2> SUFFICES ASSUME Init
               PROVE  SerialInv
    OBVIOUS
  <2>1. Rows = {}
    BY DEF Init, Rows
  <2>2. Alone /\ Below /\ OneRowPerFile /\ Holds /\ NamesDone /\ AudioKept
    BY <2>1 DEF Init, Off, Alone, FinOn, SyncOn, EditOn, EraseOn, PurgeOn, Below,
        OneRowPerFile, Holds, NamesDone, AudioKept
  <2>3. Unused /\ FinOk /\ SyncOk /\ EditOk /\ PurgeOk
    BY DEF Init, Off, Unused, FinOk, SyncOk, SyncOn, EditOk, PurgeOk, PurgeOn
  <2> QED
    BY <2>2, <2>3 DEF SerialInv
<1>2. Typed /\ SerialInv /\ [Next]_vars => SerialInv'
  BY SerialKept
<1> QED
  BY <1>1, <1>2, TypedInvariant, PTL DEF Spec

\* When operations run one at a time and recordings stay in the app's own
\* directories, two recordings never share a file (RecordingRepository
\* 224-247, RecordingController 434-444).
THEOREM SerialOneRowPerFile ==
    ASSUME SerialLocal
    PROVE  Spec => []OneRowPerFile
<1>1. SerialInv => OneRowPerFile
  BY DEF SerialInv
<1> QED
  BY <1>1, SerialInvariant, PTL

\* ... every recording outside the trash has its audio whenever nothing runs,
\* process deaths between two operations included (RecordingRepository 74-161,
\* 196-210): all rows do, since only an operation between its two steps, the
\* files and the table, leaves a row without its file.
THEOREM SerialRowsHaveFiles ==
    ASSUME SerialLocal
    PROVE  Spec => []ActiveRowHasFile
<1>1. SerialInv => ActiveRowHasFile
  <2> SUFFICES ASSUME SerialInv, Idle
               PROVE  \A i \in Rows : OnDisk(db[i].path)
    BY DEF ActiveRowHasFile
  <2>1. AllHeld
    BY RowsHeld DEF Idle, PurgeOn
  <2> QED
    BY <2>1 DEF AllHeld, OnDisk
<1> QED
  BY <1>1, SerialInvariant, PTL

\* ... and the audio of a stopped take is on disk unless its own row was
\* deleted for good (RecordingController 379-476, RecordingRepository 74-161).
THEOREM SerialAudioKept ==
    ASSUME SerialLocal
    PROVE  Spec => []AudioKept
<1>1. SerialInv => AudioKept
  BY DEF SerialInv
<1> QED
  BY <1>1, SerialInvariant, PTL
-----------------------------------------------------------------------------
(* One take and one mover, every interleaving, no folder picked.           *)
(*                                                                         *)
(* With two takes AudioKept fails: both finalizers find the same name free *)
(* and the second rename replaces the first file.  With two movers of one  *)
(* recording it fails too: the second re-creates the copy the first has    *)
(* just made and dies before it is whole again, and the first deletes the  *)
(* source.  And it fails when the row that a sync made of half a copy is   *)
(* deleted once the copy is whole.  Here all the rest may happen: any      *)
(* number of syncs, editors, erasers and process deaths, at any step.      *)
(* Until the files of a row are deleted, the finalizer and the mover are   *)
(* all that writes to the disk, and the mover knows where the audio is.    *)

OneTake(k) == Takes = {k} /\ Foreign = {} /\ UseTree = FALSE
OneMover == \A d, e \in Movers : d = e

EarlySteps == {"recording", "choose", "rename"}

\* An entry x of the table, or a copy of one: there is none before the
\* rename, and it is of the take or of half a copy.
Fits(f, k, x) == f.pc \notin EarlySteps /\ x.of \in {k, "partial"}

RowsFit(k) == \A i \in Rows : Fits(fin[k], k, db[i])
EditsFit(k) == \A e \in Editors : edit[e].pc # "off" => Fits(fin[k], k, edit[e].row)
SyncsFit(k) ==
    \A s \in Syncs : sync[s].pc # "off" => \A x \in sync[s].todo : Fits(fin[k], k, x)
PurgeFits(k) == \A x \in purge.todo : Fits(fin[k], k, x)
EntriesFit(k) == RowsFit(k) /\ EditsFit(k) /\ SyncsFit(k) /\ PurgeFits(k)

\* Before the rename there is the temp file only.
EarlyFiles(k) ==
    /\ fin[k].pc \in EarlySteps \cup {"insert", "done"}
    /\ fin[k].pc = "recording" => \A p \in Paths : disk[p] = None
    /\ fin[k].pc \in {"choose", "rename"} =>
          \A p \in Paths : disk[p] = IF p = TempOf(k) THEN k ELSE None
    /\ fin[k].pc = "rename" => fin[k].file \in {"app"} \X Titles

\* The files of a row were deleted, the take's or those of half a copy.
Spoiled(k) == erased \cap {k, "partial"} # {}
Kept(k) == fin[k].pc # "recording" => Stored(k) \/ Spoiled(k)

\* The target of a move holds nothing, half a copy or the copy.
CopyInHand(e) ==
    /\ edit[e].to # EditFile(e)
    /\ edit[e].pc = "target" => disk[edit[e].to] = None
    /\ edit[e].pc = "copying" =>
          disk[edit[e].to] = "partial" /\ edit[e].audio = disk[EditFile(e)]
    /\ edit[e].pc = "copied" => disk[edit[e].to] = disk[EditFile(e)]

OnlyMovers == \A e \in Editors :
    edit[e].pc \in {"move", "target", "copying", "copied"} => e \in Movers
MovesFit(k) == \A e \in Editors :
    edit[e].pc \in {"target", "copying", "copied"} => Spoiled(k) \/ CopyInHand(e)

AloneInv(k) == EntriesFit(k) /\ EarlyFiles(k) /\ Kept(k) /\ OnlyMovers /\ MovesFit(k)

\* Before the rename there are no rows and no copies of any.
LEMMA NoEntries ==
    ASSUME NEW k, EntriesFit(k), fin[k].pc \in EarlySteps
    PROVE  /\ Rows = {}
           /\ \A e \in Editors : edit[e].pc = "off"
           /\ \A s \in Syncs : sync[s].pc # "off" => sync[s].todo = {}
           /\ purge.todo = {}
BY DEF EntriesFit, RowsFit, EditsFit, SyncsFit, PurgeFits, Fits

\* ... so that the steps up to the rename leave none behind.
LEMMA EarlyStep ==
    ASSUME NEW k, EntriesFit(k), fin[k].pc \in EarlySteps, UNCHANGED <<db, sync, edit, purge>>
    PROVE  EntriesFit(k)' /\ OnlyMovers' /\ MovesFit(k)'
<1>1. /\ Rows = {} /\ purge.todo = {}
      /\ \A e \in Editors : edit[e].pc = "off"
      /\ \A s \in Syncs : sync[s].pc # "off" => sync[s].todo = {}
  BY NoEntries
<1>2. Rows' = {}
  BY <1>1 DEF Rows
<1>3. EntriesFit(k)'
  BY <1>1, <1>2 DEF EntriesFit, RowsFit, EditsFit, SyncsFit, PurgeFits
<1> QED
  BY <1>1, <1>3 DEF OnlyMovers, MovesFit

\* A step that leaves files, finalizer and editors alone.
LEMMA SameFiles ==
    ASSUME NEW k, AloneInv(k), UNCHANGED <<disk, fin, erased>>
    PROVE  /\ EarlyFiles(k)' /\ Kept(k)'
           /\ UNCHANGED edit => OnlyMovers' /\ MovesFit(k)'
<1>1. EarlyFiles(k)' /\ Kept(k)'
  BY DEF AloneInv, EarlyFiles, Kept, Stored, Spoiled
<1>2. ASSUME UNCHANGED edit
      PROVE  OnlyMovers' /\ MovesFit(k)'
  BY <1>2 DEF AloneInv, OnlyMovers, MovesFit, CopyInHand, EditFile, Spoiled
<1> QED
  BY <1>1, <1>2

\* An editor comes to have nothing in hand on the disk.
LEMMA EditorLeaves ==
    ASSUME NEW k, AloneInv(k), NEW e \in Editors, UNCHANGED <<disk, erased>>,
           \A d \in Editors \ {e} : edit'[d] = edit[d],
           \/ edit'[e].pc \in {"off", "touch", "trash", "restore", "moved"}
           \/ edit'[e].pc = "move" /\ e \in Movers
    PROVE  OnlyMovers' /\ MovesFit(k)'
<1>1. ASSUME NEW d \in Editors, d # e
      PROVE  /\ edit'[d] = edit[d]
             /\ CopyInHand(d) => CopyInHand(d)'
  BY <1>1 DEF CopyInHand, EditFile
<1>2. Spoiled(k)' <=> Spoiled(k)
  BY DEF Spoiled
<1> QED
  BY <1>1, <1>2 DEF AloneInv, OnlyMovers, MovesFit

\* The files of an entry are deleted (deleteAudio).
LEMMA DeleteFits ==
    ASSUME NEW k, AloneInv(k), NEW x, Fits(fin[k], k, x), DeleteFiles(x), UNCHANGED <<fin, edit>>
    PROVE  EarlyFiles(k)' /\ Kept(k)' /\ OnlyMovers' /\ MovesFit(k)'
<1>1. fin[k].pc \notin EarlySteps /\ Spoiled(k)'
  BY DEF DeleteFiles, Fits, Spoiled
<1>2. EarlyFiles(k)'
  BY <1>1 DEF AloneInv, EarlyFiles, EarlySteps
<1> QED
  BY <1>1, <1>2 DEF AloneInv, Kept, OnlyMovers, MovesFit

\* The finalizer, up to the insert.
LEMMA FinalizerAlone ==
    ASSUME NEW k \in Takes, OneTake(k), Typed, AloneInv(k),
           TakeStopped(k) \/ ChooseName(k) \/ Rename(k) \/ RenameFails(k)
    PROVE  AloneInv(k)'
<1>1. /\ EntriesFit(k) /\ EarlyFiles(k)
      /\ disk = [p \in Paths |-> disk[p]] /\ k # None /\ k # "partial" /\ k \notin Titles
      /\ TempOf(k) \in Paths
  <2>1. EntriesFit(k) /\ EarlyFiles(k)
    BY DEF AloneInv
  <2>2. disk = [p \in Paths |-> disk[p]]
    BY DEF Typed, DiskTyped
  <2>3. k # None /\ k # "partial" /\ k \notin Titles
    BY AudioAssumption
  <2>4. TempOf(k) \in Paths
    BY DEF TempOf, Paths, Names
  <2> QED
    BY <2>1, <2>2, <2>3, <2>4
<1>2. fin[k].pc \in EarlySteps /\ UNCHANGED <<db, sync, edit, purge>>
  BY DEF TakeStopped, ChooseName, Rename, RenameFails, FinAt, EarlySteps, fileVars
<1>3. EntriesFit(k)' /\ OnlyMovers' /\ MovesFit(k)'
  BY <1>1, <1>2, EarlyStep
<1>4. CASE TakeStopped(k)
  <2>1. /\ \A p \in Paths : disk[p] = None
        /\ disk' = [disk EXCEPT ![TempOf(k)] = k]
        /\ fin'[k].pc = "choose" /\ fin'[k].file = TempOf(k)
    BY <1>1, <1>4 DEF TakeStopped, FinAt, FinGo, EarlyFiles, Typed, FinTyped
  <2>2. \A p \in Paths : disk'[p] = IF p = TempOf(k) THEN k ELSE None
    BY <1>1, <2>1
  <2>3. EarlyFiles(k)' /\ Kept(k)'
    BY <1>1, <2>1, <2>2 DEF EarlyFiles, EarlySteps, Kept, Stored
  <2> QED
    BY <1>3, <2>3 DEF AloneInv
<1>5. CASE ChooseName(k)
  <2>1. /\ \A p \in Paths : disk[p] = IF p = TempOf(k) THEN k ELSE None
        /\ UNCHANGED <<disk, erased>>
        /\ fin'[k].pc = "rename" /\ fin'[k].file \in {"app"} \X Titles
    BY <1>1, <1>5 DEF ChooseName, FinAt, FinGo, EarlyFiles, Typed, FinTyped, fileVars
  <2>2. EarlyFiles(k)' /\ Kept(k)'
    BY <1>1, <2>1 DEF EarlyFiles, EarlySteps, Kept, Stored
  <2> QED
    BY <1>3, <2>2 DEF AloneInv
<1>6. CASE Rename(k)
  <2>1. /\ \A p \in Paths : disk[p] = IF p = TempOf(k) THEN k ELSE None
        /\ fin[k].file \in {"app"} \X Titles
    BY <1>1, <1>6 DEF Rename, FinAt, EarlyFiles
  <2>2. fin[k].file # TempOf(k) /\ fin[k].file \in Paths
    BY <1>1, <2>1 DEF TempOf, Paths, Names
  <2>3. /\ disk' = [disk EXCEPT ![fin[k].file] = disk[TempOf(k)], ![TempOf(k)] = None]
        /\ fin'[k].pc = "insert"
    BY <1>6 DEF Rename, FinGo, AfterRename, OneTake, Typed, FinTyped
  <2>4. disk'[fin[k].file] = k
    BY <1>1, <2>1, <2>2, <2>3
  <2>5. EarlyFiles(k)' /\ Kept(k)'
    BY <2>2, <2>3, <2>4 DEF EarlyFiles, EarlySteps, Kept, Stored
  <2> QED
    BY <1>3, <2>5 DEF AloneInv
<1>7. CASE RenameFails(k)
  <2>1. /\ \A p \in Paths : disk[p] = IF p = TempOf(k) THEN k ELSE None
        /\ fin[k].file \in {"app"} \X Titles /\ fin[k].file # TempOf(k)
    BY <1>1, <1>7 DEF RenameFails, FinAt, EarlyFiles, TempOf
  <2>2. /\ disk' \in {disk, [disk EXCEPT ![fin[k].file] = "partial"]}
        /\ fin'[k].pc = "insert"
    BY <1>7 DEF RenameFails, FinGo, AfterRename, OneTake, Typed, FinTyped
  <2>3. disk'[TempOf(k)] = k
    BY <1>1, <2>1, <2>2
  <2>4. EarlyFiles(k)' /\ Kept(k)'
    BY <1>1, <2>2, <2>3 DEF EarlyFiles, EarlySteps, Kept, Stored
  <2> QED
    BY <1>3, <2>4 DEF AloneInv
<1> QED
  BY <1>4, <1>5, <1>6, <1>7

\* dao.insert, by the finalizer.
LEMMA InsertTakeAlone ==
    ASSUME NEW k \in Takes, OneTake(k), Typed, AloneInv(k), InsertTake(k)
    PROVE  AloneInv(k)'
<1>1. /\ UNCHANGED <<disk, erased, sync, edit, purge>>
      /\ fin[k].pc = "insert" /\ fin'[k].pc = "done"
  BY DEF InsertTake, FinAt, FinGo, Typed, FinTyped
<1>2. PICK p : Insert(p, k)
  BY DEF InsertTake
<1>3. \A x : Fits(fin[k], k, x) => Fits(fin'[k], k, x)
  BY <1>1 DEF Fits, EarlySteps
<1>4. Fits(fin'[k], k, NewRow(p, k))
  BY <1>1 DEF Fits, EarlySteps, NewRow
<1>5. RowsFit(k)'
  BY <1>2, <1>3, <1>4 DEF Insert, Typed, TableTyped, AloneInv, EntriesFit, RowsFit, Rows
<1>6. EditsFit(k)' /\ SyncsFit(k)' /\ PurgeFits(k)'
  BY <1>1, <1>3 DEF AloneInv, EntriesFit, EditsFit, SyncsFit, PurgeFits
<1>7. EarlyFiles(k)' /\ Kept(k)'
  BY <1>1 DEF AloneInv, EarlyFiles, EarlySteps, Kept, Stored, Spoiled
<1>8. OnlyMovers' /\ MovesFit(k)'
  BY <1>1 DEF AloneInv, OnlyMovers, MovesFit, CopyInHand, EditFile, Spoiled
<1> QED
  BY <1>5, <1>6, <1>7, <1>8 DEF AloneInv, EntriesFit

\* The file steps of a move: until a row's files are deleted nobody but the
\* mover touches its source and its target.
LEMMA MoveAlone ==
    ASSUME NEW k \in Takes, OneTake(k), OneMover, Typed, AloneInv(k), NEW e \in Editors,
           \/ MoveTarget(e) \/ MoveRename(e) \/ MoveCopyBegins(e)
           \/ MoveCopied(e) \/ MoveDelete(e)
    PROVE  AloneInv(k)'
<1> DEFINE p == EditFile(e)
           q == edit[e].to
<1>1. /\ UNCHANGED <<db, erased, fin, sync, purge>>
      /\ edit[e].pc \in {"move", "target", "copying", "copied"}
  BY DEF MoveTarget, MoveRename, MoveCopyBegins, MoveCopied, MoveDelete, fileVars
<1>2. /\ EntriesFit(k) /\ EarlyFiles(k) /\ Kept(k) /\ OnlyMovers /\ MovesFit(k)
      /\ k # None /\ k # "partial"
  BY AudioAssumption DEF AloneInv
<1>3. Fits(fin[k], k, edit[e].row) /\ fin[k].pc \notin EarlySteps
  BY <1>1, <1>2 DEF EntriesFit, EditsFit, Fits
<1>4. p \in Paths /\ (edit[e].pc # "move" => q \in Paths)
  BY <1>1, EditHas
<1>5. /\ edit'[e].pc \in {"target", "copying", "copied", "moved"}
      /\ edit'[e].row.of = edit[e].row.of
      /\ edit'[e].pc # "moved" => edit'[e].row = edit[e].row
      /\ \A d \in Editors \ {e} : edit'[d] = edit[d]
  <2>1. CASE MoveTarget(e)
    BY <1>1, <2>1, MoveTargets, MoveGoes
  <2>2. CASE MoveRename(e) \/ MoveDelete(e)
    BY <1>1, <1>4, <2>2, MoveSteps DEF MoveRename, MoveDelete
  <2>3. CASE MoveCopyBegins(e)
    BY <2>3 DEF MoveCopyBegins, Typed, EditTyped
  <2>4. CASE MoveCopied(e)
    BY <1>1, <1>4, <2>4, MoveGoes DEF MoveCopied
  <2> QED
    BY <2>1, <2>2, <2>3, <2>4
<1>6. e \in Movers
  BY <1>1, <1>2 DEF OnlyMovers
<1>7. OnlyMovers'
  BY <1>2, <1>5, <1>6 DEF OnlyMovers
<1>8. EntriesFit(k)'
  <2>1. EditsFit(k)'
    BY <1>1, <1>2, <1>3, <1>5 DEF EntriesFit, EditsFit, Fits
  <2>2. RowsFit(k)' /\ SyncsFit(k)' /\ PurgeFits(k)'
    BY <1>1, <1>2 DEF EntriesFit, RowsFit, Rows, SyncsFit, PurgeFits
  <2> QED
    BY <2>1, <2>2 DEF EntriesFit
<1>9. EarlyFiles(k)'
  BY <1>1, <1>2, <1>3 DEF EarlyFiles, EarlySteps
<1>10. ASSUME NEW d \in Editors, edit'[d].pc \in {"target", "copying", "copied"}
       PROVE  d = e
  BY <1>6, <1>7, <1>10 DEF OnlyMovers, OneMover
<1>11. CASE Spoiled(k)
  <2>1. Spoiled(k)'
    BY <1>1, <1>11 DEF Spoiled
  <2> QED
    BY <1>7, <1>8, <1>9, <2>1 DEF AloneInv, Kept, MovesFit
<1>12. CASE ~Spoiled(k)
  <2>1. Stored(k) /\ (edit[e].pc # "move" => CopyInHand(e))
    BY <1>1, <1>2, <1>3, <1>12 DEF Kept, MovesFit, EarlySteps
  <2>2. PICK r \in Paths : disk[r] = k
    BY <2>1 DEF Stored
  <2>3. disk = [t \in Paths |-> disk[t]]
    BY DEF Typed, DiskTyped
  <2>4. Stored(k)'
    <3>1. CASE MoveTarget(e)
      BY <2>2, <3>1 DEF MoveTarget, fileVars, Stored
    <3>2. CASE MoveRename(e)
      BY <1>2, <1>4, <2>1, <2>2, <2>3, <3>2 DEF MoveRename, CopyInHand, Stored
    <3>3. CASE MoveCopyBegins(e)
      BY <1>2, <1>4, <2>1, <2>2, <2>3, <3>3 DEF MoveCopyBegins, CopyInHand, Stored
    <3>4. CASE MoveCopied(e)
      BY <1>2, <1>4, <2>1, <2>2, <2>3, <3>4 DEF MoveCopied, CopyInHand, Stored
    <3>5. CASE MoveDelete(e)
      BY <1>2, <1>4, <2>1, <2>2, <2>3, <3>5 DEF MoveDelete, CopyInHand, Stored
    <3> QED
      BY <3>1, <3>2, <3>3, <3>4, <3>5
  <2>5. edit'[e].pc # "moved" => CopyInHand(e)'
    <3>1. CASE MoveTarget(e)
      <4>1. PICK t \in Paths : MoveGo(e, "target", t) /\ disk[t] = None /\ t # EditFile(e)
        BY <3>1, MoveTargets
      <4>2. edit'[e].pc = "target" /\ edit'[e].row = edit[e].row /\ edit'[e].to = t
        BY <1>1, <4>1, MoveGoes
      <4> QED
        BY <3>1, <4>1, <4>2 DEF MoveTarget, fileVars, CopyInHand, EditFile
    <3>2. CASE MoveRename(e) \/ MoveDelete(e)
      BY <1>1, <1>4, <3>2, MoveSteps DEF MoveRename, MoveDelete
    <3>3. CASE MoveCopyBegins(e)
      <4>1. edit'[e] = [pc |-> "copying", id |-> edit[e].id, row |-> edit[e].row,
                        to |-> q, audio |-> disk[p]]
        BY <3>3 DEF MoveCopyBegins, EditFile, Typed, EditTyped
      <4>2. q # p /\ q \in Paths
        BY <1>4, <2>1, <3>3 DEF MoveCopyBegins, CopyInHand
      <4>3. disk'[q] = "partial" /\ disk'[p] = disk[p]
        BY <1>4, <2>3, <3>3, <4>2 DEF MoveCopyBegins
      <4> QED
        BY <4>1, <4>2, <4>3 DEF CopyInHand, EditFile
    <3>4. CASE MoveCopied(e)
      <4>1. edit[e].pc = "copying" /\ MoveGo(e, "copied", q)
        BY <3>4 DEF MoveCopied
      <4>2. edit'[e].pc = "copied" /\ edit'[e].row = edit[e].row /\ edit'[e].to = q
        BY <1>1, <1>4, <4>1, MoveGoes
      <4>3. q # p /\ disk[q] = "partial" /\ edit[e].audio = disk[p]
        BY <2>1, <4>1 DEF CopyInHand
      <4>4. disk'[q] = disk[p] /\ disk'[p] = disk[p]
        BY <1>4, <2>3, <3>4, <4>1, <4>3 DEF MoveCopied
      <4> QED
        BY <4>2, <4>3, <4>4 DEF CopyInHand, EditFile
    <3> QED
      BY <3>1, <3>2, <3>3, <3>4
  <2>6. MovesFit(k)'
    BY <1>10, <2>5 DEF MovesFit
  <2> QED
    BY <1>7, <1>8, <1>9, <2>4, <2>6 DEF AloneInv, Kept
<1> QED
  BY <1>11, <1>12

\* Every step keeps the invariant.
LEMMA AloneKept ==
    ASSUME NEW k \in Takes, OneTake(k), OneMover, Typed, AloneInv(k), [Next]_vars
    PROVE  AloneInv(k)'
<1> USE DEF fileVars, watchVars
<1>0. /\ EarlyFiles(k) /\ EntriesFit(k) /\ OnlyMovers
      /\ RowsFit(k) /\ EditsFit(k) /\ SyncsFit(k) /\ PurgeFits(k)
  BY DEF AloneInv, EntriesFit
<1>1. ASSUME UNCHANGED <<fin, disk, erased, db, edit, sync, purge>>
      PROVE  AloneInv(k)'
  <2>1. EntriesFit(k)'
    BY <1>0, <1>1 DEF EntriesFit, RowsFit, Rows, EditsFit, SyncsFit, PurgeFits
  <2> QED
    BY <1>1, <2>1, SameFiles DEF AloneInv
<1>2. ASSUME UNCHANGED <<fin, disk, erased, db, edit, purge>>, SyncsFit(k)'
      PROVE  AloneInv(k)'
  <2>1. EntriesFit(k)'
    BY <1>0, <1>2 DEF EntriesFit, RowsFit, Rows, EditsFit, PurgeFits
  <2> QED
    BY <1>2, <2>1, SameFiles DEF AloneInv
<1>3. ASSUME UNCHANGED <<fin, disk, erased, db, sync, purge>>, EditsFit(k)',
             OnlyMovers', MovesFit(k)'
      PROVE  AloneInv(k)'
  <2>1. EntriesFit(k)'
    BY <1>0, <1>3 DEF EntriesFit, RowsFit, Rows, SyncsFit, PurgeFits
  <2> QED
    BY <1>3, <2>1, SameFiles DEF AloneInv
<1>4. ASSUME UNCHANGED <<fin, disk, erased, edit, sync, purge>>, RowsFit(k)'
      PROVE  AloneInv(k)'
  <2>1. EntriesFit(k)'
    BY <1>0, <1>4 DEF EntriesFit, EditsFit, SyncsFit, PurgeFits
  <2> QED
    BY <1>4, <2>1, SameFiles DEF AloneInv
<1>5. ASSUME NEW l \in Takes, TakeStopped(l) \/ Finalize(l)
      PROVE  AloneInv(k)'
  <2>1. l = k
    BY DEF OneTake
  <2>2. fin[k].pc \notin {"copy", "deleteLocal"}
    BY <1>0 DEF EarlyFiles, EarlySteps
  <2>3. CASE InsertTake(k)
    BY <2>3, InsertTakeAlone
  <2>4. CASE TakeStopped(k) \/ ChooseName(k) \/ Rename(k) \/ RenameFails(k)
    BY <2>4, FinalizerAlone
  <2> QED
    BY <1>5, <2>1, <2>2, <2>3, <2>4 DEF Finalize, CopyToTree, CopyFails, DeleteLocal, FinAt
<1>6. ASSUME NEW s \in Syncs, SyncOnBoot(s) \/ SyncOnResume(s) \/ SyncOnEvent(s)
      PROVE  AloneInv(k)'
  <2>1. UNCHANGED <<fin, disk, erased, db, edit, purge>>
    BY <1>6 DEF SyncOnBoot, SyncOnResume, SyncOnEvent
  <2>2. \E rearms : SyncStart(s, rearms)
    BY <1>6 DEF SyncOnBoot, SyncOnResume, SyncOnEvent
  <2>3. SyncsFit(k)'
    BY <1>0, <2>1, <2>2 DEF SyncStart, SyncStep, SyncsFit, Typed, SyncTyped
  <2> QED
    BY <1>2, <2>1, <2>3
<1>7. ASSUME NEW s \in Syncs, ListApp(s)
      PROVE  AloneInv(k)'
  <2>1. UNCHANGED <<fin, disk, erased, db, edit, purge>>
    BY <1>7 DEF ListApp
  <2>2. ASSUME NEW x \in Listed("app"), x.path[2] \notin Takes
        PROVE  Fits(fin[k], k, x)
    <3>1. PICK p \in In("app") : disk[p] # None /\ x = [path |-> p, of |-> disk[p]]
      BY DEF Listed, OnDisk
    <3>2. p \in Paths /\ p[2] # k
      BY <2>2, <3>1 DEF In, Paths
    <3>3. fin[k].pc \notin EarlySteps
      BY <1>0, <3>1, <3>2 DEF EarlyFiles, EarlySteps, TempOf
    <3>4. disk[p] \in {k, "partial"}
      BY <3>1, <3>2 DEF OneTake, Typed, DiskTyped, Content, Audio
    <3> QED
      BY <3>1, <3>3, <3>4 DEF Fits
  <2>3. SyncsFit(k)'
    BY <1>0, <1>7, <2>1, <2>2 DEF ListApp, SyncStep, SyncsFit, Typed, SyncTyped
  <2> QED
    BY <1>2, <2>1, <2>3
<1>8. ASSUME NEW s \in Syncs, SkipKnown(s)
      PROVE  AloneInv(k)'
  <2>1. UNCHANGED <<fin, disk, erased, db, edit, purge>>
    BY <1>8 DEF SkipKnown
  <2>2. Fresh(s) \subseteq sync[s].todo /\ sync[s].pc # "off"
    BY <1>8 DEF Fresh, SkipKnown
  <2>3. SyncsFit(k)'
    BY <1>0, <1>8, <2>1, <2>2 DEF SkipKnown, SyncStep, SyncsFit, Typed, SyncTyped
  <2> QED
    BY <1>2, <2>1, <2>3
<1>9. ASSUME NEW s \in Syncs, Adopt(s)
      PROVE  AloneInv(k)'
  <2>1. UNCHANGED <<fin, disk, erased, edit, purge>> /\ sync[s].pc # "off"
    BY <1>9 DEF Adopt
  <2>2. PICK x \in sync[s].todo :
          /\ Insert(x.path, x.of)
          /\ SyncStep(s, [sync[s] EXCEPT !.todo = @ \ {x}, !.known = @ \cup {x.path}])
    BY <1>9 DEF Adopt, Fresh
  <2>3. Fits(fin[k], k, NewRow(x.path, x.of))
    BY <1>0, <2>1 DEF SyncsFit, Fits, NewRow
  <2>4. RowsFit(k)'
    BY <1>0, <2>1, <2>2, <2>3 DEF Insert, RowsFit, Rows, Typed, TableTyped
  <2>5. SyncsFit(k)'
    BY <1>0, <2>1, <2>2 DEF SyncStep, SyncsFit, Typed, SyncTyped
  <2>6. EarlyFiles(k)' /\ Kept(k)' /\ OnlyMovers' /\ MovesFit(k)'
    BY <2>1, SameFiles
  <2>7. EditsFit(k)' /\ PurgeFits(k)'
    BY <1>0, <2>1 DEF EditsFit, PurgeFits
  <2> QED
    BY <2>4, <2>5, <2>6, <2>7 DEF AloneInv, EntriesFit
<1>10. ASSUME NEW s \in Syncs, ListTree(s)
       PROVE  AloneInv(k)'
  BY <1>10 DEF ListTree, OneTake
<1>11. ASSUME NEW s \in Syncs, SyncEnd(s)
       PROVE  AloneInv(k)'
  <2>1. UNCHANGED <<fin, disk, erased, db, edit, purge>>
    BY <1>11 DEF SyncEnd
  <2>2. SyncsFit(k)'
    BY <1>0, <1>11, <2>1 DEF SyncEnd, SyncStep, SyncsFit, Typed, SyncTyped, Off
  <2> QED
    BY <1>2, <2>1, <2>2
<1>12. ASSUME NEW e \in Editors, EditRead(e)
       PROVE  AloneInv(k)'
  <2>1. UNCHANGED <<fin, disk, erased, db, sync, purge>>
    BY <1>12 DEF EditRead
  <2>2. EditsFit(k)'
    BY <1>0, <1>12, <2>1 DEF EditRead, EditsFit, RowsFit, Typed, EditTyped
  <2>3. /\ \A d \in Editors \ {e} : edit'[d] = edit[d]
        /\ edit'[e].pc \in {"touch", "trash", "restore", "move"}
        /\ edit'[e].pc = "move" => e \in Movers
    BY <1>12 DEF EditRead, Typed, EditTyped
  <2>4. OnlyMovers' /\ MovesFit(k)'
    BY <2>1, <2>3, EditorLeaves
  <2> QED
    BY <1>3, <2>1, <2>2, <2>4
<1>13. ASSUME NEW e \in Editors, NEW row, edit[e].pc # "off", UNCHANGED disk,
              row.of = edit[e].row.of, EditDone(e, row)
       PROVE  AloneInv(k)'
  <2>1. UNCHANGED <<fin, disk, erased, sync, purge>>
    BY <1>13 DEF EditDone
  <2>2. Fits(fin[k], k, row)
    BY <1>0, <1>13 DEF EditsFit, Fits
  <2>3. RowsFit(k)'
    BY <1>0, <1>13, <2>1, <2>2 DEF EditDone, Update, RowsFit, Rows, Typed, TableTyped
  <2>4. edit'[e].pc = "off" /\ \A d \in Editors \ {e} : edit'[d] = edit[d]
    BY <1>13 DEF EditDone, Off, Typed, EditTyped
  <2>5. EditsFit(k)'
    BY <1>0, <2>1, <2>4 DEF EditsFit
  <2>6. OnlyMovers' /\ MovesFit(k)'
    BY <2>1, <2>4, EditorLeaves
  <2>7. EarlyFiles(k)' /\ Kept(k)'
    BY <2>1, SameFiles
  <2>8. SyncsFit(k)' /\ PurgeFits(k)'
    BY <1>0, <2>1 DEF SyncsFit, PurgeFits
  <2> QED
    BY <2>3, <2>5, <2>6, <2>7, <2>8 DEF AloneInv, EntriesFit
<1>14. ASSUME NEW e \in Editors, EditTouch(e) \/ EditTrash(e) \/ EditRestore(e) \/ MoveRow(e)
       PROVE  AloneInv(k)'
  <2>1. edit[e].pc # "off" /\ UNCHANGED disk
    BY <1>14 DEF EditTouch, EditTrash, EditRestore, MoveRow
  <2>2. edit[e].row \in Row
    BY <2>1, EditHas
  <2>3. \E row : row.of = edit[e].row.of /\ EditDone(e, row)
    <3>1. CASE EditTouch(e) \/ MoveRow(e)
      BY <3>1 DEF EditTouch, MoveRow
    <3>2. CASE EditTrash(e)
      BY <2>2, <3>2 DEF EditTrash, Row
    <3>3. CASE EditRestore(e)
      BY <2>2, <3>3 DEF EditRestore, Row
    <3> QED
      BY <1>14, <3>1, <3>2, <3>3
  <2> QED
    BY <1>13, <2>1, <2>3
<1>15. ASSUME NEW e \in Editors, MoveSkipped(e) \/ MoveFails(e)
       PROVE  AloneInv(k)'
  <2>1. UNCHANGED <<fin, disk, erased, db, sync, purge>>
    BY <1>15 DEF MoveSkipped, MoveFails
  <2>2. edit'[e].pc = "off" /\ \A d \in Editors \ {e} : edit'[d] = edit[d]
    BY <1>15 DEF MoveSkipped, MoveFails, Off, Typed, EditTyped
  <2>3. EditsFit(k)'
    BY <1>0, <2>1, <2>2 DEF EditsFit
  <2>4. OnlyMovers' /\ MovesFit(k)'
    BY <2>1, <2>2, EditorLeaves
  <2> QED
    BY <1>3, <2>1, <2>3, <2>4
<1>16. ASSUME NEW e \in Editors,
              \/ MoveTarget(e) \/ MoveRename(e) \/ MoveCopyBegins(e)
              \/ MoveCopied(e) \/ MoveDelete(e)
       PROVE  AloneInv(k)'
  BY <1>16, MoveAlone
<1>17. ASSUME NEW x \in Erasers, EraseBegin(x) \/ EraseEnd(x)
       PROVE  AloneInv(k)'
  BY <1>1, <1>17 DEF EraseBegin, EraseEnd
<1>18. ASSUME NEW x \in Erasers, EraseFiles(x)
       PROVE  AloneInv(k)'
  <2>1. UNCHANGED <<fin, db, edit, sync, purge>>
    BY <1>18 DEF EraseFiles
  <2>2. PICK i \in Rows : DeleteFiles(db[i])
    BY <1>18 DEF EraseFiles
  <2>3. Fits(fin[k], k, db[i])
    BY <1>0 DEF RowsFit
  <2>4. EarlyFiles(k)' /\ Kept(k)' /\ OnlyMovers' /\ MovesFit(k)'
    BY <2>1, <2>2, <2>3, DeleteFits
  <2>5. EntriesFit(k)'
    BY <1>0, <2>1 DEF EntriesFit, RowsFit, Rows, EditsFit, SyncsFit, PurgeFits
  <2> QED
    BY <2>4, <2>5 DEF AloneInv
<1>19. ASSUME NEW x \in Erasers, EraseRow(x)
       PROVE  AloneInv(k)'
  <2>1. UNCHANGED <<fin, disk, erased, edit, sync, purge>>
    BY <1>19 DEF EraseRow
  <2>2. RowsFit(k)'
    BY <1>0, <1>19, <2>1 DEF EraseRow, RowsFit, Rows, Typed, TableTyped
  <2> QED
    BY <1>4, <2>1, <2>2
<1>20. CASE PurgeBegin
  <2>1. UNCHANGED <<fin, disk, erased, db, edit, sync>>
    BY <1>20 DEF PurgeBegin
  <2>2. EarlyFiles(k)' /\ Kept(k)' /\ OnlyMovers' /\ MovesFit(k)'
    BY <2>1, SameFiles
  <2>3. PurgeFits(k)'
    BY <1>0, <1>20, <2>1 DEF PurgeBegin, PurgeFits, RowsFit, Trash
  <2>4. RowsFit(k)' /\ EditsFit(k)' /\ SyncsFit(k)'
    BY <1>0, <2>1 DEF RowsFit, Rows, EditsFit, SyncsFit
  <2> QED
    BY <2>2, <2>3, <2>4 DEF AloneInv, EntriesFit
<1>21. CASE PurgeFiles
  <2>1. UNCHANGED <<fin, db, edit, sync>>
    BY <1>21 DEF PurgeFiles
  <2>2. PICK row \in purge.todo : DeleteFiles(row)
    BY <1>21 DEF PurgeFiles
  <2>3. Fits(fin[k], k, row)
    BY <1>0 DEF PurgeFits
  <2>4. EarlyFiles(k)' /\ Kept(k)' /\ OnlyMovers' /\ MovesFit(k)'
    BY <2>1, <2>2, <2>3, DeleteFits
  <2>5. PurgeFits(k)'
    BY <1>0, <1>21, <2>1 DEF PurgeFiles, PurgeFits, Typed, PurgeTyped
  <2>6. RowsFit(k)' /\ EditsFit(k)' /\ SyncsFit(k)'
    BY <1>0, <2>1 DEF RowsFit, Rows, EditsFit, SyncsFit
  <2> QED
    BY <2>4, <2>5, <2>6 DEF AloneInv, EntriesFit
<1>22. CASE PurgeRows
  <2>1. UNCHANGED <<fin, disk, erased, edit, sync>>
    BY <1>22 DEF PurgeRows
  <2>2. EarlyFiles(k)' /\ Kept(k)' /\ OnlyMovers' /\ MovesFit(k)'
    BY <2>1, SameFiles
  <2>3. PurgeFits(k)'
    BY <1>0, <1>22, <2>1 DEF PurgeRows, PurgeFits, Typed, PurgeTyped
  <2>4. RowsFit(k)'
    BY <1>0, <1>22, <2>1 DEF PurgeRows, RowsFit, Rows
  <2>5. EditsFit(k)' /\ SyncsFit(k)'
    BY <1>0, <2>1 DEF EditsFit, SyncsFit
  <2> QED
    BY <2>2, <2>3, <2>4, <2>5 DEF AloneInv, EntriesFit
<1>23. ASSUME NEW f \in Foreign, ExternalAdd(f)
       PROVE  AloneInv(k)'
  BY DEF OneTake
<1>24. CASE Restart
  <2>1. /\ UNCHANGED <<disk, erased>> /\ fin'[k].file = fin[k].file
        /\ fin'[k].pc = IF fin[k].pc = "recording" THEN "recording" ELSE "done"
        /\ \A e \in Editors : edit'[e].pc = "off"
        /\ \A s \in Syncs : sync'[s].pc = "off"
        /\ purge'.todo = {}
    BY <1>24 DEF Restart, FinAt, Off, Typed, FinTyped
  <2>2. EarlyFiles(k)' /\ Kept(k)' /\ OnlyMovers' /\ MovesFit(k)'
    BY <2>1 DEF AloneInv, EarlyFiles, EarlySteps, Kept, Stored, Spoiled, OnlyMovers,
       MovesFit, TempOf
  <2>3. RowsFit(k)'
    <3> SUFFICES ASSUME NEW i \in Ids, db'[i] # None
                 PROVE  Fits(fin'[k], k, db'[i])
      BY DEF RowsFit, Rows
    <3>1. db[i] # None /\ db'[i].path = db[i].path /\ db'[i].of = db[i].of
      BY <1>24 DEF Restart, Trash, Rows, Typed, TableTyped, Row
    <3>2. Fits(fin[k], k, db[i])
      BY <1>0, <3>1 DEF RowsFit, Rows
    <3> QED
      BY <2>1, <3>1, <3>2 DEF Fits, EarlySteps
  <2>4. EditsFit(k)' /\ SyncsFit(k)' /\ PurgeFits(k)'
    BY <2>1 DEF EditsFit, SyncsFit, PurgeFits
  <2> QED
    BY <2>2, <2>3, <2>4 DEF AloneInv, EntriesFit
<1>25. CASE UNCHANGED vars
  BY <1>1, <1>25 DEF vars
<1> QED
  BY <1>5, <1>6, <1>7, <1>8, <1>9, <1>10, <1>11, <1>12, <1>14, <1>15, <1>16, <1>17, <1>18,
     <1>19, <1>20, <1>21, <1>22, <1>23, <1>24, <1>25 DEF Next, Sync, Edit, Erase, Purge

\* When a take is the only one since the library was empty, the file manager
\* adds nothing, no folder is picked and one coroutine at a time moves
\* recordings, the take's audio is on disk until the files of its own row, or
\* of one made from half a copy of it, are deleted: however many syncs, edits,
\* deletes and purges overlap with its finalizer, with the move and with each
\* other, and wherever a move fails or the process dies (RecordingController
\* 420-476, RecordingRepository 74-161, 196-247).
THEOREM LoneAudioSurvives ==
    ASSUME NEW k \in Takes, OneTake(k), OneMover
    PROVE  Spec => []AudioSurvivesMoves
<1>1. Init => AloneInv(k)
  <2> SUFFICES ASSUME Init
               PROVE  AloneInv(k)
    OBVIOUS
  <2>1. \A p \in Paths : disk[p] = None
    BY DEF Init
  <2>2. fin[k].pc = "recording" /\ \A e \in Editors : edit[e].pc = "off"
    BY DEF Init, Off
  <2>3. EarlyFiles(k) /\ Kept(k) /\ OnlyMovers /\ MovesFit(k)
    BY <2>1, <2>2 DEF EarlyFiles, EarlySteps, Kept, OnlyMovers, MovesFit
  <2>4. EntriesFit(k)
    BY DEF Init, EntriesFit, RowsFit, Rows, EditsFit, SyncsFit, PurgeFits, Off
  <2> QED
    BY <2>3, <2>4 DEF AloneInv
<1>2. Typed /\ AloneInv(k) /\ [Next]_vars => AloneInv(k)'
  BY AloneKept
<1>3. AloneInv(k) => AudioSurvivesMoves
  BY DEF AloneInv, Kept, Spoiled, AudioSurvivesMoves, OneTake
<1> QED
  BY <1>1, <1>2, <1>3, TypedInvariant, PTL DEF Spec
=============================================================================
