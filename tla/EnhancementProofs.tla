----------------------------- MODULE EnhancementProofs ---------------------------
(***************************************************************************)
(* Proofs about Enhancement: whatever is cancelled, left, killed or        *)
(* scanned in between, the audio of a cleaned recording survives and the   *)
(* library leads to it, for any number of jobs, left-over workers and      *)
(* process deaths, until a left-over worker disturbs a later job (torn).   *)
(***************************************************************************)
EXTENDS Enhancement, TLAPS

Replacing == {"save", "saveMoved", "rename", "folder", "update", "saved"}
Cleaning == {"work", "write", "writing", "wrote", "failed"}
Swapping == {"copying", "filling", "copied", "uncopied"}
Opened == {"filling", "copied", "uncopied"}
Threads == 1 .. MaxJobs

\* A job and its worker are at matching steps; the workers of earlier jobs, all
\* cancelled, are anywhere.
InStep ==
    /\ job.pc # Off => open /\ ui = "working" /\ jobs \in Threads
    /\ job.pc \in Replacing \cup {"begin"} => workers[jobs].pc = Off
    /\ job.pc = "clean" => workers[jobs].pc \in Cleaning
    /\ job.pc = "copying" => workers[jobs].pc \in Swapping
    /\ \A n \in Threads : jobs < n => workers[n].pc = Off

\* A worker has at most its own stream open.
Streams ==
    \A n \in Threads :
        /\ workers[n].file \in {"orig", "copy"} => workers[n].pc = "writing"
        /\ workers[n].file \in Documents => workers[n].pc \in Opened
        /\ workers[n].pc \in {"filling", "copied"} => workers[n].file \in Documents
        /\ storage = "dir" => workers[n].pc \notin Swapping

\* A job is about a recording without a saved copy, and deleteEnhanced() about
\* one that has it.
Apart ==
    /\ job.pc \notin {Off, "saved"} => ~row.enh /\ clear = Off
    /\ ui = "error" => ~row.enh /\ clear = Off
    /\ clear # Off => row.enh
    /\ job.pc \notin {Off, "update", "saved"} => job.path = row.path
    /\ job.pc \in {"rename", "saveMoved"} => storage = "dir"
    /\ job.pc \in {"folder", "copying"} => storage = "doc"
    /\ storage = "dir" =>
          row.path = "orig" /\ job.path = "orig" /\ \A d \in Documents : disk[d] = "none"

\* No two workers, nor a worker and the row, have the same document.
OwnDocuments ==
    \A n \in Threads : workers[n].file \in Documents =>
        /\ workers[n].file # row.path
        /\ job.pc = "update" => workers[n].file # job.path
        /\ \A m \in Threads \ {n} : workers[m].file # workers[n].file
        /\ workers[n].pc = "filling" => disk[workers[n].file] \in {"none", "partial"}

\* Where the row's file is until the coroutine deletes it.
Untouched ==
    /\ disk[row.path] # "partial"
    /\ \A n \in Threads : n = jobs /\ workers[n].pc \in Cleaning => disk[row.path] \in Whole

\* What the copy and the files made of it hold once they are written.
Written ==
    /\ job.pc \in {"save", "saveMoved", "rename", "folder", "copying"} => disk["copy"] = "clean"
    /\ job.pc = "clean" => \A n \in Threads : n = jobs =>
          /\ workers[n].pc = "writing" => workers[n].file = "copy"
          /\ workers[n].pc = "wrote" =>
                disk["copy"] = "clean" /\ \A m \in Threads : workers[m].file # "copy"
    /\ job.pc = "copying" => \A n \in Threads : n = jobs =>
          (workers[n].pc = "copied" => disk[workers[n].file] = "clean")
    /\ job.pc = "update" => disk[job.path] = "clean"

\* When the copy is all there is, who may delete it says so.
Told ==
    /\ /\ storage = "dir"
       /\ disk["orig"] = "none"
       /\ open /\ ui = "working" /\ fresh
       => job.pc \in {Off, "rename", "saveMoved", "saved"} \/ undone \/ erased
    /\ \A n \in Threads : storage = "dir" /\ workers[n].file = "copy" =>
          disk["orig"] \in Whole \/ undone \/ erased
    /\ clear = "row" => erased \/ disk[row.path] \in Whole

\* The copy of a recording whose original is gone is in the row, or a scan that
\* has seen the files as they are is about to adopt it.
Found ==
    storage = "dir" /\ disk["orig"] = "none" /\ ~undone /\ ~erased /\ seen =>
        \/ row.enh
        \/ "copy" \in adopted
        \/ scan.pc = "list" /\ "copy" \notin scan.known
        \/ scan.pc = "adopt" /\ "copy" \in scan.todo

Places == OwnDocuments /\ Untouched /\ Written /\ Told /\ AudioSurvives /\ Found

IInv == TypeOK /\ InStep /\ Streams /\ Apart /\ (torn \/ Places)

\* TypeOK, in parts.
WorkerRecord == [pc: Workers, mine: BOOLEAN, file: Files \cup {"none"}]

DiskTyped == disk \in [Files -> Contents]

OriginalTyped == torn \/ disk["orig"] # "partial"

WorkersTyped ==
    workers \in [Threads -> WorkerRecord]

FilesTyped ==
    /\ storage \in {"dir", "doc"}
    /\ row \in [path: Paths, enh: BOOLEAN]
    /\ adopted \subseteq Files
    /\ open \in BOOLEAN /\ fresh \in BOOLEAN /\ seen \in BOOLEAN
    /\ undone \in BOOLEAN /\ erased \in BOOLEAN /\ torn \in BOOLEAN

StepsTyped ==
    /\ ui \in {"idle", "working", "error", "done"}
    /\ job \in [pc: Jobs, keep: BOOLEAN, path: Paths, enh: BOOLEAN]
    /\ clear \in {Off, "files", "row"}
    /\ scan \in [pc: {Off, "list", "adopt"}, known: SUBSET Files, todo: SUBSET Files]
    /\ jobs \in 0 .. MaxJobs /\ deaths \in 0 .. MaxDeaths

Typed == DiskTyped /\ OriginalTyped /\ WorkersTyped /\ FilesTyped /\ StepsTyped

LEMMA TypesSplit == TypeOK <=> Typed
  BY DEF TypeOK, Typed, DiskTyped, OriginalTyped, WorkersTyped, FilesTyped, StepsTyped,
         WorkerRecord, Threads

\* What the steps make of a worker's record.
LEMMA RecordPut ==
    ASSUME NEW r \in WorkerRecord, NEW s \in Workers, NEW f \in Files \cup {"none"}
    PROVE  /\ [r EXCEPT !.pc = s] \in WorkerRecord
           /\ [r EXCEPT !.file = f] \in WorkerRecord
           /\ [r EXCEPT !.pc = s, !.file = f] \in WorkerRecord
           /\ [r EXCEPT !.mine = FALSE] \in WorkerRecord
  BY DEF WorkerRecord

LEMMA RecordNew ==
    /\ NoWorker \in WorkerRecord
    /\ \A s \in Workers : [pc |-> s, mine |-> TRUE, file |-> "none"] \in WorkerRecord
  BY DEF WorkerRecord, NoWorker, Workers, Off

LEMMA WorkersKept == IInv /\ [Next]_vars => WorkersTyped'
<1> SUFFICES ASSUME IInv, [Next]_vars PROVE WorkersTyped'
  OBVIOUS
<1>1. WorkersTyped
  BY TypesSplit DEF IInv, Typed
<1>2. /\ Off \in Workers /\ "work" \in Workers /\ "write" \in Workers /\ "writing" \in Workers
      /\ "wrote" \in Workers /\ "failed" \in Workers /\ "copying" \in Workers
      /\ "filling" \in Workers /\ "copied" \in Workers /\ "uncopied" \in Workers
  BY DEF Workers
<1>3. "orig" \in Files /\ "copy" \in Files /\ Documents \subseteq Files
  BY DEF Files
<1> USE <1>1, <1>2, <1>3, RecordPut, RecordNew
    DEF WorkersTyped, Threads, WorkerTo, WorkerEnds, CopyGoesTo, viewVars, lastVars, dbVars,
    vars
<1>4. CASE Open
  BY <1>4 DEF Open
<1>5. CASE Leave
  BY <1>5 DEF Leave
<1>6. CASE Enhance
  BY <1>6 DEF Enhance
<1>7. CASE CancelEnhance
  <2>1. UNCHANGED workers \/ CopyGoesTo("none")
    BY <1>7 DEF CancelEnhance
  <2>2. CASE UNCHANGED workers
    BY <2>2
  <2>3. CASE CopyGoesTo("none")
    BY <2>3
  <2> QED
    BY <2>1, <2>2, <2>3
<1>8. CASE DismissEnhance
  BY <1>8 DEF DismissEnhance
<1>9. CASE DeleteEnhanced
  BY <1>9 DEF DeleteEnhanced
<1>10. CASE ClearFiles
  BY <1>10 DEF ClearFiles
<1>11. CASE ClearRow
  BY <1>11 DEF ClearRow
<1>12. CASE Begin
  BY <1>12 DEF Begin
<1>13. CASE NoFile
  BY <1>13 DEF NoFile
<1>14. CASE RenameTo
  BY <1>14 DEF RenameTo
<1>15. CASE RenameFails
  BY <1>15 DEF RenameFails
<1>16. CASE CopyBegins
  BY <1>16 DEF CopyBegins
<1>17. CASE NoFolder
  BY <1>17 DEF NoFolder
<1>18. CASE Update
  BY <1>18 DEF Update
<1>19. CASE SaveEnhanced
  BY <1>19 DEF SaveEnhanced
<1>20. CASE Done
  BY <1>20 DEF Done
<1>21. CASE ScanBegin
  BY <1>21 DEF ScanBegin
<1>22. CASE ScanList
  BY <1>22 DEF ScanList
<1>23. CASE Adopt
  BY <1>23 DEF Adopt
<1>24. CASE ScanEnd
  BY <1>24 DEF ScanEnd
<1>25. CASE Die
  BY <1>25 DEF Die
<1>26. CASE \E n \in 1 .. MaxJobs : WorkerNext(n)
  <2> PICK n \in 1 .. MaxJobs : WorkerNext(n)
    BY <1>26
  <2>1. CASE PastCheck(n)
    BY <2>1 DEF PastCheck
  <2>2. CASE WorkFails(n)
    BY <2>2 DEF WorkFails
  <2>3. CASE OpenCopy(n)
    BY <2>3 DEF OpenCopy
  <2>4. CASE WriteCopy(n)
    BY <2>4 DEF WriteCopy
  <2>5. CASE WriteFails(n)
    BY <2>5 DEF WriteFails
  <2>6. CASE Dropped(n)
    BY <2>6 DEF Dropped
  <2>7. CASE Fails(n)
    BY <2>7 DEF Fails
  <2>8. CASE Keeps(n)
    BY <2>8 DEF Keeps
  <2>9. CASE Replaces(n)
    BY <2>9 DEF Replaces
  <2>10. CASE CreateDocument(n)
    <3>1. PICK d \in Documents : workers' = [workers EXCEPT ![n].pc = "filling", ![n].file = d]
      BY <2>10 DEF CreateDocument
    <3>2. [workers[n] EXCEPT !.pc = "filling", !.file = d] \in WorkerRecord
      OBVIOUS
    <3> QED
      BY <3>1, <3>2
  <2>11. CASE FillDocument(n)
    BY <2>11 DEF FillDocument
  <2>12. CASE CopyFails(n)
    BY <2>12 DEF CopyFails
  <2>13. CASE CopyDropped(n)
    BY <2>13 DEF CopyDropped
  <2>14. CASE Copied(n)
    BY <2>14 DEF Copied
  <2>15. CASE NotCopied(n)
    BY <2>15 DEF NotCopied
  <2> QED
    BY <2>1, <2>2, <2>3, <2>4, <2>5, <2>6, <2>7, <2>8, <2>9, <2>10, <2>11, <2>12, <2>13, <2>14,
       <2>15 DEF WorkerNext
<1>27. CASE UNCHANGED vars
  BY <1>27
<1> QED
  BY <1>4, <1>5, <1>6, <1>7, <1>8, <1>9, <1>10, <1>11, <1>12, <1>13, <1>14, <1>15, <1>16,
     <1>17, <1>18, <1>19, <1>20, <1>21, <1>22, <1>23, <1>24, <1>25, <1>26, <1>27 DEF Next

USE DEF Files, Paths, Whole, Contents, Off, NoJob, NoWorker, NoScan, OnDisk, Put, MainFree, JobTo,
        WorkerTo, WorkerEnds, CopyGoesTo, Awaits, Jobs, Workers, Replacing, Cleaning, Swapping,
        Opened, Threads, Scanned, Known, vars, fileVars, dbVars, viewVars, lastVars

LEMMA TypesKept == IInv /\ [Next]_vars => Typed'
<1> SUFFICES ASSUME IInv, [Next]_vars PROVE Typed'
  OBVIOUS
<1> USE BoundAssumption, FileAssumption DEF IInv, TypeOK, Typed, DiskTyped, OriginalTyped
<1>1. CASE Open
  <2>1. DiskTyped'
    BY <1>1 DEF Open, Streams, InStep
  <2>2. OriginalTyped'
    BY <1>1 DEF Open, Streams, InStep, Apart, Places, Written
  <2>3. FilesTyped'
    BY <1>1 DEF Open, FilesTyped
  <2>4. StepsTyped'
    BY <1>1 DEF Open, StepsTyped, InStep
  <2> QED
    BY <2>1, <2>2, <2>3, <2>4, WorkersKept DEF Typed
<1>2. CASE Leave
  <2>1. DiskTyped'
    BY <1>2 DEF Leave, Streams, InStep
  <2>2. OriginalTyped'
    BY <1>2 DEF Leave, Streams, InStep, Apart, Places, Written
  <2>3. FilesTyped'
    BY <1>2 DEF Leave, FilesTyped
  <2>4. StepsTyped'
    BY <1>2 DEF Leave, StepsTyped, InStep
  <2> QED
    BY <2>1, <2>2, <2>3, <2>4, WorkersKept DEF Typed
<1>3. CASE Enhance
  <2>1. DiskTyped'
    BY <1>3 DEF Enhance, Streams, InStep
  <2>2. OriginalTyped'
    BY <1>3 DEF Enhance, Streams, InStep, Apart, Places, Written
  <2>3. FilesTyped'
    BY <1>3 DEF Enhance, FilesTyped
  <2>4. StepsTyped'
    BY <1>3 DEF Enhance, StepsTyped, InStep
  <2> QED
    BY <2>1, <2>2, <2>3, <2>4, WorkersKept DEF Typed
<1>4. CASE CancelEnhance
  <2>1. DiskTyped'
    BY <1>4 DEF CancelEnhance, Streams, InStep
  <2>2. OriginalTyped'
    BY <1>4 DEF CancelEnhance, Streams, InStep, Apart, Places, Written
  <2>3. FilesTyped'
    BY <1>4 DEF CancelEnhance, FilesTyped
  <2>4. StepsTyped'
    BY <1>4 DEF CancelEnhance, StepsTyped, InStep
  <2> QED
    BY <2>1, <2>2, <2>3, <2>4, WorkersKept DEF Typed
<1>5. CASE DismissEnhance
  BY <1>5, WorkersKept DEF DismissEnhance, Apart, FilesTyped, InStep, Places, StepsTyped,
     Streams, Written
<1>6. CASE DeleteEnhanced
  BY <1>6, WorkersKept DEF DeleteEnhanced, Apart, FilesTyped, InStep, Places, StepsTyped,
     Streams, Written
<1>7. CASE ClearFiles
  <2>1. DiskTyped'
    BY <1>7 DEF ClearFiles, Streams, InStep
  <2>2. OriginalTyped'
    BY <1>7 DEF ClearFiles, Streams, InStep, Apart, Places, Written
  <2>3. FilesTyped'
    BY <1>7 DEF ClearFiles, FilesTyped
  <2>4. StepsTyped'
    BY <1>7 DEF ClearFiles, StepsTyped, InStep
  <2> QED
    BY <2>1, <2>2, <2>3, <2>4, WorkersKept DEF Typed
<1>8. CASE ClearRow
  <2>1. DiskTyped'
    BY <1>8 DEF ClearRow, Streams, InStep
  <2>2. OriginalTyped'
    BY <1>8 DEF ClearRow, Streams, InStep, Apart, Places, Written
  <2>3. FilesTyped'
    BY <1>8 DEF ClearRow, FilesTyped
  <2>4. StepsTyped'
    BY <1>8 DEF ClearRow, StepsTyped, InStep
  <2> QED
    BY <2>1, <2>2, <2>3, <2>4, WorkersKept DEF Typed
<1>9. CASE Begin
  <2>1. DiskTyped'
    BY <1>9 DEF Begin, Streams, InStep
  <2>2. OriginalTyped'
    BY <1>9 DEF Begin, Streams, InStep, Apart, Places, Written
  <2>3. FilesTyped'
    BY <1>9 DEF Begin, FilesTyped
  <2>4. StepsTyped'
    <3>1. PICK keep \in BOOLEAN : job' = [job EXCEPT !.pc = "clean", !.keep = keep]
      BY <1>9 DEF Begin
    <3>2. job' \in [pc: Jobs, keep: BOOLEAN, path: Paths, enh: BOOLEAN]
      BY <3>1
    <3> QED
      BY <1>9, <3>2 DEF Begin, StepsTyped
  <2> QED
    BY <2>1, <2>2, <2>3, <2>4, WorkersKept DEF Typed
<1>10. CASE NoFile
  <2>1. DiskTyped'
    BY <1>10 DEF NoFile, Streams, InStep
  <2>2. OriginalTyped'
    BY <1>10 DEF NoFile, Streams, InStep, Apart, Places, Written
  <2>3. FilesTyped'
    BY <1>10 DEF NoFile, FilesTyped
  <2>4. StepsTyped'
    BY <1>10 DEF NoFile, StepsTyped, InStep
  <2> QED
    BY <2>1, <2>2, <2>3, <2>4, WorkersKept DEF Typed
<1>11. CASE RenameTo
  <2>1. DiskTyped'
    BY <1>11 DEF RenameTo, Streams, InStep
  <2>2. OriginalTyped'
    BY <1>11 DEF RenameTo, Streams, InStep, Apart, Places, Written
  <2>3. FilesTyped'
    BY <1>11 DEF RenameTo, FilesTyped
  <2>4. StepsTyped'
    BY <1>11 DEF RenameTo, StepsTyped, InStep
  <2> QED
    BY <2>1, <2>2, <2>3, <2>4, WorkersKept DEF Typed
<1>12. CASE RenameFails
  BY <1>12, WorkersKept DEF RenameFails, Apart, FilesTyped, InStep, Places, StepsTyped,
     Streams, Written
<1>13. CASE CopyBegins
  <2>1. DiskTyped'
    BY <1>13 DEF CopyBegins, Streams, InStep
  <2>2. OriginalTyped'
    BY <1>13 DEF CopyBegins, Streams, InStep, Apart, Places, Written
  <2>3. FilesTyped'
    BY <1>13 DEF CopyBegins, FilesTyped
  <2>4. StepsTyped'
    BY <1>13 DEF CopyBegins, StepsTyped, InStep
  <2> QED
    BY <2>1, <2>2, <2>3, <2>4, WorkersKept DEF Typed
<1>14. CASE NoFolder
  <2>1. DiskTyped'
    BY <1>14 DEF NoFolder, Streams, InStep
  <2>2. OriginalTyped'
    BY <1>14 DEF NoFolder, Streams, InStep, Apart, Places, Written
  <2>3. FilesTyped'
    BY <1>14 DEF NoFolder, FilesTyped
  <2>4. StepsTyped'
    BY <1>14 DEF NoFolder, StepsTyped, InStep
  <2> QED
    BY <2>1, <2>2, <2>3, <2>4, WorkersKept DEF Typed
<1>15. CASE Update
  <2>1. DiskTyped'
    BY <1>15 DEF Update, Streams, InStep
  <2>2. OriginalTyped'
    BY <1>15 DEF Update, Streams, InStep, Apart, Places, Written
  <2>3. FilesTyped'
    BY <1>15 DEF Update, FilesTyped
  <2>4. StepsTyped'
    BY <1>15 DEF Update, StepsTyped, InStep
  <2> QED
    BY <2>1, <2>2, <2>3, <2>4, WorkersKept DEF Typed
<1>16. CASE SaveEnhanced
  <2>1. DiskTyped'
    BY <1>16 DEF SaveEnhanced, Streams, InStep
  <2>2. OriginalTyped'
    BY <1>16 DEF SaveEnhanced, Streams, InStep, Apart, Places, Written
  <2>3. FilesTyped'
    BY <1>16 DEF SaveEnhanced, FilesTyped
  <2>4. StepsTyped'
    BY <1>16 DEF SaveEnhanced, StepsTyped, InStep
  <2> QED
    BY <2>1, <2>2, <2>3, <2>4, WorkersKept DEF Typed
<1>17. CASE Done
  <2>1. DiskTyped'
    BY <1>17 DEF Done, Streams, InStep
  <2>2. OriginalTyped'
    BY <1>17 DEF Done, Streams, InStep, Apart, Places, Written
  <2>3. FilesTyped'
    BY <1>17 DEF Done, FilesTyped
  <2>4. StepsTyped'
    BY <1>17 DEF Done, StepsTyped, InStep
  <2> QED
    BY <2>1, <2>2, <2>3, <2>4, WorkersKept DEF Typed
<1>18. CASE ScanBegin
  <2>1. DiskTyped'
    BY <1>18 DEF ScanBegin, Streams, InStep
  <2>2. OriginalTyped'
    BY <1>18 DEF ScanBegin, Streams, InStep, Apart, Places, Written
  <2>3. FilesTyped'
    BY <1>18 DEF ScanBegin, FilesTyped
  <2>4. StepsTyped'
    <3>1. Known \in SUBSET Files
      <4>1. row.path \in Files /\ "copy" \in Files
        OBVIOUS
      <4>2. adopted \subseteq Files
        OBVIOUS
      <4> QED
        BY <4>1, <4>2, ZenonT(30) DEF Known
    <3>2. scan' \in [pc: {Off, "list", "adopt"}, known: SUBSET Files, todo: SUBSET Files]
      BY <1>18, <3>1 DEF ScanBegin
    <3> QED
      BY <1>18, <3>2 DEF ScanBegin, StepsTyped
  <2> QED
    BY <2>1, <2>2, <2>3, <2>4, WorkersKept DEF Typed
<1>19. CASE ScanList
  <2>1. DiskTyped'
    BY <1>19 DEF ScanList, Streams, InStep
  <2>2. OriginalTyped'
    BY <1>19 DEF ScanList, Streams, InStep, Apart, Places, Written
  <2>3. FilesTyped'
    BY <1>19 DEF ScanList, FilesTyped
  <2>4. StepsTyped'
    BY <1>19 DEF ScanList, StepsTyped, InStep
  <2> QED
    BY <2>1, <2>2, <2>3, <2>4, WorkersKept DEF Typed
<1>20. CASE Adopt
  <2>1. DiskTyped'
    BY <1>20 DEF Adopt, Streams, InStep
  <2>2. OriginalTyped'
    BY <1>20 DEF Adopt, Streams, InStep, Apart, Places, Written
  <2>3. FilesTyped'
    BY <1>20 DEF Adopt, FilesTyped
  <2>4. StepsTyped'
    <3>1. scan' \in [pc: {Off, "list", "adopt"}, known: SUBSET Files, todo: SUBSET Files]
      BY <1>20 DEF Adopt
    <3> QED
      BY <1>20, <3>1, SMTT(30) DEF Adopt, StepsTyped
  <2> QED
    BY <2>1, <2>2, <2>3, <2>4, WorkersKept DEF Typed
<1>21. CASE ScanEnd
  BY <1>21, WorkersKept DEF ScanEnd, Apart, FilesTyped, InStep, Places, StepsTyped, Streams,
     Written
<1>22. CASE Die
  <2>1. DiskTyped'
    BY <1>22 DEF Die, Streams, InStep
  <2>2. OriginalTyped'
    BY <1>22 DEF Die, Streams, InStep, Apart, Places, Written
  <2>3. FilesTyped'
    BY <1>22 DEF Die, FilesTyped
  <2>4. StepsTyped'
    BY <1>22 DEF Die, StepsTyped, InStep
  <2> QED
    BY <2>1, <2>2, <2>3, <2>4, WorkersKept DEF Typed
<1>23. CASE \E n \in 1 .. MaxJobs : WorkerNext(n)
  <2> PICK n \in 1 .. MaxJobs : WorkerNext(n)
    BY <1>23
  <2>1. CASE PastCheck(n)
    BY <2>1, WorkersKept DEF PastCheck, Apart, FilesTyped, InStep, Places, StepsTyped, Streams,
       Written
  <2>2. CASE WorkFails(n)
    BY <2>2, WorkersKept DEF WorkFails, Apart, FilesTyped, InStep, Places, StepsTyped, Streams,
       Written
  <2>3. CASE OpenCopy(n)
    <3>1. DiskTyped'
      BY <2>3 DEF OpenCopy, Streams, InStep
    <3>2. OriginalTyped'
      BY <2>3 DEF OpenCopy, Streams, InStep, Apart, Places, Written
    <3>3. FilesTyped'
      BY <2>3 DEF OpenCopy, FilesTyped
    <3>4. StepsTyped'
      BY <2>3 DEF OpenCopy, StepsTyped, InStep
    <3> QED
      BY <3>1, <3>2, <3>3, <3>4, WorkersKept DEF Typed
  <2>4. CASE WriteCopy(n)
    <3>1. DiskTyped'
      BY <2>4 DEF WriteCopy, Streams, InStep
    <3>2. OriginalTyped'
      BY <2>4 DEF WriteCopy, Streams, InStep, Apart, Places, Written
    <3>3. FilesTyped'
      BY <2>4 DEF WriteCopy, FilesTyped
    <3>4. StepsTyped'
      BY <2>4 DEF WriteCopy, StepsTyped, InStep
    <3> QED
      BY <3>1, <3>2, <3>3, <3>4, WorkersKept DEF Typed
  <2>5. CASE WriteFails(n)
    BY <2>5, WorkersKept DEF WriteFails, Apart, FilesTyped, InStep, Places, StepsTyped,
       Streams, Written
  <2>6. CASE Dropped(n)
    BY <2>6, WorkersKept DEF Dropped, Apart, FilesTyped, InStep, Places, StepsTyped, Streams,
       Written
  <2>7. CASE Fails(n)
    BY <2>7, WorkersKept DEF Fails, Apart, FilesTyped, InStep, Places, StepsTyped, Streams,
       Written
  <2>8. CASE Keeps(n)
    <3>1. DiskTyped'
      BY <2>8 DEF Keeps, Streams, InStep
    <3>2. OriginalTyped'
      BY <2>8 DEF Keeps, Streams, InStep, Apart, Places, Written
    <3>3. FilesTyped'
      BY <2>8 DEF Keeps, FilesTyped
    <3>4. StepsTyped'
      BY <2>8 DEF Keeps, StepsTyped, InStep
    <3> QED
      BY <3>1, <3>2, <3>3, <3>4, WorkersKept DEF Typed
  <2>9. CASE Replaces(n)
    <3>1. DiskTyped'
      BY <2>9 DEF Replaces, Streams, InStep
    <3>2. OriginalTyped'
      BY <2>9 DEF Replaces, Streams, InStep, Apart, Places, Written
    <3>3. FilesTyped'
      BY <2>9 DEF Replaces, FilesTyped
    <3>4. StepsTyped'
      BY <2>9 DEF Replaces, StepsTyped, InStep
    <3> QED
      BY <3>1, <3>2, <3>3, <3>4, WorkersKept DEF Typed
  <2>10. CASE CreateDocument(n)
    <3>1. DiskTyped'
      BY <2>10 DEF CreateDocument, Streams, InStep
    <3>2. OriginalTyped'
      BY <2>10 DEF CreateDocument, Streams, InStep, Apart, Places, Written
    <3>3. FilesTyped'
      BY <2>10 DEF CreateDocument, FilesTyped
    <3>4. StepsTyped'
      BY <2>10 DEF CreateDocument, StepsTyped, InStep
    <3> QED
      BY <3>1, <3>2, <3>3, <3>4, WorkersKept DEF Typed
  <2>11. CASE FillDocument(n)
    <3>1. DiskTyped'
      BY <2>11 DEF FillDocument, Streams, InStep
    <3>2. OriginalTyped'
      BY <2>11 DEF FillDocument, Streams, InStep, Apart, Places, Written
    <3>3. FilesTyped'
      BY <2>11 DEF FillDocument, FilesTyped
    <3>4. StepsTyped'
      BY <2>11 DEF FillDocument, StepsTyped, InStep
    <3> QED
      BY <3>1, <3>2, <3>3, <3>4, WorkersKept DEF Typed
  <2>12. CASE CopyFails(n)
    <3>1. DiskTyped'
      BY <2>12 DEF CopyFails, Streams, InStep
    <3>2. OriginalTyped'
      BY <2>12 DEF CopyFails, Streams, InStep, Apart, Places, Written
    <3>3. FilesTyped'
      BY <2>12 DEF CopyFails, FilesTyped
    <3>4. StepsTyped'
      BY <2>12 DEF CopyFails, StepsTyped, InStep
    <3> QED
      BY <3>1, <3>2, <3>3, <3>4, WorkersKept DEF Typed
  <2>13. CASE CopyDropped(n)
    BY <2>13, WorkersKept DEF CopyDropped, Apart, FilesTyped, InStep, Places, StepsTyped,
       Streams, Written
  <2>14. CASE Copied(n)
    <3>1. DiskTyped'
      BY <2>14 DEF Copied, Streams, InStep
    <3>2. OriginalTyped'
      BY <2>14 DEF Copied, Streams, InStep, Apart, Places, Written
    <3>3. FilesTyped'
      BY <2>14 DEF Copied, FilesTyped
    <3>4. StepsTyped'
      BY <2>14 DEF Copied, StepsTyped, Streams
    <3> QED
      BY <3>1, <3>2, <3>3, <3>4, WorkersKept DEF Typed
  <2>15. CASE NotCopied(n)
    <3>1. DiskTyped'
      BY <2>15 DEF NotCopied, Streams, InStep
    <3>2. OriginalTyped'
      BY <2>15 DEF NotCopied, Streams, InStep, Apart, Places, Written
    <3>3. FilesTyped'
      BY <2>15 DEF NotCopied, FilesTyped
    <3>4. StepsTyped'
      <4>1. job' = [job EXCEPT !.pc = "save"]
        BY <2>15 DEF NotCopied
      <4>2. job' \in [pc: Jobs, keep: BOOLEAN, path: Paths, enh: BOOLEAN]
        BY <4>1
      <4> QED
        BY <2>15, <4>2 DEF NotCopied, StepsTyped
    <3> QED
      BY <3>1, <3>2, <3>3, <3>4, WorkersKept DEF Typed
  <2> QED
    BY <2>1, <2>2, <2>3, <2>4, <2>5, <2>6, <2>7, <2>8, <2>9, <2>10, <2>11, <2>12, <2>13, <2>14,
       <2>15 DEF WorkerNext
<1>24. CASE UNCHANGED vars
  <2>1. DiskTyped'
    BY <1>24 DEF vars, Streams, InStep
  <2>2. OriginalTyped'
    BY <1>24 DEF vars, Streams, InStep, Apart, Places, Written
  <2>3. FilesTyped'
    BY <1>24 DEF vars, FilesTyped
  <2>4. StepsTyped'
    BY <1>24, SMTT(30) DEF vars, StepsTyped
  <2> QED
    BY <2>1, <2>2, <2>3, <2>4, WorkersKept DEF Typed
<1> QED
  BY <1>1, <1>2, <1>3, <1>4, <1>5, <1>6, <1>7, <1>8, <1>9, <1>10, <1>11, <1>12, <1>13, <1>14,
     <1>15, <1>16, <1>17, <1>18, <1>19, <1>20, <1>21, <1>22, <1>23, <1>24 DEF Next

LEMMA StepsKept == IInv /\ [Next]_vars => (InStep /\ Streams /\ Apart)'
<1> SUFFICES ASSUME IInv, [Next]_vars PROVE (InStep /\ Streams /\ Apart)'
  OBVIOUS
<1> USE BoundAssumption, FileAssumption DEF IInv, TypeOK, InStep, Streams, Apart
<1>1. CASE Open
  BY <1>1, SMTT(30) DEF Open
<1>2. CASE Leave
  BY <1>2, SMTT(30) DEF Leave
<1>3. CASE Enhance
  BY <1>3, SMTT(30) DEF Enhance
<1>4. CASE CancelEnhance
  <2>1. InStep'
    BY <1>4, SMTT(30) DEF CancelEnhance
  <2>2. Streams'
    BY <1>4, SMTT(30) DEF CancelEnhance
  <2>3. Apart'
    BY <1>4, SMTT(30) DEF CancelEnhance
  <2> QED
    BY <2>1, <2>2, <2>3
<1>5. CASE DismissEnhance
  BY <1>5, SMTT(30) DEF DismissEnhance
<1>6. CASE DeleteEnhanced
  BY <1>6, SMTT(30) DEF DeleteEnhanced
<1>7. CASE ClearFiles
  BY <1>7, SMTT(30) DEF ClearFiles
<1>8. CASE ClearRow
  BY <1>8, SMTT(30) DEF ClearRow
<1>9. CASE Begin
  BY <1>9, SMTT(30) DEF Begin
<1>10. CASE NoFile
  BY <1>10, SMTT(30) DEF NoFile
<1>11. CASE RenameTo
  BY <1>11, SMTT(30) DEF RenameTo
<1>12. CASE RenameFails
  BY <1>12, SMTT(30) DEF RenameFails
<1>13. CASE CopyBegins
  <2>1. InStep'
    BY <1>13, SMTT(30) DEF CopyBegins
  <2>2. Streams'
    BY <1>13, SMTT(30) DEF CopyBegins
  <2>3. Apart'
    BY <1>13, SMTT(30) DEF CopyBegins
  <2> QED
    BY <2>1, <2>2, <2>3
<1>14. CASE NoFolder
  BY <1>14, SMTT(30) DEF NoFolder
<1>15. CASE Update
  BY <1>15, SMTT(30) DEF Update
<1>16. CASE SaveEnhanced
  BY <1>16, SMTT(30) DEF SaveEnhanced
<1>17. CASE Done
  BY <1>17, SMTT(30) DEF Done
<1>18. CASE ScanBegin
  BY <1>18, SMTT(30) DEF ScanBegin
<1>19. CASE ScanList
  BY <1>19, SMTT(30) DEF ScanList
<1>20. CASE Adopt
  BY <1>20, SMTT(30) DEF Adopt
<1>21. CASE ScanEnd
  BY <1>21, SMTT(30) DEF ScanEnd
<1>22. CASE Die
  BY <1>22, SMTT(30) DEF Die
<1>23. CASE \E n \in 1 .. MaxJobs : WorkerNext(n)
  <2> PICK n \in 1 .. MaxJobs : WorkerNext(n)
    BY <1>23
  <2>1. CASE PastCheck(n)
    BY <2>1, SMTT(30) DEF PastCheck
  <2>2. CASE WorkFails(n)
    BY <2>2, SMTT(30) DEF WorkFails
  <2>3. CASE OpenCopy(n)
    BY <2>3, SMTT(30) DEF OpenCopy
  <2>4. CASE WriteCopy(n)
    BY <2>4, SMTT(30) DEF WriteCopy
  <2>5. CASE WriteFails(n)
    BY <2>5, SMTT(30) DEF WriteFails
  <2>6. CASE Dropped(n)
    BY <2>6, SMTT(30) DEF Dropped
  <2>7. CASE Fails(n)
    BY <2>7, SMTT(30) DEF Fails
  <2>8. CASE Keeps(n)
    BY <2>8, SMTT(30) DEF Keeps
  <2>9. CASE Replaces(n)
    BY <2>9, SMTT(30) DEF Replaces
  <2>10. CASE CreateDocument(n)
    BY <2>10, SMTT(30) DEF CreateDocument
  <2>11. CASE FillDocument(n)
    BY <2>11, SMTT(30) DEF FillDocument
  <2>12. CASE CopyFails(n)
    BY <2>12, SMTT(30) DEF CopyFails
  <2>13. CASE CopyDropped(n)
    BY <2>13, SMTT(30) DEF CopyDropped
  <2>14. CASE Copied(n)
    BY <2>14, SMTT(30) DEF Copied
  <2>15. CASE NotCopied(n)
    BY <2>15, SMTT(30) DEF NotCopied
  <2> QED
    BY <2>1, <2>2, <2>3, <2>4, <2>5, <2>6, <2>7, <2>8, <2>9, <2>10, <2>11, <2>12, <2>13, <2>14,
       <2>15 DEF WorkerNext
<1>24. CASE UNCHANGED vars
  BY <1>24, SMTT(30) DEF vars
<1> QED
  BY <1>1, <1>2, <1>3, <1>4, <1>5, <1>6, <1>7, <1>8, <1>9, <1>10, <1>11, <1>12, <1>13, <1>14,
     <1>15, <1>16, <1>17, <1>18, <1>19, <1>20, <1>21, <1>22, <1>23, <1>24 DEF Next

LEMMA TornStays == [Next]_vars /\ torn => torn'
<1> SUFFICES ASSUME [Next]_vars, torn PROVE torn'
  OBVIOUS
<1>1. CASE \E n \in 1 .. MaxJobs : WorkerNext(n)
  BY <1>1 DEF WorkerNext, PastCheck, WorkFails, OpenCopy, WriteCopy, WriteFails, Dropped,
     Fails, Keeps, Replaces, CreateDocument, FillDocument, CopyFails, CopyDropped, Copied,
     NotCopied
<1>2. CASE ~\E n \in 1 .. MaxJobs : WorkerNext(n)
  BY <1>2 DEF Next, Open, Leave, Enhance, CancelEnhance, DismissEnhance, DeleteEnhanced,
     ClearFiles, ClearRow, Begin, NoFile, RenameTo, RenameFails, CopyBegins, NoFolder, Update,
     SaveEnhanced, Done, ScanBegin, ScanList, Adopt, ScanEnd, Die
<1> QED
  BY <1>1, <1>2

LEMMA PlacesKept == IInv /\ [Next]_vars => (torn \/ Places)'
<1> SUFFICES ASSUME IInv, [Next]_vars PROVE (torn \/ Places)'
  OBVIOUS
<1> SUFFICES ASSUME ~torn' PROVE Places'
  OBVIOUS
<1>0. ~torn /\ Places
  BY TornStays DEF IInv
<1> USE <1>0
<1> USE BoundAssumption, FileAssumption DEF IInv, TypeOK, InStep, Streams, Apart, Places,
        OwnDocuments, Untouched, Written, Told, AudioSurvives, Found
<1>1. CASE Open
  BY <1>1, SMTT(30) DEF Open
<1>2. CASE Leave
  BY <1>2, SMTT(30) DEF Leave
<1>3. CASE Enhance
  BY <1>3, SMTT(30) DEF Enhance
<1>4. CASE CancelEnhance
  BY <1>4, SMTT(30) DEF CancelEnhance
<1>5. CASE DismissEnhance
  BY <1>5, SMTT(30) DEF DismissEnhance
<1>6. CASE DeleteEnhanced
  <2>1. OwnDocuments'
    BY <1>6, SMTT(30) DEF DeleteEnhanced
  <2>2. Untouched'
    BY <1>6, SMTT(30) DEF DeleteEnhanced
  <2>3. Written'
    BY <1>6, SMTT(30) DEF DeleteEnhanced
  <2>4. Told'
    BY <1>6, SMTT(30) DEF DeleteEnhanced
  <2>5. AudioSurvives'
    BY <1>6, SMTT(30) DEF DeleteEnhanced
  <2>6. Found'
    BY <1>6, SMTT(30) DEF DeleteEnhanced
  <2> QED
    BY <2>1, <2>2, <2>3, <2>4, <2>5, <2>6
<1>7. CASE ClearFiles
  BY <1>7, SMTT(30) DEF ClearFiles
<1>8. CASE ClearRow
  BY <1>8, SMTT(30) DEF ClearRow
<1>9. CASE Begin
  BY <1>9, SMTT(30) DEF Begin
<1>10. CASE NoFile
  BY <1>10, SMTT(30) DEF NoFile
<1>11. CASE RenameTo
  BY <1>11, SMTT(30) DEF RenameTo
<1>12. CASE RenameFails
  BY <1>12, SMTT(30) DEF RenameFails
<1>13. CASE CopyBegins
  BY <1>13, SMTT(30) DEF CopyBegins
<1>14. CASE NoFolder
  BY <1>14, SMTT(30) DEF NoFolder
<1>15. CASE Update
  BY <1>15, SMTT(30) DEF Update
<1>16. CASE SaveEnhanced
  BY <1>16, SMTT(30) DEF SaveEnhanced
<1>17. CASE Done
  BY <1>17, SMTT(30) DEF Done
<1>18. CASE ScanBegin
  BY <1>18, SMTT(30) DEF ScanBegin
<1>19. CASE ScanList
  BY <1>19, SMTT(30) DEF ScanList
<1>20. CASE Adopt
  BY <1>20, SMTT(30) DEF Adopt
<1>21. CASE ScanEnd
  BY <1>21, SMTT(30) DEF ScanEnd
<1>22. CASE Die
  <2>1. OwnDocuments'
    BY <1>22, SMTT(30) DEF Die
  <2>2. Untouched'
    BY <1>22, SMTT(30) DEF Die
  <2>3. Written'
    BY <1>22, SMTT(30) DEF Die
  <2>4. Told'
    BY <1>22, SMTT(30) DEF Die
  <2>5. AudioSurvives'
    BY <1>22, SMTT(30) DEF Die
  <2>6. Found'
    BY <1>22, SMTT(30) DEF Die
  <2> QED
    BY <2>1, <2>2, <2>3, <2>4, <2>5, <2>6
<1>23. CASE \E n \in 1 .. MaxJobs : WorkerNext(n)
  <2> PICK n \in 1 .. MaxJobs : WorkerNext(n)
    BY <1>23
  <2>1. CASE PastCheck(n)
    BY <2>1, SMTT(30) DEF PastCheck
  <2>2. CASE WorkFails(n)
    BY <2>2, SMTT(30) DEF WorkFails
  <2>3. CASE OpenCopy(n)
    <3>0. n # jobs => ~InUse
      BY <2>3 DEF OpenCopy
    <3>1. OwnDocuments'
      BY <2>3, SMTT(30) DEF OpenCopy
    <3>2. Untouched'
      BY <2>3, SMTT(30) DEF OpenCopy
    <3>3. Written'
      <4>1. CASE n = jobs
        <5>1. workers[jobs].pc = "write" /\ UNCHANGED <<job, jobs>>
          BY <2>3, <4>1 DEF OpenCopy
        <5>2. job.pc \in {Off, "clean"}
          BY <5>1 DEF Off
        <5>3. workers'[n] = [workers[n] EXCEPT !.pc = "writing", !.file = "copy"]
          BY <2>3 DEF OpenCopy
        <5>4. workers'[n].pc = "writing" /\ workers'[n].file = "copy"
          BY <5>3
        <5> QED
          BY <4>1, <5>1, <5>2, <5>4 DEF Off
      <4>2. CASE n # jobs
        <5>1. job.pc = "clean" => workers[jobs].pc \notin {"writing", "wrote"}
          BY <3>0, <4>2 DEF InUse, Awaits
        <5>2. job.pc # Off => disk["copy"] \notin Whole
          BY <3>0, <4>2 DEF InUse
        <5> QED
          BY <2>3, <4>2, <5>1, <5>2, SMTT(30) DEF OpenCopy
      <4> QED
        BY <4>1, <4>2
    <3>4. undone \/ erased \/ \E f \in Files \ {"copy"} : disk[f] \in Whole
      <4>1. CASE n = jobs
        BY <2>3, <4>1 DEF OpenCopy
      <4>2. CASE n # jobs
        <5>1. disk["copy"] \notin Whole \/ OnDisk(row.path)
          BY <3>0, <4>2 DEF InUse
        <5>2. OnDisk(row.path) => disk[row.path] \in Whole /\ row.path \in Files \ {"copy"}
          BY DEF OnDisk
        <5> QED
          BY <5>1, <5>2
      <4> QED
        BY <4>1, <4>2
    <3>5. storage = "dir" => disk["orig"] \in Whole \/ undone \/ erased
      BY <3>4
    <3>7. Told'
      BY <2>3, <3>5 DEF OpenCopy
    <3>8. AudioSurvives'
      <4>1. \A f \in Files \ {"copy"} : disk'[f] = disk[f]
        BY <2>3 DEF OpenCopy
      <4>2. UNCHANGED <<undone, erased>>
        BY <2>3 DEF OpenCopy
      <4> QED
        BY <3>4, <4>1, <4>2
    <3>9. Found'
      BY <2>3, SMTT(30) DEF OpenCopy
    <3> QED
      BY <3>1, <3>2, <3>3, <3>7, <3>8, <3>9
  <2>4. CASE WriteCopy(n)
    BY <2>4, SMTT(30) DEF WriteCopy
  <2>5. CASE WriteFails(n)
    BY <2>5, SMTT(30) DEF WriteFails
  <2>6. CASE Dropped(n)
    BY <2>6, SMTT(30) DEF Dropped
  <2>7. CASE Fails(n)
    BY <2>7, SMTT(30) DEF Fails
  <2>8. CASE Keeps(n)
    BY <2>8, SMTT(30) DEF Keeps
  <2>9. CASE Replaces(n)
    <3>1. OwnDocuments'
      BY <2>9, SMTT(30) DEF Replaces
    <3>2. Untouched'
      BY <2>9, SMTT(30) DEF Replaces
    <3>3. Written'
      BY <2>9, SMTT(30) DEF Replaces
    <3>4. Told'
      BY <2>9, SMTT(30) DEF Replaces
    <3>5. AudioSurvives'
      BY <2>9, SMTT(30) DEF Replaces
    <3>6. Found'
      BY <2>9, SMTT(30) DEF Replaces
    <3> QED
      BY <3>1, <3>2, <3>3, <3>4, <3>5, <3>6
  <2>10. CASE CreateDocument(n)
    BY <2>10, SMTT(30) DEF CreateDocument
  <2>11. CASE FillDocument(n)
    <3>1. OwnDocuments'
      BY <2>11, SMTT(30) DEF FillDocument
    <3>2. Untouched'
      BY <2>11, SMTT(30) DEF FillDocument
    <3>3. Written'
      BY <2>11, SMTT(30) DEF FillDocument
    <3>4. Told'
      BY <2>11, SMTT(30) DEF FillDocument
    <3>5. AudioSurvives'
      BY <2>11, SMTT(30) DEF FillDocument
    <3>6. Found'
      BY <2>11, SMTT(30) DEF FillDocument
    <3> QED
      BY <3>1, <3>2, <3>3, <3>4, <3>5, <3>6
  <2>12. CASE CopyFails(n)
    <3>1. OwnDocuments'
      BY <2>12, SMTT(30) DEF CopyFails
    <3>2. Untouched'
      BY <2>12, SMTT(30) DEF CopyFails
    <3>3. Written'
      BY <2>12, SMTT(30) DEF CopyFails
    <3>4. Told'
      BY <2>12, SMTT(30) DEF CopyFails
    <3>5. AudioSurvives'
      BY <2>12, SMTT(30) DEF CopyFails
    <3>6. Found'
      BY <2>12, SMTT(30) DEF CopyFails
    <3> QED
      BY <3>1, <3>2, <3>3, <3>4, <3>5, <3>6
  <2>13. CASE CopyDropped(n)
    BY <2>13, SMTT(30) DEF CopyDropped
  <2>14. CASE Copied(n)
    BY <2>14, SMTT(30) DEF Copied
  <2>15. CASE NotCopied(n)
    BY <2>15, SMTT(30) DEF NotCopied
  <2> QED
    BY <2>1, <2>2, <2>3, <2>4, <2>5, <2>6, <2>7, <2>8, <2>9, <2>10, <2>11, <2>12, <2>13, <2>14,
       <2>15 DEF WorkerNext
<1>24. CASE UNCHANGED vars
  BY <1>24, SMTT(30) DEF vars
<1> QED
  BY <1>1, <1>2, <1>3, <1>4, <1>5, <1>6, <1>7, <1>8, <1>9, <1>10, <1>11, <1>12, <1>13, <1>14,
     <1>15, <1>16, <1>17, <1>18, <1>19, <1>20, <1>21, <1>22, <1>23, <1>24 DEF Next

LEMMA Inductive == Spec => []IInv
<1>1. Init => IInv
  <2> SUFFICES ASSUME Init PROVE IInv
    OBVIOUS
  <2>1. TypeOK
    <3>1. DiskTyped /\ OriginalTyped
      BY FileAssumption DEF Init, DiskTyped, OriginalTyped
    <3>2. WorkersTyped
      BY RecordNew DEF Init, WorkersTyped
    <3>3. FilesTyped
      BY FileAssumption DEF Init, FilesTyped
    <3>4. job \in [pc: Jobs, keep: BOOLEAN, path: Paths, enh: BOOLEAN]
      BY FileAssumption DEF Init
    <3>5. scan \in [pc: {Off, "list", "adopt"}, known: SUBSET Files, todo: SUBSET Files]
      BY DEF Init
    <3>6. StepsTyped
      BY BoundAssumption, <3>4, <3>5 DEF Init, StepsTyped
    <3> QED
      BY <3>1, <3>2, <3>3, <3>6, TypesSplit DEF Typed
  <2>2. InStep /\ Streams /\ Apart
    BY BoundAssumption, FileAssumption DEF Init, InStep, Streams, Apart
  <2>3. OwnDocuments /\ Untouched /\ Written /\ Told /\ AudioSurvives /\ Found
    BY BoundAssumption, FileAssumption
       DEF Init, OwnDocuments, Untouched, Written, Told, AudioSurvives, Found
  <2> QED
    BY <2>1, <2>2, <2>3 DEF IInv, Places
<1>2. IInv /\ [Next]_vars => IInv'
  <2>1. Typed' => TypeOK'
    BY TypesSplit, PTL
  <2> QED
    BY <2>1, TypesKept, StepsKept, PlacesKept DEF IInv
<1> QED
  BY <1>1, <1>2, PTL DEF Spec

-----------------------------------------------------------------------------
\* TypeOK, whatever the bounds: nothing but a take or a complete cleaned version
\* ever stands in the place of the original (DetailViewModel 172-181), unless the
\* worker of a cancelled job disturbed a later one.
THEOREM EnhancementTypes == Spec => []TypeOK
<1>1. IInv => TypeOK
  BY DEF IInv
<1> QED
  BY <1>1, Inductive, PTL

\* The take or a cleaned version of it is on some disk at every step of a clean-up,
\* a cancellation, a leave or a process death, with any number of clean-ups and of
\* workers that cancelled ones have left (DetailViewModel 122-199), but for the
\* three exceptions that AudioSurvives names.
THEOREM RecordingSurvives == Spec => []AudioSurvives
<1>1. IInv => AudioSurvives
  BY DEF IInv, Places, AudioSurvives
<1> QED
  BY <1>1, Inductive, PTL

\* A scan that has seen the files as they are leaves the library leading to the
\* audio (RecordingRepository 230-249), with the same exceptions.
THEOREM LibraryFindsIt == Spec => []LibraryLeads
<1>1. IInv => LibraryLeads
  <2> SUFFICES ASSUME IInv, storage = "dir", scan.pc = Off, seen, ~undone, ~erased, ~torn
               PROVE  Leads
    BY DEF LibraryLeads
  <2>1. Places /\ TypeOK /\ Apart
    BY DEF IInv
  <2>2. CASE disk["orig"] = "none"
    <3>1. row.enh \/ "copy" \in adopted
      BY <2>1, <2>2 DEF Places, Found
    <3>2. disk["copy"] \in Whole
      BY <2>1, <2>2 DEF Places, AudioSurvives, Apart
    <3> QED
      BY <3>1, <3>2 DEF Leads, Playable
  <2>3. CASE disk["orig"] # "none"
    BY <2>1, <2>3 DEF Places, Untouched, TypeOK, Apart, Leads, Playable
  <2> QED
    BY <2>2, <2>3
<1> QED
  BY <1>1, Inductive, PTL
=============================================================================
