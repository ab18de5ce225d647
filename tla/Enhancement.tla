------------------------------- MODULE Enhancement ------------------------------
(***************************************************************************)
(* The clean-up of one recording: DetailViewModel's enhance coroutine, the *)
(* workers of AudioEnhancer that write <name>_enhanced.wav, the buttons of *)
(* the detail screen, and the scan of RecordingRepository.                 *)
(*                                                                         *)
(* The view model's code runs on the main thread, up to its next suspended *)
(* call; workers, scan and the SAF copy run on Dispatchers.IO.  Cancelling *)
(* a job does not stop its worker: the worker looks at the job for the     *)
(* last time before it normalises the samples and writes the file.  The    *)
(* next job does not wait for it either: both write the same file.         *)
(*                                                                         *)
(* Files: "orig", the first one of the row; "copy", the cleaned copy, next *)
(* to the file that was read (for a document, in the cache, where the      *)
(* copies of a document and of the one that replaced it, two files, are    *)
(* one here: a worker spoils no less); Documents, created in the picked    *)
(* folder to take the place of a document.                                 *)
(***************************************************************************)
EXTENDS Naturals

CONSTANTS
    Documents,  \* the documents that can be created
    MaxJobs,    \* bound on the calls of enhance()
    MaxDeaths   \* bound on process deaths

ASSUME BoundAssumption == MaxJobs \in Nat /\ MaxDeaths \in Nat
ASSUME FileAssumption == {"orig", "copy", "none"} \cap Documents = {}

VARIABLES
    storage,   \* the original is a file in the library, or a document
    disk,      \* what each file holds
    row,       \* the recording's row: filePath, and whether enhancedPath is set
    adopted,   \* files that a scan gave a row of their own
    ui,        \* _enhance
    open,      \* the detail screen, and with it the view model
    job,       \* enhanceJob: step, keepOriginal, filePath and enhancedPath of its row
    workers,   \* the IO thread of each job: step, whether its view model lives, and
               \* the file its open stream completes
    fresh,     \* the copy was written after enhanceStartedAt
    clear,     \* deleteEnhanced()
    scan,      \* syncExternalFiles(): step, known paths, files to adopt
    seen,      \* no file changed since the last scan began (history)
    undone,    \* the user cancelled after a failed renameTo (history)
    erased,    \* the user deleted the copy when it was all there was (history)
    torn,      \* a cancelled job's worker opened the copy when it was in use, or the name
               \* of a deleted document is used again by the row and a worker, or by two
               \* workers (history)
    jobs,      \* calls of enhance() so far: the last is enhanceJob
    deaths     \* process deaths so far

fileVars == <<disk, seen>>
dbVars == <<row, adopted>>
viewVars == <<ui, open, fresh, clear, jobs>>
lastVars == <<storage, undone, erased, torn, deaths>>
vars == <<fileVars, dbVars, viewVars, job, workers, scan, lastVars>>

-----------------------------------------------------------------------------
Files == {"orig", "copy"} \cup Documents
Whole == {"take", "clean"}
Contents == Whole \cup {"none", "partial"}

Off == "off"
NoJob == [pc |-> Off, keep |-> FALSE, path |-> "orig", enh |-> FALSE]
NoWorker == [pc |-> Off, mine |-> FALSE, file |-> "none"]
NoScan == [pc |-> Off, known |-> {}, todo |-> {}]

Init ==
    /\ storage \in {"dir", "doc"}
    /\ disk = [f \in Files |-> IF f = "orig" THEN "take" ELSE "none"]
    /\ row = [path |-> "orig", enh |-> FALSE]
    /\ adopted = {}
    /\ ui = "idle" /\ open = FALSE
    /\ job = NoJob /\ workers = [n \in 1 .. MaxJobs |-> NoWorker]
    /\ fresh = FALSE /\ clear = Off
    /\ scan = NoScan /\ seen = FALSE
    /\ undone = FALSE /\ erased = FALSE /\ torn = FALSE
    /\ jobs = 0 /\ deaths = 0

OnDisk(f) == disk[f] # "none"
Put(f, content) == disk' = [disk EXCEPT ![f] = content] /\ seen' = FALSE

\* (mutant: replaceOriginal runs on Dispatchers.IO)
MainFreeAlways == open

\* original.delete() and renameTo() are one piece of the main thread's work.
MainFree == open /\ job.pc # "rename"

JobTo(step) == job' = [job EXCEPT !.pc = step]
WorkerTo(n, step) == workers' = [workers EXCEPT ![n].pc = step]
WorkerEnds(n) == workers' = [workers EXCEPT ![n] = NoWorker]

\* The copy is deleted, or moved: what a worker still writes goes with it.
CopyGoesTo(f) ==
    workers' = [n \in 1 .. MaxJobs |->
        IF workers[n].file = "copy" THEN [workers[n] EXCEPT !.file = f] ELSE workers[n]]

\* A step of the worker that enhanceJob waits for
Awaits(n, at, step) == n = jobs /\ job.pc = at /\ workers[n].pc = step

-----------------------------------------------------------------------------
(* The detail screen.                                                      *)

\* A new view model, and onCleared(), which cancels its coroutines.
Open ==
    /\ ~open
    /\ open' = TRUE /\ ui' = "idle"
    /\ UNCHANGED <<fileVars, dbVars, fresh, clear, jobs, job, workers, scan, lastVars>>

Leave ==
    /\ MainFree
    /\ open' = FALSE
    /\ job' = NoJob /\ clear' = Off
    /\ workers' = [n \in 1 .. MaxJobs |-> [workers[n] EXCEPT !.mine = FALSE]]
    /\ UNCHANGED <<fileVars, dbVars, ui, fresh, jobs, scan, lastVars>>

\* enhance(): "Clean audio", shown while no copy is saved, or "Try again".
\* enhanceJob.isActive says nothing of the worker of a job that was cancelled.
Enhance ==
    /\ MainFree
    /\ ui = "error" \/ (ui = "idle" /\ ~row.enh)
    /\ job.pc = Off
    /\ jobs < MaxJobs
    /\ jobs' = jobs + 1
    /\ ui' = "working"
    /\ job' = [pc |-> "begin", keep |-> FALSE, path |-> row.path, enh |-> row.enh]
    /\ fresh' = FALSE
    /\ UNCHANGED <<fileVars, dbVars, open, clear, workers, scan, lastVars>>

\* Cancel deletes the copy if it is not older than the job.  (A document's copy
\* is left in the cache.)  The card may be there after the job has ended: the
\* worker of a cancelled job reports its progress to it.
CancelEnhance ==
    /\ MainFree
    /\ ui = "working"
    /\ ui' = "idle"
    /\ job' = NoJob
    /\ IF storage = "dir" /\ OnDisk("copy") /\ fresh
       THEN /\ Put("copy", "none") /\ CopyGoesTo("none")
            /\ undone' = (undone \/ (job.pc \in {Off, "saveMoved", "saved"} /\ ~OnDisk("orig")))
       ELSE UNCHANGED <<disk, seen, workers, undone>>
    /\ UNCHANGED <<dbVars, open, fresh, clear, jobs, scan, storage, erased, torn,
                   deaths>>

\* The cards of Done and Error.  Their coroutine has ended.
DismissEnhance ==
    /\ MainFree
    /\ ui \in {"done", "error"}
    /\ ui' = "idle"
    /\ job' = NoJob
    /\ UNCHANGED <<fileVars, dbVars, open, fresh, clear, jobs, workers, scan, lastVars>>

\* deleteEnhanced(), on the card of a saved copy
DeleteEnhanced ==
    /\ MainFree
    /\ ui = "idle" /\ row.enh
    /\ clear = Off
    /\ clear' = "files"
    /\ UNCHANGED <<fileVars, dbVars, ui, open, fresh, jobs, job, workers, scan,
                   lastVars>>

\* clearEnhanced(): the copy, and a document of its name in the picked folder
ClearFiles ==
    /\ clear = "files"
    /\ \E named \in {{}} \cup {{d} : d \in Documents \ {row.path}} :
          /\ storage = "dir" => named = {}
          /\ disk' = [f \in Files |-> IF f \in named \cup {"copy"} THEN "none" ELSE disk[f]]
    /\ seen' = FALSE
    /\ CopyGoesTo("none")
    /\ erased' = (erased \/ ~OnDisk(row.path))
    /\ clear' = "row"
    /\ UNCHANGED <<dbVars, ui, open, fresh, jobs, job, scan, storage, undone, torn,
                   deaths>>

ClearRow ==
    /\ clear = "row"
    /\ row' = [row EXCEPT !.enh = FALSE]
    /\ clear' = Off
    /\ UNCHANGED <<fileVars, adopted, ui, open, fresh, jobs, job, workers, scan,
                   lastVars>>

-----------------------------------------------------------------------------
(* The coroutine and its worker.                                           *)

\* Preferences are read, ensureLocalFile() finds the original ...
Begin ==
    /\ job.pc = "begin"
    /\ OnDisk(job.path)
    /\ \E keep \in BOOLEAN : job' = [job EXCEPT !.pc = "clean", !.keep = keep]
    /\ workers' = [workers EXCEPT ![jobs] = [pc |-> "work", mine |-> TRUE, file |-> "none"]]
    /\ UNCHANGED <<fileVars, dbVars, viewVars, scan, lastVars>>

\* ... or does not.  (A document is copied to the cache first, which can fail.)
NoFile ==
    /\ MainFree
    /\ job.pc = "begin"
    /\ storage = "doc" \/ ~OnDisk(job.path)
    /\ job' = NoJob
    /\ ui' = "error"
    /\ UNCHANGED <<fileVars, dbVars, open, fresh, clear, jobs, workers, scan, lastVars>>

\* The last ensureActive() in process().
PastCheck(n) ==
    /\ Awaits(n, "clean", "work")
    /\ WorkerTo(n, "write")
    /\ UNCHANGED <<fileVars, dbVars, viewVars, job, scan, lastVars>>

\* No audio, no space, a decoder's exception, or ensureActive().
WorkFails(n) ==
    /\ workers[n].pc \in {"work", "write"}
    /\ WorkerTo(n, "failed")
    /\ UNCHANGED <<fileVars, dbVars, viewVars, job, scan, lastVars>>

\* The last job is writing the copy, goes on with it, or has left it as all there is.
InUse ==
    \/ Awaits(jobs, "clean", "writing")
    \/ disk["copy"] \in Whole /\ (job.pc # Off \/ ~OnDisk(row.path))

\* onProgress(1f) of process(), then dest.outputStream(): the file is empty,
\* also for a worker that had it open, whose writes no longer complete it
OpenCopy(n) ==
    /\ workers[n].pc = "write"
    /\ workers' = [m \in 1 .. MaxJobs |->
          IF m = n THEN [workers[n] EXCEPT !.pc = "writing", !.file = "copy"]
          ELSE IF workers[m].file = "copy" THEN [workers[m] EXCEPT !.file = "none"]
          ELSE workers[m]]
    /\ Put("copy", "partial")
    /\ fresh' = TRUE
    /\ ui' = IF workers[n].mine THEN "working" ELSE ui
    /\ torn' = (torn \/ (n # jobs /\ InUse))
    /\ UNCHANGED <<dbVars, open, clear, jobs, job, scan, storage, undone, erased, deaths>>

\* The samples are written (into a deleted file after a cancel), onProgress(1f).
WriteCopy(n) ==
    /\ workers[n].pc = "writing"
    /\ workers' = [workers EXCEPT ![n].pc = "wrote", ![n].file = "none"]
    /\ IF workers[n].file # "none" THEN Put(workers[n].file, "clean")
       ELSE UNCHANGED <<disk, seen>>
    /\ fresh' = (fresh \/ workers[n].file = "copy")
    /\ ui' = IF workers[n].mine THEN "working" ELSE ui
    /\ UNCHANGED <<dbVars, open, clear, jobs, job, scan, lastVars>>

\* (mutant: a failed write is a success)
WriteFailsUnseen(n) ==
    /\ workers[n].pc = "writing"
    /\ workers' = [workers EXCEPT ![n].pc = "wrote", ![n].file = "none"]
    /\ UNCHANGED <<fileVars, dbVars, viewVars, job, scan, lastVars>>

WriteFails(n) ==
    /\ workers[n].pc = "writing"
    /\ workers' = [workers EXCEPT ![n].pc = "failed", ![n].file = "none"]
    /\ UNCHANGED <<fileVars, dbVars, viewVars, job, scan, lastVars>>

\* Nobody waits for the worker of a cancelled job.
Dropped(n) ==
    /\ workers[n].pc \in {"wrote", "failed"}
    /\ n # jobs \/ job.pc # "clean"
    /\ WorkerEnds(n)
    /\ UNCHANGED <<fileVars, dbVars, viewVars, job, scan, lastVars>>

\* onFailure
Fails(n) ==
    /\ MainFree
    /\ Awaits(n, "clean", "failed")
    /\ WorkerEnds(n)
    /\ job' = NoJob
    /\ ui' = "error"
    /\ UNCHANGED <<fileVars, dbVars, open, fresh, clear, jobs, scan, lastVars>>

\* onSuccess, keepOriginal
Keeps(n) ==
    /\ Awaits(n, "clean", "wrote")
    /\ job.keep
    /\ WorkerEnds(n)
    /\ JobTo("save")
    /\ UNCHANGED <<fileVars, dbVars, viewVars, scan, lastVars>>

-----------------------------------------------------------------------------
(* replaceOriginal().                                                      *)

\* original.delete(), File or document; a document may refuse
Replaces(n) ==
    /\ Awaits(n, "clean", "wrote")
    /\ ~job.keep
    /\ WorkerEnds(n)
    /\ \/ /\ Put(job.path, "none")
          /\ JobTo(IF storage = "dir" THEN "rename" ELSE "folder")
       \/ /\ storage = "doc"
          /\ JobTo("folder")
          /\ UNCHANGED <<fileVars>>
    /\ UNCHANGED <<dbVars, viewVars, scan, lastVars>>

\* The moved file takes with it what a worker still writes into it.
RenameTo ==
    /\ job.pc = "rename"
    /\ OnDisk("copy")
    /\ disk' = [disk EXCEPT !["orig"] = disk["copy"], !["copy"] = "none"]
    /\ seen' = FALSE
    /\ CopyGoesTo("orig")
    /\ JobTo("update")
    /\ UNCHANGED <<dbVars, viewVars, scan, lastVars>>

RenameFails ==
    /\ job.pc = "rename"
    /\ JobTo("saveMoved")
    /\ UNCHANGED <<fileVars, dbVars, viewVars, workers, scan, lastVars>>

\* customFolderUri() is read: the picked folder is there, or is not any more
CopyBegins ==
    /\ job.pc = "folder"
    /\ JobTo("copying")
    /\ workers' = [workers EXCEPT ![jobs] = [pc |-> "copying", mine |-> TRUE, file |-> "none"]]
    /\ UNCHANGED <<fileVars, dbVars, viewVars, scan, lastVars>>

NoFolder ==
    /\ job.pc = "folder"
    /\ JobTo("save")
    /\ UNCHANGED <<fileVars, dbVars, viewVars, workers, scan, lastVars>>

\* copyFileToTree(), to its end whether or not the job is cancelled: a document
\* whose name no other has ...
CreateDocument(n) ==
    /\ workers[n].pc = "copying"
    /\ \E d \in Documents :
          /\ ~OnDisk(d)
          /\ Put(d, "partial")
          /\ workers' = [workers EXCEPT ![n].pc = "filling", ![n].file = d]
          /\ torn' = (torn \/ d = row.path \/ \E m \in 1 .. MaxJobs : workers[m].file = d)
    /\ UNCHANGED <<dbVars, viewVars, job, scan, storage, undone, erased, deaths>>

\* ... gets what the copy holds.
FillDocument(n) ==
    /\ workers[n].pc = "filling"
    /\ OnDisk("copy") /\ OnDisk(workers[n].file)
    /\ Put(workers[n].file, disk["copy"])
    /\ WorkerTo(n, "copied")
    /\ UNCHANGED <<dbVars, viewVars, job, scan, lastVars>>

\* A document that cannot be opened is deleted, one cut short is not.
CopyFails(n) ==
    /\ workers[n].pc \in {"copying", "filling"}
    /\ WorkerTo(n, "uncopied")
    /\ \/ UNCHANGED fileVars
       \/ workers[n].pc = "filling" /\ Put(workers[n].file, "none")
    /\ UNCHANGED <<dbVars, viewVars, job, scan, lastVars>>

CopyDropped(n) ==
    /\ workers[n].pc \in {"copied", "uncopied"}
    /\ n # jobs \/ job.pc # "copying"
    /\ WorkerEnds(n)
    /\ UNCHANGED <<fileVars, dbVars, viewVars, job, scan, lastVars>>

\* cleaned.delete()
Copied(n) ==
    /\ Awaits(n, "copying", "copied")
    /\ workers' = [m \in 1 .. MaxJobs |->
          IF m = n THEN NoWorker
          ELSE IF workers[m].file = "copy" THEN [workers[m] EXCEPT !.file = "none"]
          ELSE workers[m]]
    /\ Put("copy", "none")
    /\ job' = [job EXCEPT !.pc = "update", !.path = workers[n].file]
    /\ UNCHANGED <<dbVars, viewVars, scan, lastVars>>

NotCopied(n) ==
    /\ Awaits(n, "copying", "uncopied")
    /\ WorkerEnds(n)
    /\ JobTo("save")
    /\ UNCHANGED <<fileVars, dbVars, viewVars, scan, lastVars>>

\* repository.update(rec.copy(...)): the row that enhance() read, with the new
\* path of a document
Update ==
    /\ job.pc = "update"
    /\ row' = [path |-> job.path, enh |-> job.enh]
    /\ JobTo("saved")
    /\ UNCHANGED <<fileVars, adopted, viewVars, workers, scan, lastVars>>

SaveEnhanced ==
    /\ job.pc \in {"save", "saveMoved"}
    /\ row' = [row EXCEPT !.enh = TRUE]
    /\ JobTo("saved")
    /\ UNCHANGED <<fileVars, adopted, viewVars, workers, scan, lastVars>>

Done ==
    /\ MainFree
    /\ job.pc = "saved"
    /\ ui' = "done"
    /\ job' = NoJob
    /\ UNCHANGED <<fileVars, dbVars, open, fresh, clear, jobs, workers, scan, lastVars>>

-----------------------------------------------------------------------------
(* The scan, and process death.                                            *)

\* The cache is not scanned.
Scanned == IF storage = "dir" THEN {"orig", "copy"} ELSE {"orig"} \cup Documents
Known == {row.path} \cup adopted \cup (IF row.enh THEN {"copy"} ELSE {})

ScanBegin ==
    /\ scan.pc = Off
    /\ scan' = [pc |-> "list", known |-> Known, todo |-> {}]
    /\ seen' = TRUE
    /\ UNCHANGED <<disk, dbVars, viewVars, job, workers, lastVars>>

\* (mutant: cleaned copies are passed over)
ScanListNoCopies ==
    /\ scan.pc = "list"
    /\ scan' = [scan EXCEPT !.pc = "adopt",
                  !.todo = {f \in Scanned : OnDisk(f) /\ f \notin scan.known} \ {"copy"}]
    /\ UNCHANGED <<fileVars, dbVars, viewVars, job, workers, lastVars>>

ScanList ==
    /\ scan.pc = "list"
    /\ scan' = [scan EXCEPT !.pc = "adopt",
                  !.todo = {f \in Scanned : OnDisk(f) /\ f \notin scan.known}]
    /\ UNCHANGED <<fileVars, dbVars, viewVars, job, workers, lastVars>>

Adopt ==
    /\ scan.pc = "adopt"
    /\ \E f \in scan.todo :
          /\ adopted' = adopted \cup {f}
          /\ scan' = [scan EXCEPT !.todo = @ \ {f}]
    /\ UNCHANGED <<fileVars, row, viewVars, job, workers, lastVars>>

ScanEnd ==
    /\ scan.pc = "adopt" /\ scan.todo = {}
    /\ scan' = NoScan
    /\ UNCHANGED <<fileVars, dbVars, viewVars, job, workers, lastVars>>

\* Also between original.delete() and renameTo().
Die ==
    /\ deaths < MaxDeaths
    /\ deaths' = deaths + 1
    /\ open' = FALSE /\ ui' = "idle"
    /\ job' = NoJob /\ workers' = [n \in 1 .. MaxJobs |-> NoWorker]
    /\ clear' = Off /\ scan' = NoScan
    /\ seen' = FALSE
    /\ UNCHANGED <<disk, dbVars, fresh, jobs, storage, undone, erased, torn>>

WorkerNext(n) ==
    \/ PastCheck(n) \/ WorkFails(n) \/ OpenCopy(n) \/ WriteCopy(n) \/ WriteFails(n)
    \/ Dropped(n) \/ Fails(n) \/ Keeps(n) \/ Replaces(n)
    \/ CreateDocument(n) \/ FillDocument(n) \/ CopyFails(n)
    \/ CopyDropped(n) \/ Copied(n) \/ NotCopied(n)

Next ==
    \/ Open \/ Leave \/ Enhance \/ CancelEnhance \/ DismissEnhance
    \/ DeleteEnhanced \/ ClearFiles \/ ClearRow
    \/ Begin \/ NoFile \/ RenameTo \/ RenameFails \/ CopyBegins \/ NoFolder
    \/ Update \/ SaveEnhanced \/ Done
    \/ \E n \in 1 .. MaxJobs : WorkerNext(n)
    \/ ScanBegin \/ ScanList \/ Adopt \/ ScanEnd
    \/ Die

Spec == Init /\ [][Next]_vars

-----------------------------------------------------------------------------
(* Properties.                                                             *)

Jobs == {Off, "begin", "clean", "save", "saveMoved", "rename", "folder", "copying",
         "update", "saved"}
Workers == {Off, "work", "write", "writing", "wrote", "failed",
            "copying", "filling", "copied", "uncopied"}
Paths == Files \ {"copy"}

\* Every variable has its type; what stands in the original's place is the take
\* or a complete cleaned version, never a file cut short (DetailViewModel 172-181),
\* unless the worker of a cancelled job disturbed a later one.
TypeOK ==
    /\ storage \in {"dir", "doc"}
    /\ disk \in [Files -> Contents]
    /\ torn \/ disk["orig"] # "partial"
    /\ row \in [path: Paths, enh: BOOLEAN]
    /\ adopted \subseteq Files
    /\ ui \in {"idle", "working", "error", "done"}
    /\ open \in BOOLEAN /\ fresh \in BOOLEAN /\ seen \in BOOLEAN
    /\ undone \in BOOLEAN /\ erased \in BOOLEAN /\ torn \in BOOLEAN
    /\ job \in [pc: Jobs, keep: BOOLEAN, path: Paths, enh: BOOLEAN]
    /\ workers \in [1 .. MaxJobs -> [pc: Workers, mine: BOOLEAN, file: Files \cup {"none"}]]
    /\ clear \in {Off, "files", "row"}
    /\ scan \in [pc: {Off, "list", "adopt"}, known: SUBSET Files, todo: SUBSET Files]
    /\ jobs \in 0 .. MaxJobs /\ deaths \in 0 .. MaxDeaths

\* The recording can be heard: the take or a complete cleaned version of it is
\* somewhere, at every step of a replacement, whatever is cancelled, left or
\* killed and whatever workers are left over (DetailViewModel 122-199).  Three
\* exceptions: the user deleted the only version; or cancelled after a renameTo()
\* that had failed, which the code does not tell from an unfinished job; or the
\* worker of a cancelled job opened the copy when a later job was writing it, went
\* on with it or had left it as all there is (enhance() and AudioEnhancer 57 do not
\* look), or shares with the row or another worker the name of a document that had
\* been deleted.
AudioSurvives ==
    undone \/ erased \/ torn \/ \E f \in Files : disk[f] \in Whole

\* A row leads to it.
Playable(f) == disk[f] \in Whole
Leads ==
    \/ Playable(row.path)
    \/ row.enh /\ Playable("copy")
    \/ \E f \in adopted : Playable(f)

\* Once a scan has looked at the files as they are, the library leads to the audio
\* of a recording in the app's directory: a replacement that was cut short is found
\* again (RecordingRepository 230-249), with the exceptions of AudioSurvives.
LibraryLeads ==
    storage = "dir" /\ scan.pc = Off /\ seen => undone \/ erased \/ torn \/ Leads
=============================================================================
