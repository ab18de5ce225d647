------------------------------- MODULE Recorder -------------------------------
(***************************************************************************)
(* RecordingController: one take at a time through a MediaRecorder, with   *)
(* the amplitude sampler it launches and the finalizer a stop hands the    *)
(* file to.                                                                *)
(*                                                                         *)
(* The controller has no lock.  Its methods run on the thread that calls   *)
(* them: the main thread (UI, RecordingService, MainActivity) and one      *)
(* Dispatchers.IO coroutine per broadcast or automation shortcut           *)
(* (RecordingReceiver, ShortcutHandlerActivity).  A method is therefore a  *)
(* sequence of steps, one per access to shared state, kept in pc[t]; steps *)
(* of two threads interleave.  The sampler is a coroutine on the main      *)
(* thread: it never runs in the middle of a main-thread method, nor the    *)
(* other way round.                                                        *)
(*                                                                         *)
(* AudioSource.SYSTEM_ENABLED is false, so start() never reaches system    *)
(* capture: only the microphone path exists here.                          *)
(***************************************************************************)
EXTENDS Naturals, FiniteSets

CONSTANTS
    Main,       \* the main thread
    IoCallers,  \* the Dispatchers.IO coroutines, each making one call
    IoCalls,    \* what those coroutines may call
    Takes,      \* one per start(): a MediaRecorder object and its temp file
    Names,      \* titled file names in the recordings folder (a bound: when
                \* none is free a finalizer waits)
    Jobs,       \* sampler coroutines alive at the same time
    None,       \* Kotlin's null
    MayCrash    \* TRUE when the process may be killed

ASSUME ThreadsAssumption == Main \notin IoCallers
ASSUME CallsAssumption == IoCalls \subseteq {"start", "pause", "resume", "stop"}
ASSUME NoneAssumption == None \notin Takes /\ None \notin Jobs
ASSUME NamesAssumption == "temp" \notin Names /\ "partial" \notin Takes \cup {None}

VARIABLES
    st,         \* _state: the fields of RecorderState the code branches on
    recorder,   \* the field recorder: the take whose MediaRecorder it holds
    mr,         \* MediaRecorder object of each take
    file,       \* the take's file on disk
    ampJob,     \* the field amplitudeJob
    job,        \* where each sampler coroutine is
    cancelled,  \* samplers cancelled in the middle of an iteration
    seen,       \* the _state.value the running sampler iteration copies
    pc,         \* where each thread is in the method it runs
    snap,       \* the method's local s = _state.value
    own,        \* the method's local mr / file in start()
    finalizing, \* finalizeRecording coroutines launched, name not yet chosen
    chosen,     \* ... those between the choice of a name and the rename
    held,       \* what each titled file holds
    renamed,    \* rows those coroutines are about to insert
    rows,       \* rows in the database: take and the path it points to
    clashed     \* history: names two finalizers at once had found free

ctlVars  == <<st, recorder>>
hwVars   == <<mr, file>>
jobVars  == <<ampJob, job, cancelled, seen>>
thrVars  == <<pc, snap, own>>
saveVars == <<finalizing, chosen, held, renamed, rows, clashed>>
vars     == <<ctlVars, hwVars, jobVars, thrVars, saveVars>>

-----------------------------------------------------------------------------
Threads == {Main} \cup IoCallers

RecorderStates ==
    [isRecording: BOOLEAN, isPaused: BOOLEAN, file: Takes \cup {None}]

\* RecorderState(): what stop(), cancel() and a failed start() publish.
IdleState == [isRecording |-> FALSE, isPaused |-> FALSE, file |-> None]

Steps == {"idle", "done",
          "start.recorder", "start.assign", "start.publish", "start.service",
          "start.clear",
          "pause.recorder", "pause.publish", "pause.cancel",
          "resume.recorder", "resume.publish",
          "sample.cancel", "sample.launch",
          "stop.release", "stop.publish", "stop.save",
          "cancel.release", "cancel.delete", "cancel.publish"}

\* A row points to the titled file, or to the temp path when neither the
\* rename nor the copy succeeded.
Rows == Takes \X (Names \cup {"temp"})

MediaRecorderStates == {"new", "recording", "paused", "released"}
FileStates == {"none",   \* not created
               "empty",  \* FLAMBO_<ms>.m4a, no audio frame yet
               "audio",  \* FLAMBO_<ms>.m4a with audio
               "named",  \* no longer there: renamed to its title
               "stray",  \* still FLAMBO_<ms>.m4a, and left there by the code
               "gone"}   \* deleted
SamplerStates == {"none", "queued", "read", "write", "delay"}

Live(k) == mr[k] \in {"recording", "paused"}
TempOnDisk(k) == file[k] \in {"empty", "audio", "stray"}

Init ==
    /\ st = IdleState
    /\ recorder = None
    /\ mr = [k \in Takes |-> "new"]
    /\ file = [k \in Takes |-> "none"]
    /\ ampJob = None
    /\ job = [j \in Jobs |-> "none"]
    /\ cancelled = {}
    /\ seen = IdleState
    /\ pc = [t \in Threads |-> "idle"]
    /\ snap = [t \in Threads |-> IdleState]
    /\ own = [t \in Threads |-> None]
    /\ finalizing = [k \in Takes |-> 0]
    /\ chosen = [k \in Takes |-> [n \in Names |-> 0]]
    /\ held = [n \in Names |-> None]
    /\ renamed = {}
    /\ rows = {}
    /\ clashed = {}

-----------------------------------------------------------------------------
(* Scheduling.                                                             *)

SamplerRunning(j) == job[j] \in {"read", "write"}

\* The main looper can dispatch its next message.
MainFree == pc[Main] = "idle" /\ \A j \in Jobs : ~SamplerRunning(j)

\* Thread t may enter the controller with call c.
Enters(t, c) ==
    /\ pc[t] = "idle"
    /\ IF t = Main THEN MainFree ELSE c \in IoCalls

At(t, step) == pc[t] = step
GoTo(t, step) == pc' = [pc EXCEPT ![t] = step]
Returned(t) == IF t = Main THEN "idle" ELSE "done"
Return(t) == GoTo(t, Returned(t))

\* Job.cancel(): a suspended sampler never resumes, a running one finishes
\* its iteration and ends at delay(), its only cancellation point.
CancelSampler ==
    IF ampJob = None THEN UNCHANGED <<job, cancelled>>
    ELSE IF SamplerRunning(ampJob)
         THEN cancelled' = cancelled \cup {ampJob} /\ UNCHANGED job
         ELSE job' = [job EXCEPT ![ampJob] = "none"] /\ UNCHANGED cancelled

\* runCatching { recorder?.stop() }; runCatching { recorder?.release() };
\* recorder = null
ReleaseRecorder ==
    /\ mr' = IF recorder = None THEN mr ELSE [mr EXCEPT ![recorder] = "released"]
    /\ recorder' = None

-----------------------------------------------------------------------------
(* start()                                                                 *)

\* Mutant of StartCheck: the isRecording guard is missing.
StartCheckUnguarded(t) ==
    /\ Enters(t, "start")
    /\ \E k \in Takes :
          /\ mr[k] = "new" /\ \A u \in Threads : own[u] # k
          /\ own' = [own EXCEPT ![t] = k]
    /\ GoTo(t, "start.recorder")
    /\ UNCHANGED <<ctlVars, hwVars, jobVars, snap, saveVars>>

\* if (_state.value.isRecording) return false
StartCheck(t) ==
    /\ Enters(t, "start")
    /\ ~st.isRecording
    /\ \E k \in Takes :
          /\ mr[k] = "new" /\ \A u \in Threads : own[u] # k
          /\ own' = [own EXCEPT ![t] = k]
    /\ GoTo(t, "start.recorder")
    /\ UNCHANGED <<ctlVars, hwVars, jobVars, snap, saveVars>>

\* mr.prepare(); mr.start()
StartRecorder(t) ==
    /\ At(t, "start.recorder")
    /\ mr' = [mr EXCEPT ![own[t]] = "recording"]
    /\ file' = [file EXCEPT ![own[t]] = "empty"]
    /\ GoTo(t, "start.assign")
    /\ UNCHANGED <<ctlVars, jobVars, snap, own, saveVars>>

\* catch (e: Exception): release and return false.  prepare() creates the
\* output file, so one may be left behind.
StartRecorderFails(t) ==
    /\ At(t, "start.recorder")
    /\ mr' = [mr EXCEPT ![own[t]] = "released"]
    /\ \E f \in {"none", "stray"} : file' = [file EXCEPT ![own[t]] = f]
    /\ own' = [own EXCEPT ![t] = None]
    /\ Return(t)
    /\ UNCHANGED <<ctlVars, jobVars, snap, saveVars>>

StartAssign(t) ==
    /\ At(t, "start.assign")
    /\ recorder' = own[t]
    /\ GoTo(t, "start.publish")
    /\ UNCHANGED <<st, hwVars, jobVars, snap, own, saveVars>>

StartPublish(t) ==
    /\ At(t, "start.publish")
    /\ st' = [isRecording |-> TRUE, isPaused |-> FALSE, file |-> own[t]]
    /\ GoTo(t, "start.service")
    /\ UNCHANGED <<recorder, hwVars, jobVars, snap, own, saveVars>>

\* startForegroundService() returned true
StartService(t) ==
    /\ At(t, "start.service")
    /\ own' = [own EXCEPT ![t] = None]
    /\ GoTo(t, "sample.cancel")
    /\ UNCHANGED <<ctlVars, hwVars, jobVars, snap, saveVars>>

\* Mutant of StartUndo: the field is cleared, the object never released.
StartUndoLeaks(t) ==
    /\ At(t, "start.service")
    /\ recorder' = None
    /\ GoTo(t, "start.clear")
    /\ UNCHANGED <<st, hwVars, jobVars, snap, own, saveVars>>

\* startForegroundService() was refused: whatever the field holds is
\* stopped and released.
StartUndo(t) ==
    /\ At(t, "start.service")
    /\ ReleaseRecorder
    /\ GoTo(t, "start.clear")
    /\ UNCHANGED <<st, file, jobVars, snap, own, saveVars>>

\* _state.value = RecorderState(); return false.  The temp file stays.
StartClear(t) ==
    /\ At(t, "start.clear")
    /\ st' = IdleState
    /\ file' = [file EXCEPT ![own[t]] = IF TempOnDisk(own[t]) THEN "stray" ELSE @]
    /\ own' = [own EXCEPT ![t] = None]
    /\ Return(t)
    /\ UNCHANGED <<recorder, mr, jobVars, snap, saveVars>>

Start(t) ==
    \/ StartCheck(t) \/ StartRecorder(t) \/ StartRecorderFails(t)
    \/ StartAssign(t) \/ StartPublish(t) \/ StartService(t)
    \/ StartUndo(t) \/ StartClear(t)

-----------------------------------------------------------------------------
(* startSampling(), the tail of start() and resume()                       *)

\* amplitudeJob?.cancel()
SampleCancel(t) ==
    /\ At(t, "sample.cancel")
    /\ CancelSampler
    /\ GoTo(t, "sample.launch")
    /\ UNCHANGED <<ctlVars, hwVars, ampJob, seen, snap, own, saveVars>>

\* amplitudeJob = scope.launch { ... }
SampleLaunch(t) ==
    /\ At(t, "sample.launch")
    /\ \E j \in Jobs :
          /\ job[j] = "none"
          /\ job' = [job EXCEPT ![j] = "queued"]
          /\ ampJob' = j
    /\ Return(t)
    /\ UNCHANGED <<ctlVars, hwVars, cancelled, seen, snap, own, saveVars>>

StartSampling(t) == SampleCancel(t) \/ SampleLaunch(t)

\* The loop condition, on the first dispatch and after each delay(90).
SamplerWake(j) ==
    /\ job[j] \in {"queued", "delay"}
    /\ MainFree
    /\ job' = [job EXCEPT ![j] =
                 IF st.isRecording /\ ~st.isPaused THEN "read" ELSE "none"]
    /\ UNCHANGED <<ctlVars, hwVars, ampJob, cancelled, seen, thrVars, saveVars>>

\* _state.value = _state.value.copy(amplitude, peaks, elapsedMs): the read
SamplerRead(j) ==
    /\ job[j] = "read"
    /\ seen' = st
    /\ job' = [job EXCEPT ![j] = "write"]
    /\ UNCHANGED <<ctlVars, hwVars, ampJob, cancelled, thrVars, saveVars>>

\* ... and the write, which puts the other fields back as they were read
SamplerWrite(j) ==
    /\ job[j] = "write"
    /\ st' = seen
    /\ job' = [job EXCEPT ![j] = IF j \in cancelled THEN "none" ELSE "delay"]
    /\ cancelled' = cancelled \ {j}
    /\ UNCHANGED <<recorder, hwVars, ampJob, seen, thrVars, saveVars>>

Sampler(j) == SamplerWake(j) \/ SamplerRead(j) \/ SamplerWrite(j)

-----------------------------------------------------------------------------
(* pause() and resume()                                                    *)

PauseCheck(t) ==
    /\ Enters(t, "pause")
    /\ st.isRecording /\ ~st.isPaused
    /\ snap' = [snap EXCEPT ![t] = st]
    /\ GoTo(t, "pause.recorder")
    /\ UNCHANGED <<ctlVars, hwVars, jobVars, own, saveVars>>

\* try { recorder?.pause() }: nothing on null
PauseRecorder(t) ==
    /\ At(t, "pause.recorder")
    /\ recorder # None => Live(recorder)
    /\ mr' = IF recorder = None THEN mr ELSE [mr EXCEPT ![recorder] = "paused"]
    /\ GoTo(t, "pause.publish")
    /\ UNCHANGED <<ctlVars, file, jobVars, snap, own, saveVars>>

\* Mutant of PauseRecorderFails: the exception is swallowed without return.
PauseRecorderIgnored(t) ==
    /\ At(t, "pause.recorder")
    /\ recorder # None
    /\ GoTo(t, "pause.publish")
    /\ UNCHANGED <<ctlVars, hwVars, jobVars, snap, own, saveVars>>

\* ... an exception, or an object already released: return
PauseRecorderFails(t) ==
    /\ At(t, "pause.recorder")
    /\ recorder # None
    /\ Return(t)
    /\ UNCHANGED <<ctlVars, hwVars, jobVars, snap, own, saveVars>>

\* _state.value = s.copy(isPaused = true), s read at the top of pause()
PausePublish(t) ==
    /\ At(t, "pause.publish")
    /\ st' = [snap[t] EXCEPT !.isPaused = TRUE]
    /\ GoTo(t, "pause.cancel")
    /\ UNCHANGED <<recorder, hwVars, jobVars, snap, own, saveVars>>

\* Mutant of PauseCancel: amplitudeJob is left running.
PauseKeepsSampler(t) ==
    /\ At(t, "pause.cancel")
    /\ Return(t)
    /\ UNCHANGED <<ctlVars, hwVars, jobVars, snap, own, saveVars>>

PauseCancel(t) ==
    /\ At(t, "pause.cancel")
    /\ CancelSampler
    /\ Return(t)
    /\ UNCHANGED <<ctlVars, hwVars, ampJob, seen, snap, own, saveVars>>

ResumeCheck(t) ==
    /\ Enters(t, "resume")
    /\ st.isRecording /\ st.isPaused
    /\ snap' = [snap EXCEPT ![t] = st]
    /\ GoTo(t, "resume.recorder")
    /\ UNCHANGED <<ctlVars, hwVars, jobVars, own, saveVars>>

ResumeRecorder(t) ==
    /\ At(t, "resume.recorder")
    /\ recorder # None => Live(recorder)
    /\ mr' = IF recorder = None THEN mr ELSE [mr EXCEPT ![recorder] = "recording"]
    /\ GoTo(t, "resume.publish")
    /\ UNCHANGED <<ctlVars, file, jobVars, snap, own, saveVars>>

ResumeRecorderFails(t) ==
    /\ At(t, "resume.recorder")
    /\ recorder # None
    /\ Return(t)
    /\ UNCHANGED <<ctlVars, hwVars, jobVars, snap, own, saveVars>>

\* _state.value = s.copy(isPaused = false); startSampling()
ResumePublish(t) ==
    /\ At(t, "resume.publish")
    /\ st' = [snap[t] EXCEPT !.isPaused = FALSE]
    /\ GoTo(t, "sample.cancel")
    /\ UNCHANGED <<recorder, hwVars, jobVars, snap, own, saveVars>>

Pause(t) ==
    \/ PauseCheck(t) \/ PauseRecorder(t) \/ PauseRecorderFails(t)
    \/ PausePublish(t) \/ PauseCancel(t)

Resume(t) ==
    \/ ResumeCheck(t) \/ ResumeRecorder(t) \/ ResumeRecorderFails(t)
    \/ ResumePublish(t)

-----------------------------------------------------------------------------
(* stop()                                                                  *)

StopCheck(t) ==
    /\ Enters(t, "stop")
    /\ st.isRecording
    /\ snap' = [snap EXCEPT ![t] = st]
    /\ GoTo(t, "stop.release")
    /\ UNCHANGED <<ctlVars, hwVars, jobVars, own, saveVars>>

\* Mutant of StopRelease: stop() and release() are missing.
StopForgets(t) ==
    /\ At(t, "stop.release")
    /\ CancelSampler
    /\ recorder' = None
    /\ GoTo(t, "stop.publish")
    /\ UNCHANGED <<st, hwVars, ampJob, seen, snap, own, saveVars>>

\* amplitudeJob?.cancel(); recorder?.stop(); recorder?.release();
\* recorder = null
StopRelease(t) ==
    /\ At(t, "stop.release")
    /\ CancelSampler
    /\ ReleaseRecorder
    /\ GoTo(t, "stop.publish")
    /\ UNCHANGED <<st, file, ampJob, seen, snap, own, saveVars>>

\* Mutant of StopPublish: the state is not reset.
StopKeepsState(t) ==
    /\ At(t, "stop.publish")
    /\ GoTo(t, "stop.save")
    /\ UNCHANGED <<ctlVars, hwVars, jobVars, snap, own, saveVars>>

\* _state.value = RecorderState()
StopPublish(t) ==
    /\ At(t, "stop.publish")
    /\ st' = IdleState
    /\ GoTo(t, "stop.save")
    /\ UNCHANGED <<recorder, hwVars, jobVars, snap, own, saveVars>>

\* file.exists() && file.length() > 0: launch finalizeRecording
StopSave(t) ==
    /\ At(t, "stop.save")
    /\ snap[t].file # None
    /\ TempOnDisk(snap[t].file)
    /\ finalizing' = [finalizing EXCEPT ![snap[t].file] = @ + 1]
    /\ Return(t)
    /\ UNCHANGED <<ctlVars, hwVars, jobVars, snap, own, chosen, held, renamed, rows, clashed>>

\* Mutant of StopDelete: the file is deleted whatever it holds.
StopDeletesAudio(t) ==
    LET k == snap[t].file IN
    /\ At(t, "stop.save")
    /\ file' = IF k # None /\ TempOnDisk(k)
               THEN [file EXCEPT ![k] = "gone"] ELSE file
    /\ Return(t)
    /\ UNCHANGED <<ctlVars, mr, jobVars, snap, own, saveVars>>

\* ... otherwise file?.delete(); a file without audio may have length 0
StopDelete(t) ==
    LET k == snap[t].file IN
    /\ At(t, "stop.save")
    /\ k # None => file[k] # "audio"
    /\ file' = IF k # None /\ TempOnDisk(k)
               THEN [file EXCEPT ![k] = "gone"] ELSE file
    /\ Return(t)
    /\ UNCHANGED <<ctlVars, mr, jobVars, snap, own, saveVars>>

Stop(t) ==
    \/ StopCheck(t) \/ StopRelease(t) \/ StopPublish(t)
    \/ StopSave(t) \/ StopDelete(t)

-----------------------------------------------------------------------------
(* cancel(): the discard button of the recording panel, main thread only.  *)
(* There is no isRecording guard.                                          *)

CancelCheck ==
    /\ MainFree
    /\ GoTo(Main, "cancel.release")
    /\ UNCHANGED <<ctlVars, hwVars, jobVars, snap, own, saveVars>>

CancelRelease ==
    /\ At(Main, "cancel.release")
    /\ CancelSampler
    /\ ReleaseRecorder
    /\ GoTo(Main, "cancel.delete")
    /\ UNCHANGED <<st, file, ampJob, seen, snap, own, saveVars>>

\* _state.value.currentFile?.let { it.delete() }
CancelDelete ==
    /\ At(Main, "cancel.delete")
    /\ file' = IF st.file # None /\ TempOnDisk(st.file)
               THEN [file EXCEPT ![st.file] = "gone"] ELSE file
    /\ GoTo(Main, "cancel.publish")
    /\ UNCHANGED <<ctlVars, mr, jobVars, snap, own, saveVars>>

CancelPublish ==
    /\ At(Main, "cancel.publish")
    /\ st' = IdleState
    /\ Return(Main)
    /\ UNCHANGED <<recorder, hwVars, jobVars, snap, own, saveVars>>

Cancel == CancelCheck \/ CancelRelease \/ CancelDelete \/ CancelPublish

-----------------------------------------------------------------------------
(* finalizeRecording() on Dispatchers.IO: any number at once, all in one   *)
(* folder.  Its temp file is nobody else's, the titled files are shared.   *)

Choices(n) == {k \in Takes : chosen[k][n] > 0}

\* Mutant of FinalizeChoose: runs without having been launched.
FinalizeUnlaunched(k) ==
    \E n \in Names :
        /\ held[n] = None
        /\ finalizing' = [finalizing EXCEPT ![k] = @ - 1]
        /\ chosen' = [chosen EXCEPT ![k][n] = @ + 1]
        /\ clashed' = IF Choices(n) # {} THEN clashed \cup {n} ELSE clashed
        /\ UNCHANGED <<ctlVars, hwVars, jobVars, thrVars, held, renamed, rows>>

\* Mutant of FinalizeChoose: the name is taken without the exists() test.
FinalizeChoosesUsed(k) ==
    /\ finalizing[k] > 0
    /\ \E n \in Names :
        /\ finalizing' = [finalizing EXCEPT ![k] = @ - 1]
        /\ chosen' = [chosen EXCEPT ![k][n] = @ + 1]
        /\ clashed' = IF Choices(n) # {} THEN clashed \cup {n} ELSE clashed
        /\ UNCHANGED <<ctlVars, hwVars, jobVars, thrVars, held, renamed, rows>>

\* getUniqueFile(): a name no file has.  Nothing reserves it: another
\* finalizer may find it free too before this one has renamed.
FinalizeChoose(k) ==
    /\ finalizing[k] > 0
    /\ \E n \in Names :
        /\ held[n] = None
        /\ finalizing' = [finalizing EXCEPT ![k] = @ - 1]
        /\ chosen' = [chosen EXCEPT ![k][n] = @ + 1]
        /\ clashed' = IF Choices(n) # {} THEN clashed \cup {n} ELSE clashed
        /\ UNCHANGED <<ctlVars, hwVars, jobVars, thrVars, held, renamed, rows>>

\* tempFile.renameTo(target), or copyTo(target, overwrite = true) and a
\* delete whose failure is ignored: the temp file may stay.  Either way what
\* the name held before is replaced.
FinalizeRename(k, n) ==
    /\ chosen[k][n] > 0
    /\ TempOnDisk(k)
    /\ chosen' = [chosen EXCEPT ![k][n] = @ - 1]
    /\ held' = [held EXCEPT ![n] = k]
    /\ \E f \in {"named", "stray"} : file' = [file EXCEPT ![k] = f]
    /\ renamed' = renamed \cup {<<k, n>>}
    /\ UNCHANGED <<ctlVars, mr, jobVars, thrVars, finalizing, rows, clashed>>

\* Both fail: there is no temp file, or the copy threw, perhaps half way.  The
\* exception is swallowed and the row will hold the temp path.
FinalizeRenameFails(k, n) ==
    /\ chosen[k][n] > 0
    /\ chosen' = [chosen EXCEPT ![k][n] = @ - 1]
    /\ \/ UNCHANGED held
       \/ TempOnDisk(k) /\ held' = [held EXCEPT ![n] = "partial"]
    /\ file' = [file EXCEPT ![k] = IF TempOnDisk(k) THEN "stray" ELSE @]
    /\ renamed' = renamed \cup {<<k, "temp">>}
    /\ UNCHANGED <<ctlVars, mr, jobVars, thrVars, finalizing, rows, clashed>>

\* repository.insert(rec)
FinalizeInsert(r) ==
    /\ r \in renamed
    /\ renamed' = renamed \ {r}
    /\ rows' = rows \cup {r}
    /\ UNCHANGED <<ctlVars, hwVars, jobVars, thrVars, finalizing, chosen, held, clashed>>

FinalizeMove(k) == \E n \in Names : FinalizeRename(k, n) \/ FinalizeRenameFails(k, n)

-----------------------------------------------------------------------------
(* The device: frames reach the file; the process may die.                 *)

Capture(k) ==
    /\ mr[k] = "recording"
    /\ file[k] = "empty"
    /\ file' = [file EXCEPT ![k] = "audio"]
    /\ UNCHANGED <<ctlVars, mr, jobVars, thrVars, saveVars>>

\* The process is killed and started again: fields, threads and coroutines
\* are gone, files and rows stay.
Crash ==
    /\ MayCrash
    /\ st' = IdleState
    /\ recorder' = None
    /\ mr' = [k \in Takes |-> IF mr[k] = "new" /\ file[k] = "none"
                                 /\ \A t \in Threads : own[t] # k
                              THEN "new" ELSE "released"]
    /\ file' = [k \in Takes |-> IF TempOnDisk(k) THEN "stray" ELSE file[k]]
    /\ ampJob' = None
    /\ job' = [j \in Jobs |-> "none"]
    /\ cancelled' = {}
    /\ seen' = IdleState
    /\ pc' = [t \in Threads |-> IF pc[t] = "idle" THEN "idle" ELSE Returned(t)]
    /\ snap' = [t \in Threads |-> IdleState]
    /\ own' = [t \in Threads |-> None]
    /\ finalizing' = [k \in Takes |-> 0]
    /\ chosen' = [k \in Takes |-> [n \in Names |-> 0]]
    /\ renamed' = {}
    /\ UNCHANGED <<held, rows, clashed>>

-----------------------------------------------------------------------------
Call(t) == Start(t) \/ StartSampling(t) \/ Pause(t) \/ Resume(t) \/ Stop(t)

Next ==
    \/ \E t \in Threads : Call(t)
    \/ Cancel
    \/ \E j \in Jobs : Sampler(j)
    \/ \E k \in Takes : FinalizeChoose(k) \/ FinalizeMove(k) \/ Capture(k)
    \/ \E r \in renamed : FinalizeInsert(r)
    \/ Crash

Spec == Init /\ [][Next]_vars

\* A method that was entered runs to its end, launched coroutines run: the
\* looper and the dispatchers are fair.  Nobody is obliged to call.
Continues(t) == pc[t] # "idle" /\ Call(t)
ContinuesCancel == pc[Main] # "idle" /\ Cancel
Fairness ==
    /\ \A t \in Threads : WF_vars(Continues(t))
    /\ WF_vars(ContinuesCancel)
    /\ \A j \in Jobs : WF_vars(Sampler(j))
    /\ \A k \in Takes :
          WF_vars(FinalizeChoose(k)) /\ WF_vars(FinalizeMove(k)) /\ WF_vars(Capture(k))
    /\ \A r \in Rows : WF_vars(FinalizeInsert(r))
FairSpec == Spec /\ Fairness
-----------------------------------------------------------------------------
(* Properties.                                                             *)

\* Every variable has its type; no finalizer runs that was not launched.
TypeOK ==
    /\ st \in RecorderStates
    /\ recorder \in Takes \cup {None}
    /\ mr \in [Takes -> MediaRecorderStates]
    /\ file \in [Takes -> FileStates]
    /\ ampJob \in Jobs \cup {None}
    /\ job \in [Jobs -> SamplerStates]
    /\ cancelled \subseteq Jobs
    /\ seen \in RecorderStates
    /\ pc \in [Threads -> Steps]
    /\ snap \in [Threads -> RecorderStates]
    /\ own \in [Threads -> Takes \cup {None}]
    /\ finalizing \in [Takes -> Nat]
    /\ chosen \in [Takes -> [Names -> Nat]]
    /\ held \in [Names -> Takes \cup {None, "partial"}]
    /\ renamed \subseteq Rows
    /\ rows \subseteq Rows
    /\ clashed \subseteq Names

\* No thread is inside the controller.
Quiet == \A t \in Threads : pc[t] \in {"idle", "done"}

\* Between calls the published state tells the truth about the hardware: it
\* says recording exactly when a MediaRecorder is held, names that take, and
\* says paused exactly when that MediaRecorder is paused (the guards of
\* start, pause, resume and stop all read this state).
StateMatchesRecorder ==
    Quiet =>
        /\ st.isRecording <=> recorder # None
        /\ st.file = recorder
        /\ recorder # None =>
              /\ Live(recorder)
              /\ st.isPaused <=> mr[recorder] = "paused"

\* A MediaRecorder that holds the microphone is reachable: through the field,
\* which stop() and cancel() release, or through the start() still building it.
MicHasOwner ==
    \A k \in Takes : Live(k) => recorder = k \/ \E t \in Threads : own[t] = k

\* Between calls one sampler runs while a take records unpaused, and none
\* otherwise (amplitudeJob?.cancel() in startSampling, pause, stop, cancel).
OneSampler ==
    Quiet => {j \in Jobs : job[j] # "none"} =
                IF st.isRecording /\ ~st.isPaused THEN {ampJob} ELSE {}

\* A finalizer of the take is between its launch and the choice of a name, or
\* between that and the rename.
Finalizing(k) == finalizing[k] > 0 \/ \E n \in Names : chosen[k][n] > 0

\* The take has a row, or is about to.
Registered(k) == \E p \in Names \cup {"temp"} : <<k, p>> \in renamed \cup rows

\* finalizeRecording renames and registers only a file whose MediaRecorder
\* has been stopped and released, so the container is complete.
NoLiveTakeIsSaved ==
    \A k \in Takes : Finalizing(k) \/ Registered(k) => mr[k] = "released"

\* A take is handed to finalizeRecording at most once, and gets one row: of its
\* titled file, or of its temp path with the file still there.
SavedOnce ==
    \A k \in Takes :
        /\ finalizing[k] =< 1
        /\ Finalizing(k) => ~Registered(k)
        /\ finalizing[k] > 0 => \A n \in Names : chosen[k][n] = 0
        /\ \A n, m \in Names : chosen[k][n] > 0 /\ chosen[k][m] > 0 => n = m
        /\ \A p, q \in Names \cup {"temp"} :
              <<k, p>> \in renamed \cup rows /\ <<k, q>> \in renamed \cup rows => p = q
        /\ <<k, "temp">> \in renamed \cup rows => TempOnDisk(k)

\* Whatever the callers' threads, however many finalizers run at once and
\* whichever of their renames fail: the titled file a row points to holds that
\* row's take.  The one way to lose it is that two finalizers at once had found
\* its name free (getUniqueFile, 406-413, reserves nothing): the later rename
\* then replaces the file of the earlier.
SavedTakeKeepsFile ==
    \A k \in Takes, n \in Names :
        <<k, n>> \in renamed \cup rows => held[n] = k \/ n \in clashed

\* Recorded audio under its temp name always has somebody who will save or
\* delete it: the published state, a call in progress, or a finalizer.
AudioHasKeeper ==
    \A k \in Takes : file[k] = "audio" =>
        \/ st.file = k
        \/ \E t \in Threads :
              own[t] = k \/ (snap[t].file = k /\ pc[t] \notin {"idle", "done"})
        \/ Finalizing(k)

\* Once stop() has begun on a take with audio, the take gets a row: of its
\* titled file, or of its temp path when the rename and the copy failed.
StopSavesTake ==
    \A k \in Takes :
        (\E t \in Threads : At(t, "stop.release") /\ snap[t].file = k /\ file[k] = "audio")
            ~> (\E p \in Names \cup {"temp"} : <<k, p>> \in rows)
=============================================================================
