# Flambo: specification of the recorder, the library, the clean-up and the transcription engine

TLA+ modules, TLC instances and TLAPS proofs for Flambo, an Android voice recorder:
about 14 800 lines of Kotlin, and whisper.cpp (vendored, 410 000 lines of C and C++, most of them
backends and kernels the app never builds). Kotlin paths below are under
`app/src/main/java/com/flambo/recorder/`, native ones under `app/src/main/cpp/whisper.cpp/`.

## 1. Inventory

| Part | State it keeps | Operations | What is hard |
|---|---|---|---|
| **RecordingController** (`record/RecordingController.kt`) | `_state`, `recorder`, `amplitudeJob`, time stamps | `start`, `pause`, `resume`, `stop`, `cancel`, sampler coroutine, `finalizeRecording` | no lock, and two kinds of callers: the main thread (UI, service, MainActivity) and `Dispatchers.IO` (receiver, automation shortcuts) |
| **Entry points** (`RecordingReceiver`, `ShortcutHandlerActivity`, `MainActivity`, `RecordingShortcut`) | the labels of two dynamic shortcuts | one call of the controller each | the call runs on `appScope` (IO) |
| **RecordingService** | notification, ticker | foreground start, Pause / Resume / Save intents, ticker | intents and notifications after the stop; sticky restart |
| **SystemAudioEngine** | `AudioRecord`, WAV file | start, pause, stop, cancel | not reachable: `AudioSource.SYSTEM_ENABLED` is false |
| **RecordingRepository**, Room DAO, **AudioFileStore**, **SafFolderHelper** | rows; files in the app's directory, another volume, a picked folder | insert, edits, move, trash, restore, delete, purge, scan | every operation is several awaited steps and nothing excludes two of them; process death between two |
| **StorageWatcher**, **FlamboApp** | observer, debounce job | `onCreate`: purge, scan, watch; `syncStorage` | debounce against re-arming |
| **DetailViewModel** | enhance and transcribe jobs | enhance, replaceOriginal, cancel, edits | minutes between reading the row and writing it back |
| **HomeViewModel** | undo information | delete with undo, group tags | undo against a second delete |
| **PlaybackController / PlaybackService** | controller future, stashed request, current path | connect, play, stop, release | asynchronous connection; the recorder's hook must silence it |
| **STT** (`stt/`) | loaded model, model directories | download, unzip, load, transcribe | two downloads, half-installed models, stale cache |
| **Updater** (`update/`) | downloaded APK, pending-delete preference | check, download, install, clean up | cut downloads, channel switch |
| **whisper.cpp: transcription loop** (`src/whisper.cpp`, called by `whisper_jni.cpp`) | `whisper_state`: seek, past tokens, decoders, key-value cache, segments | `whisper_full_with_state`, `whisper_free` | several budgets of tokens and cache cells; progress; values kept between attempts |
| **whisper.cpp: graph allocator** (`ggml/src/ggml-alloc.c`, `ggml-backend.cpp`) | hash of tensors, saved plan, buffer, free blocks | reserve, alloc graph, free | tensors share bytes; a plan is reused for other sizes |
| **whisper.cpp: thread pool** (`ggml/src/ggml-cpu/ggml-cpu.c`) | atomics of the pool, of each thread, two barrier counters, a chunk counter | new, kickoff, compute, barrier, pause, free | lock-free: polling against sleeping, barrier reuse, abort |
| DSP (`AudioEnhancer`, `PcmDecoder`), preferences, UI, theme, onboarding | | | floating-point code, getters, layout |

How they interact: every start goes through `RecordingController.start`; `stop` hands the
closed temp file to `finalizeRecording`, which renames it, moves it into the picked folder and
inserts the row; the scan of `RecordingRepository.syncExternalFiles` looks at the same
directories and table; the recorder calls `onRecordingStarted` (playback stops) and the service
reads the recorder's state once a second.

Correctness, per part. Recorder: the published state tells what the hardware does; the
microphone is always released by somebody; one sampler; a take is saved exactly once, complete, and
never lost. Library: one row per file; a row outside the trash has its audio; audio disappears
only by the user's deletion of that recording; what was deleted does not come back; every saved take
and every file copied in is indexed. Clean-up: the recording survives whatever is cancelled, fails or
dies, and can be found again. Service: no notification without a recording. Playback: silent
while the microphone records. Models and updates: nothing half-downloaded is used. Native:
the transcription ends, its segments are in order and fit its buffers; no tensor is overwritten
while it is still read; threads compute every item once, after what it reads, and none is left waiting.

A transcription goes through the three native parts: `WhisperJNI` calls `whisper_full`, which
for each window builds graphs; the scheduler has the allocator place the tensors of a graph, and the
CPU backend computes it with a pool of threads.

`PROJECT.json` lists the hazards at their lines, with the property that covers each or the
reason none does yet.

## 2. Modules

### Recorder.tla

One action per access to shared state, because the callers' threads interleave there: `pc[t]` is
where thread `t` is in the method it runs, `snap[t]` the method's local copy of the state
(`val s = _state.value`), `own[t]` the MediaRecorder and file `start()` is still building.

| Code | Actions |
|---|---|
| `start` 83-138 | `StartCheck`, `StartRecorder`, `StartRecorderFails`, `StartAssign`, `StartPublish`, `StartService`; a refused service: `StartUndo`, `StartClear` |
| `startSampling` 320-351 | `SampleCancel`, `SampleLaunch`; the coroutine: `SamplerWake`, `SamplerRead`, `SamplerWrite` |
| `pause` 187-203, `resume` 205-221 | `PauseCheck` .. `PauseCancel`, `ResumeCheck` .. `ResumePublish`, then the sampling tail |
| `stop` 246-301 | `StopCheck`, `StopRelease`, `StopPublish`, then `StopSave` or `StopDelete` |
| `cancel` 303-318 | `CancelCheck`, `CancelRelease`, `CancelDelete`, `CancelPublish` |
| `finalizeRecording` 420-456, `getUniqueFile` 406-413 | `FinalizeChoose`, `FinalizeRename`, `FinalizeRenameFails`, `FinalizeInsert` |
| outside | `Capture` (the MediaRecorder writes frames), `Crash` (the process dies) |

The sampler is a coroutine of `Dispatchers.Main`: `MainFree` keeps it and the main thread's methods
apart, and nothing keeps it apart from an IO caller. Its `_state.value = _state.value.copy(...)` is a
read and a write. `Job.cancel()` ends a suspended sampler at once and a running one at its
`delay(90)`. A toggle shortcut is a `start` or a `stop` by the state it read, so it adds no action.

The finalizers of all takes share the titled files: `Names` are the files there can be and `held[n]` is the take whose
audio the file has. Finding a name free (`FinalizeChoose`) and using it (`FinalizeRename`) are two steps, and a
finalizer that used it in between is replaced. `clashed` (history) has the names that two finalizers had found free at
once. The rename falls back on a copy; when that throws the row gets the temp path, and half a file may be left under
the title (`FinalizeRenameFails`).

Abstracted: peaks, amplitude and elapsed time (no branch reads them), quality and title. The
MediaRecorder setters of lines 97-105 are part of `StartCheck` and do not fail. A stop with a file of
length 0 is possible only before the first frame. The move into a picked folder (line 442) is in `Library`.

### Library.tla

`disk` maps a path to the audio it holds, `db` an id to its row. A path is a location (app directory,
picked tree, other volume) and a name; `TempOf(k)` is the `FLAMBO_<ms>.m4a` of take `k`. `"partial"` is
a copy cut short. The record of each coroutine (`fin`, `sync`, `edit`, `erase`, `purge`) holds what
the code keeps in locals across awaited calls: the known paths of a scan, the row an edit read, the list
a purge works off. One action is one DAO call or one file operation.

| Code | Actions |
|---|---|
| `finalizeRecording`, `moveToCustomFolderIfNeeded` (RecordingController 379-476), `copyFileToTree` (AudioFileStore 130-162) | `TakeStopped`, `ChooseName`, `Rename`, `RenameFails`, `CopyToTree`, `CopyFails`, `DeleteLocal`, `InsertTake` |
| `syncExternalFiles` (RecordingRepository 230-287) | `SyncOnBoot`, `SyncOnResume`, `SyncOnEvent`, `ListApp`, `SkipKnown`, `Adopt`, `ListTree`, `SyncEnd` |
| `StorageWatcher` | `AppDirEvent`, the `rearms` part of `SyncEnd` |
| `rename`, `toggleFavorite`, tags, `softDelete`, `restore`, `moveToDirectory` | `EditRead`, `EditTouch`, `EditTrash`, `EditRestore`; `moveFile` (92-113): `MoveSkipped`, `MoveTarget`, `MoveRename`, or `MoveCopyBegins`, `MoveCopied`, `MoveDelete`, or `MoveFails`; then `MoveRow` |
| `deletePermanently`, `emptyTrash` | `EraseBegin`, `EraseFiles`, `EraseRow`, `EraseEnd` |
| `purgeOldTrash` | `PurgeBegin`, `PurgeFiles`, `PurgeRows` |
| `FlamboApp.onCreate` after a process death | `Restart` |
| a file manager | `ExternalAdd` |

`of` in a row and `erased` are history: which audio a row stands for, and whose deletion the user asked
for. A file deleted by anybody for another reason is thereby a loss. `Serial = TRUE` gives the sequential
reading of the component (an operation begins when none runs); `FALSE` every interleaving.

Abstracted: titles and the `(2)` suffixes are names out of `Titles`; tags, favourites and transcripts are
one edit (`EditTouch`) that writes back the row it read; `enhancedPath`, the files it names and the
deletions of them are in `Enhancement`; the folder is picked before the behaviour
begins; a deletion in a file manager is left out (the UI flags such rows, `findMissingIds`). Choosing a
free name and using it are two steps for the finalizer and for a move, one for a copy into the picked folder. A move is
one `renameTo`, or, as between two volumes, a copy and a deletion: the copy empties the destination when it begins, fills it
when it ends, and a failure, a death or a scan may come in between. `Movers` are the editors that may move. Two unfinished copies at
one path are not told apart.

### Enhancement.tla

The clean-up of one recording. The files are `"orig"`, which the row names at first; `"copy"`, the
`_enhanced.wav` the workers write; and `Documents`, those created to take the place of a document
(`storage = "doc"`: the recording is in the picked folder; `"dir"`: in the app's directory). `job.pc` is where
the coroutine of the last `enhance()` waits, `workers[n]` the thread of `Dispatchers.IO` of the `n`-th. Cancelling clears
`job` and leaves the worker running, as `AudioEnhancer` looks at its job for the last time in `process`; nor does
`enhance()` look at anything but `enhanceJob.isActive`. The worker of a cancelled job thus opens, empties and
fills the copy that a later job is writing, has written or is about to put in the place of the original.
`workers[n].file` is the file its open stream completes: it follows a rename, and is none after a deletion or after
another worker has opened the file again.
`MainFree` keeps the main thread's pieces whole: no button is handled between `original.delete()` and
`renameTo()`, but the process can die there.

| Code | Actions |
|---|---|
| `enhance` (DetailViewModel 122-150), `ensureLocalFile` (AudioFileStore 103-124) | `Enhance`, `Begin`, `NoFile`, `Fails`, `Keeps`, `Done` |
| `AudioEnhancer.enhance`, `process`, `writeWav` | `PastCheck`, `WorkFails`, `OpenCopy`, `WriteCopy`, `WriteFails`, `Dropped` |
| `replaceOriginal` 152-185 | `Replaces`, then `RenameTo`, `RenameFails` for a file; `CopyBegins`, `NoFolder`, `Copied`, `NotCopied` for a document; `Update`, `SaveEnhanced` |
| `copyFileToTree` (AudioFileStore 130-152) | `CreateDocument`, `FillDocument`, `CopyFails`, `CopyDropped` |
| `cancelEnhance`, `dismissEnhance`, `deleteEnhanced` and `clearEnhanced` (RecordingRepository 169-180) | `CancelEnhance`, `DismissEnhance`, `DeleteEnhanced`, `ClearFiles`, `ClearRow` |
| the screen, the process | `Open`, `Leave`, `Die` |
| `syncExternalFiles` | `ScanBegin`, `ScanList`, `Adopt`, `ScanEnd` |

`undone`, `erased` and `torn` are history and name the exceptions of the properties: two ways in which the user deletes the
only version, and a worker of a cancelled job that disturbed a later one (it opened the copy when that one was
writing it, went on with it or had left it as all there is (`InUse`), or shares the name of a deleted document). `seen`
says that a scan began after the last change of a file. Abstracted: samples and peaks; the row is its path and whether
`enhancedPath` is set; the cached copies of a document and of the one that replaced it, two files, are one, so that
a worker can spoil more in the model than in the code. Two workers that write one file write as many samples of the same
recording, so that what both have completed is a cleaned version, whichever strength a sample is of. An awaited
write to the table happens before a cancellation or not at all. Left out: the transcription job, edits of the row during the
clean-up, and clean-ups of a copy that a scan has adopted.

### TakeLife.tla, RecorderLife.tla

`TakeLife` is what the controller promises of a take: new, taping, then stopped or dropped, saving,
saved. One at a time is taping; a stopped take with audio can only be saved; audio goes only with a
dropped take or a process death. `RecorderLife` is the refinement mapping: the stage of a take read off
the rows, the finalizers, the MediaRecorder and the method that holds the take, and `LivesOfTakes`, the
abstract specification as a property of the detailed one.

### Barrier.tla, Threadpool.tla, Lockstep.tla

`Barrier` is `ggml_barrier` with one action per access to an atomic. `Threadpool` extends it:
`pc[t]` is where a thread is, `bar[t]` where in the barrier. `Lockstep` is the abstract specification
(threads go through the stages of a graph together), which `Threadpool` implements (`InLockstep`).

| Code | Actions |
|---|---|
| `ggml_barrier` 576-612 | `Load`, `Arrive`, `Clear`, `Release`, `Spin` |
| `ggml_threadpool_new_impl`, `_pause`, `_resume`, `_free` | `New`, `SetPause`, `FreeStop`, `FreeSignal`, `Join` |
| `ggml_graph_compute` and `_kickoff` | `Compute`, `KickStore`, `KickSignal`, `ComputeReturns` |
| `ggml_graph_compute_secondary_thread`, `_poll_for_work`, `_check_for_work`, `_thread_ready` | `Top`, `PauseWait`, `StopTest`, `PollFlags`, `PollGraph`, `WorkWait`, `Take` |
| `ggml_graph_compute_thread` | `Enter`, `NextNode`, `Calc`, `AfterNode`, `MeetOthers` |
| `ggml_compute_forward_mul_mat` | `Convert`, `SetChunk`, `DoChunk`, `MeetOthers` |
| `pthread_cond_wait` | `SpuriousWake` |

Abstracted: the build without OpenMP (with it the barrier and the threads are the compiler's);
sequentially consistent memory; a graph is a sequence of kinds of nodes (no work, a slice for each
thread, a product with chunks); polling rounds are a choice to poll on or to sleep. The mutex is held over
more than one step by the caller alone and is a flag. Counters do not wrap. Left out:
affinity, priorities, threads for hybrid CPUs, other kernels.

### DynAlloc.tla, GraphAlloc.tla

`DynAlloc` is `ggml_dyn_tallocr`: chunks with their free blocks and `max_size`; `live` (history) is
what was handed out. `GraphAlloc` is `ggml_gallocr` over it, driven as `ggml_backend_sched_alloc_splits`
drives it.

| Code | Actions and operators |
|---|---|
| `ggml_dyn_tallocr_alloc`, `_free_bytes`, `_reset` | `TallocAlloc`, `TallocFree`, `TallocReset` |
| `ggml_gallocr_alloc_graph`, `_needs_realloc`, `_init_tensor` | `AllocGraph`, `NeedsRealloc`, `InitTensors` |
| `ggml_gallocr_reserve_n_impl` | `BeginPlan`, `EndPlan` |
| `ggml_gallocr_alloc_graph_impl` | `at` and `pos` (the loop over tensors and the steps of one), `Current`; `AllocateNode`, `Release` |
| `ggml_gallocr_allocate_node`, `_free_node` | `AllocateNode` (`Reusable`, `TakeOver`), `FreeNode` |
| the scheduler | `Call` |

Abstracted: one backend and one buffer type; a tensor is its kind, its sources and a class of equal
layout; `NLeafs`, `NNodes` and `MaxSrc` number them, so the graph itself is a constant the proofs quantify over
(`GraphsAssumption`: sources come before the node, a view looks into a tensor that is no view); graphs of one scheduler keep their topology, since one builder makes them all (`ggml-alloc.h:70`
asks for a reallocation "if the topology changes", which `ggml_gallocr_needs_realloc` does not look
at beyond counts and sizes); tensors with the INPUT flag are leafs. Left out: `MAX_FREE_BLOCKS`
(more than 256 free blocks abort), `free_extra_space`, and taking over the memory of a view's parent (658-670),
which is never reached: `ggml_gallocr_is_own` at 635 is false of a view, since only tensors with memory of their
own are ever marked allocated.

### Decode.tla

One call of `whisper_full_with_state` as the JNI bridge makes it (greedy, timestamps on), and the free of
the context in `WhisperEngine`.

| Code | Actions |
|---|---|
| `whisper_full_with_state`, before the loop | `Start` |
| the loop over windows | `Window` (head, encode), `Emit` (segments, past tokens, seek) |
| the loop over temperatures | `Attempt` (decoders, prompt, cache), `Rank` (scores, best decoder, fallback) |
| the loop over tokens | `Sample` (`whisper_process_logits`, `whisper_sample_token`, the checks), `Batch` |
| `whisper_free` | `Free` |

Abstracted: probabilities are choices among the tokens the masks leave; text tokens are one token;
the cache is a number of cells; the choice of "no speech" is made where it is first read. The decoders of
one step share nothing, so they step together. Not modelled: beam search, callbacks, DTW, token
timestamps, the return codes no caller can reach; `whisper_jni.cpp`
logs `modelPath` after `ReleaseStringUTFChars`, which no property is about.

### Proof and MC modules

`RecorderProofs`, `LifeProofs`, `LibraryProofs`, `ThreadpoolProofs` (the barrier too), `DynAllocProofs`, `DecodeProofs`, `GraphAllocProofs`, `EnhancementProofs`
(section 5); `MCRecorder`, `MCLibrary`, `MCThreadpool`, `MCGraphAlloc` hold symmetry sets and the graphs
of the TLC instances. `MCDecode.cfg` and `MCEnhancement.cfg` give `Decode` and
`Enhancement` their constants directly.

A definition whose comment begins with "Mutant" or "(mutant" is a deliberately wrong version of
the next one. No specification uses them; they are there to show that each property can fail.

## 3. Runs

| Run | Instance | Shows |
|---|---|---|
| `recorder_main` | main thread only, 3 takes, 2 sampler jobs, 1 title, crash | the invariants of the recorder and the refinement of `TakeLife`; 295 000 states |
| `recorder_io` | + one IO coroutine with any call, 2 takes, 2 titles, 2 sampler jobs, no crash | a titled file keeps the take its row is for, under every interleaving of callers and finalizers, but for names found free twice (4.8 million states) |
| `recorder_live` | fair, 2 takes, no crash | a stopped take reaches the library |
| `library_serial` | 1 take, 1 outside file, every operation, 2 rows, 1 restart, sequential | rows and files agree after any sequence of operations, failing renames and copies included (1.3 million states) |
| `library_crash` | 1 take, 1 scan, 1 editor that moves, purge, 2 rows, 1 restart, interleaved | the audio of a lone take survives every interleaving and death, in the middle of a copy too, whose half a scan adopts (with two takes it does not: section 4, item 8); deleted rows stay deleted (6.8 million states) |
| `library_live` | picked folder, copy may fail, 1 restart, fair | a take with its final name is indexed; audio kept |
| `enhancement` | 2 clean-ups of one recording with a worker each, file or 2 documents, kept or replaced, every failure, button and scan, 1 process death | the audio survives and the library leads to it, and nothing cut short takes the original's place, until a worker of a cancelled job disturbs the later one; 725 000 states |
| `threadpool` | 3 threads, a graph with a product and a node without work, 1 to 4 threads asked for, 2 graphs, 8 chunks, abort, pause, spurious wakeups, fair | items computed once and after their sources, aborts at one node, quiet resets, lockstep, every call returns; 411 000 states |
| `graph_alloc` | every topology of 2 leafs and 3 nodes, 2 calls of changing sizes, 3 chunks, 1 refusal | no value is overwritten while it is read, outputs are kept, everything lies in the buffer, the allocator is used by its rules; 818 000 states |
| `decode` | audio of 0, 3 and 8 ticks, windows of 4, 3 temperatures, 2 decoders, context of 12, every token, every failure | positions and cells suffice, segments in order, a live decoder wins, the loop ends; 779 000 states |
| `recorder_io_start`, `library_namesake` | smallest instance that fails | two disagreements between code and documentation, section 4 |

Bounds. Three takes let one be saved while a second is discarded and a third starts; with
two threads the interesting overlaps need two. Two sampler jobs are a cancelled one that still runs and the one
just launched; a job that has ended is used again. One title makes every take compete for it, as its file keeps it taken; two let
takes be saved side by side. `recorder_io` has no process death, which ends all that overlaps; the theorem has it. One IO coroutine makes one call: a broadcast or a shortcut is one
call, and two of them against each other add nothing that one against the main thread does not, as
both sides are the same code. `MaxRows` is 6 in `library_live`, where it is never reached; in
`library_serial` and `library_crash` it is 2 and can be, an insertion then waits for ever and
TLC's deadlock check is off for that reason alone. Two rows are a recording and what a scan took for another.
`MaxRestarts = 1` puts a death at every step. `library_crash` has a `VIEW`: states that differ only in who may begin the next
scan, or in what an ended finalizer had in hand, are one, as their files and rows change in the same ways. Two
titles make two files compete for a name; `library_crash` has one, so that every free name is the one just
released. Two clean-ups let the second meet
what a cancelled or failed first one left on the disk, and its worker; the number of process deaths and of jobs is no limit in the proofs.
Three threads are the fewest where one is in the next barrier, one late in this one and one
in between; two graphs reuse the pool with another number of threads. Three nodes are the fewest where a
source is reused in place while a later node reads a view of it; two calls reuse a plan. A window
of four ticks with stamps at 0, 2 and 4 has an end before, in the middle and at the end of the window, 8 ticks
make at least two windows, and a context of 12 lets text from before reach its limit.

Fairness. A method that was entered runs on, launched coroutines are dispatched, a
recording MediaRecorder delivers a frame: weak fairness. Nobody is obliged to call. The scans of
`onCreate` and of the watcher's timer are launched unconditionally in the code; in the model they
need a free member of `Syncs`, so that their fairness is strong. Process death and failures are never
fair. The kernel runs every thread of the pool, and a caller inside a call goes on; that
nobody spuriously wakes is not assumed, nor that anybody calls. The transcription is one thread: weak
fairness of its next step.

## 4. Disagreements found

Two have a run:

1. `recorder_io_start`: two `start()` calls on two threads pass line 88 together; the first MediaRecorder
   is dropped while it holds the microphone.
2. `library_namesake`: deleting a local recording deletes the document of that name in the
   picked folder, another recording's only copy.

Eight more were found with other instances of the same modules, for whoever wants to see them again:

3. With `Refusals = 2` and the topologies of `MCGraphAlloc`, `RefusalReported` of `GraphAlloc` fails: the scheduler's second
   attempt after a refused buffer uses the plan that was saved before the refusal, with no buffer, and
   "failed to allocate graph" (`ggml-backend.cpp:1635`) is not reached.
4. With `IoCallers = {io}` and `IoCalls = {"stop"}`, `StateMatchesRecorder` fails: the sampler's write
   (line 343) undoes a stop made on IO; the state claims a recording that nothing makes.
5. With `Serial = FALSE`, `OneRowPerFile` fails: a scan adopts a take that its finalizer inserts too.
6. With `Serial = FALSE`, `ActiveRowHasFile` fails: a recording restored during the purge loses its audio.
7. Re-arming the watcher drops the pending scan of a file that arrived after the listing
   (`StorageWatcher.start` begins with `stop`); a later start or resume finds it.
8. With `Takes = {k1, k2}` in `MCLibraryCrash.cfg`, `AudioSurvivesMoves` fails in seven states: the finalizers of two takes find the
   same name free (`generateTitle` goes by the rows, and neither has one yet), and the second `renameTo` replaces the
   first take. `recorder_io` has the same two finalizers: `SavedTakeKeepsFile` fails without `clashed`. With one take,
   `Foreign = {f1}` it fails too: a file manager adds a file of the name
   the finalizer chose, a scan lists it, the rename replaces it, and the row the scan inserts deletes the take when it is purged.
9. With two movers and two titles in `MCLibraryCrash.cfg`, `AudioSurvivesMoves` fails: two moves of one recording find the same
   name free, the second re-creates (`overwrite = true`) the copy the first has just made, and the first deletes the source; a death
   of the process, or a failure, during the second copy leaves half a file.
10. `AudioKept` in the place of `AudioSurvivesMoves` fails in `MCLibraryCrash.cfg`: a scan gives half a copy a row of its own, the move is completed,
   and that row, moved to the trash and purged, takes the whole copy along. `AudioSurvivesMoves` excepts it (`"partial"` in `erased`).

What the code does in `Enhancement` and a user would not expect:

11. A worker of a cancelled job spoils a later clean-up: clean, cancel once the samples are processed, clean again, and the first
   worker opens the file that the second job is about to rename over the deleted original. Without `torn`, `AudioSurvives`
   and `TypeOK` fail with two clean-ups. With documents, and a third clean-up, two workers may even fill the same document,
   when the first one was deleted and its name given again.
12. Cancelling just after a failed `renameTo` deletes the only version: `cancelEnhance` takes the cleaned file for
   an unfinished one (`undone`; without it `AudioSurvives` fails). The same button appears when the clean-up has ended: a late
   `onProgress(1f)` of a cancelled worker shows "Cleaning audio" with no job behind it, and its Cancel deletes a copy that is no older
   than the last job, also one that is all there is.
13. Cancelling while `saveEnhanced` has written the row leaves `enhancedPath` naming a deleted file.
14. A swap of documents that is left or killed after `delete` leaves the cleaned audio in the cache alone, with the row at
    the deleted document; `LibraryLeads` is therefore stated for the app's directory.
15. A scan between the writing of the copy and `saveEnhanced` gives the copy a row of its own; `replaceOriginal` writes back
    the row as it was before the clean-up, and `Done` names `rec.filePath` although a document has a new one.

Seen while reading, and part of `Decode` (`freed` reaches 2): when the cache cannot be recreated,
`whisper_full_with_state` frees the state (line 7302), and the `finally` of `WhisperEngine.kt:54` frees it again.

## 5. What is proved

For every value of the constants; assumed are the named ASSUMEs of the modules (the
main thread is not an IO thread, `None` is not a value, sizes are natural numbers, the initial tokens fit
in what a window leaves free).

Recorder and library:

- `TypeCorrect`: `TypeOK` of the recorder.
- `SavedTakesKept`: `SavedTakeKeepsFile`, whatever is called from wherever, with any number of finalizers at once, failing
  renames and crashes. It says that the titled file of a row holds that row's take unless two finalizers at once had found the name
  free, that is: nothing but that race loses a titled file, no stop or cancel of another thread, no rename that fails or
  leaves half a file, and no second finalizer of the same take. Argument: a name outside `clashed` has one finalizer at most, and while it
  has one no file and no row has the name (`NamesInv`); the controller's methods touch none of this (`CallsLeaveNames`).
- `MicIsReleased`: `MicHasOwner` and `NoLiveTakeIsSaved` when IO callers only pause and resume
  (`StartStopOnMain`). Argument: `MicInv` places the only live object at each step, and shows that no stale copy of
  the state, a sampler's or a pause's, can make the guard of `start()` miss it. The premise is needed:
  `recorder_io_start` is a counterexample without it.
- `MainCallersAreSafe`: `StateMatchesRecorder`, `OneSampler`, `SavedOnce`, `AudioHasKeeper` when every
  call is on the main thread (`MainOnly`). The invariant conjoins what holds at each step of a method
  (`SyncInv`), where the sampler is (`SamplerInv`) and who holds each file (`SaveInv`). `MainStateMatches`,
  `MainOneSampler` and `MainAudioHasKeeper` state the first two and the last by themselves. The premise is the weakest:
  TLC breaks each of the four with one IO coroutine that only pauses and resumes.
- `DeletedForGood`: `DeletedStaysDeleted` of the library under every interleaving. Each action changes the table in one
  of three ways (`TableChange`): not at all, one insertion at the next id, or updates of rows that are there.
- `LibraryTypes`: `TypeOK` of the library under every interleaving; a part for each variable (`Typed`).
- `SerialOneRowPerFile`, `SerialRowsHaveFiles`, `SerialAudioKept`: the invariants of `library_serial` for any number
  of takes, files, scans, edits, deletes and process deaths, when operations run one at a time and no folder is
  picked (`SerialLocal`). The premise is needed: items 5, 6 and 2 of section 4 are what happens without it. None
  of the three is inductive: between the file step and the table step of a delete, a purge or a move one row has
  no file. `SerialInv` says that at most one operation runs (`Alone`), that every row has its audio but those the
  running operation has in hand (`Holds`, `Gone`), that a `FLAMBO_` name is in use only after its take was
  stopped (`NamesDone`, `Unused`), and what each operation still finds as it left it (`FinOk`, `SyncOk`, `EditOk`,
  `PurgeOk`).
- `LoneAudioSurvives`: `AudioSurvivesMoves` when everything interleaves: any number of syncs, editors, erasers, titles, rows and
  process deaths, renames and copies that fail or are cut short, for a take that is alone (`OneTake`: one take, no outside file,
  no picked folder) and one coroutine that moves files (`OneMover`; any number of others edit rows). Each premise is
  needed: items 8, 2 and 9 of section 4 are what happens without it, and item 10 without the exception for half copies. `AloneInv` says
  that before the rename there is the temp file only (`EarlyFiles`), that every row, copy of a row and listing is of the take
  or of half a copy (`Fits`), so that whoever deletes files is on record (`Spoiled`), and that until then the mover still finds
  at its target what it left there: nothing, half of what it reads, or all of it (`CopyInHand`).
- `ControllerKeepsTakes`: with every call on the main thread the controller implements `TakeLife`
  (`LivesOfTakes`). Argument: under the invariants above each action moves one take along one arrow
  of the life (`LifeStep`); `HeldTake` finds the take a method works on.

Clean-up:

- `EnhancementTypes`, `RecordingSurvives`, `LibraryFindsIt`: `TypeOK`, `AudioSurvives` and `LibraryLeads` for
  any number of clean-ups, documents, process deaths and workers that cancelled jobs have left. The invariant `IInv` says at which
  steps a job and its worker can be together (`InStep`), which files open streams may complete (`Streams`), that a job and a
  deletion of the copy are never about the same row (`Apart`); and, until a left-over worker disturbs a later job (`torn`),
  that no two have the same document (`OwnDocuments`), where the
  original is untouched and what the copy holds after it was written (`Untouched`, `Written`), that
  whoever may delete the last version says so (`Told`), and that a copy without an original is in the row, adopted, or in the
  hands of a scan (`Found`). A left-over worker that opens the copy before the later worker has, or when it was kept beside
  the original, is thereby shown to do no harm.

Native parts:

- `BarrierTypes`, `BarrierOrders`: for any number of threads no thread leaves a barrier another
  has not reached, and the arrival counter stays in range. The inductive invariant `BarInv` counts: the
  arrivals are exactly the threads that wait in the current barrier, a thread that clears or releases is alone
  in doing so, and every thread's `seen` is the current count or, if it is about to be let out, one behind. It is
  `CrewInv(C)` of a crew `C` of the threads, here all of them; the pool uses it for the threads of one graph, while others
  may still be on their way out of an older barrier.
- `PoolInvariant`, and from it `PoolTypeCorrect`, `PoolItemsOnce`, `PoolSourcesReady`, `PoolWholeNodes`,
  `PoolResetQuiet`: `TypeOK`, `EachItemOnce`, `SourcesReady`, `WholeNodes` and `QuietReset` of the thread pool, for any number of
  threads, any graphs and number of chunks, any thread counts asked for, aborts and pauses. None of the last
  four is inductive: nothing in them says that a thread that is behind cannot be two barriers behind. `PoolInv` gives
  each thread of the crew a place (`Pos`, eight for each node), puts the barriers at some of the places (`Locs`), and says
  that all of the crew have passed the same barriers (`Together`). What is done then follows from the places (`MadeAt`): an item
  of a slice is done when its thread is past the slice, a chunk when it was handed out and nobody holds it (`HandedOut`),
  and a chunk that is held is below the counter and nobody else's (`Holding`). The rest is about the time between
  graphs: whom a new graph is news for (`News`), who is on its way out of the last barrier of an old one (`Stale`), what
  the caller has set up (`Roles`).
- `PoolInLockstep`: the pool implements `Lockstep` (`InLockstep`). The stages a thread has finished, which `Progress` reads
  from its program counter, are a count of the nodes it is past (`ProgressIsStages`), so that a step finishes a stage
  exactly when a place passes one (`StepStages`: a stutter, one stage, the kickoff or the return), and who finishes
  a stage has everybody at it or beyond (`OthersFinished`), by `Together`.
- `RegionsApart`, `RegionsInBuffer`: for any sizes, alignment and limits of the allocator no two regions in
  use overlap, nothing in use is listed as free, and all lie below `max_size`. Inductive invariant: free blocks
  are apart from each other and from live regions, each within what the chunk owns; `FreedBlocks` shows
  that merging keeps them apart, `TakeKeeps` the same of cutting.
- `DecodeTypes`, `PositionsAlwaysFit`, `CellsAlwaysFit`: for any model size, number of temperatures and
  decoders, a position and a cell are left for every token decoded. Inductive invariant `IInv`: the prompt is at most half the context plus
  the initial tokens, used cells are the prompt plus at most one per decoder and token, and the
  cache has enough contexts' worth of cells for the decoders it was made for (`CellsSuffice`).
- `NeverGoesBack`, `LiveDecoderIsOutput`: no mask of `whisper_process_logits` offers a timestamp the token loop
  would fail for going back, and the ranking finds a decoder that did not fail if there is one. Inductive
  invariant `LiveInv`: the last stamp of a decoder is twice a token's, so that the mask and the token loop
  compare the same numbers, and a decoder that reaches the ranking without failing has a result (`Sound`, `TokenSound`).
- `SegmentsAreInOrder`: `SegmentsInOrder` for any tokens. `OrderInv` says that the timestamps of a decoder are in order and
  the window it ends is past all of them (`Timed`), by the masks again, and that what was output so far ends before
  `seek`. `Segments` is a function of the position that ends a segment and not a fold, so that `SegmentsOrdered` needs no
  induction over the tokens but only that a set of positions has a last one (`LastPosition`).
- `GallocInvariant`, and from it `GraphTypes`, `RegionsStayOwned`, `SourcesStayIntact`, `OutputsStay`,
  `TensorsInside`: for every graph with any number of tensors, sources and views, any sizes, any number of calls
  and of refused buffers, no value is overwritten while it is to be read. `RegionsOwned` and
  `SourcesIntact` say nothing of uses still to come and are not inductive; the invariant `GInv` adds that `n_children` and `n_views` are the numbers of uses and
  views still to come (`Counted`), that a tensor without memory has none left but those the node at hand
  took over (`Kept`), and that whatever lies over a tensor was placed after its last reader, or by that reader in
  place (`Laid`). The same layout is kept in `saved` (`Saved`), where it holds for the sizes planned for,
  hence for the smaller ones `NeedsRealloc` lets pass (`Used`).
- `GraphUsesTalloc`: the graph allocator implements `DynSpec`, so `RegionsApart` and
  `RegionsInBuffer` hold in it: what it asks for is aligned, and what it frees it was given.

Only model-checked: liveness (`StopSavesTake`, `TakeIndexed`, `CallsReturn`, `Terminates`), which the prover
does not reach, and `AudioKept` with a picked folder (`library_live`). Every other invariant and action property of a
passing run is stated by a theorem, under the premises above.

## 6. What the plan has left

1. Done: Recorder, TakeLife and the refinement; Library; Barrier, Threadpool, DynAlloc, GraphAlloc, Decode.
2. Playback: connection, stashed request, `stop`, `release` and the recorder's hook; silence while recording.
3. Service: RecordingService composed with the recorder's state: late notifications, intents after the stop.
4. Done: Enhancement. Left: the transcription job, edits during a clean-up, the undo of HomeViewModel.
5. Models and updates: VoskModels, VoskEngine, ApkInstaller; elapsed time and its wall clock.
6. Library with two takes, erasers and deaths: a purge cut short between its two steps leaves a row whose name a new take gets.
7. Proofs: `AudioSurvivesMoves` for several takes, when the choice of a name and the rename of one take overlap with nothing that
   takes the name; `AudioKept` with a picked folder (`library_live` checks it without deletes).

## 7. Not modelled

System capture (unreachable); DSP and PCM decoding (floating point); preferences, screens,
theme and onboarding (wiring and layout); what section 6 names. Of whisper.cpp: the backends and
kernels, quantization, model loading, the spectrogram, beam search and grammar. They are 95 % of the
native lines, mostly straight-line numeric code for hardware the app does not build for, and have no
control that a state machine would say anything about; for that reason the share of the native lines that
the specifications cover stays small.
