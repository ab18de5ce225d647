---------------------------- MODULE RecorderProofs ----------------------------
(***************************************************************************)
(* Theorems about Recorder, for any number of takes, samplers and          *)
(* background callers.                                                     *)
(***************************************************************************)
EXTENDS Recorder, TLAPS

\* Job.cancel() on the sampler keeps the types (RecordingController 249, 304, 321).
LEMMA CancelSamplerTypes ==
    ASSUME TypeOK, CancelSampler
    PROVE  job' \in [Jobs -> SamplerStates] /\ cancelled' \subseteq Jobs
BY DEF TypeOK, CancelSampler, SamplerRunning, SamplerStates

\* Releasing the MediaRecorder keeps the types (RecordingController 272-274).
LEMMA ReleaseRecorderTypes ==
    ASSUME TypeOK, ReleaseRecorder
    PROVE  mr' \in [Takes -> MediaRecorderStates] /\ recorder' \in Takes \cup {None}
BY DEF TypeOK, ReleaseRecorder, MediaRecorderStates

\* Going on to a step, or returning, keeps pc a function into Steps.
LEMMA PcTypes ==
    ASSUME TypeOK, NEW t \in Threads, NEW s \in Steps
    PROVE  /\ GoTo(t, s) => pc' \in [Threads -> Steps]
           /\ Return(t) => pc' \in [Threads -> Steps]
BY DEF TypeOK, GoTo, Return, Returned, Steps

\* RecorderState() is one of the states (RecordingController 36-45).
LEMMA IdleStateType == IdleState \in RecorderStates
BY DEF IdleState, RecorderStates

\* Every variable keeps its type, whatever the callers' threads do.
THEOREM TypeCorrect == Spec => []TypeOK
<1>1. Init => TypeOK
  BY IdleStateType DEF Init, TypeOK, MediaRecorderStates, FileStates, SamplerStates, Steps
<1>2. TypeOK /\ [Next]_vars => TypeOK'
  <2> SUFFICES ASSUME TypeOK, [Next]_vars PROVE TypeOK'
    OBVIOUS
  <2>1. ASSUME NEW t \in Threads, Start(t) PROVE TypeOK'
    <3> USE <2>1, IdleStateType, ReleaseRecorderTypes, PcTypes
        DEF TypeOK, ctlVars, hwVars, jobVars, thrVars, saveVars, At
    <3>1. CASE StartCheck(t)
      BY <3>1 DEF StartCheck, Steps
    <3>2. CASE StartRecorder(t)
      BY <3>2 DEF StartRecorder, Steps, MediaRecorderStates, FileStates
    <3>3. CASE StartRecorderFails(t)
      <4>1. PICK f \in {"none", "stray"} : file' = [file EXCEPT ![own[t]] = f]
        BY <3>3 DEF StartRecorderFails
      <4>2. file' \in [Takes -> FileStates]
        BY <4>1 DEF FileStates
      <4> QED
        BY <3>3, <4>2 DEF StartRecorderFails, Steps, MediaRecorderStates
    <3>4. CASE StartAssign(t)
      BY <3>4 DEF StartAssign, Steps
    <3>5. CASE StartPublish(t)
      BY <3>5 DEF StartPublish, Steps, RecorderStates
    <3>6. CASE StartService(t)
      BY <3>6 DEF StartService, Steps
    <3>7. CASE StartUndo(t)
      BY <3>7 DEF StartUndo, Steps
    <3>8. CASE StartClear(t)
      BY <3>8 DEF StartClear, Steps, FileStates
    <3> QED
      BY <3>1, <3>2, <3>3, <3>4, <3>5, <3>6, <3>7, <3>8 DEF Start
  <2>2. ASSUME NEW t \in Threads, StartSampling(t) PROVE TypeOK'
    <3> USE <2>2, CancelSamplerTypes, PcTypes
        DEF TypeOK, ctlVars, hwVars, jobVars, thrVars, saveVars, At
    <3>1. CASE SampleCancel(t)
      BY <3>1 DEF SampleCancel, Steps
    <3>2. CASE SampleLaunch(t)
      BY <3>2 DEF SampleLaunch, Steps, SamplerStates
    <3> QED
      BY <3>1, <3>2 DEF StartSampling
  <2>3. ASSUME NEW t \in Threads, Pause(t) PROVE TypeOK'
    <3> USE <2>3, CancelSamplerTypes, PcTypes
        DEF TypeOK, ctlVars, hwVars, jobVars, thrVars, saveVars, At
    <3>1. CASE PauseCheck(t)
      BY <3>1 DEF PauseCheck, Steps
    <3>2. CASE PauseRecorder(t)
      BY <3>2 DEF PauseRecorder, Steps, MediaRecorderStates
    <3>3. CASE PauseRecorderFails(t)
      BY <3>3 DEF PauseRecorderFails, Steps
    <3>4. CASE PausePublish(t)
      BY <3>4 DEF PausePublish, Steps, RecorderStates
    <3>5. CASE PauseCancel(t)
      BY <3>5 DEF PauseCancel, Steps
    <3> QED
      BY <3>1, <3>2, <3>3, <3>4, <3>5 DEF Pause
  <2>4. ASSUME NEW t \in Threads, Resume(t) PROVE TypeOK'
    <3> USE <2>4, PcTypes
        DEF TypeOK, ctlVars, hwVars, jobVars, thrVars, saveVars, At
    <3>1. CASE ResumeCheck(t)
      BY <3>1 DEF ResumeCheck, Steps
    <3>2. CASE ResumeRecorder(t)
      BY <3>2 DEF ResumeRecorder, Steps, MediaRecorderStates
    <3>3. CASE ResumeRecorderFails(t)
      BY <3>3 DEF ResumeRecorderFails, Steps
    <3>4. CASE ResumePublish(t)
      BY <3>4 DEF ResumePublish, Steps, RecorderStates
    <3> QED
      BY <3>1, <3>2, <3>3, <3>4 DEF Resume
  <2>5. ASSUME NEW t \in Threads, Stop(t) PROVE TypeOK'
    <3> USE <2>5, IdleStateType, CancelSamplerTypes, ReleaseRecorderTypes, PcTypes
        DEF TypeOK, ctlVars, hwVars, jobVars, thrVars, saveVars, At
    <3>1. CASE StopCheck(t)
      BY <3>1 DEF StopCheck, Steps
    <3>2. CASE StopRelease(t)
      BY <3>2 DEF StopRelease, Steps
    <3>3. CASE StopPublish(t)
      BY <3>3 DEF StopPublish, Steps
    <3>4. CASE StopSave(t)
      <4>1. snap[t].file \in Takes
        BY <3>4 DEF StopSave, RecorderStates
      <4>2. finalizing' \in [Takes -> Nat]
        BY <3>4, <4>1 DEF StopSave
      <4> QED
        BY <3>4, <4>2 DEF StopSave, Steps
    <3>5. CASE StopDelete(t)
      BY <3>5 DEF StopDelete, Steps, FileStates
    <3> QED
      BY <3>1, <3>2, <3>3, <3>4, <3>5 DEF Stop
  <2>6. CASE Cancel
    <3> Main \in Threads
      BY DEF Threads
    <3> USE <2>6, IdleStateType, CancelSamplerTypes, ReleaseRecorderTypes, PcTypes
        DEF TypeOK, ctlVars, hwVars, jobVars, thrVars, saveVars, At
    <3>1. CASE CancelCheck
      BY <3>1 DEF CancelCheck, Steps
    <3>2. CASE CancelRelease
      BY <3>2 DEF CancelRelease, Steps
    <3>3. CASE CancelDelete
      BY <3>3 DEF CancelDelete, Steps, FileStates
    <3>4. CASE CancelPublish
      BY <3>4 DEF CancelPublish, Steps
    <3> QED
      BY <3>1, <3>2, <3>3, <3>4 DEF Cancel
  <2>7. ASSUME NEW j \in Jobs, Sampler(j) PROVE TypeOK'
    <3> USE <2>7 DEF TypeOK, ctlVars, hwVars, thrVars, saveVars, SamplerStates
    <3>1. CASE SamplerWake(j)
      BY <3>1 DEF SamplerWake
    <3>2. CASE SamplerRead(j)
      BY <3>2 DEF SamplerRead
    <3>3. CASE SamplerWrite(j)
      BY <3>3 DEF SamplerWrite
    <3> QED
      BY <3>1, <3>2, <3>3 DEF Sampler
  <2>8. ASSUME NEW k \in Takes, FinalizeChoose(k) PROVE TypeOK'
    <3>1. PICK n \in Names :
             /\ chosen' = [chosen EXCEPT ![k][n] = @ + 1]
             /\ finalizing' = [finalizing EXCEPT ![k] = @ - 1]
             /\ clashed' = IF Choices(n) # {} THEN clashed \cup {n} ELSE clashed
             /\ UNCHANGED <<ctlVars, hwVars, jobVars, thrVars, held, renamed, rows>>
      BY <2>8 DEF FinalizeChoose
    <3>2. chosen' \in [Takes -> [Names -> Nat]] /\ clashed' \subseteq Names
      BY <3>1 DEF TypeOK
    <3>3. finalizing' \in [Takes -> Nat]
      BY <2>8, <3>1 DEF TypeOK, FinalizeChoose
    <3> QED
      BY <3>1, <3>2, <3>3 DEF TypeOK, ctlVars, hwVars, jobVars, thrVars
  <2>13. ASSUME NEW k \in Takes, NEW n \in Names, FinalizeRename(k, n) PROVE TypeOK'
    BY <2>13 DEF FinalizeRename, Rows, FileStates, TypeOK, ctlVars, jobVars, thrVars
  <2>14. ASSUME NEW k \in Takes, NEW n \in Names, FinalizeRenameFails(k, n) PROVE TypeOK'
    BY <2>14 DEF FinalizeRenameFails, Rows, FileStates, TypeOK, ctlVars, jobVars, thrVars
  <2>9. ASSUME NEW k \in Takes, Capture(k) PROVE TypeOK'
    BY <2>9 DEF Capture, FileStates, TypeOK, ctlVars, jobVars, thrVars, saveVars
  <2>10. ASSUME NEW r \in renamed, FinalizeInsert(r) PROVE TypeOK'
    BY <2>10 DEF FinalizeInsert, TypeOK, ctlVars, hwVars, jobVars, thrVars
  <2>11. CASE Crash
    BY <2>11, IdleStateType DEF Crash, TypeOK, Returned, Steps, SamplerStates,
       MediaRecorderStates, FileStates, TempOnDisk
  <2>12. CASE UNCHANGED vars
    BY <2>12 DEF vars, TypeOK, ctlVars, hwVars, jobVars, thrVars, saveVars
  <2> QED
    BY <2>1, <2>2, <2>3, <2>4, <2>5, <2>6, <2>7, <2>8, <2>9, <2>10, <2>11, <2>12,
     <2>13, <2>14 DEF Next, Call, FinalizeMove
<1> QED
  BY <1>1, <1>2, PTL DEF Spec
-----------------------------------------------------------------------------
(* A take in the library keeps its file, whatever the callers' threads.    *)

\* A thread building a take is alone with an object nobody has used: its
\* first write to the file cannot hit a take already saved.
FreshInv ==
    /\ \A t \in Threads :
          /\ pc[t] \in {"start.recorder", "start.assign"} => own[t] \in Takes
          /\ pc[t] = "start.recorder" => mr[own[t]] = "new"
          /\ pc[t] = "start.assign" => mr[own[t]] # "new"
    /\ \A t, u \in Threads : own[t] = own[u] /\ own[t] # None => t = u
    /\ recorder # None => mr[recorder] # "new"
    /\ \A k \in Takes : mr[k] = "new" => file[k] = "none"

\* Every step keeps FreshInv: an untouched take has no file and no user.
LEMMA FreshStep ==
    ASSUME TypeOK, FreshInv, [Next]_vars
    PROVE  FreshInv'
<1> Main \in Threads
  BY DEF Threads
<1> USE DEF TypeOK, FreshInv, ctlVars, hwVars, jobVars, thrVars, saveVars,
            At, GoTo, Return, Returned
<1>1. ASSUME NEW t \in Threads, Start(t) PROVE FreshInv'
  <2>1. CASE StartCheck(t)
    BY <2>1 DEF StartCheck
  <2> own[t] \in Takes =>
        /\ own[t] # None
        /\ \A u \in Threads : u # t => own[u] # own[t]
    BY NoneAssumption
  <2>2. CASE StartRecorder(t)
    BY <2>2 DEF StartRecorder
  <2>3. CASE StartRecorderFails(t)
    BY <2>3 DEF StartRecorderFails
  <2>4. CASE StartAssign(t)
    BY <2>4 DEF StartAssign
  <2>5. CASE StartPublish(t)
    BY <2>5 DEF StartPublish
  <2>6. CASE StartService(t)
    BY <2>6 DEF StartService
  <2>7. CASE StartUndo(t)
    BY <2>7 DEF StartUndo, ReleaseRecorder
  <2>8. CASE StartClear(t)
    BY <2>8 DEF StartClear, TempOnDisk
  <2> QED
    BY <1>1, <2>1, <2>2, <2>3, <2>4, <2>5, <2>6, <2>7, <2>8 DEF Start
<1>2. ASSUME NEW t \in Threads, StartSampling(t) PROVE FreshInv'
  <2>1. CASE SampleCancel(t)
    BY <2>1 DEF SampleCancel
  <2>2. CASE SampleLaunch(t)
    BY <2>2 DEF SampleLaunch
  <2> QED
    BY <1>2, <2>1, <2>2 DEF StartSampling
<1>3. ASSUME NEW t \in Threads, Pause(t) PROVE FreshInv'
  <2>1. CASE PauseCheck(t)
    BY <2>1 DEF PauseCheck
  <2>2. CASE PauseRecorder(t)
    BY <2>2 DEF PauseRecorder, Live
  <2>3. CASE PauseRecorderFails(t)
    BY <2>3 DEF PauseRecorderFails
  <2>4. CASE PausePublish(t)
    BY <2>4 DEF PausePublish
  <2>5. CASE PauseCancel(t)
    BY <2>5 DEF PauseCancel
  <2> QED
    BY <1>3, <2>1, <2>2, <2>3, <2>4, <2>5 DEF Pause
<1>4. ASSUME NEW t \in Threads, Resume(t) PROVE FreshInv'
  <2>1. CASE ResumeCheck(t)
    BY <2>1 DEF ResumeCheck
  <2>2. CASE ResumeRecorder(t)
    BY <2>2 DEF ResumeRecorder, Live
  <2>3. CASE ResumeRecorderFails(t)
    BY <2>3 DEF ResumeRecorderFails
  <2>4. CASE ResumePublish(t)
    BY <2>4 DEF ResumePublish
  <2> QED
    BY <1>4, <2>1, <2>2, <2>3, <2>4 DEF Resume
<1>5. ASSUME NEW t \in Threads, Stop(t) PROVE FreshInv'
  <2>1. CASE StopCheck(t)
    BY <2>1 DEF StopCheck
  <2>2. CASE StopRelease(t)
    BY <2>2 DEF StopRelease, ReleaseRecorder
  <2>3. CASE StopPublish(t)
    BY <2>3 DEF StopPublish
  <2>4. CASE StopSave(t)
    BY <2>4 DEF StopSave
  <2>5. CASE StopDelete(t)
    BY <2>5 DEF StopDelete, TempOnDisk
  <2> QED
    BY <1>5, <2>1, <2>2, <2>3, <2>4, <2>5 DEF Stop
<1>6. CASE Cancel
  <2>1. CASE CancelCheck
    BY <2>1 DEF CancelCheck
  <2>2. CASE CancelRelease
    BY <2>2 DEF CancelRelease, ReleaseRecorder
  <2>3. CASE CancelDelete
    BY <2>3 DEF CancelDelete, TempOnDisk
  <2>4. CASE CancelPublish
    BY <2>4 DEF CancelPublish
  <2> QED
    BY <1>6, <2>1, <2>2, <2>3, <2>4 DEF Cancel
<1>7. ASSUME NEW j \in Jobs, Sampler(j) PROVE FreshInv'
  <2>1. CASE SamplerWake(j)
    BY <2>1 DEF SamplerWake
  <2>2. CASE SamplerRead(j)
    BY <2>2 DEF SamplerRead
  <2>3. CASE SamplerWrite(j)
    BY <2>3 DEF SamplerWrite
  <2> QED
    BY <1>7, <2>1, <2>2, <2>3 DEF Sampler
<1>8. ASSUME NEW k \in Takes, FinalizeChoose(k) PROVE FreshInv'
  BY <1>8 DEF FinalizeChoose, TempOnDisk
<1>13. ASSUME NEW k \in Takes, NEW n \in Names, FinalizeRename(k, n) PROVE FreshInv'
  BY <1>13 DEF FinalizeRename, TempOnDisk
<1>14. ASSUME NEW k \in Takes, NEW n \in Names, FinalizeRenameFails(k, n) PROVE FreshInv'
  BY <1>14 DEF FinalizeRenameFails, TempOnDisk
<1>9. ASSUME NEW k \in Takes, Capture(k) PROVE FreshInv'
  BY <1>9 DEF Capture
<1>10. ASSUME NEW r \in renamed, FinalizeInsert(r) PROVE FreshInv'
  BY <1>10 DEF FinalizeInsert
<1>11. CASE Crash
  BY <1>11 DEF Crash, TempOnDisk
<1>12. CASE UNCHANGED vars
  BY <1>12 DEF vars
<1> QED
  BY <1>1, <1>2, <1>3, <1>4, <1>5, <1>6, <1>7, <1>8, <1>9, <1>10, <1>11, <1>12,
     <1>13, <1>14 DEF Next, Call, FinalizeMove

\* A name no two finalizers had found free at once has one finalizer at most,
\* and while it has one no file has the name and no row points to it.
NamesInv ==
    \A n \in Names \ clashed :
        /\ \A k \in Takes : chosen[k][n] =< 1
        /\ \A j, k \in Takes : chosen[j][n] > 0 /\ chosen[k][n] > 0 => j = k
        /\ \A k \in Takes : chosen[k][n] > 0 =>
              held[n] = None /\ \A j \in Takes : <<j, n>> \notin renamed \cup rows

SavedInv == NamesInv /\ SavedTakeKeepsFile

\* No method of the controller, no sampler and no frame touches what the
\* finalizers know, but for the stop() that launches one.
LEMMA CallsLeaveNames ==
    ASSUME \/ \E t \in Threads : Call(t)
           \/ Cancel
           \/ \E j \in Jobs : Sampler(j)
           \/ \E k \in Takes : Capture(k)
    PROVE  UNCHANGED saveVars \/ \E t \in Threads : StopSave(t)
<1> USE DEF thrVars
<1>1. ASSUME NEW t \in Threads, Start(t) PROVE UNCHANGED saveVars
  BY <1>1 DEF Start, StartCheck, StartRecorder, StartRecorderFails, StartAssign,
     StartPublish, StartService, StartUndo, StartClear
<1>2. ASSUME NEW t \in Threads, StartSampling(t) PROVE UNCHANGED saveVars
  BY <1>2 DEF StartSampling, SampleCancel, SampleLaunch
<1>3. ASSUME NEW t \in Threads, Pause(t) PROVE UNCHANGED saveVars
  BY <1>3 DEF Pause, PauseCheck, PauseRecorder, PauseRecorderFails, PausePublish, PauseCancel
<1>4. ASSUME NEW t \in Threads, Resume(t) PROVE UNCHANGED saveVars
  BY <1>4 DEF Resume, ResumeCheck, ResumeRecorder, ResumeRecorderFails, ResumePublish
<1>5. ASSUME NEW t \in Threads, Stop(t) PROVE UNCHANGED saveVars \/ StopSave(t)
  BY <1>5 DEF Stop, StopCheck, StopRelease, StopPublish, StopDelete
<1>6. Cancel => UNCHANGED saveVars
  BY DEF Cancel, CancelCheck, CancelRelease, CancelDelete, CancelPublish
<1>7. ASSUME NEW j \in Jobs, Sampler(j) PROVE UNCHANGED saveVars
  BY <1>7 DEF Sampler, SamplerWake, SamplerRead, SamplerWrite
<1>8. ASSUME NEW k \in Takes, Capture(k) PROVE UNCHANGED saveVars
  BY <1>8 DEF Capture
<1> QED
  BY <1>1, <1>2, <1>3, <1>4, <1>5, <1>6, <1>7, <1>8 DEF Call

\* Every step keeps SavedInv: a finalizer's rename can only hit a file whose
\* name another had found free at the same time.
LEMMA SavedStep ==
    ASSUME TypeOK, SavedInv, [Next]_vars
    PROVE  SavedInv'
<1> USE DEF TypeOK, SavedInv, NamesInv, SavedTakeKeepsFile
<1>1. ASSUME UNCHANGED saveVars \/ \E t \in Threads : StopSave(t) PROVE SavedInv'
  BY <1>1 DEF saveVars, StopSave
<1>2. ASSUME NEW k \in Takes, FinalizeChoose(k) PROVE SavedInv'
  <2>1. PICK n \in Names :
           /\ held[n] = None
           /\ chosen' = [chosen EXCEPT ![k][n] = @ + 1]
           /\ clashed' = IF Choices(n) # {} THEN clashed \cup {n} ELSE clashed
           /\ UNCHANGED <<held, renamed, rows>>
    BY <1>2 DEF FinalizeChoose
  <2>2. \A j \in Takes, m \in Names :
           chosen'[j][m] = IF j = k /\ m = n THEN chosen[j][m] + 1 ELSE chosen[j][m]
    BY <2>1
  <2>3. n \notin clashed' => \A j \in Takes : chosen[j][n] = 0
    BY <2>1 DEF Choices
  <2>4. n \notin clashed' => \A j \in Takes : <<j, n>> \notin renamed \cup rows
    BY <2>1, NoneAssumption
  <2>5. clashed \subseteq clashed'
    BY <2>1
  <2>6. NamesInv'
    BY <2>1, <2>2, <2>3, <2>4, <2>5
  <2> QED
    BY <2>1, <2>5, <2>6
<1>3. ASSUME NEW k \in Takes, NEW n \in Names, FinalizeRename(k, n) PROVE SavedInv'
  <2>1. \A j \in Takes, m \in Names :
           chosen'[j][m] = IF j = k /\ m = n THEN chosen[j][m] - 1 ELSE chosen[j][m]
    BY <1>3 DEF FinalizeRename
  <2>2. \A m \in Names : held'[m] = IF m = n THEN k ELSE held[m]
    BY <1>3 DEF FinalizeRename
  <2>3. renamed' = renamed \cup {<<k, n>>} /\ rows' = rows /\ clashed' = clashed /\ chosen[k][n] > 0
    BY <1>3 DEF FinalizeRename
  <2>4. n \notin clashed => \A j \in Takes : chosen'[j][n] = 0
    BY <2>1, <2>3
  <2>5. NamesInv'
    BY <2>1, <2>2, <2>3, <2>4
  <2>6. SavedTakeKeepsFile'
    BY <2>2, <2>3
  <2> QED
    BY <2>5, <2>6
<1>4. ASSUME NEW k \in Takes, NEW n \in Names, FinalizeRenameFails(k, n) PROVE SavedInv'
  <2>1. \A j \in Takes, m \in Names :
           chosen'[j][m] = IF j = k /\ m = n THEN chosen[j][m] - 1 ELSE chosen[j][m]
    BY <1>4 DEF FinalizeRenameFails
  <2>2. \A m \in Names : m # n => held'[m] = held[m]
    BY <1>4 DEF FinalizeRenameFails
  <2>3. renamed' = renamed \cup {<<k, "temp">>} /\ rows' = rows /\ clashed' = clashed /\ chosen[k][n] > 0
    BY <1>4 DEF FinalizeRenameFails
  <2>4. n \notin clashed => \A j \in Takes : chosen'[j][n] = 0
    BY <2>1, <2>3
  <2>5. \A j \in Takes, m \in Names : <<j, m>> \in renamed' \cup rows' => <<j, m>> \in renamed \cup rows
    BY <2>3, NamesAssumption
  <2>6. NamesInv'
    BY <2>1, <2>2, <2>3, <2>4, <2>5
  <2>7. SavedTakeKeepsFile'
    BY <2>2, <2>3, <2>5
  <2> QED
    BY <2>6, <2>7
<1>5. ASSUME NEW r \in renamed, FinalizeInsert(r) PROVE SavedInv'
  BY <1>5 DEF FinalizeInsert
<1>6. CASE Crash
  BY <1>6 DEF Crash
<1>7. CASE UNCHANGED vars
  BY <1>1, <1>7 DEF vars
<1> QED
  BY <1>1, <1>2, <1>3, <1>4, <1>5, <1>6, <1>7, CallsLeaveNames DEF Next, FinalizeMove

\* No interleaving of start, pause, resume, stop, cancel and any number of
\* finalizers, no failed rename and no death, makes the titled file of a row
\* hold anything but its take, unless two finalizers at once had found the name
\* free.
THEOREM SavedTakesKept == Spec => []SavedTakeKeepsFile
<1>1. Init => SavedInv
  BY NoneAssumption DEF Init, SavedInv, NamesInv, SavedTakeKeepsFile
<1>2. TypeOK /\ SavedInv /\ [Next]_vars => SavedInv'
  BY SavedStep
<1>3. SavedInv => SavedTakeKeepsFile
  BY DEF SavedInv
<1> QED
  BY <1>1, <1>2, <1>3, TypeCorrect, PTL DEF Spec

-----------------------------------------------------------------------------
(* How the finalizers move a take on.                                      *)

\* The row of the take, made or coming, points to its temp path.
TempRow(k) == <<k, "temp">> \in renamed \cup rows

\* A take with a row of its temp path is registered.
LEMMA TempRegistered == \A k \in Takes : TempRow(k) => Registered(k)
BY DEF TempRow, Registered

\* A step that leaves saveVars alone leaves every take where it was.
LEMMA SameSaving ==
    ASSUME UNCHANGED saveVars
    PROVE  \A k \in Takes : /\ (Finalizing(k)' <=> Finalizing(k))
                            /\ (Registered(k)' <=> Registered(k))
                            /\ (TempRow(k)' <=> TempRow(k))
BY DEF saveVars, Finalizing, Registered, TempRow

\* stop() hands one take to a finalizer.
LEMMA SaveLaunched ==
    ASSUME TypeOK, NEW t \in Threads, StopSave(t)
    PROVE  /\ Finalizing(snap[t].file)'
           /\ \A k \in Takes : k # snap[t].file => (Finalizing(k)' <=> Finalizing(k))
           /\ \A k \in Takes : (Registered(k)' <=> Registered(k)) /\ (TempRow(k)' <=> TempRow(k))
BY NoneAssumption DEF TypeOK, RecorderStates, StopSave, Finalizing, Registered, TempRow

\* A finalizer that chooses a name goes on.
LEMMA NameChosen ==
    ASSUME TypeOK, NEW k \in Takes, FinalizeChoose(k)
    PROVE  /\ Finalizing(k) /\ Finalizing(k)'
           /\ \A j \in Takes : j # k => (Finalizing(j)' <=> Finalizing(j))
           /\ \A j \in Takes : (Registered(j)' <=> Registered(j)) /\ (TempRow(j)' <=> TempRow(j))
<1>1. PICK n \in Names : chosen' = [chosen EXCEPT ![k][n] = @ + 1]
  BY DEF FinalizeChoose
<1>2. \A j \in Takes, m \in Names :
         chosen'[j][m] = IF j = k /\ m = n THEN chosen[j][m] + 1 ELSE chosen[j][m]
  BY <1>1 DEF TypeOK
<1>3. finalizing[k] > 0 /\ \A j \in Takes : j # k => finalizing'[j] = finalizing[j]
  BY DEF TypeOK, FinalizeChoose
<1>4. UNCHANGED <<renamed, rows>>
  BY DEF FinalizeChoose
<1>5. chosen'[k][n] > 0
  BY <1>2 DEF TypeOK
<1> QED
  BY <1>2, <1>3, <1>4, <1>5 DEF Finalizing, Registered, TempRow

Moves(k, n) == FinalizeRename(k, n) \/ FinalizeRenameFails(k, n)

\* A finalizer that renamed, or failed to, is about to insert a row.
LEMMA TakeMoved ==
    ASSUME TypeOK, NEW k \in Takes, NEW n \in Names, Moves(k, n)
    PROVE  /\ Finalizing(k) /\ Registered(k)'
           /\ \A j \in Takes : j # k => (Finalizing(j)' <=> Finalizing(j))
           /\ \A j \in Takes : j # k => (Registered(j)' <=> Registered(j)) /\ (TempRow(j)' <=> TempRow(j))
           /\ FinalizeRename(k, n) => (TempRow(k)' <=> TempRow(k))
           /\ UNCHANGED <<rows, finalizing>>
           /\ \A j \in Takes, m \in Names :
                 chosen'[j][m] = IF j = k /\ m = n THEN chosen[j][m] - 1 ELSE chosen[j][m]
<1> USE DEF Moves, FinalizeRename, FinalizeRenameFails
<1>1. \A j \in Takes, m \in Names :
         chosen'[j][m] = IF j = k /\ m = n THEN chosen[j][m] - 1 ELSE chosen[j][m]
  BY DEF TypeOK
<1>2. UNCHANGED <<rows, finalizing>> /\ chosen[k][n] > 0
  OBVIOUS
<1>3. PICK p \in Names \cup {"temp"} : renamed' = renamed \cup {<<k, p>>}
  OBVIOUS
<1> QED
  BY <1>1, <1>2, <1>3, NamesAssumption DEF Finalizing, Registered, TempRow

\* The insert leaves every take where it was.
LEMMA RowInserted ==
    ASSUME NEW r \in renamed, FinalizeInsert(r)
    PROVE  \A k \in Takes : /\ (Finalizing(k)' <=> Finalizing(k))
                            /\ (Registered(k)' <=> Registered(k))
                            /\ (TempRow(k)' <=> TempRow(k))
BY DEF FinalizeInsert, Finalizing, Registered, TempRow

\* A death ends the finalizers.
LEMMA FinalizersDie ==
    ASSUME Crash
    PROVE  \A k \in Takes : /\ ~Finalizing(k)'
                            /\ Registered(k)' => Registered(k)
                            /\ TempRow(k)' => TempRow(k)
<1> SUFFICES ASSUME NEW k \in Takes
             PROVE  /\ ~Finalizing(k)'
                    /\ Registered(k)' => Registered(k)
                    /\ TempRow(k)' => TempRow(k)
  OBVIOUS
<1>1. finalizing'[k] = 0 /\ \A n \in Names : chosen'[k][n] = 0
  BY DEF Crash
<1>2. renamed' = {} /\ rows' = rows
  BY DEF Crash
<1> QED
  BY <1>1, <1>2 DEF Finalizing, Registered, TempRow

-----------------------------------------------------------------------------
(* The microphone, when start() and stop() are called on the main thread.  *)

StartStopOnMain ==
    IoCallers # {} => "start" \notin IoCalls /\ "stop" \notin IoCalls

\* where a background caller of pause() or resume() can be
IoSteps == {"idle", "done", "pause.recorder", "pause.publish", "pause.cancel",
            "resume.recorder", "resume.publish", "sample.cancel", "sample.launch"}

\* Where a live MediaRecorder is, and why the guards of the controller see it.
MicInv ==
    /\ \A t \in IoCallers : pc[t] \in IoSteps /\ own[t] = None
    /\ own[Main] # None <=>
          pc[Main] \in {"start.recorder", "start.assign", "start.publish",
                       "start.service", "start.clear"}
    \* the sampler and the main thread's methods exclude each other
    /\ \A j \in Jobs : SamplerRunning(j) => pc[Main] = "idle"
    \* one live object at most, and where it is reachable from
    /\ \A k \in Takes : Live(k) =>
          IF pc[Main] = "start.assign" THEN k = own[Main] ELSE k = recorder
    /\ pc[Main] \in {"start.recorder", "start.assign", "start.clear", "stop.publish",
                     "stop.save", "cancel.delete", "cancel.publish"} => recorder = None
    \* the guard of start() sees every object held
    /\ recorder # None /\ pc[Main] # "start.publish" => st.isRecording
    \* and no write of a stale copy can blind it
    /\ \A t \in Threads : pc[t] \in {"pause.recorder", "pause.publish",
                                     "resume.recorder", "resume.publish"} => snap[t].isRecording
    /\ \A j \in Jobs : job[j] = "write" /\ recorder # None => seen.isRecording

MicIInv == FreshInv /\ MicInv /\ NoLiveTakeIsSaved

\* With starts and stops on the main thread only, every step keeps MicInv:
\* each live MediaRecorder is in the field or in the hands of the method that
\* made it.
LEMMA MicStep ==
    ASSUME StartStopOnMain, TypeOK, MicIInv, [Next]_vars
    PROVE  MicInv'
<1> Main \in Threads
  BY DEF Threads
<1> USE NoneAssumption, ThreadsAssumption
    DEF StartStopOnMain, MicIInv, TypeOK, MicInv, FreshInv, IoSteps, Threads, Live, SamplerRunning, ctlVars,
            hwVars, jobVars, thrVars, saveVars, At, GoTo, Return, Returned
<1>1. ASSUME NEW t \in Threads, Start(t) PROVE MicInv'
  <2>1. CASE StartCheck(t)
    BY <2>1 DEF StartCheck, Enters, MainFree
  <2>2. CASE StartRecorder(t)
    BY <2>2 DEF StartRecorder
  <2>3. CASE StartRecorderFails(t)
    BY <2>3 DEF StartRecorderFails
  <2>4. CASE StartAssign(t)
    BY <2>4 DEF StartAssign
  <2>5. CASE StartPublish(t)
    BY <2>5 DEF StartPublish
  <2>6. CASE StartService(t)
    BY <2>6 DEF StartService
  <2>7. CASE StartUndo(t)
    BY <2>7 DEF StartUndo, ReleaseRecorder
  <2>8. CASE StartClear(t)
    BY <2>8 DEF StartClear
  <2> QED
    BY <1>1, <2>1, <2>2, <2>3, <2>4, <2>5, <2>6, <2>7, <2>8 DEF Start
<1>2. ASSUME NEW t \in Threads, StartSampling(t) PROVE MicInv'
  <2>1. CASE SampleCancel(t)
    BY <2>1 DEF SampleCancel, CancelSampler
  <2>2. CASE SampleLaunch(t)
    BY <2>2 DEF SampleLaunch
  <2> QED
    BY <1>2, <2>1, <2>2 DEF StartSampling
<1>3. ASSUME NEW t \in Threads, Pause(t) PROVE MicInv'
  <2>1. CASE PauseCheck(t)
    BY <2>1 DEF PauseCheck, Enters, MainFree
  <2>2. CASE PauseRecorder(t)
    BY <2>2 DEF PauseRecorder
  <2>3. CASE PauseRecorderFails(t)
    BY <2>3 DEF PauseRecorderFails
  <2>4. CASE PausePublish(t)
    BY <2>4 DEF PausePublish
  <2>5. CASE PauseCancel(t)
    BY <2>5 DEF PauseCancel, CancelSampler
  <2> QED
    BY <1>3, <2>1, <2>2, <2>3, <2>4, <2>5 DEF Pause
<1>4. ASSUME NEW t \in Threads, Resume(t) PROVE MicInv'
  <2>1. CASE ResumeCheck(t)
    BY <2>1 DEF ResumeCheck, Enters, MainFree
  <2>2. CASE ResumeRecorder(t)
    BY <2>2 DEF ResumeRecorder
  <2>3. CASE ResumeRecorderFails(t)
    BY <2>3 DEF ResumeRecorderFails
  <2>4. CASE ResumePublish(t)
    BY <2>4 DEF ResumePublish
  <2> QED
    BY <1>4, <2>1, <2>2, <2>3, <2>4 DEF Resume
<1>5. ASSUME NEW t \in Threads, Stop(t) PROVE MicInv'
  <2>1. CASE StopCheck(t)
    BY <2>1 DEF StopCheck, Enters, MainFree
  <2>2. CASE StopRelease(t)
    BY <2>2 DEF StopRelease, ReleaseRecorder, CancelSampler
  <2>3. CASE StopPublish(t)
    BY <2>3 DEF StopPublish
  <2>4. CASE StopSave(t)
    BY <2>4 DEF StopSave
  <2>5. CASE StopDelete(t)
    BY <2>5 DEF StopDelete
  <2> QED
    BY <1>5, <2>1, <2>2, <2>3, <2>4, <2>5 DEF Stop
<1>6. CASE Cancel
  <2>1. CASE CancelCheck
    BY <2>1 DEF CancelCheck, MainFree
  <2>2. CASE CancelRelease
    BY <2>2 DEF CancelRelease, ReleaseRecorder, CancelSampler
  <2>3. CASE CancelDelete
    BY <2>3 DEF CancelDelete
  <2>4. CASE CancelPublish
    BY <2>4 DEF CancelPublish
  <2> QED
    BY <1>6, <2>1, <2>2, <2>3, <2>4 DEF Cancel
<1>7. ASSUME NEW j \in Jobs, Sampler(j) PROVE MicInv'
  <2>1. CASE SamplerWake(j)
    BY <2>1 DEF SamplerWake, MainFree
  <2>2. CASE SamplerRead(j)
    BY <2>2 DEF SamplerRead
  <2>3. CASE SamplerWrite(j)
    BY <2>3 DEF SamplerWrite
  <2> QED
    BY <1>7, <2>1, <2>2, <2>3 DEF Sampler
<1>8. ASSUME NEW k \in Takes, FinalizeChoose(k) PROVE MicInv'
  BY <1>8 DEF FinalizeChoose
<1>13. ASSUME NEW k \in Takes, NEW n \in Names, FinalizeRename(k, n) PROVE MicInv'
  BY <1>13 DEF FinalizeRename
<1>14. ASSUME NEW k \in Takes, NEW n \in Names, FinalizeRenameFails(k, n) PROVE MicInv'
  BY <1>14 DEF FinalizeRenameFails
<1>9. ASSUME NEW k \in Takes, Capture(k) PROVE MicInv'
  BY <1>9 DEF Capture
<1>10. ASSUME NEW r \in renamed, FinalizeInsert(r) PROVE MicInv'
  BY <1>10 DEF FinalizeInsert
<1>11. CASE Crash
  BY <1>11 DEF Crash
<1>12. CASE UNCHANGED vars
  BY <1>12 DEF vars
<1> QED
  BY <1>1, <1>2, <1>3, <1>4, <1>5, <1>6, <1>7, <1>8, <1>9, <1>10, <1>11, <1>12,
     <1>13, <1>14 DEF Next, Call, FinalizeMove

\* With starts and stops on the main thread only, no step hands a take to the
\* finalizer while its MediaRecorder is live (RecordingController 272-289).
LEMMA NoLiveSaveStep ==
    ASSUME StartStopOnMain, TypeOK, MicIInv, [Next]_vars
    PROVE  NoLiveTakeIsSaved'
<1> Main \in Threads
  BY DEF Threads
<1> USE NoneAssumption, ThreadsAssumption, SameSaving
    DEF StartStopOnMain, MicIInv, TypeOK, MicInv, FreshInv, IoSteps, Threads, Live,
        NoLiveTakeIsSaved, MediaRecorderStates, ctlVars, hwVars, jobVars, thrVars,
        saveVars, At
<1>1. ASSUME NEW t \in Threads, Start(t) PROVE NoLiveTakeIsSaved'
  <2>1. CASE StartCheck(t)
    BY <2>1 DEF StartCheck
  <2>2. CASE StartRecorder(t)
    BY <2>2 DEF StartRecorder
  <2>3. CASE StartRecorderFails(t)
    BY <2>3 DEF StartRecorderFails
  <2>4. CASE StartAssign(t)
    BY <2>4 DEF StartAssign
  <2>5. CASE StartPublish(t)
    BY <2>5 DEF StartPublish
  <2>6. CASE StartService(t)
    BY <2>6 DEF StartService
  <2>7. CASE StartUndo(t)
    BY <2>7 DEF StartUndo, ReleaseRecorder
  <2>8. CASE StartClear(t)
    BY <2>8 DEF StartClear
  <2> QED
    BY <1>1, <2>1, <2>2, <2>3, <2>4, <2>5, <2>6, <2>7, <2>8 DEF Start
<1>2. ASSUME NEW t \in Threads, StartSampling(t) PROVE NoLiveTakeIsSaved'
  <2>1. CASE SampleCancel(t)
    BY <2>1 DEF SampleCancel
  <2>2. CASE SampleLaunch(t)
    BY <2>2 DEF SampleLaunch
  <2> QED
    BY <1>2, <2>1, <2>2 DEF StartSampling
<1>3. ASSUME NEW t \in Threads, Pause(t) PROVE NoLiveTakeIsSaved'
  <2>1. CASE PauseCheck(t)
    BY <2>1 DEF PauseCheck
  <2>2. CASE PauseRecorder(t)
    BY <2>2 DEF PauseRecorder
  <2>3. CASE PauseRecorderFails(t)
    BY <2>3 DEF PauseRecorderFails
  <2>4. CASE PausePublish(t)
    BY <2>4 DEF PausePublish
  <2>5. CASE PauseCancel(t)
    BY <2>5 DEF PauseCancel
  <2> QED
    BY <1>3, <2>1, <2>2, <2>3, <2>4, <2>5 DEF Pause
<1>4. ASSUME NEW t \in Threads, Resume(t) PROVE NoLiveTakeIsSaved'
  <2>1. CASE ResumeCheck(t)
    BY <2>1 DEF ResumeCheck
  <2>2. CASE ResumeRecorder(t)
    BY <2>2 DEF ResumeRecorder
  <2>3. CASE ResumeRecorderFails(t)
    BY <2>3 DEF ResumeRecorderFails
  <2>4. CASE ResumePublish(t)
    BY <2>4 DEF ResumePublish
  <2> QED
    BY <1>4, <2>1, <2>2, <2>3, <2>4 DEF Resume
<1>5. ASSUME NEW t \in Threads, Stop(t) PROVE NoLiveTakeIsSaved'
  <2>1. CASE StopCheck(t)
    BY <2>1 DEF StopCheck
  <2>2. CASE StopRelease(t)
    BY <2>2 DEF StopRelease, ReleaseRecorder
  <2>3. CASE StopPublish(t)
    BY <2>3 DEF StopPublish
  <2>4. CASE StopSave(t)
    <3>1. mr' = mr /\ snap[t].file \in Takes
      BY <2>4 DEF StopSave, RecorderStates
    <3>2. mr[snap[t].file] = "released"
      BY <2>4, <3>1 DEF StopSave, TempOnDisk
    <3> QED
      BY <2>4, <3>1, <3>2, SaveLaunched
  <2>5. CASE StopDelete(t)
    BY <2>5 DEF StopDelete
  <2> QED
    BY <1>5, <2>1, <2>2, <2>3, <2>4, <2>5 DEF Stop
<1>6. CASE Cancel
  <2>1. CASE CancelCheck
    BY <2>1 DEF CancelCheck
  <2>2. CASE CancelRelease
    BY <2>2 DEF CancelRelease, ReleaseRecorder
  <2>3. CASE CancelDelete
    BY <2>3 DEF CancelDelete
  <2>4. CASE CancelPublish
    BY <2>4 DEF CancelPublish
  <2> QED
    BY <1>6, <2>1, <2>2, <2>3, <2>4 DEF Cancel
<1>7. ASSUME NEW j \in Jobs, Sampler(j) PROVE NoLiveTakeIsSaved'
  <2>1. CASE SamplerWake(j)
    BY <2>1 DEF SamplerWake
  <2>2. CASE SamplerRead(j)
    BY <2>2 DEF SamplerRead
  <2>3. CASE SamplerWrite(j)
    BY <2>3 DEF SamplerWrite
  <2> QED
    BY <1>7, <2>1, <2>2, <2>3 DEF Sampler
<1>8. ASSUME NEW k \in Takes, FinalizeChoose(k) PROVE NoLiveTakeIsSaved'
  <2>1. mr' = mr
    BY <1>8 DEF FinalizeChoose
  <2> HIDE DEF TypeOK, MicIInv, MicInv
  <2> QED
    BY <1>8, <2>1, NameChosen DEF MicIInv
<1>13. ASSUME NEW k \in Takes, NEW n \in Names, FinalizeRename(k, n) PROVE NoLiveTakeIsSaved'
  <2>1. mr' = mr /\ Moves(k, n)
    BY <1>13 DEF Moves, FinalizeRename
  <2> HIDE DEF TypeOK, MicIInv, MicInv
  <2> QED
    BY <2>1, TakeMoved DEF MicIInv
<1>14. ASSUME NEW k \in Takes, NEW n \in Names, FinalizeRenameFails(k, n) PROVE NoLiveTakeIsSaved'
  <2>1. mr' = mr /\ Moves(k, n)
    BY <1>14 DEF Moves, FinalizeRenameFails
  <2> HIDE DEF TypeOK, MicIInv, MicInv
  <2> QED
    BY <2>1, TakeMoved DEF MicIInv
<1>9. ASSUME NEW k \in Takes, Capture(k) PROVE NoLiveTakeIsSaved'
  BY <1>9 DEF Capture
<1>10. ASSUME NEW r \in renamed, FinalizeInsert(r) PROVE NoLiveTakeIsSaved'
  BY <1>10, RowInserted DEF FinalizeInsert
<1>11. CASE Crash
  BY <1>11, FinalizersDie DEF Crash
<1>12. CASE UNCHANGED vars
  BY <1>12 DEF vars
<1> QED
  BY <1>1, <1>2, <1>3, <1>4, <1>5, <1>6, <1>7, <1>8, <1>9, <1>10, <1>11, <1>12,
     <1>13, <1>14 DEF Next, Call, FinalizeMove

\* When start() and stop() are only called on the main thread, any number of
\* background pause() and resume() calls, and any crash, leave every live
\* MediaRecorder reachable and let no live take be saved.
THEOREM MicIsReleased ==
    ASSUME StartStopOnMain
    PROVE  Spec => [](MicHasOwner /\ NoLiveTakeIsSaved)
<1> Main \in Threads
  BY DEF Threads
<1>1. Init => MicIInv
  BY NoneAssumption, ThreadsAssumption
     DEF Init, MicIInv, MicInv, FreshInv, NoLiveTakeIsSaved, Finalizing, Registered, Live,
         SamplerRunning, IoSteps, Threads
<1>2. TypeOK /\ MicIInv /\ [Next]_vars => MicIInv'
  BY FreshStep, MicStep, NoLiveSaveStep DEF MicIInv
<1>3. MicIInv => MicHasOwner /\ NoLiveTakeIsSaved
  BY DEF MicIInv, MicInv, MicHasOwner
<1> QED
  BY <1>1, <1>2, <1>3, TypeCorrect, PTL DEF Spec
-----------------------------------------------------------------------------
(* Every caller on the main thread: the published state, the sampler and   *)
(* the file of a take stay in step.                                        *)

MainOnly == IoCallers = {}

InSync ==
    /\ st.file = recorder
    /\ IF recorder = None THEN st = IdleState
       ELSE /\ st.isRecording
            /\ Live(recorder)
            /\ st.isPaused <=> mr[recorder] = "paused"

\* State, field and hardware at each step of a method: they part only
\* between the write to one and the write to the next.
SyncInv ==
    /\ pc[Main] \in {"idle", "start.recorder", "start.assign", "start.service",
                     "sample.cancel", "sample.launch", "pause.recorder", "pause.cancel",
                     "resume.recorder", "stop.release", "stop.save", "cancel.release"} => InSync
    /\ pc[Main] # "done"
    /\ pc[Main] = "start.publish" =>
          st = IdleState /\ recorder = own[Main] /\ mr[recorder] = "recording"
    /\ pc[Main] = "start.assign" => mr[own[Main]] = "recording"
    /\ pc[Main] = "start.service" => recorder = own[Main] /\ st.isRecording /\ ~st.isPaused
    /\ recorder # None => recorder \in {st.file, own[Main]}
    /\ pc[Main] = "start.clear" => st.file = own[Main]
    /\ pc[Main] \in {"sample.cancel", "sample.launch"} => st.isRecording /\ ~st.isPaused
    /\ pc[Main] = "pause.cancel" => st.isRecording /\ st.isPaused
    /\ pc[Main] \in {"pause.recorder", "pause.publish"} => ~st.isPaused
    /\ pc[Main] \in {"resume.recorder", "resume.publish"} => st.isPaused
    /\ pc[Main] \in {"pause.recorder", "pause.publish", "resume.recorder", "resume.publish",
                     "stop.release", "stop.publish"} => snap[Main] = st /\ st.isRecording
    /\ pc[Main] \in {"pause.publish", "resume.publish"} => st.file = recorder /\ recorder # None
    /\ pc[Main] = "pause.publish" => mr[recorder] = "paused"
    /\ pc[Main] = "resume.publish" => mr[recorder] = "recording"
    /\ \A j \in Jobs : job[j] = "write" => seen = st

\* One sampler from startSampling() to the next cancel of amplitudeJob.
Sampling ==
    \/ pc[Main] = "pause.cancel"
    \/ /\ pc[Main] \in {"idle", "pause.recorder", "pause.publish", "resume.recorder",
                         "resume.publish", "stop.release", "cancel.release"}
       /\ st.isRecording /\ ~st.isPaused

SamplerInv ==
    /\ \A j \in Jobs : job[j] # "none" <=> Sampling /\ j = ampJob
    /\ Sampling => ampJob \in Jobs
    /\ cancelled = {}

\* A take is in the hands of the state or of the method, then of one
\* finalizer, then in the library.
InHand(k) == ~Finalizing(k) /\ ~Registered(k) /\ file[k] # "stray"

\* One finalizer at most for the take.
OneFinalizer(k) ==
    /\ finalizing[k] =< 1
    /\ finalizing[k] > 0 => \A n \in Names : chosen[k][n] = 0
    /\ \A n \in Names : chosen[k][n] =< 1
    /\ \A n, m \in Names : chosen[k][n] > 0 /\ chosen[k][m] > 0 => n = m

OneRow(k) ==
    \A p, q \in Names \cup {"temp"} :
        <<k, p>> \in renamed \cup rows /\ <<k, q>> \in renamed \cup rows => p = q

HandInv == \A k \in Takes : OneFinalizer(k) /\ OneRow(k)

SaveInv ==
    \A k \in Takes :
        /\ Finalizing(k) => ~Registered(k) /\ file[k] \in {"empty", "audio"}
        /\ \/ k \in {st.file, own[Main]}
           \/ pc[Main] \in {"stop.publish", "stop.save"} /\ k = snap[Main].file
           => InHand(k)
        /\ pc[Main] = "cancel.publish" /\ k = st.file => ~TempOnDisk(k)
        /\ TempRow(k) => TempOnDisk(k)
        /\ file[k] = "audio" =>
              \/ k \in {st.file, own[Main]} \/ Finalizing(k)
              \/ pc[Main] = "stop.save" /\ snap[Main].file = k

MainIInv == MicIInv /\ SyncInv /\ SamplerInv /\ HandInv /\ SaveInv

\* With every call on the main thread, each step keeps SyncInv: between two
\* methods the state tells what the MediaRecorder does.
LEMMA SyncStep ==
    ASSUME MainOnly, TypeOK, MicIInv, SyncInv, [Next]_vars
    PROVE  SyncInv'
<1> Main \in Threads /\ Threads = {Main}
  BY DEF Threads, MainOnly
<1> USE NoneAssumption
    DEF TypeOK, MicIInv, MicInv, FreshInv, SyncInv, InSync, IdleState, RecorderStates, Live,
        SamplerRunning, ctlVars, hwVars, jobVars, thrVars, saveVars, At, GoTo, Return, Returned
<1>1. ASSUME NEW t \in Threads, Start(t) PROVE SyncInv'
  <2>1. CASE StartCheck(t)
    BY <2>1 DEF StartCheck, Enters, MainFree
  <2>2. CASE StartRecorder(t)
    BY <2>2 DEF StartRecorder
  <2>3. CASE StartRecorderFails(t)
    BY <2>3 DEF StartRecorderFails
  <2>4. CASE StartAssign(t)
    BY <2>4 DEF StartAssign
  <2>5. CASE StartPublish(t)
    BY <2>5 DEF StartPublish
  <2>6. CASE StartService(t)
    BY <2>6 DEF StartService
  <2>7. CASE StartUndo(t)
    BY <2>7 DEF StartUndo, ReleaseRecorder
  <2>8. CASE StartClear(t)
    BY <2>8 DEF StartClear
  <2> QED
    BY <1>1, <2>1, <2>2, <2>3, <2>4, <2>5, <2>6, <2>7, <2>8 DEF Start
<1>2. ASSUME NEW t \in Threads, StartSampling(t) PROVE SyncInv'
  <2>1. CASE SampleCancel(t)
    BY <2>1 DEF SampleCancel, CancelSampler
  <2>2. CASE SampleLaunch(t)
    BY <2>2 DEF SampleLaunch
  <2> QED
    BY <1>2, <2>1, <2>2 DEF StartSampling
<1>3. ASSUME NEW t \in Threads, Pause(t) PROVE SyncInv'
  <2>1. CASE PauseCheck(t)
    BY <2>1 DEF PauseCheck, Enters, MainFree
  <2>2. CASE PauseRecorder(t)
    BY <2>2 DEF PauseRecorder
  <2>3. CASE PauseRecorderFails(t)
    BY <2>3 DEF PauseRecorderFails
  <2>4. CASE PausePublish(t)
    BY <2>4 DEF PausePublish
  <2>5. CASE PauseCancel(t)
    BY <2>5 DEF PauseCancel, CancelSampler
  <2> QED
    BY <1>3, <2>1, <2>2, <2>3, <2>4, <2>5 DEF Pause
<1>4. ASSUME NEW t \in Threads, Resume(t) PROVE SyncInv'
  <2>1. CASE ResumeCheck(t)
    BY <2>1 DEF ResumeCheck, Enters, MainFree
  <2>2. CASE ResumeRecorder(t)
    BY <2>2 DEF ResumeRecorder
  <2>3. CASE ResumeRecorderFails(t)
    BY <2>3 DEF ResumeRecorderFails
  <2>4. CASE ResumePublish(t)
    BY <2>4 DEF ResumePublish
  <2> QED
    BY <1>4, <2>1, <2>2, <2>3, <2>4 DEF Resume
<1>5. ASSUME NEW t \in Threads, Stop(t) PROVE SyncInv'
  <2>1. CASE StopCheck(t)
    BY <2>1 DEF StopCheck, Enters, MainFree
  <2>2. CASE StopRelease(t)
    BY <2>2 DEF StopRelease, ReleaseRecorder, CancelSampler
  <2>3. CASE StopPublish(t)
    BY <2>3 DEF StopPublish
  <2>4. CASE StopSave(t)
    BY <2>4 DEF StopSave
  <2>5. CASE StopDelete(t)
    BY <2>5 DEF StopDelete
  <2> QED
    BY <1>5, <2>1, <2>2, <2>3, <2>4, <2>5 DEF Stop
<1>6. CASE Cancel
  <2>1. CASE CancelCheck
    BY <2>1 DEF CancelCheck, MainFree
  <2>2. CASE CancelRelease
    BY <2>2 DEF CancelRelease, ReleaseRecorder, CancelSampler
  <2>3. CASE CancelDelete
    BY <2>3 DEF CancelDelete
  <2>4. CASE CancelPublish
    BY <2>4 DEF CancelPublish
  <2> QED
    BY <1>6, <2>1, <2>2, <2>3, <2>4 DEF Cancel
<1>7. ASSUME NEW j \in Jobs, Sampler(j) PROVE SyncInv'
  <2>1. CASE SamplerWake(j)
    BY <2>1 DEF SamplerWake, MainFree
  <2>2. CASE SamplerRead(j)
    BY <2>2 DEF SamplerRead
  <2>3. CASE SamplerWrite(j)
    BY <2>3 DEF SamplerWrite
  <2> QED
    BY <1>7, <2>1, <2>2, <2>3 DEF Sampler
<1>8. ASSUME NEW k \in Takes, FinalizeChoose(k) PROVE SyncInv'
  BY <1>8 DEF FinalizeChoose
<1>13. ASSUME NEW k \in Takes, NEW n \in Names, FinalizeRename(k, n) PROVE SyncInv'
  BY <1>13 DEF FinalizeRename
<1>14. ASSUME NEW k \in Takes, NEW n \in Names, FinalizeRenameFails(k, n) PROVE SyncInv'
  BY <1>14 DEF FinalizeRenameFails
<1>9. ASSUME NEW k \in Takes, Capture(k) PROVE SyncInv'
  BY <1>9 DEF Capture
<1>10. ASSUME NEW r \in renamed, FinalizeInsert(r) PROVE SyncInv'
  BY <1>10 DEF FinalizeInsert
<1>11. CASE Crash
  BY <1>11 DEF Crash
<1>12. CASE UNCHANGED vars
  BY <1>12 DEF vars
<1> QED
  BY <1>1, <1>2, <1>3, <1>4, <1>5, <1>6, <1>7, <1>8, <1>9, <1>10, <1>11, <1>12,
     <1>13, <1>14 DEF Next, Call, FinalizeMove

\* With every call on the main thread, each step keeps SamplerInv: the only
\* sampler alive is amplitudeJob (RecordingController 320-348).
LEMMA SamplerStep ==
    ASSUME MainOnly, TypeOK, MicIInv, SyncInv, SamplerInv, [Next]_vars
    PROVE  SamplerInv'
<1> Main \in Threads /\ Threads = {Main}
  BY DEF Threads, MainOnly
<1> USE NoneAssumption
    DEF TypeOK, MicIInv, MicInv, SyncInv, InSync, SamplerInv, Sampling, IdleState, RecorderStates,
        SamplerRunning, SamplerStates, ctlVars, hwVars, jobVars, thrVars, saveVars, At, GoTo, Return,
        Returned
<1>1. ASSUME NEW t \in Threads, Start(t) PROVE SamplerInv'
  <2>1. CASE StartCheck(t)
    BY <2>1 DEF StartCheck, Enters, MainFree
  <2>2. CASE StartRecorder(t)
    BY <2>2 DEF StartRecorder
  <2>3. CASE StartRecorderFails(t)
    BY <2>3 DEF StartRecorderFails
  <2>4. CASE StartAssign(t)
    BY <2>4 DEF StartAssign
  <2>5. CASE StartPublish(t)
    BY <2>5 DEF StartPublish
  <2>6. CASE StartService(t)
    BY <2>6 DEF StartService
  <2>7. CASE StartUndo(t)
    BY <2>7 DEF StartUndo, ReleaseRecorder
  <2>8. CASE StartClear(t)
    BY <2>8 DEF StartClear
  <2> QED
    BY <1>1, <2>1, <2>2, <2>3, <2>4, <2>5, <2>6, <2>7, <2>8 DEF Start
<1>2. ASSUME NEW t \in Threads, StartSampling(t) PROVE SamplerInv'
  <2>1. CASE SampleCancel(t)
    BY <2>1 DEF SampleCancel, CancelSampler
  <2>2. CASE SampleLaunch(t)
    BY <2>2 DEF SampleLaunch
  <2> QED
    BY <1>2, <2>1, <2>2 DEF StartSampling
<1>3. ASSUME NEW t \in Threads, Pause(t) PROVE SamplerInv'
  <2>1. CASE PauseCheck(t)
    BY <2>1 DEF PauseCheck, Enters, MainFree
  <2>2. CASE PauseRecorder(t)
    BY <2>2 DEF PauseRecorder
  <2>3. CASE PauseRecorderFails(t)
    BY <2>3 DEF PauseRecorderFails
  <2>4. CASE PausePublish(t)
    BY <2>4 DEF PausePublish
  <2>5. CASE PauseCancel(t)
    BY <2>5 DEF PauseCancel, CancelSampler
  <2> QED
    BY <1>3, <2>1, <2>2, <2>3, <2>4, <2>5 DEF Pause
<1>4. ASSUME NEW t \in Threads, Resume(t) PROVE SamplerInv'
  <2>1. CASE ResumeCheck(t)
    BY <2>1 DEF ResumeCheck, Enters, MainFree
  <2>2. CASE ResumeRecorder(t)
    BY <2>2 DEF ResumeRecorder
  <2>3. CASE ResumeRecorderFails(t)
    BY <2>3 DEF ResumeRecorderFails
  <2>4. CASE ResumePublish(t)
    BY <2>4 DEF ResumePublish
  <2> QED
    BY <1>4, <2>1, <2>2, <2>3, <2>4 DEF Resume
<1>5. ASSUME NEW t \in Threads, Stop(t) PROVE SamplerInv'
  <2>1. CASE StopCheck(t)
    BY <2>1 DEF StopCheck, Enters, MainFree
  <2>2. CASE StopRelease(t)
    BY <2>2 DEF StopRelease, CancelSampler
  <2>3. CASE StopPublish(t)
    BY <2>3 DEF StopPublish
  <2>4. CASE StopSave(t)
    BY <2>4 DEF StopSave
  <2>5. CASE StopDelete(t)
    BY <2>5 DEF StopDelete
  <2> QED
    BY <1>5, <2>1, <2>2, <2>3, <2>4, <2>5 DEF Stop
<1>6. CASE Cancel
  <2>1. CASE CancelCheck
    BY <2>1 DEF CancelCheck, MainFree
  <2>2. CASE CancelRelease
    BY <2>2 DEF CancelRelease, CancelSampler
  <2>3. CASE CancelDelete
    BY <2>3 DEF CancelDelete
  <2>4. CASE CancelPublish
    BY <2>4 DEF CancelPublish
  <2> QED
    BY <1>6, <2>1, <2>2, <2>3, <2>4 DEF Cancel
<1>7. ASSUME NEW j \in Jobs, Sampler(j) PROVE SamplerInv'
  <2>1. CASE SamplerWake(j)
    BY <2>1 DEF SamplerWake, MainFree
  <2>2. CASE SamplerRead(j)
    BY <2>2 DEF SamplerRead
  <2>3. CASE SamplerWrite(j)
    BY <2>3 DEF SamplerWrite
  <2> QED
    BY <1>7, <2>1, <2>2, <2>3 DEF Sampler
<1>8. ASSUME NEW k \in Takes, FinalizeChoose(k) PROVE SamplerInv'
  BY <1>8 DEF FinalizeChoose
<1>13. ASSUME NEW k \in Takes, NEW n \in Names, FinalizeRename(k, n) PROVE SamplerInv'
  BY <1>13 DEF FinalizeRename
<1>14. ASSUME NEW k \in Takes, NEW n \in Names, FinalizeRenameFails(k, n) PROVE SamplerInv'
  BY <1>14 DEF FinalizeRenameFails
<1>9. ASSUME NEW k \in Takes, Capture(k) PROVE SamplerInv'
  BY <1>9 DEF Capture
<1>10. ASSUME NEW r \in renamed, FinalizeInsert(r) PROVE SamplerInv'
  BY <1>10 DEF FinalizeInsert
<1>11. CASE Crash
  BY <1>11 DEF Crash
<1>12. CASE UNCHANGED vars
  BY <1>12 DEF vars
<1> QED
  BY <1>1, <1>2, <1>3, <1>4, <1>5, <1>6, <1>7, <1>8, <1>9, <1>10, <1>11, <1>12,
     <1>13, <1>14 DEF Next, Call, FinalizeMove

\* The one finalizer of a take has no more to do with it once it has renamed
\* its file, or failed to.
LEMMA MoveEnds ==
    ASSUME TypeOK, NEW k \in Takes, NEW n \in Names, OneFinalizer(k), Moves(k, n)
    PROVE  ~Finalizing(k)' /\ OneFinalizer(k)'
<1>1. chosen[k][n] > 0
  BY DEF Moves, FinalizeRename, FinalizeRenameFails
<1>2. chosen[k][n] = 1 /\ finalizing[k] = 0 /\ \A m \in Names : m # n => chosen[k][m] = 0
  BY <1>1 DEF OneFinalizer, TypeOK
<1>3. finalizing'[k] = 0 /\ \A m \in Names : chosen'[k][m] = 0
  BY <1>2, TakeMoved
<1> QED
  BY <1>3 DEF OneFinalizer, Finalizing

\* With every call on the main thread, each step keeps HandInv: stop() hands over
\* only a take that nobody saves yet.
LEMMA HandStep ==
    ASSUME MainOnly, TypeOK, HandInv, SaveInv, [Next]_vars
    PROVE  HandInv'
<1> Main \in Threads /\ Threads = {Main}
  BY DEF Threads, MainOnly
<1> SUFFICES ASSUME NEW k \in Takes PROVE OneFinalizer(k)' /\ OneRow(k)'
  BY DEF HandInv
<1>0. OneFinalizer(k) /\ OneRow(k)
  BY DEF HandInv
<1>1. ASSUME UNCHANGED saveVars PROVE OneFinalizer(k)' /\ OneRow(k)'
  BY <1>0, <1>1 DEF saveVars, OneFinalizer, OneRow
<1>2. ASSUME NEW t \in Threads, StopSave(t) PROVE OneFinalizer(k)' /\ OneRow(k)'
  <2>1. t = Main /\ pc[Main] = "stop.save"
    BY <1>2 DEF StopSave, At
  <2>2. k = snap[Main].file => finalizing[k] = 0 /\ \A n \in Names : chosen[k][n] = 0
    BY <2>1 DEF SaveInv, InHand, Finalizing, TypeOK
  <2>3. finalizing'[k] = IF k = snap[Main].file THEN finalizing[k] + 1 ELSE finalizing[k]
    BY <1>2, <2>1, NoneAssumption DEF StopSave, TypeOK, RecorderStates
  <2>4. UNCHANGED <<chosen, renamed, rows>>
    BY <1>2 DEF StopSave
  <2> QED
    BY <1>0, <2>2, <2>3, <2>4 DEF OneFinalizer, OneRow, TypeOK
<1>3. ASSUME NEW j \in Takes, FinalizeChoose(j) PROVE OneFinalizer(k)' /\ OneRow(k)'
  <2>1. PICK n \in Names : chosen' = [chosen EXCEPT ![j][n] = @ + 1]
    BY <1>3 DEF FinalizeChoose
  <2>2. \A m \in Names :
           chosen'[k][m] = IF j = k /\ m = n THEN chosen[k][m] + 1 ELSE chosen[k][m]
    BY <2>1 DEF TypeOK
  <2>3. finalizing[j] > 0 /\ finalizing'[k] = IF j = k THEN finalizing[k] - 1 ELSE finalizing[k]
    BY <1>3 DEF TypeOK, FinalizeChoose
  <2>4. UNCHANGED <<renamed, rows>>
    BY <1>3 DEF FinalizeChoose
  <2>5. OneRow(k)'
    BY <1>0, <2>4 DEF OneRow
  <2>6. CASE j # k
    BY <1>0, <2>2, <2>3, <2>5, <2>6 DEF OneFinalizer
  <2>7. CASE j = k
    <3>1. finalizing[k] = 1
      BY <1>0, <2>3, <2>7 DEF OneFinalizer, TypeOK
    <3>2. finalizing'[k] = 0 /\ \A m \in Names : chosen'[k][m] = IF m = n THEN 1 ELSE 0
      BY <1>0, <3>1, <2>2, <2>3, <2>7 DEF OneFinalizer
    <3> QED
      BY <2>5, <3>2 DEF OneFinalizer
  <2> QED
    BY <2>6, <2>7
<1>4. ASSUME NEW j \in Takes, NEW n \in Names, Moves(j, n) PROVE OneFinalizer(k)' /\ OneRow(k)'
  <2>1. OneFinalizer(k)'
    <3>1. CASE j = k
      BY <1>0, <1>4, <3>1, MoveEnds
    <3>2. CASE j # k
      <4>1. finalizing' = finalizing /\ \A m \in Names : chosen'[k][m] = chosen[k][m]
        BY <1>4, <3>2, TakeMoved
      <4> QED
        BY <1>0, <4>1 DEF OneFinalizer
    <3> QED
      BY <3>1, <3>2
  <2>2. PICK p \in Names \cup {"temp"} : renamed' = renamed \cup {<<j, p>>} /\ rows' = rows
    BY <1>4 DEF Moves, FinalizeRename, FinalizeRenameFails
  <2>3. j = k => ~Registered(k)
    BY <1>4, TakeMoved DEF SaveInv
  <2>4. OneRow(k)'
    BY <1>0, <2>2, <2>3 DEF OneRow, Registered
  <2> QED
    BY <2>1, <2>4
<1>5. ASSUME NEW r \in renamed, FinalizeInsert(r) PROVE OneFinalizer(k)' /\ OneRow(k)'
  BY <1>0, <1>5 DEF FinalizeInsert, OneFinalizer, OneRow
<1>6. CASE Crash
  <2>1. finalizing'[k] = 0 /\ \A n \in Names : chosen'[k][n] = 0
    BY <1>6 DEF Crash
  <2>2. renamed' = {} /\ rows' = rows
    BY <1>6 DEF Crash
  <2> QED
    BY <1>0, <2>1, <2>2 DEF OneFinalizer, OneRow
<1>7. CASE UNCHANGED vars
  BY <1>1, <1>7 DEF vars
<1> QED
  BY <1>1, <1>2, <1>3, <1>4, <1>5, <1>6, <1>7, CallsLeaveNames DEF Next, FinalizeMove, Moves

\* With every call on the main thread, each step keeps SaveInv: one keeper for
\* each file with audio (RecordingController 282-300).
LEMMA SaveStep ==
    ASSUME MainOnly, TypeOK, MicIInv, SyncInv, HandInv, SaveInv, [Next]_vars
    PROVE  SaveInv'
<1> Main \in Threads /\ Threads = {Main}
  BY DEF Threads, MainOnly
<1> USE NoneAssumption, SameSaving, TempRegistered
    DEF TypeOK, MicIInv, MicInv, FreshInv, SyncInv, InSync, SaveInv, InHand, TempOnDisk, NoLiveTakeIsSaved,
        IdleState, RecorderStates, FileStates, Live,
        SamplerRunning, ctlVars, hwVars, jobVars, thrVars, saveVars, At, GoTo, Return, Returned
<1>1. ASSUME NEW t \in Threads, Start(t) PROVE SaveInv'
  <2>1. CASE StartCheck(t)
    BY <2>1 DEF StartCheck, Enters, MainFree
  <2>2. CASE StartRecorder(t)
    BY <2>2 DEF StartRecorder
  <2>3. CASE StartRecorderFails(t)
    BY <2>3 DEF StartRecorderFails
  <2>4. CASE StartAssign(t)
    BY <2>4 DEF StartAssign
  <2>5. CASE StartPublish(t)
    BY <2>5 DEF StartPublish
  <2>6. CASE StartService(t)
    BY <2>6 DEF StartService
  <2>7. CASE StartUndo(t)
    BY <2>7 DEF StartUndo, ReleaseRecorder
  <2>8. CASE StartClear(t)
    BY <2>8 DEF StartClear
  <2> QED
    BY <1>1, <2>1, <2>2, <2>3, <2>4, <2>5, <2>6, <2>7, <2>8 DEF Start
<1>2. ASSUME NEW t \in Threads, StartSampling(t) PROVE SaveInv'
  <2>1. CASE SampleCancel(t)
    BY <2>1 DEF SampleCancel
  <2>2. CASE SampleLaunch(t)
    BY <2>2 DEF SampleLaunch
  <2> QED
    BY <1>2, <2>1, <2>2 DEF StartSampling
<1>3. ASSUME NEW t \in Threads, Pause(t) PROVE SaveInv'
  <2>1. CASE PauseCheck(t)
    BY <2>1 DEF PauseCheck, Enters, MainFree
  <2>2. CASE PauseRecorder(t)
    BY <2>2 DEF PauseRecorder
  <2>3. CASE PauseRecorderFails(t)
    BY <2>3 DEF PauseRecorderFails
  <2>4. CASE PausePublish(t)
    BY <2>4 DEF PausePublish
  <2>5. CASE PauseCancel(t)
    BY <2>5 DEF PauseCancel
  <2> QED
    BY <1>3, <2>1, <2>2, <2>3, <2>4, <2>5 DEF Pause
<1>4. ASSUME NEW t \in Threads, Resume(t) PROVE SaveInv'
  <2>1. CASE ResumeCheck(t)
    BY <2>1 DEF ResumeCheck, Enters, MainFree
  <2>2. CASE ResumeRecorder(t)
    BY <2>2 DEF ResumeRecorder
  <2>3. CASE ResumeRecorderFails(t)
    BY <2>3 DEF ResumeRecorderFails
  <2>4. CASE ResumePublish(t)
    BY <2>4 DEF ResumePublish
  <2> QED
    BY <1>4, <2>1, <2>2, <2>3, <2>4 DEF Resume
<1>5. ASSUME NEW t \in Threads, Stop(t) PROVE SaveInv'
  <2>1. CASE StopCheck(t)
    BY <2>1 DEF StopCheck, Enters, MainFree
  <2>2. CASE StopRelease(t)
    BY <2>2 DEF StopRelease, ReleaseRecorder
  <2>3. CASE StopPublish(t)
    BY <2>3 DEF StopPublish
  <2>4. CASE StopSave(t)
    BY <2>4, SaveLaunched DEF StopSave
  <2>5. CASE StopDelete(t)
    BY <2>5 DEF StopDelete
  <2> QED
    BY <1>5, <2>1, <2>2, <2>3, <2>4, <2>5 DEF Stop
<1>6. CASE Cancel
  <2>1. CASE CancelCheck
    BY <2>1 DEF CancelCheck, MainFree
  <2>2. CASE CancelRelease
    BY <2>2 DEF CancelRelease, ReleaseRecorder
  <2>3. CASE CancelDelete
    BY <2>3 DEF CancelDelete
  <2>4. CASE CancelPublish
    BY <2>4 DEF CancelPublish
  <2> QED
    BY <1>6, <2>1, <2>2, <2>3, <2>4 DEF Cancel
<1>7. ASSUME NEW j \in Jobs, Sampler(j) PROVE SaveInv'
  <2>1. CASE SamplerWake(j)
    BY <2>1 DEF SamplerWake, MainFree
  <2>2. CASE SamplerRead(j)
    BY <2>2 DEF SamplerRead
  <2>3. CASE SamplerWrite(j)
    BY <2>3 DEF SamplerWrite
  <2> QED
    BY <1>7, <2>1, <2>2, <2>3 DEF Sampler
<1>8. ASSUME NEW k \in Takes, FinalizeChoose(k) PROVE SaveInv'
  <2>1. UNCHANGED <<st, file, pc, own, snap>>
    BY <1>8 DEF FinalizeChoose
  <2>2. SaveInv /\ TypeOK
    OBVIOUS
  <2> HIDE DEF TypeOK, MicIInv, MicInv, SyncInv
  <2> QED
    BY <1>8, <2>1, <2>2, NameChosen
<1>13. ASSUME NEW k \in Takes, NEW n \in Names, FinalizeRename(k, n) PROVE SaveInv'
  <2>1. ~Finalizing(k)'
    BY <1>13, MoveEnds DEF Moves, HandInv
  <2>2. Moves(k, n) /\ UNCHANGED <<st, pc, own, snap>>
    BY <1>13 DEF Moves, FinalizeRename
  <2>3. \A j \in Takes : j # k => file'[j] = file[j]
    BY <1>13 DEF FinalizeRename
  <2>4. file'[k] \in {"named", "stray"} /\ TempOnDisk(k)
    BY <1>13 DEF FinalizeRename
  <2>5. SaveInv /\ TypeOK
    OBVIOUS
  <2> HIDE DEF TypeOK, MicIInv, MicInv, SyncInv
  <2> QED
    BY <1>13, <2>1, <2>2, <2>3, <2>4, <2>5, TakeMoved
<1>14. ASSUME NEW k \in Takes, NEW n \in Names, FinalizeRenameFails(k, n) PROVE SaveInv'
  <2>1. ~Finalizing(k)'
    BY <1>14, MoveEnds DEF Moves, HandInv
  <2>2. Moves(k, n) /\ UNCHANGED <<st, pc, own, snap>>
    BY <1>14 DEF Moves, FinalizeRenameFails
  <2>3. \A j \in Takes : j # k => file'[j] = file[j]
    BY <1>14 DEF FinalizeRenameFails
  <2>4. Finalizing(k)
    BY <2>2, TakeMoved
  <2>5. file'[k] = "stray"
    BY <1>14, <2>4 DEF FinalizeRenameFails
  <2>6. SaveInv /\ TypeOK
    OBVIOUS
  <2> HIDE DEF TypeOK, MicIInv, MicInv, SyncInv
  <2> QED
    BY <1>14, <2>1, <2>2, <2>3, <2>4, <2>5, <2>6, TakeMoved
<1>9. ASSUME NEW k \in Takes, Capture(k) PROVE SaveInv'
  BY <1>9 DEF Capture
<1>10. ASSUME NEW r \in renamed, FinalizeInsert(r) PROVE SaveInv'
  BY <1>10, RowInserted DEF FinalizeInsert
<1>11. CASE Crash
  BY <1>11, FinalizersDie DEF Crash
<1>12. CASE UNCHANGED vars
  BY <1>12 DEF vars
<1> QED
  BY <1>1, <1>2, <1>3, <1>4, <1>5, <1>6, <1>7, <1>8, <1>9, <1>10, <1>11, <1>12,
     <1>13, <1>14 DEF Next, Call, FinalizeMove
-----------------------------------------------------------------------------
\* The initial state is a state between two calls, with nothing recorded.
LEMMA MainInit == MainOnly /\ Init => MainIInv
<1> SUFFICES ASSUME MainOnly, Init PROVE MainIInv
  OBVIOUS
<1> Main \in Threads /\ Threads = {Main}
  BY DEF Threads, MainOnly
<1> USE NoneAssumption
<1>1. MicIInv
  BY ThreadsAssumption
     DEF Init, MicIInv, MicInv, FreshInv, NoLiveTakeIsSaved, Finalizing, Registered, Live,
         SamplerRunning, IoSteps, Threads
<1>2. SyncInv
  BY DEF Init, SyncInv, InSync, IdleState
<1>3. SamplerInv
  BY DEF Init, SamplerInv, Sampling, IdleState
<1>4. SaveInv /\ HandInv
  BY DEF Init, SaveInv, InHand, TempOnDisk, IdleState, Finalizing, Registered, TempRow,
         HandInv, OneFinalizer, OneRow
<1> QED
  BY <1>1, <1>2, <1>3, <1>4 DEF MainIInv

\* With every caller on the main thread, each step keeps the whole invariant.
LEMMA MainStep == MainOnly /\ TypeOK /\ MainIInv /\ [Next]_vars => MainIInv'
BY FreshStep, MicStep, NoLiveSaveStep, SyncStep, SamplerStep, HandStep, SaveStep
   DEF MainIInv, MicIInv, MainOnly, StartStopOnMain

\* With every caller on the main thread, between calls the published state
\* names the MediaRecorder held and its pause, exactly one sampler runs while
\* it records, each take is registered at most once and under its own file,
\* and recorded audio is never left without a keeper: for any number of takes,
\* failed starts, failed pauses and crashes.
THEOREM MainCallersAreSafe ==
    ASSUME MainOnly
    PROVE  Spec => [](StateMatchesRecorder /\ OneSampler /\ SavedOnce /\ AudioHasKeeper)
<1> USE NoneAssumption
<1>1. Init => MainIInv
  BY MainInit
<1>2. TypeOK /\ MainIInv /\ [Next]_vars => MainIInv'
  BY MainStep
<1>3. TypeOK /\ MainIInv => StateMatchesRecorder /\ OneSampler /\ SavedOnce /\ AudioHasKeeper
  <2> SUFFICES ASSUME TypeOK, MainIInv
               PROVE  StateMatchesRecorder /\ OneSampler /\ SavedOnce /\ AudioHasKeeper
    OBVIOUS
  <2> Main \in Threads /\ Threads = {Main}
    BY DEF Threads, MainOnly
  <2>1. StateMatchesRecorder
    BY DEF MainIInv, SyncInv, InSync, IdleState, StateMatchesRecorder, Quiet
  <2>2. OneSampler
    BY DEF MainIInv, SyncInv, SamplerInv, Sampling, OneSampler, Quiet
  <2>3. SavedOnce
    BY DEF MainIInv, SaveInv, HandInv, OneFinalizer, OneRow, TempRow, SavedOnce
  <2>4. AudioHasKeeper
    BY DEF MainIInv, SaveInv, AudioHasKeeper, TypeOK
  <2> QED
    BY <2>1, <2>2, <2>3, <2>4
<1> QED
  BY <1>1, <1>2, <1>3, TypeCorrect, PTL DEF Spec

\* With every call on the main thread, the state that is published, the recorder that
\* is held and the hardware agree between two calls.
THEOREM MainStateMatches ==
    ASSUME MainOnly
    PROVE  Spec => []StateMatchesRecorder
  BY MainCallersAreSafe, PTL

\* With every call on the main thread, between two calls the sampler of startSampling
\* is the only job while a take records unpaused, and there is none otherwise.
THEOREM MainOneSampler ==
    ASSUME MainOnly
    PROVE  Spec => []OneSampler
  BY MainCallersAreSafe, PTL

\* With every call on the main thread, audio under its temporary name always has someone
\* who will save or delete it: the published state, a call under way or a finalizer.
THEOREM MainAudioHasKeeper ==
    ASSUME MainOnly
    PROVE  Spec => []AudioHasKeeper
  BY MainCallersAreSafe, PTL
=============================================================================
