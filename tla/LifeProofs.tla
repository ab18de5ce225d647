------------------------------ MODULE LifeProofs ------------------------------
(***************************************************************************)
(* The controller implements TakeLife, for any number of takes and         *)
(* samplers, when every call comes from the main thread.                   *)
(***************************************************************************)
EXTENDS RecorderLife, RecorderProofs

\* A take named by the state, or by the stop() in progress, has been recorded.
UsedInv ==
    /\ st.file # None => mr[st.file] # "new"
    /\ pc[Main] \in {"stop.publish", "stop.save"} /\ snap[Main].file # None =>
          mr[snap[Main].file] # "new"

LifeInv == MainIInv /\ UsedInv

SameStage(k) == Stage(k)' = Stage(k)

\* The take k goes from one stage to another and no other take moves.
LEMMA MoveOf ==
    ASSUME NEW k \in Takes, NEW from, NEW to, Stage(k) = from, Stage(k)' = to,
           \A j \in Takes : j # k => SameStage(j)
    PROVE  Life!Move(k, from, to)
BY DEF Life!Move, SameStage

\* No take moves.
LEMMA NoMove ==
    ASSUME \A j \in Takes : SameStage(j)
    PROVE  [k \in Takes |-> Stage(k)]' = [k \in Takes |-> Stage(k)]
BY DEF SameStage

\* A step in which no take moves and no audio comes or goes is a stutter.
LEMMA Stutters ==
    ASSUME \A j \in Takes : SameStage(j), Unsaved' = Unsaved
    PROVE  [Life!LifeNext]_(Life!lifeVars)
BY DEF SameStage, Life!lifeVars

\* A step in the life of one take is a step of the abstract specification.
LEMMA StepOf ==
    ASSUME NEW k \in Takes, Life!Step(k)
    PROVE  [Life!LifeNext]_(Life!lifeVars)
BY DEF Life!LifeNext

\* One lemma per kind of step: what makes it.

\* A take nobody used goes on the microphone, alone.
LEMMA BeginStep ==
    ASSUME NEW k \in Takes, Stage(k) = "new", Stage(k)' = "taping", Unsaved' = Unsaved,
           \A j \in Takes : Stage(j) # "taping",
           \A j \in Takes : j # k => SameStage(j)
    PROVE  [Life!LifeNext]_(Life!lifeVars)
<1>1. Life!Move(k, "new", "taping")
  BY MoveOf
<1>2. Life!Begin(k)
  BY <1>1 DEF Life!Begin
<1> QED
  BY <1>2, StepOf DEF Life!Step

\* The MediaRecorder of a new take does not start.
LEMMA FailStep ==
    ASSUME NEW k \in Takes, Stage(k) = "new", Stage(k)' = "over", Unsaved' = Unsaved,
           \A j \in Takes : j # k => SameStage(j)
    PROVE  [Life!LifeNext]_(Life!lifeVars)
<1>1. Life!Move(k, "new", "over")
  BY MoveOf
<1>2. Life!Fail(k)
  BY <1>1 DEF Life!Fail
<1> QED
  BY <1>2, StepOf DEF Life!Step

\* The microphone is released by stop().
LEMMA StoppedStep ==
    ASSUME NEW k \in Takes, Stage(k) = "taping", Stage(k)' = "stopped", Unsaved' = Unsaved,
           \A j \in Takes : j # k => SameStage(j)
    PROVE  [Life!LifeNext]_(Life!lifeVars)
<1>1. Life!Move(k, "taping", "stopped")
  BY MoveOf
<1>2. Life!End(k)
  BY <1>1 DEF Life!End
<1> QED
  BY <1>2, StepOf DEF Life!Step

\* The microphone is released by cancel(), or by a start() being undone.
LEMMA DroppedStep ==
    ASSUME NEW k \in Takes, Stage(k) = "taping", Stage(k)' = "dropped", Unsaved' = Unsaved,
           \A j \in Takes : j # k => SameStage(j)
    PROVE  [Life!LifeNext]_(Life!lifeVars)
<1>1. Life!Move(k, "taping", "dropped")
  BY MoveOf
<1>2. Life!End(k)
  BY <1>1 DEF Life!End
<1> QED
  BY <1>2, StepOf DEF Life!Step

\* A dropped take ends, with its audio.
LEMMA DropStep ==
    ASSUME NEW k \in Takes, Stage(k) = "dropped", Stage(k)' = "over", Unsaved' = Unsaved \ {k},
           \A j \in Takes : j # k => SameStage(j)
    PROVE  [Life!LifeNext]_(Life!lifeVars)
<1>1. Life!Move(k, "dropped", "over")
  BY MoveOf
<1>2. Life!Drop(k)
  BY <1>1 DEF Life!Drop
<1> QED
  BY <1>2, StepOf DEF Life!Step

\* A stopped take without audio ends.
LEMMA BlankStep ==
    ASSUME NEW k \in Takes, Stage(k) = "stopped", Stage(k)' = "over", Unsaved' = Unsaved,
           k \notin Unsaved,
           \A j \in Takes : j # k => SameStage(j)
    PROVE  [Life!LifeNext]_(Life!lifeVars)
<1>1. Life!Move(k, "stopped", "over")
  BY MoveOf
<1>2. Life!Blank(k)
  BY <1>1 DEF Life!Blank
<1> QED
  BY <1>2, StepOf DEF Life!Step

\* Stop() hands the take to a finalizer.
LEMMA SavingStep ==
    ASSUME NEW k \in Takes, Stage(k) = "stopped", Stage(k)' = "saving", Unsaved' = Unsaved,
           \A j \in Takes : j # k => SameStage(j)
    PROVE  [Life!LifeNext]_(Life!lifeVars)
<1>1. Life!Move(k, "stopped", "saving")
  BY MoveOf
<1>2. Life!Save(k)
  BY <1>1 DEF Life!Save
<1> QED
  BY <1>2, StepOf DEF Life!Step

\* The finalizer inserts the row.
LEMMA RegisterStep ==
    ASSUME NEW k \in Takes, Stage(k) = "saving", Stage(k)' = "saved", Unsaved' = Unsaved,
           k \notin Unsaved,
           \A j \in Takes : j # k => SameStage(j)
    PROVE  [Life!LifeNext]_(Life!lifeVars)
<1>1. Life!Move(k, "saving", "saved")
  BY MoveOf
<1>2. Life!Register(k)
  BY <1>1 DEF Life!Register
<1> QED
  BY <1>2, StepOf DEF Life!Step

\* Frames reach the file.
LEMMA HearStep ==
    ASSUME NEW k \in Takes, Stage(k) = "taping", Unsaved' = Unsaved \cup {k},
           \A j \in Takes : SameStage(j)
    PROVE  [Life!LifeNext]_(Life!lifeVars)
<1>1. Life!Hear(k)
  BY NoMove DEF Life!Hear
<1> QED
  BY <1>1, StepOf DEF Life!Step

\* The finalizer gives the file its name.
LEMMA KeepStep ==
    ASSUME NEW k \in Takes, Stage(k) = "saving", Unsaved' = Unsaved \ {k},
           \A j \in Takes : SameStage(j)
    PROVE  [Life!LifeNext]_(Life!lifeVars)
<1>1. Life!Keep(k)
  BY NoMove DEF Life!Keep
<1> QED
  BY <1>1, StepOf DEF Life!Step

\* The process dies.
LEMMA DieStep ==
    ASSUME NEW spoilt \in SUBSET Takes, Unsaved' = {},
           \A k \in Takes :
              Stage(k)' = IF Stage(k) \in {"saved", "over"} \/ (Stage(k) = "new" /\ k \notin spoilt)
                          THEN Stage(k) ELSE "over"
    PROVE  [Life!LifeNext]_(Life!lifeVars)
<1> DEFINE s == [k \in Takes |-> Stage(k)]
<1>1. s' = [k \in Takes |->
               IF s[k] \in {"saved", "over"} \/ (s[k] = "new" /\ k \notin spoilt)
               THEN s[k] ELSE "over"]
  OBVIOUS
<1> QED
  BY <1>1 DEF Life!LifeNext, Life!Die

\* Every step keeps UsedInv.
LEMMA UsedStep ==
    ASSUME MainOnly, TypeOK, LifeInv, [Next]_vars
    PROVE  UsedInv'
<1> Main \in Threads /\ Threads = {Main}
  BY DEF Threads, MainOnly
<1> USE NoneAssumption
    DEF TypeOK, LifeInv, MainIInv, MicIInv, MicInv, SyncInv, InSync, UsedInv, IdleState,
        RecorderStates, Live, SamplerRunning, ctlVars, hwVars, jobVars, thrVars, saveVars,
        At, GoTo, Return, Returned
<1>1. ASSUME NEW t \in Threads, Start(t) PROVE UsedInv'
  <2>1. CASE StartCheck(t)
    BY <2>1 DEF StartCheck, Enters, MainFree
  <2>2. CASE StartRecorder(t)
    BY <2>2 DEF StartRecorder
  <2>3. CASE StartRecorderFails(t)
    BY <2>3 DEF StartRecorderFails
  <2>4. CASE StartAssign(t)
    BY <2>4 DEF StartAssign
  <2>5. CASE StartPublish(t)
    BY <2>5 DEF StartPublish
  <2>6. CASE StartService(t)
    BY <2>6 DEF StartService
  <2>7. CASE StartUndo(t)
    BY <2>7 DEF StartUndo, ReleaseRecorder
  <2>8. CASE StartClear(t)
    BY <2>8 DEF StartClear, TempOnDisk
  <2> QED
    BY <1>1, <2>1, <2>2, <2>3, <2>4, <2>5, <2>6, <2>7, <2>8 DEF Start
<1>2. ASSUME NEW t \in Threads, StartSampling(t) PROVE UsedInv'
  <2>1. CASE SampleCancel(t)
    BY <2>1 DEF SampleCancel, CancelSampler
  <2>2. CASE SampleLaunch(t)
    BY <2>2 DEF SampleLaunch
  <2> QED
    BY <1>2, <2>1, <2>2 DEF StartSampling
<1>3. ASSUME NEW t \in Threads, Pause(t) PROVE UsedInv'
  <2>1. CASE PauseCheck(t)
    BY <2>1 DEF PauseCheck, Enters, MainFree
  <2>2. CASE PauseRecorder(t)
    BY <2>2 DEF PauseRecorder
  <2>3. CASE PauseRecorderFails(t)
    BY <2>3 DEF PauseRecorderFails
  <2>4. CASE PausePublish(t)
    BY <2>4 DEF PausePublish
  <2>5. CASE PauseCancel(t)
    BY <2>5 DEF PauseCancel, CancelSampler
  <2> QED
    BY <1>3, <2>1, <2>2, <2>3, <2>4, <2>5 DEF Pause
<1>4. ASSUME NEW t \in Threads, Resume(t) PROVE UsedInv'
  <2>1. CASE ResumeCheck(t)
    BY <2>1 DEF ResumeCheck, Enters, MainFree
  <2>2. CASE ResumeRecorder(t)
    BY <2>2 DEF ResumeRecorder
  <2>3. CASE ResumeRecorderFails(t)
    BY <2>3 DEF ResumeRecorderFails
  <2>4. CASE ResumePublish(t)
    BY <2>4 DEF ResumePublish
  <2> QED
    BY <1>4, <2>1, <2>2, <2>3, <2>4 DEF Resume
<1>5. ASSUME NEW t \in Threads, Stop(t) PROVE UsedInv'
  <2>1. CASE StopCheck(t)
    BY <2>1 DEF StopCheck, Enters, MainFree
  <2>2. CASE StopRelease(t)
    BY <2>2 DEF StopRelease, ReleaseRecorder, CancelSampler
  <2>3. CASE StopPublish(t)
    BY <2>3 DEF StopPublish
  <2>4. CASE StopSave(t)
    BY <2>4 DEF StopSave
  <2>5. CASE StopDelete(t)
    BY <2>5 DEF StopDelete, TempOnDisk
  <2> QED
    BY <1>5, <2>1, <2>2, <2>3, <2>4, <2>5 DEF Stop
<1>6. CASE Cancel
  <2>1. CASE CancelCheck
    BY <2>1 DEF CancelCheck, MainFree
  <2>2. CASE CancelRelease
    BY <2>2 DEF CancelRelease, ReleaseRecorder, CancelSampler
  <2>3. CASE CancelDelete
    BY <2>3 DEF CancelDelete, TempOnDisk
  <2>4. CASE CancelPublish
    BY <2>4 DEF CancelPublish
  <2> QED
    BY <1>6, <2>1, <2>2, <2>3, <2>4 DEF Cancel
<1>7. ASSUME NEW j \in Jobs, Sampler(j) PROVE UsedInv'
  <2>1. CASE SamplerWake(j)
    BY <2>1 DEF SamplerWake, MainFree
  <2>2. CASE SamplerRead(j)
    BY <2>2 DEF SamplerRead
  <2>3. CASE SamplerWrite(j)
    BY <2>3 DEF SamplerWrite
  <2> QED
    BY <1>7, <2>1, <2>2, <2>3 DEF Sampler
<1>8. ASSUME NEW k \in Takes, FinalizeChoose(k) PROVE UsedInv'
  BY <1>8 DEF FinalizeChoose
<1>13. ASSUME NEW k \in Takes, NEW n \in Names, FinalizeRename(k, n) PROVE UsedInv'
  BY <1>13 DEF FinalizeRename
<1>14. ASSUME NEW k \in Takes, NEW n \in Names, FinalizeRenameFails(k, n) PROVE UsedInv'
  BY <1>14 DEF FinalizeRenameFails
<1>9. ASSUME NEW k \in Takes, Capture(k) PROVE UsedInv'
  BY <1>9 DEF Capture
<1>10. ASSUME NEW r \in renamed, FinalizeInsert(r) PROVE UsedInv'
  BY <1>10 DEF FinalizeInsert
<1>11. CASE Crash
  BY <1>11 DEF Crash
<1>12. CASE UNCHANGED vars
  BY <1>12 DEF vars
<1> QED
  BY <1>1, <1>2, <1>3, <1>4, <1>5, <1>6, <1>7, <1>8, <1>9, <1>10, <1>11, <1>12,
     <1>13, <1>14 DEF Next, Call, FinalizeMove

\* A take with a row is registered.
LEMMA RowRegistered == \A k \in Takes : HasRow(k) => Registered(k)
BY DEF HasRow, Registered

\* A step that leaves the rows alone leaves every take its row.
LEMMA SameRows ==
    ASSUME rows' = rows
    PROVE  \A k \in Takes : HasRow(k)' <=> HasRow(k)
BY DEF HasRow

\* A take in the hands of the state or of a method is not saved, nor about to be.
LEMMA HeldTake ==
    ASSUME MainOnly, TypeOK, LifeInv, NEW k \in Takes,
           \/ k \in {st.file, recorder, own[Main]}
           \/ pc[Main] \in {"stop.publish", "stop.save"} /\ k = snap[Main].file
    PROVE  ~HasRow(k) /\ ~Registered(k) /\ ~Finalizing(k)
<1>1. k = recorder => k \in {st.file, own[Main]}
  BY NoneAssumption DEF LifeInv, MainIInv, SyncInv
<1>2. InHand(k)
  BY <1>1 DEF LifeInv, MainIInv, SaveInv
<1> QED
  BY <1>2, RowRegistered DEF InHand

\* Every step of the controller is a step in the life of a take, a death, or
\* nothing at all.
LEMMA LifeStep ==
    ASSUME MainOnly, TypeOK, LifeInv, [Next]_vars
    PROVE  [Life!LifeNext]_(Life!lifeVars)
<1> Main \in Threads /\ Threads = {Main}
  BY DEF Threads, MainOnly
<1> USE NoneAssumption, SameSaving, SameRows, RowRegistered
    DEF TypeOK, LifeInv, MainIInv, MicIInv, MicInv, FreshInv, NoLiveTakeIsSaved,
        SyncInv, InSync, SaveInv, InHand, UsedInv, IdleState,
        RecorderStates, MediaRecorderStates, FileStates, Live, SamplerRunning,
        ctlVars, hwVars, jobVars, thrVars, saveVars, At, GoTo, Return, Returned,
        Stage
<1>1. ASSUME NEW t \in Threads, Start(t) PROVE [Life!LifeNext]_(Life!lifeVars)
  <2>1. CASE StartCheck(t)
    <3>1. \A j \in Takes : SameStage(j)
      BY <2>1 DEF StartCheck, Enters, MainFree, SameStage
    <3>2. Unsaved' = Unsaved
      BY <2>1 DEF StartCheck, Enters, MainFree, Unsaved
    <3> HIDE DEF LifeInv, TypeOK, Stage, Unsaved
    <3> QED
      BY <3>1, <3>2, Stutters
  <2>2. CASE StartRecorder(t)
    <3>1. PICK k \in Takes : k = own[Main]
      BY <2>2 DEF StartRecorder
    <3>2. \A j \in Takes : j # k => SameStage(j)
      BY <2>2, <3>1 DEF StartRecorder, SameStage
    <3>3. Unsaved' = Unsaved
      BY <2>2, <3>1 DEF StartRecorder, Unsaved
    <3>4. recorder = None
      BY <2>2 DEF StartRecorder
    <3>5. \A j \in Takes : Stage(j) # "taping"
      <4>1. \A j \in Takes : ~Live(j)
        BY <2>2, <3>4 DEF StartRecorder
      <4> HIDE DEF LifeInv, Live
      <4> QED
        BY <4>1
    <3>6. Stage(k) = "new"
      BY <2>2, <3>1 DEF StartRecorder
    <3>7. Stage(k)' = "taping"
      BY <2>2, <3>1 DEF StartRecorder
    <3> HIDE DEF LifeInv, TypeOK, Stage, Unsaved
    <3> QED
      BY <3>2, <3>3, <3>6, <3>7, <3>5, BeginStep
  <2>3. CASE StartRecorderFails(t)
    <3>1. PICK k \in Takes : k = own[Main]
      BY <2>3 DEF StartRecorderFails
    <3>2. \A j \in Takes : j # k => SameStage(j)
      BY <2>3, <3>1 DEF StartRecorderFails, SameStage
    <3>3. Unsaved' = Unsaved
      BY <2>3, <3>1 DEF StartRecorderFails, Unsaved
    <3>4. Stage(k) = "new"
      BY <2>3, <3>1 DEF StartRecorderFails
    <3>5. Stage(k)' = "over"
      BY <2>3, <3>1 DEF StartRecorderFails
    <3> HIDE DEF LifeInv, TypeOK, Stage, Unsaved
    <3> QED
      BY <3>2, <3>3, <3>4, <3>5, FailStep
  <2>4. CASE StartAssign(t)
    <3>1. \A j \in Takes : SameStage(j)
      BY <2>4 DEF StartAssign, SameStage
    <3>2. Unsaved' = Unsaved
      BY <2>4 DEF StartAssign, Unsaved
    <3> HIDE DEF LifeInv, TypeOK, Stage, Unsaved
    <3> QED
      BY <3>1, <3>2, Stutters
  <2>5. CASE StartPublish(t)
    <3>1. \A j \in Takes : SameStage(j)
      BY <2>5 DEF StartPublish, SameStage
    <3>2. Unsaved' = Unsaved
      BY <2>5 DEF StartPublish, Unsaved
    <3> HIDE DEF LifeInv, TypeOK, Stage, Unsaved
    <3> QED
      BY <3>1, <3>2, Stutters
  <2>6. CASE StartService(t)
    <3>1. \A j \in Takes : SameStage(j)
      BY <2>6 DEF StartService, SameStage
    <3>2. Unsaved' = Unsaved
      BY <2>6 DEF StartService, Unsaved
    <3> HIDE DEF LifeInv, TypeOK, Stage, Unsaved
    <3> QED
      BY <3>1, <3>2, Stutters
  <2>7. CASE StartUndo(t)
    <3>1. PICK k \in Takes : k = own[Main]
      BY <2>7 DEF StartUndo, ReleaseRecorder
    <3>2. \A j \in Takes : j # k => SameStage(j)
      BY <2>7, <3>1 DEF StartUndo, ReleaseRecorder, SameStage
    <3>3. Unsaved' = Unsaved
      BY <2>7, <3>1 DEF StartUndo, ReleaseRecorder, Unsaved
    <3>4. ~HasRow(k) /\ ~Registered(k) /\ ~Finalizing(k)
      BY <2>7, <3>1, HeldTake DEF StartUndo
    <3>5. own[Main] = k /\ recorder = k
      BY <2>7, <3>1 DEF StartUndo, ReleaseRecorder
    <3>6. Live(k)
      BY <2>7, <3>1 DEF StartUndo, ReleaseRecorder
    <3> HIDE DEF LifeInv
    <3>7. Stage(k) = "taping"
      BY <2>7, <3>1, <3>4, <3>5, <3>6 DEF StartUndo, ReleaseRecorder
    <3>8. Stage(k)' = "dropped"
      BY <2>7, <3>1, <3>4, <3>5, <3>6 DEF StartUndo, ReleaseRecorder
    <3> HIDE DEF LifeInv, TypeOK, Stage, Unsaved
    <3> QED
      BY <3>2, <3>3, <3>7, <3>8, DroppedStep
  <2>8. CASE StartClear(t)
    <3>1. PICK k \in Takes : k = own[Main]
      BY <2>8 DEF StartClear, TempOnDisk
    <3>2. \A j \in Takes : j # k => SameStage(j)
      BY <2>8, <3>1 DEF StartClear, TempOnDisk, SameStage
    <3>3. Unsaved' = Unsaved \ {k}
      BY <2>8, <3>1 DEF StartClear, TempOnDisk, Unsaved
    <3>4. ~HasRow(k) /\ ~Registered(k) /\ ~Finalizing(k)
      BY <2>8, <3>1, HeldTake DEF StartClear
    <3>5. mr[k] # "new"
      BY <2>8, <3>1 DEF StartClear, TempOnDisk
    <3>6. ~Live(k)
      BY <2>8, <3>1 DEF StartClear, TempOnDisk
    <3> HIDE DEF LifeInv
    <3>7. Stage(k) = "dropped"
      BY <2>8, <3>1, <3>4, <3>5, <3>6 DEF StartClear, TempOnDisk
    <3>8. Stage(k)' = "over"
      BY <2>8, <3>1, <3>4, <3>5, <3>6 DEF StartClear, TempOnDisk
    <3> HIDE DEF LifeInv, TypeOK, Stage, Unsaved
    <3> QED
      BY <3>2, <3>3, <3>7, <3>8, DropStep
  <2> QED
    BY <1>1, <2>1, <2>2, <2>3, <2>4, <2>5, <2>6, <2>7, <2>8 DEF Start
<1>2. ASSUME NEW t \in Threads, StartSampling(t) PROVE [Life!LifeNext]_(Life!lifeVars)
  <2>1. CASE SampleCancel(t)
    <3>1. \A j \in Takes : SameStage(j)
      BY <2>1 DEF SampleCancel, CancelSampler, SameStage
    <3>2. Unsaved' = Unsaved
      BY <2>1 DEF SampleCancel, CancelSampler, Unsaved
    <3> HIDE DEF LifeInv, TypeOK, Stage, Unsaved
    <3> QED
      BY <3>1, <3>2, Stutters
  <2>2. CASE SampleLaunch(t)
    <3>1. \A j \in Takes : SameStage(j)
      BY <2>2 DEF SampleLaunch, SameStage
    <3>2. Unsaved' = Unsaved
      BY <2>2 DEF SampleLaunch, Unsaved
    <3> HIDE DEF LifeInv, TypeOK, Stage, Unsaved
    <3> QED
      BY <3>1, <3>2, Stutters
  <2> QED
    BY <1>2, <2>1, <2>2 DEF StartSampling
<1>3. ASSUME NEW t \in Threads, Pause(t) PROVE [Life!LifeNext]_(Life!lifeVars)
  <2>1. CASE PauseCheck(t)
    <3>1. \A j \in Takes : SameStage(j)
      BY <2>1 DEF PauseCheck, Enters, MainFree, SameStage
    <3>2. Unsaved' = Unsaved
      BY <2>1 DEF PauseCheck, Enters, MainFree, Unsaved
    <3> HIDE DEF LifeInv, TypeOK, Stage, Unsaved
    <3> QED
      BY <3>1, <3>2, Stutters
  <2>2. CASE PauseRecorder(t)
    <3> HIDE DEF LifeInv
    <3>1. \A j \in Takes : SameStage(j)
      BY <2>2 DEF PauseRecorder, SameStage
    <3>2. Unsaved' = Unsaved
      BY <2>2 DEF PauseRecorder, Unsaved
    <3> HIDE DEF LifeInv, TypeOK, Stage, Unsaved
    <3> QED
      BY <3>1, <3>2, Stutters
  <2>3. CASE PauseRecorderFails(t)
    <3>1. \A j \in Takes : SameStage(j)
      BY <2>3 DEF PauseRecorderFails, SameStage
    <3>2. Unsaved' = Unsaved
      BY <2>3 DEF PauseRecorderFails, Unsaved
    <3> HIDE DEF LifeInv, TypeOK, Stage, Unsaved
    <3> QED
      BY <3>1, <3>2, Stutters
  <2>4. CASE PausePublish(t)
    <3>1. \A j \in Takes : SameStage(j)
      BY <2>4 DEF PausePublish, SameStage
    <3>2. Unsaved' = Unsaved
      BY <2>4 DEF PausePublish, Unsaved
    <3> HIDE DEF LifeInv, TypeOK, Stage, Unsaved
    <3> QED
      BY <3>1, <3>2, Stutters
  <2>5. CASE PauseCancel(t)
    <3>1. \A j \in Takes : SameStage(j)
      BY <2>5 DEF PauseCancel, CancelSampler, SameStage
    <3>2. Unsaved' = Unsaved
      BY <2>5 DEF PauseCancel, CancelSampler, Unsaved
    <3> HIDE DEF LifeInv, TypeOK, Stage, Unsaved
    <3> QED
      BY <3>1, <3>2, Stutters
  <2> QED
    BY <1>3, <2>1, <2>2, <2>3, <2>4, <2>5 DEF Pause
<1>4. ASSUME NEW t \in Threads, Resume(t) PROVE [Life!LifeNext]_(Life!lifeVars)
  <2>1. CASE ResumeCheck(t)
    <3>1. \A j \in Takes : SameStage(j)
      BY <2>1 DEF ResumeCheck, Enters, MainFree, SameStage
    <3>2. Unsaved' = Unsaved
      BY <2>1 DEF ResumeCheck, Enters, MainFree, Unsaved
    <3> HIDE DEF LifeInv, TypeOK, Stage, Unsaved
    <3> QED
      BY <3>1, <3>2, Stutters
  <2>2. CASE ResumeRecorder(t)
    <3> HIDE DEF LifeInv
    <3>1. \A j \in Takes : SameStage(j)
      BY <2>2 DEF ResumeRecorder, SameStage
    <3>2. Unsaved' = Unsaved
      BY <2>2 DEF ResumeRecorder, Unsaved
    <3> HIDE DEF LifeInv, TypeOK, Stage, Unsaved
    <3> QED
      BY <3>1, <3>2, Stutters
  <2>3. CASE ResumeRecorderFails(t)
    <3>1. \A j \in Takes : SameStage(j)
      BY <2>3 DEF ResumeRecorderFails, SameStage
    <3>2. Unsaved' = Unsaved
      BY <2>3 DEF ResumeRecorderFails, Unsaved
    <3> HIDE DEF LifeInv, TypeOK, Stage, Unsaved
    <3> QED
      BY <3>1, <3>2, Stutters
  <2>4. CASE ResumePublish(t)
    <3>1. \A j \in Takes : SameStage(j)
      BY <2>4 DEF ResumePublish, SameStage
    <3>2. Unsaved' = Unsaved
      BY <2>4 DEF ResumePublish, Unsaved
    <3> HIDE DEF LifeInv, TypeOK, Stage, Unsaved
    <3> QED
      BY <3>1, <3>2, Stutters
  <2> QED
    BY <1>4, <2>1, <2>2, <2>3, <2>4 DEF Resume
<1>5. ASSUME NEW t \in Threads, Stop(t) PROVE [Life!LifeNext]_(Life!lifeVars)
  <2>1. CASE StopCheck(t)
    <3>1. \A j \in Takes : SameStage(j)
      BY <2>1 DEF StopCheck, Enters, MainFree, SameStage
    <3>2. Unsaved' = Unsaved
      BY <2>1 DEF StopCheck, Enters, MainFree, Unsaved
    <3> HIDE DEF LifeInv, TypeOK, Stage, Unsaved
    <3> QED
      BY <3>1, <3>2, Stutters
  <2>2. CASE StopRelease(t)
    <3>1. PICK k \in Takes : k = recorder
      BY <2>2 DEF StopRelease, ReleaseRecorder, CancelSampler
    <3>2. \A j \in Takes : j # k => SameStage(j)
      BY <2>2, <3>1 DEF StopRelease, ReleaseRecorder, CancelSampler, SameStage
    <3>3. Unsaved' = Unsaved
      BY <2>2, <3>1 DEF StopRelease, ReleaseRecorder, CancelSampler, Unsaved
    <3>4. ~HasRow(k) /\ ~Registered(k) /\ ~Finalizing(k)
      BY <2>2, <3>1, HeldTake DEF StopRelease
    <3>5. snap[Main].file = k
      BY <2>2, <3>1 DEF StopRelease, ReleaseRecorder, CancelSampler
    <3>6. Live(k)
      BY <2>2, <3>1 DEF StopRelease, ReleaseRecorder, CancelSampler
    <3> HIDE DEF LifeInv
    <3>7. Stage(k) = "taping"
      BY <2>2, <3>1, <3>4, <3>5, <3>6 DEF StopRelease, ReleaseRecorder, CancelSampler
    <3>8. Stage(k)' = "stopped"
      BY <2>2, <3>1, <3>4, <3>5, <3>6 DEF StopRelease, ReleaseRecorder, CancelSampler
    <3> HIDE DEF LifeInv, TypeOK, Stage, Unsaved
    <3> QED
      BY <3>2, <3>3, <3>7, <3>8, StoppedStep
  <2>3. CASE StopPublish(t)
    <3>1. \A j \in Takes : SameStage(j)
      BY <2>3 DEF StopPublish, SameStage
    <3>2. Unsaved' = Unsaved
      BY <2>3 DEF StopPublish, Unsaved
    <3> HIDE DEF LifeInv, TypeOK, Stage, Unsaved
    <3> QED
      BY <3>1, <3>2, Stutters
  <2>4. CASE StopSave(t)
    <3>1. PICK k \in Takes : k = snap[Main].file
      BY <2>4 DEF StopSave, TempOnDisk
    <3>0. StopSave(Main) /\ UNCHANGED <<st, mr, own, snap, rows>>
      BY <2>4 DEF StopSave
    <3>2. \A j \in Takes : j # k => SameStage(j)
      BY <2>4, <3>0, <3>1, SaveLaunched DEF StopSave, TempOnDisk, SameStage
    <3>3. Unsaved' = Unsaved
      BY <2>4, <3>1 DEF StopSave, TempOnDisk, Unsaved
    <3>4. ~HasRow(k) /\ ~Registered(k) /\ ~Finalizing(k)
      BY <2>4, <3>1, HeldTake DEF StopSave
    <3>5. mr[k] # "new"
      BY <2>4, <3>1 DEF StopSave, TempOnDisk
    <3>6. ~Live(k)
      BY <2>4, <3>1 DEF StopSave, TempOnDisk
    <3> HIDE DEF LifeInv
    <3>7. Stage(k) = "stopped"
      BY <2>4, <3>1, <3>4, <3>5, <3>6 DEF StopSave, TempOnDisk
    <3>8. Stage(k)' = "saving"
      BY <3>0, <3>1, <3>4, SaveLaunched
    <3> HIDE DEF LifeInv, TypeOK, Stage, Unsaved
    <3> QED
      BY <3>2, <3>3, <3>7, <3>8, SavingStep
  <2>5. CASE StopDelete(t)
    <3>1. CASE snap[Main].file = None
      <4> HIDE DEF LifeInv
      <4>1. \A j \in Takes : SameStage(j)
        BY <2>5, <3>1 DEF StopDelete, TempOnDisk, SameStage
      <4>2. Unsaved' = Unsaved
        BY <2>5, <3>1 DEF StopDelete, TempOnDisk, Unsaved
      <4> HIDE DEF LifeInv, TypeOK, Stage, Unsaved
      <4> QED
        BY <4>1, <4>2, Stutters
    <3>2. CASE snap[Main].file # None
      <4>1. PICK k \in Takes : k = snap[Main].file
        BY <2>5, <3>2 DEF StopDelete, TempOnDisk
      <4>2. \A j \in Takes : j # k => SameStage(j)
        BY <2>5, <3>2, <4>1 DEF StopDelete, TempOnDisk, SameStage
      <4>3. k \notin Unsaved /\ Unsaved' = Unsaved
        BY <2>5, <3>2, <4>1 DEF StopDelete, TempOnDisk, Unsaved
      <4>4. ~HasRow(k) /\ ~Registered(k) /\ ~Finalizing(k)
        BY <2>5, <3>2, <4>1, HeldTake DEF StopDelete
      <4>5. mr[k] # "new"
        BY <2>5, <3>2, <4>1 DEF StopDelete, TempOnDisk
      <4>6. ~Live(k)
        BY <2>5, <3>2, <4>1 DEF StopDelete, TempOnDisk
      <4> HIDE DEF LifeInv
      <4>7. Stage(k) = "stopped"
        BY <2>5, <3>2, <4>1, <4>4, <4>5, <4>6 DEF StopDelete, TempOnDisk
      <4>8. Stage(k)' = "over"
        BY <2>5, <3>2, <4>1, <4>4, <4>5, <4>6 DEF StopDelete, TempOnDisk
      <4> HIDE DEF LifeInv, TypeOK, Stage, Unsaved
      <4> QED
        BY <4>2, <4>3, <4>7, <4>8, BlankStep
    <3> QED
      BY <3>1, <3>2
  <2> QED
    BY <1>5, <2>1, <2>2, <2>3, <2>4, <2>5 DEF Stop
<1>6. CASE Cancel
  <2>1. CASE CancelCheck
    <3>1. \A j \in Takes : SameStage(j)
      BY <2>1 DEF CancelCheck, MainFree, SameStage
    <3>2. Unsaved' = Unsaved
      BY <2>1 DEF CancelCheck, MainFree, Unsaved
    <3> HIDE DEF LifeInv, TypeOK, Stage, Unsaved
    <3> QED
      BY <3>1, <3>2, Stutters
  <2>2. CASE CancelRelease
    <3>1. CASE recorder = None
      <4>1. st.file = None
        BY <2>2, <3>1 DEF CancelRelease
      <4> HIDE DEF LifeInv
      <4>2. \A j \in Takes : SameStage(j)
        BY <2>2, <3>1, <4>1 DEF CancelRelease, ReleaseRecorder, CancelSampler, SameStage
      <4>3. Unsaved' = Unsaved
        BY <2>2, <3>1 DEF CancelRelease, ReleaseRecorder, CancelSampler, Unsaved
      <4> HIDE DEF LifeInv, TypeOK, Stage, Unsaved
      <4> QED
        BY <4>2, <4>3, Stutters
    <3>2. CASE recorder # None
      <4>1. PICK k \in Takes : k = recorder
        BY <2>2, <3>2 DEF CancelRelease, ReleaseRecorder, CancelSampler
      <4>2. \A j \in Takes : j # k => SameStage(j)
        BY <2>2, <3>2, <4>1 DEF CancelRelease, ReleaseRecorder, CancelSampler, SameStage
      <4>3. Unsaved' = Unsaved
        BY <2>2, <3>2, <4>1 DEF CancelRelease, ReleaseRecorder, CancelSampler, Unsaved
      <4>4. ~HasRow(k) /\ ~Registered(k) /\ ~Finalizing(k)
        BY <2>2, <3>2, <4>1, HeldTake DEF CancelRelease
      <4>5. st.file = k
        BY <2>2, <3>2, <4>1 DEF CancelRelease, ReleaseRecorder, CancelSampler
      <4>6. Live(k)
        BY <2>2, <3>2, <4>1 DEF CancelRelease, ReleaseRecorder, CancelSampler
      <4> HIDE DEF LifeInv
      <4>7. Stage(k) = "taping"
        BY <2>2, <3>2, <4>1, <4>4, <4>5, <4>6 DEF CancelRelease, ReleaseRecorder, CancelSampler
      <4>8. Stage(k)' = "dropped"
        BY <2>2, <3>2, <4>1, <4>4, <4>5, <4>6 DEF CancelRelease, ReleaseRecorder, CancelSampler
      <4> HIDE DEF LifeInv, TypeOK, Stage, Unsaved
      <4> QED
        BY <4>2, <4>3, <4>7, <4>8, DroppedStep
    <3> QED
      BY <3>1, <3>2
  <2>3. CASE CancelDelete
    <3>1. CASE st.file = None
      <4> HIDE DEF LifeInv
      <4>1. \A j \in Takes : SameStage(j)
        BY <2>3, <3>1 DEF CancelDelete, TempOnDisk, SameStage
      <4>2. Unsaved' = Unsaved
        BY <2>3, <3>1 DEF CancelDelete, TempOnDisk, Unsaved
      <4> HIDE DEF LifeInv, TypeOK, Stage, Unsaved
      <4> QED
        BY <4>1, <4>2, Stutters
    <3>2. CASE st.file # None
      <4>1. PICK k \in Takes : k = st.file
        BY <2>3, <3>2 DEF CancelDelete, TempOnDisk
      <4>2. \A j \in Takes : j # k => SameStage(j)
        BY <2>3, <3>2, <4>1 DEF CancelDelete, TempOnDisk, SameStage
      <4>3. Unsaved' = Unsaved \ {k}
        BY <2>3, <3>2, <4>1 DEF CancelDelete, TempOnDisk, Unsaved
      <4>4. ~HasRow(k) /\ ~Registered(k) /\ ~Finalizing(k)
        BY <2>3, <3>2, <4>1, HeldTake DEF CancelDelete
      <4>5. mr[k] # "new"
        BY <2>3, <3>2, <4>1 DEF CancelDelete, TempOnDisk
      <4>6. ~Live(k)
        BY <2>3, <3>2, <4>1 DEF CancelDelete, TempOnDisk
      <4> HIDE DEF LifeInv
      <4>7. Stage(k) = "dropped"
        BY <2>3, <3>2, <4>1, <4>4, <4>5, <4>6 DEF CancelDelete, TempOnDisk
      <4>8. Stage(k)' = "over"
        BY <2>3, <3>2, <4>1, <4>4, <4>5, <4>6 DEF CancelDelete, TempOnDisk
      <4> HIDE DEF LifeInv, TypeOK, Stage, Unsaved
      <4> QED
        BY <4>2, <4>3, <4>7, <4>8, DropStep
    <3> QED
      BY <3>1, <3>2
  <2>4. CASE CancelPublish
    <3>1. \A j \in Takes : SameStage(j)
      BY <2>4 DEF CancelPublish, SameStage
    <3>2. Unsaved' = Unsaved
      BY <2>4 DEF CancelPublish, Unsaved
    <3> HIDE DEF LifeInv, TypeOK, Stage, Unsaved
    <3> QED
      BY <3>1, <3>2, Stutters
  <2> QED
    BY <1>6, <2>1, <2>2, <2>3, <2>4 DEF Cancel
<1>7. ASSUME NEW b \in Jobs, Sampler(b) PROVE [Life!LifeNext]_(Life!lifeVars)
  <2>1. CASE SamplerWake(b)
    <3>1. \A j \in Takes : SameStage(j)
      BY <2>1 DEF SamplerWake, MainFree, SameStage
    <3>2. Unsaved' = Unsaved
      BY <2>1 DEF SamplerWake, MainFree, Unsaved
    <3> HIDE DEF LifeInv, TypeOK, Stage, Unsaved
    <3> QED
      BY <3>1, <3>2, Stutters
  <2>2. CASE SamplerRead(b)
    <3>1. \A j \in Takes : SameStage(j)
      BY <2>2 DEF SamplerRead, SameStage
    <3>2. Unsaved' = Unsaved
      BY <2>2 DEF SamplerRead, Unsaved
    <3> HIDE DEF LifeInv, TypeOK, Stage, Unsaved
    <3> QED
      BY <3>1, <3>2, Stutters
  <2>3. CASE SamplerWrite(b)
    <3>1. \A j \in Takes : SameStage(j)
      BY <2>3 DEF SamplerWrite, SameStage
    <3>2. Unsaved' = Unsaved
      BY <2>3 DEF SamplerWrite, Unsaved
    <3> HIDE DEF LifeInv, TypeOK, Stage, Unsaved
    <3> QED
      BY <3>1, <3>2, Stutters
  <2> QED
    BY <1>7, <2>1, <2>2, <2>3 DEF Sampler
<1>8. ASSUME NEW k \in Takes, FinalizeChoose(k) PROVE [Life!LifeNext]_(Life!lifeVars)
  <2>1. UNCHANGED <<st, mr, file, pc, own, snap, rows>>
    BY <1>8 DEF FinalizeChoose
  <2> HIDE DEF LifeInv
  <2>2. \A j \in Takes : SameStage(j)
    BY <1>8, <2>1, NameChosen DEF SameStage
  <2>3. Unsaved' = Unsaved
    BY <2>1 DEF Unsaved
  <2> HIDE DEF TypeOK, Stage, Unsaved
  <2> QED
    BY <2>2, <2>3, Stutters
<1>13. ASSUME NEW k \in Takes, NEW n \in Names, Moves(k, n) PROVE [Life!LifeNext]_(Life!lifeVars)
  <2>1. UNCHANGED <<st, mr, pc, own, snap, rows>>
    BY <1>13 DEF Moves, FinalizeRename, FinalizeRenameFails
  <2>2. Finalizing(k) /\ ~Registered(k) /\ ~HasRow(k) /\ TempOnDisk(k)
    BY <1>13, TakeMoved DEF TempOnDisk
  <2>3. file'[k] \in {"named", "stray"} /\ \A j \in Takes : j # k => file'[j] = file[j]
    BY <1>13, <2>2 DEF Moves, FinalizeRename, FinalizeRenameFails
  <2> HIDE DEF LifeInv
  <2>4. Stage(k) = "saving"
    BY <2>2
  <2>5. Unsaved' = Unsaved \ {k}
    BY <2>3 DEF Unsaved
  <2>6. \A j \in Takes : SameStage(j)
    BY <1>13, <2>1, <2>2, TakeMoved DEF SameStage
  <2> HIDE DEF TypeOK, Stage, Unsaved
  <2> QED
    BY <2>4, <2>5, <2>6, KeepStep
<1>9. ASSUME NEW k \in Takes, Capture(k) PROVE [Life!LifeNext]_(Life!lifeVars)
  <2>1. Stage(k) = "taping"
    BY <1>9 DEF Capture
  <2>2. Unsaved' = Unsaved \cup {k}
    BY <1>9 DEF Capture, Unsaved
  <2>3. \A j \in Takes : SameStage(j)
    BY <1>9 DEF Capture, SameStage
  <2> HIDE DEF LifeInv, TypeOK, Stage, Unsaved
  <2> QED
    BY <2>1, <2>2, <2>3, HearStep
<1>10. ASSUME NEW r \in renamed, FinalizeInsert(r) PROVE [Life!LifeNext]_(Life!lifeVars)
  <2>1. PICK k \in Takes, p \in Names \cup {"temp"} : r = <<k, p>>
    BY DEF Rows
  <2>2. UNCHANGED <<st, mr, file, pc, own, snap>>
    BY <1>10 DEF FinalizeInsert
  <2>3. Registered(k) /\ HasRow(k)' /\ \A j \in Takes : j # k => (HasRow(j)' <=> HasRow(j))
    BY <1>10, <2>1 DEF FinalizeInsert, Registered, HasRow
  <2>4. Unsaved' = Unsaved /\ k \notin Unsaved
    BY <2>2, <2>3 DEF Unsaved
  <2> HIDE DEF LifeInv
  <2>5. \A j \in Takes : j # k => SameStage(j)
    BY <1>10, <2>2, <2>3, RowInserted DEF SameStage
  <2>6. Stage(k)' = "saved" /\ Stage(k) \in {"saving", "saved"}
    BY <2>3
  <2> HIDE DEF TypeOK, Stage, Unsaved
  <2>7. CASE Stage(k) = "saved"
    BY <2>4, <2>5, <2>6, <2>7, Stutters DEF SameStage
  <2>8. CASE Stage(k) = "saving"
    BY <2>4, <2>5, <2>6, <2>8, RegisterStep
  <2> QED
    BY <2>6, <2>7, <2>8
<1>11. CASE Crash
  <2>1. PICK spoilt \in SUBSET Takes : spoilt = {k \in Takes : own[Main] = k}
    OBVIOUS
  <2>2. Unsaved' = {}
    BY <1>11 DEF Crash, TempOnDisk, Unsaved
  <2>3. \A k \in Takes :
           Stage(k)' = IF Stage(k) \in {"saved", "over"} \/ (Stage(k) = "new" /\ k \notin spoilt)
                       THEN Stage(k) ELSE "over"
    <3> SUFFICES ASSUME NEW k \in Takes
                 PROVE  Stage(k)' = IF Stage(k) \in {"saved", "over"}
                                       \/ (Stage(k) = "new" /\ k \notin spoilt)
                                    THEN Stage(k) ELSE "over"
      OBVIOUS
    <3>0. (HasRow(k)' <=> HasRow(k)) /\ (Registered(k)' <=> HasRow(k)) /\ ~Finalizing(k)'
      <4>1. renamed' = {} /\ rows' = rows
        BY <1>11 DEF Crash
      <4> QED
        BY <1>11, <4>1, FinalizersDie DEF HasRow, Registered
    <3>1. Stage(k)' \in {"saved", "new", "over"}
      BY <1>11, <3>0 DEF Crash
    <3>2. Stage(k)' = "saved" <=> Stage(k) = "saved"
      BY <1>11, <3>0 DEF Crash
    <3>3. mr[k] = "new" => file[k] = "none" /\ (Stage(k) = "new" \/ Stage(k) = "saved")
      BY DEF LifeInv
    <3>4. Stage(k)' = "new" => mr'[k] = "new"
      BY <1>11 DEF Crash
    <3>5. mr'[k] = "new" /\ Stage(k) # "saved" => Stage(k)' = "new"
      BY <1>11, <3>0 DEF Crash
    <3>6. mr'[k] = "new" <=> mr[k] = "new" /\ file[k] = "none" /\ k \notin spoilt
      BY <1>11, <2>1 DEF Crash
    <3>7. Stage(k) = "new" => mr[k] = "new"
      OBVIOUS
    <3> HIDE DEF LifeInv, TypeOK, Stage
    <3> QED
      BY <3>1, <3>2, <3>3, <3>4, <3>5, <3>6, <3>7
  <2> HIDE DEF LifeInv, TypeOK, Stage, Unsaved
  <2> QED
    BY <2>2, <2>3, DieStep
<1>12. CASE UNCHANGED vars
  <2>1. \A j \in Takes : SameStage(j)
    BY <1>12 DEF vars, SameStage
  <2>2. Unsaved' = Unsaved
    BY <1>12 DEF vars, Unsaved
  <2> HIDE DEF LifeInv, TypeOK, Stage, Unsaved
  <2> QED
    BY <2>1, <2>2, Stutters
<1> QED
  BY <1>1, <1>2, <1>3, <1>4, <1>5, <1>6, <1>7, <1>8, <1>9, <1>10, <1>11, <1>12,
     <1>13 DEF Next, Call, FinalizeMove, Moves

\* With every caller on the main thread, the controller implements TakeLife: for
\* any number of takes, failed starts, failed pauses and deaths, one take at a time
\* is on the microphone, a stopped take with audio only goes to the library, and
\* audio is thrown away only with a take that was dropped.
THEOREM ControllerKeepsTakes == ASSUME MainOnly PROVE Spec => LivesOfTakes
<1> Main \in Threads /\ Threads = {Main}
  BY DEF Threads, MainOnly
<1>1. Init => LifeInv
  BY MainInit DEF Init, LifeInv, UsedInv, IdleState
<1>2. TypeOK /\ LifeInv /\ [Next]_vars => LifeInv'
  BY MainStep, UsedStep DEF LifeInv
<1>3. Init => Life!LifeInit
  BY NoneAssumption DEF Init, Life!LifeInit, Stage, HasRow, Finalizing, Registered, Unsaved, Live
<1>4. TypeOK /\ LifeInv /\ [Next]_vars => [Life!LifeNext]_(Life!lifeVars)
  BY LifeStep
<1> QED
  BY <1>1, <1>2, <1>3, <1>4, TypeCorrect, PTL DEF Spec, LivesOfTakes, Life!LifeSpec
=============================================================================
