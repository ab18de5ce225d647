----------------------------- MODULE RecorderLife -----------------------------
(***************************************************************************)
(* The controller seen as the life of its takes (TakeLife), when every     *)
(* call comes from the main thread.                                        *)
(***************************************************************************)
EXTENDS Recorder

HasRow(k) == \E p \in Names \cup {"temp"} : <<k, p>> \in rows

\* Between the release of the MediaRecorder and the fate of the file a take is
\* in the hands of the method that released it.
Stage(k) ==
    IF HasRow(k) THEN "saved"
    ELSE IF Finalizing(k) \/ Registered(k) THEN "saving"
    ELSE IF mr[k] = "new" THEN "new"
    ELSE IF Live(k) THEN "taping"
    ELSE IF pc[Main] \in {"stop.publish", "stop.save"} /\ snap[Main].file = k THEN "stopped"
    ELSE IF \/ pc[Main] = "cancel.delete" /\ st.file = k
            \/ pc[Main] = "start.clear" /\ own[Main] = k
         THEN "dropped"
    ELSE "over"

Unsaved == {k \in Takes : file[k] = "audio"}

Life == INSTANCE TakeLife WITH stage <- [k \in Takes |-> Stage(k)], unsaved <- Unsaved

\* Every step of the controller is a step in the life of at most one take, or a
\* death: one take at a time holds the microphone, a stopped take with audio is
\* registered (under a title or its temp path) and nothing else, and audio is thrown
\* away only by cancel() or by a start whose foreground service was refused (start,
\* stop, cancel, finalizeRecording).
LivesOfTakes == Life!LifeSpec
=============================================================================
