------------------------------- MODULE TakeLife -------------------------------
(***************************************************************************)
(* What the recorder promises of a take, whatever its code looks like: one *)
(* take at a time is on the microphone, a stopped take with audio can only *)
(* go to the library, audio is thrown away only with a take that was       *)
(* dropped (discarded by the user, or refused its foreground service), and *)
(* a take that ended does not come back.  A process death ends what is not *)
(* yet in the library.                                                     *)
(***************************************************************************)
CONSTANT Takes

VARIABLES
    stage,      \* how far each take got
    unsaved     \* takes with audio that is neither kept nor thrown away

lifeVars == <<stage, unsaved>>

Stages == {"new", "taping", "stopped", "dropped", "saving", "saved", "over"}

LifeInit ==
    /\ stage = [k \in Takes |-> "new"]
    /\ unsaved = {}

Move(k, from, to) == stage[k] = from /\ stage' = [stage EXCEPT ![k] = to]

Begin(k) ==
    /\ \A j \in Takes : stage[j] # "taping"
    /\ Move(k, "new", "taping")
    /\ UNCHANGED unsaved

Fail(k) == Move(k, "new", "over") /\ UNCHANGED unsaved

Hear(k) ==
    /\ stage[k] = "taping"
    /\ unsaved' = unsaved \cup {k}
    /\ UNCHANGED stage

End(k) ==
    /\ Move(k, "taping", "stopped") \/ Move(k, "taping", "dropped")
    /\ UNCHANGED unsaved

\* The end of a dropped take, with its audio if it has any.
Drop(k) == Move(k, "dropped", "over") /\ unsaved' = unsaved \ {k}

\* Nothing was heard of a stopped take.
Blank(k) == k \notin unsaved /\ Move(k, "stopped", "over") /\ UNCHANGED unsaved

Save(k) == Move(k, "stopped", "saving") /\ UNCHANGED unsaved

Keep(k) ==
    /\ stage[k] = "saving"
    /\ unsaved' = unsaved \ {k}
    /\ UNCHANGED stage

Register(k) == k \notin unsaved /\ Move(k, "saving", "saved") /\ UNCHANGED unsaved

\* The process dies; a take it was about to begin may be spoilt.
Die ==
    /\ unsaved' = {}
    /\ \E spoilt \in SUBSET Takes :
          stage' = [k \in Takes |->
                      IF stage[k] \in {"saved", "over"} \/ (stage[k] = "new" /\ k \notin spoilt)
                      THEN stage[k] ELSE "over"]

Step(k) ==
    \/ Begin(k) \/ Fail(k) \/ Hear(k) \/ End(k) \/ Drop(k)
    \/ Blank(k) \/ Save(k) \/ Keep(k) \/ Register(k)

LifeNext == Die \/ \E k \in Takes : Step(k)

LifeSpec == LifeInit /\ [][LifeNext]_lifeVars
=============================================================================
