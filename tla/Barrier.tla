------------------------------- MODULE Barrier -------------------------------
(***************************************************************************)
(* ggml_barrier: the counter barrier the compute threads of whisper.cpp    *)
(* meet at between two nodes of a graph.  The last thread to arrive clears *)
(* the arrival counter and then moves the count of barriers passed; the    *)
(* others spin until that count differs from the one they loaded before    *)
(* they arrived.                                                           *)
(*                                                                         *)
(* A step is one access to an atomic.  The counters are unbounded here: on *)
(* 32 bits n_barrier_passed is only ever compared for equality with a      *)
(* value one behind it.  Spec is the barrier alone, with threads that come *)
(* back to it again and again; Threadpool puts the steps in the threads    *)
(* that compute a graph.                                                   *)
(***************************************************************************)
EXTENDS Integers, FiniteSets

CONSTANT Threads    \* the threads of the pool

ASSUME ThreadsAssumption == IsFiniteSet(Threads) /\ Threads # {}

VARIABLES
    nBarrier,   \* n_barrier: threads that have arrived
    nPassed,    \* n_barrier_passed: barriers completed
    bar,        \* where each thread is in ggml_barrier
    seen,       \* its local n_passed, -1 before its first barrier
    width       \* its local n_threads

barVars == <<nBarrier, nPassed, bar, seen, width>>

BarSteps == {"out", "add", "clear", "release", "spin"}

BarInit ==
    /\ nBarrier = 0
    /\ nPassed = 0
    /\ bar = [t \in Threads |-> "out"]
    /\ seen = [t \in Threads |-> -1]
    /\ width = [t \in Threads |-> 1]

-----------------------------------------------------------------------------
BarGoTo(t, s) == bar' = [bar EXCEPT ![t] = s]

\* ggml_barrier with n threads in the graph: one thread has nobody to wait for.
Load(t, n) ==
    /\ bar[t] = "out"
    /\ IF n = 1
       THEN UNCHANGED barVars
       ELSE /\ width' = [width EXCEPT ![t] = n]
            /\ seen' = [seen EXCEPT ![t] = nPassed]
            /\ BarGoTo(t, "add")
            /\ UNCHANGED <<nBarrier, nPassed>>

\* Mutant: the last thread but one already takes itself for the last.
ArriveEarly(t) ==
    /\ bar[t] = "add"
    /\ nBarrier' = nBarrier + 1
    /\ BarGoTo(t, IF nBarrier = width[t] - 2 THEN "clear" ELSE "spin")
    /\ UNCHANGED <<nPassed, seen, width>>

\* atomic_fetch_add(&n_barrier, 1): the old value tells the last thread.
Arrive(t) ==
    /\ bar[t] = "add"
    /\ nBarrier' = nBarrier + 1
    /\ BarGoTo(t, IF nBarrier = width[t] - 1 THEN "clear" ELSE "spin")
    /\ UNCHANGED <<nPassed, seen, width>>

\* Mutant: the arrival counter is never reset.
ClearNothing(t) ==
    /\ bar[t] = "clear"
    /\ BarGoTo(t, "release")
    /\ UNCHANGED <<nBarrier, nPassed, seen, width>>

\* The last thread empties the barrier before it lets anyone out.
Clear(t) ==
    /\ bar[t] = "clear"
    /\ nBarrier' = 0
    /\ BarGoTo(t, "release")
    /\ UNCHANGED <<nPassed, seen, width>>

Release(t) ==
    /\ bar[t] = "release"
    /\ nPassed' = nPassed + 1
    /\ BarGoTo(t, "out")
    /\ UNCHANGED <<nBarrier, seen, width>>

\* The spin loop ends when the count has moved; until then it changes nothing.
Spin(t) ==
    /\ bar[t] = "spin"
    /\ nPassed # seen[t]
    /\ BarGoTo(t, "out")
    /\ UNCHANGED <<nBarrier, nPassed, seen, width>>

BarStep(t) == Arrive(t) \/ Clear(t) \/ Release(t) \/ Spin(t)

BarNext == \E t \in Threads : Load(t, Cardinality(Threads)) \/ BarStep(t)

BarSpec == BarInit /\ [][BarNext]_barVars

-----------------------------------------------------------------------------
BarTypeOK ==
    /\ nBarrier \in 0..Cardinality(Threads)
    /\ nPassed \in Nat
    /\ bar \in [Threads -> BarSteps]
    /\ seen \in [Threads -> Nat \cup {-1}]
    /\ width \in [Threads -> Nat \ {0}]

\* Barriers a thread has left, and barriers it has arrived at.
Left(t)    == IF bar[t] = "out" THEN seen[t] + 1 ELSE seen[t]
Reached(t) == IF bar[t] = "add" THEN seen[t] ELSE seen[t] + 1

\* No thread leaves a barrier that another has not reached: what one thread
\* does after its k-th barrier comes after what any thread did before it.
Ordered == \A t, u \in Threads : Left(t) <= Reached(u)
=============================================================================
