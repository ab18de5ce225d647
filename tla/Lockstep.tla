------------------------------- MODULE Lockstep -------------------------------
(***************************************************************************)
(* What ggml_graph_compute promises about its threads: they go through the *)
(* stages of a graph together.  A thread begins a stage only when every    *)
(* thread of the graph has finished the stages before it, and the call     *)
(* returns only when all of them have finished the same stages.            *)
(***************************************************************************)
EXTENDS Naturals

CONSTANT Threads

VARIABLES
    crew,   \* the threads that compute the current graph; {} between graphs
    at      \* stages each of them has finished

lockVars == <<crew, at>>

LockInit ==
    /\ crew = {}
    /\ at = [t \in Threads |-> 0]

Begin(c) ==
    /\ crew = {}
    /\ c # {}
    /\ crew' = c
    /\ at' = [t \in Threads |-> 0]

Finish(t) ==
    /\ t \in crew
    /\ \A u \in crew : at[u] >= at[t]
    /\ at' = [at EXCEPT ![t] = @ + 1]
    /\ UNCHANGED crew

End ==
    /\ crew # {}
    /\ \A t, u \in crew : at[t] = at[u]
    /\ crew' = {}
    /\ at' = [t \in Threads |-> 0]

LockNext == End \/ (\E c \in SUBSET Threads : Begin(c)) \/ (\E t \in Threads : Finish(t))

LockSpec == LockInit /\ [][LockNext]_lockVars
=============================================================================
