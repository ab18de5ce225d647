--------------------------- MODULE ThreadpoolProofs ---------------------------
(***************************************************************************)
(* The barrier and the thread pool, for any number of threads, any graphs, *)
(* any thread counts the caller asks for, aborts and pauses.               *)
(*                                                                         *)
(* The barrier.  n_barrier counts the threads of the crew that wait at the *)
(* current barrier, except between the reset and the release, when all the *)
(* others wait.  So only the last of them finds N - 1 in it, and nPassed   *)
(* moves only when nobody of the crew is still on the way.  A thread the   *)
(* barrier has let out may still be on its way out of it when the next     *)
(* crew is at work: it spins on a count that is already behind.            *)
(*                                                                         *)
(* The pool.  A thread of the crew has a place in the graph, eight for     *)
(* each node, and the barriers are at some of the places.  All of the crew *)
(* have passed the same barriers (Together), so they are at one stage of   *)
(* one node, up to the places between two barriers; which items are done   *)
(* and which chunks are still to be handed out follows from the places     *)
(* (MadeOK, Holding).  The rest of the invariant is about the threads that *)
(* are not there: who a new graph is news for, and who is still on its way *)
(* out of the last barrier of an old one (News, Stale).                    *)
(***************************************************************************)
EXTENDS Threadpool, FiniteSetTheorems, TLAPS

-----------------------------------------------------------------------------
(* The barrier, for a crew C of the threads that alone use it.             *)

\* Threads that wait at the current barrier, or are about to open it.
Waiting == {t \in Threads : bar[t] = "clear" \/ (bar[t] = "spin" /\ seen[t] = nPassed)}

Types ==
    /\ nBarrier \in Nat
    /\ nPassed \in Nat
    /\ bar \in [Threads -> BarSteps]
    /\ seen \in [Threads -> Nat \cup {-1}]
    /\ width \in [Threads -> Nat \ {0}]

\* Only the crew is in the barrier with the current count; who is not has been
\* released by an earlier one.
CountsSeen(C) ==
    \A t \in Threads :
        /\ bar[t] \in {"add", "clear", "release"} =>
               t \in C /\ seen[t] = nPassed /\ width[t] = Cardinality(C)
        /\ bar[t] = "spin" => seen[t] <= nPassed
        /\ bar[t] = "spin" /\ seen[t] = nPassed => t \in C /\ width[t] = Cardinality(C)

\* The thread that opens the barrier is alone: all the others wait for it.
OpenerAlone(C) ==
    \A t \in Threads : bar[t] \in {"clear", "release"} =>
        \A u \in C \ {t} : bar[u] = "spin" /\ seen[u] = nPassed

CounterCounts ==
    /\ (\A t \in Threads : bar[t] # "release") => nBarrier = Cardinality(Waiting)
    /\ \A t \in Threads : bar[t] = "release" => nBarrier = 0

CrewInv(C) == Types /\ CountsSeen(C) /\ OpenerAlone(C) /\ CounterCounts

\* The threads that wait are finitely many, and of the crew.
LEMMA WaitingFinite ==
    ASSUME NEW C \in SUBSET Threads, CountsSeen(C), OpenerAlone(C)
    PROVE  /\ IsFiniteSet(C) /\ Cardinality(C) \in Nat
           /\ Cardinality(C) <= Cardinality(Threads) /\ Cardinality(Threads) \in Nat
           /\ Waiting \subseteq C
           /\ IsFiniteSet(Waiting) /\ Cardinality(Waiting) \in 0..Cardinality(C)
<1>1. IsFiniteSet(Threads) /\ Cardinality(Threads) \in Nat
  BY ThreadsAssumption, FS_CardinalityType
<1>2. IsFiniteSet(C) /\ Cardinality(C) <= Cardinality(Threads)
  BY <1>1, FS_Subset
<1>3. Waiting \subseteq C
  BY DEF Waiting, CountsSeen
<1>4. IsFiniteSet(Waiting) /\ Cardinality(Waiting) <= Cardinality(C)
  BY <1>2, <1>3, FS_Subset
<1>5. Cardinality(C) \in Nat /\ Cardinality(Waiting) \in Nat
  BY <1>2, <1>4, FS_CardinalityType
<1> QED
  BY <1>1, <1>2, <1>3, <1>4, <1>5

\* A thread that finds all but one of the crew waiting is the last: all the others wait.
LEMMA LastArrives ==
    ASSUME NEW C, IsFiniteSet(C), NEW t \in C, t \notin Waiting, Waiting \subseteq C,
           Cardinality(Waiting) = Cardinality(C) - 1
    PROVE  C \ {t} = Waiting
<1>1. IsFiniteSet(C \ {t}) /\ Cardinality(C \ {t}) = Cardinality(C) - 1
  BY FS_RemoveElement
<1>2. Waiting \subseteq C \ {t}
  OBVIOUS
<1> QED
  BY <1>1, <1>2, FS_Subset

\* Loading the count on the way in disturbs nothing (ggml_barrier, its first lines).
LEMMA LoadKeeps ==
    ASSUME NEW C \in SUBSET Threads, CrewInv(C), NEW t \in C, Load(t, Cardinality(C))
    PROVE  CrewInv(C)'
<1>1. CASE Cardinality(C) = 1
  <2>1. UNCHANGED barVars
    BY <1>1 DEF Load
  <2> QED
    BY <2>1 DEF CrewInv, Types, CountsSeen, OpenerAlone, CounterCounts, Waiting, barVars
<1>2. CASE Cardinality(C) # 1
  <2>1. /\ bar[t] = "out" /\ bar' = [bar EXCEPT ![t] = "add"]
        /\ width' = [width EXCEPT ![t] = Cardinality(C)] /\ seen' = [seen EXCEPT ![t] = nPassed]
        /\ nBarrier' = nBarrier /\ nPassed' = nPassed
    BY <1>2 DEF Load, BarGoTo
  <2>2. \A u \in Threads : bar[u] \notin {"clear", "release"}
    BY <2>1 DEF CrewInv, CountsSeen, OpenerAlone
  <2>3. Waiting' = Waiting
    BY <2>1 DEF CrewInv, Types, Waiting
  <2>4. Cardinality(C) \in Nat \ {0}
    <3>1. IsFiniteSet(C) /\ Cardinality(C) \in Nat
      BY WaitingFinite DEF CrewInv
    <3> QED
      BY <3>1, FS_EmptySet
  <2>5. Types'
    BY <2>1, <2>4 DEF CrewInv, Types, BarSteps
  <2>6. CountsSeen(C)'
    BY <2>1 DEF CrewInv, Types, CountsSeen
  <2>7. OpenerAlone(C)'
    BY <2>1, <2>2 DEF CrewInv, Types, OpenerAlone
  <2>8. CounterCounts'
    BY <2>1, <2>2, <2>3 DEF CrewInv, Types, CounterCounts
  <2> QED
    BY <2>5, <2>6, <2>7, <2>8 DEF CrewInv
<1> QED
  BY <1>1, <1>2

\* Arriving: one more waits; the one who finds all the others there opens the barrier.
LEMMA ArriveKeeps ==
    ASSUME NEW C \in SUBSET Threads, CrewInv(C), NEW t \in Threads, Arrive(t)
    PROVE  CrewInv(C)'
<1>1. /\ bar[t] = "add" /\ nBarrier' = nBarrier + 1
      /\ bar' = [bar EXCEPT ![t] = IF nBarrier = width[t] - 1 THEN "clear" ELSE "spin"]
      /\ nPassed' = nPassed /\ seen' = seen /\ width' = width
  BY DEF Arrive, BarGoTo
<1>2. t \in C /\ seen[t] = nPassed /\ width[t] = Cardinality(C)
  BY <1>1 DEF CrewInv, CountsSeen
<1>3. \A u \in Threads : bar[u] \notin {"clear", "release"}
  BY <1>1, <1>2 DEF CrewInv, OpenerAlone
<1>4. nBarrier = Cardinality(Waiting)
  BY <1>3 DEF CrewInv, CounterCounts
<1>5. t \notin Waiting
  BY <1>1 DEF Waiting
<1>6. Waiting' = Waiting \cup {t}
  BY <1>1, <1>2 DEF CrewInv, Types, Waiting
<1>7. /\ IsFiniteSet(C) /\ Waiting \subseteq C /\ IsFiniteSet(Waiting)
      /\ Cardinality(C) \in Nat /\ Cardinality(Waiting) \in Nat
  BY WaitingFinite DEF CrewInv
<1>8. Cardinality(Waiting') = nBarrier'
  BY <1>1, <1>4, <1>5, <1>6, <1>7, FS_AddElement
<1>9. Types'
  BY <1>1 DEF CrewInv, Types, BarSteps
<1>10. CountsSeen(C)'
  BY <1>1, <1>2 DEF CrewInv, Types, CountsSeen
<1>11. OpenerAlone(C)'
  <2>1. CASE nBarrier = Cardinality(C) - 1
    <3>1. C \ {t} = Waiting
      BY <2>1, <1>2, <1>4, <1>5, <1>7, LastArrives
    <3>2. \A u \in C \ {t} : bar[u] = "spin" /\ seen[u] = nPassed
      BY <3>1, <1>3 DEF Waiting
    <3> QED
      BY <3>2, <1>1, <1>3 DEF CrewInv, Types, OpenerAlone
  <2>2. CASE nBarrier # Cardinality(C) - 1
    BY <2>2, <1>1, <1>2, <1>3 DEF CrewInv, Types, OpenerAlone
  <2> QED
    BY <2>1, <2>2
<1>12. CounterCounts'
  BY <1>1, <1>3, <1>8 DEF CrewInv, Types, CounterCounts
<1> QED
  BY <1>9, <1>10, <1>11, <1>12 DEF CrewInv

\* The reset, with all the others waiting.
LEMMA ClearKeeps ==
    ASSUME NEW C \in SUBSET Threads, CrewInv(C), NEW t \in Threads, Clear(t)
    PROVE  CrewInv(C)'
<1>1. /\ bar[t] = "clear" /\ nBarrier' = 0 /\ bar' = [bar EXCEPT ![t] = "release"]
      /\ nPassed' = nPassed /\ seen' = seen /\ width' = width
  BY DEF Clear, BarGoTo
<1>2. t \in C
  BY <1>1 DEF CrewInv, CountsSeen
<1>3. Types'
  BY <1>1 DEF CrewInv, Types, BarSteps
<1>4. CountsSeen(C)'
  BY <1>1 DEF CrewInv, Types, CountsSeen
<1>5. OpenerAlone(C)'
  BY <1>1, <1>2 DEF CrewInv, Types, OpenerAlone
<1>6. CounterCounts'
  BY <1>1 DEF CrewInv, Types, CounterCounts
<1> QED
  BY <1>3, <1>4, <1>5, <1>6 DEF CrewInv

\* The release: the whole crew waited, and now nobody does.
LEMMA ReleaseKeeps ==
    ASSUME NEW C \in SUBSET Threads, CrewInv(C), NEW t \in Threads, Release(t)
    PROVE  /\ CrewInv(C)'
           /\ t \in C /\ seen[t] = nPassed
           /\ \A u \in C \ {t} : bar[u] = "spin" /\ seen[u] = nPassed
<1>1. /\ bar[t] = "release" /\ nPassed' = nPassed + 1 /\ bar' = [bar EXCEPT ![t] = "out"]
      /\ nBarrier' = nBarrier /\ seen' = seen /\ width' = width
  BY DEF Release, BarGoTo
<1>2. \A u \in C \ {t} : bar[u] = "spin" /\ seen[u] = nPassed
  BY <1>1 DEF CrewInv, OpenerAlone
<1>3. nBarrier = 0 /\ seen[t] = nPassed /\ t \in C
  BY <1>1 DEF CrewInv, CounterCounts, CountsSeen
<1>4. \A u \in Threads : bar[u] \in {"out", "spin"} \/ u = t
  BY <1>2 DEF CrewInv, Types, BarSteps, CountsSeen
<1>5. \A u \in Threads : bar'[u] = "spin" => seen'[u] < nPassed'
  BY <1>1 DEF CrewInv, Types, CountsSeen
<1>6. Waiting' = {}
  BY <1>1, <1>4, <1>5 DEF CrewInv, Types, Waiting
<1>7. Types'
  BY <1>1 DEF CrewInv, Types, BarSteps
<1>8. CountsSeen(C)'
  BY <1>1, <1>4, <1>5 DEF CrewInv, Types, CountsSeen
<1>9. OpenerAlone(C)'
  BY <1>1, <1>4 DEF CrewInv, Types, OpenerAlone
<1>10. CounterCounts'
  BY <1>1, <1>3, <1>4, <1>6, FS_EmptySet DEF CrewInv, Types, CounterCounts
<1> QED
  BY <1>2, <1>3, <1>7, <1>8, <1>9, <1>10 DEF CrewInv

\* Leaving the spin loop: the thread no longer counted anyway.
LEMMA SpinKeeps ==
    ASSUME NEW C \in SUBSET Threads, CrewInv(C), NEW t \in Threads, Spin(t)
    PROVE  CrewInv(C)'
<1>1. /\ bar[t] = "spin" /\ nPassed # seen[t] /\ bar' = [bar EXCEPT ![t] = "out"]
      /\ nBarrier' = nBarrier /\ nPassed' = nPassed /\ seen' = seen /\ width' = width
  BY DEF Spin, BarGoTo
<1>2. ASSUME NEW u \in Threads, bar[u] \in {"clear", "release"} PROVE t \notin C \ {u}
  BY <1>1, <1>2 DEF CrewInv, OpenerAlone
<1>3. Waiting' = Waiting
  BY <1>1 DEF CrewInv, Types, Waiting
<1>4. Types'
  BY <1>1 DEF CrewInv, Types, BarSteps
<1>5. CountsSeen(C)'
  BY <1>1 DEF CrewInv, Types, CountsSeen
<1>6. OpenerAlone(C)'
  BY <1>1, <1>2 DEF CrewInv, Types, OpenerAlone
<1>7. CounterCounts'
  BY <1>1, <1>3 DEF CrewInv, Types, CounterCounts
<1> QED
  BY <1>4, <1>5, <1>6, <1>7 DEF CrewInv

-----------------------------------------------------------------------------
(* The barrier alone, used by all its threads.                             *)

\* A thread outside is one behind the count, a thread inside at most one.
Paced ==
    \A t \in Threads :
        /\ bar[t] = "spin" => seen[t] >= nPassed - 1
        /\ bar[t] = "out" => seen[t] = nPassed - 1

BarInv == CrewInv(Threads) /\ Paced

\* The invariant holds of the barrier used by all its threads.
THEOREM BarrierInvariant == BarSpec => []BarInv
<1>1. BarInit => BarInv
  <2> SUFFICES ASSUME BarInit PROVE BarInv
    OBVIOUS
  <2>1. Waiting = {}
    BY DEF BarInit, Waiting
  <2> QED
    BY <2>1, FS_EmptySet
       DEF BarInit, BarInv, Paced, CrewInv, Types, CountsSeen, OpenerAlone, CounterCounts, BarSteps
<1>2. BarInv /\ [BarNext]_barVars => BarInv'
  <2> SUFFICES ASSUME BarInv, [BarNext]_barVars PROVE BarInv'
    OBVIOUS
  <2> USE DEF BarInv
  <2>1. ASSUME NEW t \in Threads, Load(t, Cardinality(Threads)) PROVE BarInv'
    <3>1. CrewInv(Threads)'
      BY <2>1, LoadKeeps
    <3>2. Paced'
      BY <2>1 DEF CrewInv, Types, Paced, Load, BarGoTo, barVars
    <3> QED
      BY <3>1, <3>2
  <2>2. ASSUME NEW t \in Threads, Arrive(t) PROVE BarInv'
    <3>1. CrewInv(Threads)'
      BY <2>2, ArriveKeeps
    <3>2. Paced'
      BY <2>2 DEF CrewInv, Types, CountsSeen, Paced, Arrive, BarGoTo
    <3> QED
      BY <3>1, <3>2
  <2>3. ASSUME NEW t \in Threads, Clear(t) PROVE BarInv'
    <3>1. CrewInv(Threads)'
      BY <2>3, ClearKeeps
    <3>2. Paced'
      BY <2>3 DEF CrewInv, Types, Paced, Clear, BarGoTo
    <3> QED
      BY <3>1, <3>2
  <2>4. ASSUME NEW t \in Threads, Release(t) PROVE BarInv'
    <3>1. /\ CrewInv(Threads)' /\ seen[t] = nPassed
          /\ \A u \in Threads \ {t} : bar[u] = "spin" /\ seen[u] = nPassed
      BY <2>4, ReleaseKeeps
    <3>2. Paced'
      BY <2>4, <3>1 DEF CrewInv, Types, Paced, Release, BarGoTo
    <3> QED
      BY <3>1, <3>2
  <2>5. ASSUME NEW t \in Threads, Spin(t) PROVE BarInv'
    <3>1. CrewInv(Threads)'
      BY <2>5, SpinKeeps
    <3>2. Paced'
      BY <2>5 DEF CrewInv, Types, CountsSeen, Paced, Spin, BarGoTo
    <3> QED
      BY <3>1, <3>2
  <2>6. CASE UNCHANGED barVars
    BY <2>6 DEF Paced, CrewInv, Types, CountsSeen, OpenerAlone, CounterCounts, Waiting, barVars
  <2> QED
    BY <2>1, <2>2, <2>3, <2>4, <2>5, <2>6 DEF BarNext, BarStep
<1> QED
  BY <1>1, <1>2, PTL DEF BarSpec

\* Every variable of the barrier keeps its type; the counter never passes the number
\* of threads.
THEOREM BarrierTypes == BarSpec => []BarTypeOK
<1>1. BarInv => BarTypeOK
  <2> SUFFICES ASSUME BarInv PROVE BarTypeOK
    OBVIOUS
  <2>1. nBarrier = 0 \/ nBarrier = Cardinality(Waiting)
    BY DEF BarInv, CrewInv, CounterCounts
  <2>2. Cardinality(Waiting) \in 0..Cardinality(Threads) /\ Cardinality(Threads) \in Nat
    BY WaitingFinite DEF BarInv, CrewInv
  <2> QED
    BY <2>1, <2>2 DEF BarInv, CrewInv, Types, BarTypeOK
<1> QED
  BY <1>1, BarrierInvariant, PTL

\* No thread leaves a barrier of ggml_barrier before every thread has reached it.
THEOREM BarrierOrders == BarSpec => []Ordered
<1>1. BarInv => Ordered
  <2> SUFFICES ASSUME BarInv, NEW t \in Threads, NEW u \in Threads
               PROVE  Left(t) <= Reached(u)
    BY DEF Ordered
  <2>1. Left(t) <= nPassed
    BY DEF BarInv, Paced, CrewInv, Types, CountsSeen, Left, BarSteps
  <2>2. nPassed <= Reached(u)
    BY DEF BarInv, Paced, CrewInv, Types, CountsSeen, Reached, BarSteps
  <2>3. nPassed \in Int /\ Left(t) \in Int /\ Reached(u) \in Int
    BY DEF BarInv, CrewInv, Types, Left, Reached
  <2> QED
    BY <2>1, <2>2, <2>3
<1> QED
  BY <1>1, BarrierInvariant, PTL

-----------------------------------------------------------------------------
(* The pool.  Where its threads are.                                       *)

\* Let out of the barrier, but still in its spin loop.
Released(t) == bar[t] = "spin" /\ seen[t] < nPassed

\* A worker that has not begun the current graph; it may still be in the spin loop of
\* the last barrier of the one before.
Fresh(t) == t # 0 /\ (last[t] # nGraph \/ pending[t])

Inside    == InGraph \ {"enter"}
AtWork(t) == t \in Crew /\ ~Fresh(t) /\ pc[t] \in Inside

\* The node at which the threads leave the graph.
EndNode == IF abort = 0 THEN Len(graph) + 1 ELSE abort

StageNo(s) ==
    CASE s \in {"calc", "conv"} -> 1
      [] s = "set" -> 2
      [] s = "mulBarrier" -> 3
      [] s = "chunk" -> 4
      [] s = "after" -> 5
      [] s = "nodeBarrier" -> 6
      [] OTHER -> 0

\* How far a thread of the crew is in the graph: eight places for each node.
Pos(t) ==
    IF Fresh(t) \/ pc[t] \in {"signal", "enter"} THEN 0
    ELSE IF pc[t] \in InGraph THEN 8 * node[t] + StageNo(pc[t])
    ELSE 8 * EndNode + 1

\* The places of the barriers, and having passed one.
Locs ==
    {8 * k + 3 : k \in {j \in 1..Len(graph) : j < EndNode /\ graph[j] = "mul"}}
    \cup {8 * k + 6 : k \in {j \in 1..Len(graph) : j < Len(graph) /\ j < EndNode /\ graph[j] # "nop"}}
    \cup {8 * EndNode}

Past(t, L) == Pos(t) > L \/ (Pos(t) = L /\ Released(t))

\* A thread that holds a chunk of node k: the one it fetched, or its own at first.
InChunks(t, k) == Pos(t) = 8 * k + 4 \/ (Pos(t) = 8 * k + 3 /\ Released(t))
Held(t)        == IF bar[t] = "out" THEN mychunk[t] ELSE t

Begun(t, k) == Pos(t) > 8 * k + 1
Done(t, k)  == Pos(t) > 8 * k + 4

-----------------------------------------------------------------------------
(* The inductive invariant.                                                *)

PoolTypes ==
    /\ locked \in BOOLEAN /\ stop \in BOOLEAN /\ pause \in BOOLEAN
    /\ asleep \subseteq Workers
    /\ nGraph \in (0..MaxGraphs) \X (0..NThreads)
    /\ want \in 0..NThreads
    /\ last \in [Threads -> (0..MaxGraphs) \X (0..NThreads)]
    /\ pending \in [Threads -> BOOLEAN]
    /\ graph \in Graphs \cup {<<>>}
    /\ abort \in Nat /\ ec \in {"success", "aborted"} /\ chunk \in Nat
    /\ pc \in [Threads -> PcValues]
    /\ mine \in [Threads -> Graphs \cup {<<>>}]
    /\ nth \in [Threads -> 0..NThreads]
    /\ node \in [Threads -> Nat \ {0}]
    /\ mychunk \in [Threads -> Nat]

CallerPcs == InGraph \cup
    {"none", "idle", "kick", "signal", "done", "stopping", "join", "freed"}
WorkerPcs == (InGraph \ {"set"}) \cup
    {"none", "top", "pauseLock", "stopTest", "poll", "pollGraph", "workLock", "take", "exited"}

\* The caller and the workers run different code; a kick publishes a graph set up before.
Roles ==
    /\ pc[0] \in CallerPcs
    /\ \A w \in Workers : pc[w] \in WorkerPcs /\ (pc[0] = "none" => pc[w] = "none")
    /\ pc[0] = "kick" =>
           want >= 1 /\ nGraph[1] < MaxGraphs /\ made = {} /\ abort = 0 /\ ec = "success"
    /\ Computing => nGraph[2] >= 1

\* What a worker knows of the graphs published; between graphs the crew knows them all.
News ==
    \A w \in Workers :
        /\ last[w][1] <= nGraph[1]
        /\ pending[w] => pc[w] = "take" /\ last[w] = nGraph /\ w \in Crew
        /\ ~Computing /\ w < nGraph[2] => last[w] = nGraph

\* Who is in a graph but not in the current one is let out of its last barrier.
Stale ==
    \A t \in Threads : pc[t] \in InGraph /\ (t \notin Crew \/ Fresh(t)) =>
        pc[t] = "lastBarrier" /\ Released(t)

Aborts == Computing => abort <= Len(graph) + 1 /\ (ec = "success" <=> abort = 0)

\* Nobody goes past the node at which the threads leave the graph.
Place(t) ==
    /\ mine[t] = graph /\ nth[t] = nGraph[2]
    /\ node[t] <= EndNode
    /\ pc[t] = "lastBarrier" => node[t] = EndNode
    /\ pc[t] \notin {"node", "lastBarrier"} => node[t] < EndNode
    /\ pc[t] = "calc" => graph[node[t]] = "op"
    /\ pc[t] \in {"conv", "set", "mulBarrier", "chunk"} => graph[node[t]] = "mul"
    /\ pc[t] \in {"after", "nodeBarrier"} => graph[node[t]] # "nop"
    /\ pc[t] = "nodeBarrier" => node[t] < Len(graph)

Places == \A t \in Threads : AtWork(t) => Place(t)

Outside == \A t \in Threads : bar[t] # "out" => pc[t] \in Barriers

\* All threads of the crew have passed the same barriers.
Together == \A t, u \in Crew : \A L \in Locs : Past(t, L) => Past(u, L)

\* A chunk that is held is below the counter, and nobody else's.
Holding ==
    \A t \in Crew, k \in 1..Len(graph) : InChunks(t, k) =>
        /\ nGraph[2] <= chunk
        /\ Held(t) < chunk
        /\ \A u \in Crew \ {t} : InChunks(u, k) => Held(t) # Held(u)
        /\ NChunks(nGraph[2]) = nGraph[2] => Held(t) = t

SetDone == Computing /\ pc[0] = "mulBarrier" /\ ~Released(0) => chunk = nGraph[2]

\* Chunk c of node k is done: all are through with the node, or it was handed out and
\* nobody holds it any more.
HandedOut(k, c) ==
    \/ \A u \in Crew : Done(u, k)
    \/ /\ \A u \in Crew : Past(u, 8 * k + 3)
       /\ c < chunk
       /\ \A u \in Crew : ~(InChunks(u, k) /\ Held(u) = c)

\* Which items of node k are done follows from where the threads are.
MadeAt(k) ==
    /\ graph[k] = "op"  => \A u \in Crew : <<k, "all", u>> \in made <=> Begun(u, k)
    /\ graph[k] = "mul" => \A u \in Crew : <<k, "conv", u>> \in made <=> Begun(u, k)
    /\ graph[k] = "mul" =>
           \A c \in 0..NChunks(nGraph[2]) - 1 : <<k, "mul", c>> \in made <=> HandedOut(k, c)

MadeOK == Computing =>
    /\ made \subseteq ItemsBefore(graph, Len(graph) + 1, nGraph[2])
    /\ \A k \in 1..Len(graph) : MadeAt(k)

Control  == PoolTypes /\ Roles /\ News /\ Stale /\ Outside /\ CrewInv(Crew)
Geometry == Aborts /\ Places /\ Together /\ Holding /\ SetDone /\ MadeOK
PoolInv  == Control /\ Geometry

-----------------------------------------------------------------------------
(* Facts about the crew, the graph and the places.                         *)

\* The crew is an initial part of the threads, and has the caller in it.
LEMMA CrewFacts ==
    ASSUME PoolTypes, Roles
    PROVE  /\ NThreads \in Nat \ {0} /\ Threads = 0..NThreads - 1
           /\ 0 \in Threads /\ Workers = Threads \ {0}
           /\ Crew \in SUBSET Threads
           /\ nGraph[2] \in 0..NThreads
           /\ Computing => /\ Crew = 0..nGraph[2] - 1 /\ nGraph[2] \in 1..NThreads
                           /\ 0 \in Crew /\ Cardinality(Crew) = nGraph[2]
           /\ ~Computing => Crew = {}
<1>1. NThreads \in Nat \ {0} /\ Threads = 0..NThreads - 1
  BY PoolAssumption
<1>2. nGraph[2] \in 0..NThreads
  BY DEF PoolTypes
<1>3. CASE Computing
  <2>1. nGraph[2] \in 1..NThreads /\ Crew = 0..nGraph[2] - 1
    BY <1>1, <1>2, <1>3 DEF Roles, Crew
  <2>2. Cardinality(0..nGraph[2] - 1) = nGraph[2]
    <3>1. 0 \in Int /\ nGraph[2] - 1 \in Int /\ nGraph[2] \in Nat \ {0}
      BY <2>1, <1>1
    <3> QED
      BY <3>1, FS_Interval
  <2> QED
    BY <1>1, <1>2, <1>3, <2>1, <2>2 DEF Workers
<1>4. CASE ~Computing
  BY <1>1, <1>2, <1>4 DEF Crew, Workers
<1> QED
  BY <1>3, <1>4

\* The graph is a sequence of nodes of the three kinds.
LEMMA GraphFacts ==
    ASSUME PoolTypes
    PROVE  /\ graph \in Seq({"nop", "op", "mul"}) /\ Len(graph) \in Nat
           /\ \A k \in 1..Len(graph) : graph[k] \in {"nop", "op", "mul"}
<1> DEFINE Kinds == {"nop", "op", "mul"}
<1>1. graph \in Seq(Kinds)
  <2> HIDE DEF Kinds
  <2>1. <<>> \in Seq(Kinds)
    OBVIOUS
  <2>2. Graphs \subseteq Seq(Kinds)
    BY GraphsAssumption DEF Kinds
  <2> QED
    BY <2>1, <2>2 DEF PoolTypes
<1> QED
  BY <1>1

\* Where the threads of the crew are, as numbers.
LEMMA PosFacts ==
    ASSUME PoolTypes, Roles, NEW t \in Threads
    PROVE  /\ EndNode \in Nat \ {0}
           /\ Pos(t) \in Nat
           /\ AtWork(t) => Pos(t) = 8 * node[t] + StageNo(pc[t])
           /\ Fresh(t) \/ pc[t] \in {"signal", "enter"} => Pos(t) = 0
           /\ ~Fresh(t) /\ pc[t] \notin InGraph \cup {"signal"} => Pos(t) = 8 * EndNode + 1
           /\ node[t] \in Nat \ {0} /\ StageNo(pc[t]) \in 0..6
<1>1. EndNode \in Nat \ {0}
  BY GraphFacts DEF PoolTypes, EndNode
<1>2. node[t] \in Nat \ {0}
  BY DEF PoolTypes
<1>3. StageNo(pc[t]) \in 0..6
  BY DEF StageNo
<1> QED
  BY <1>1, <1>2, <1>3 DEF Pos, AtWork, Inside, InGraph, Barriers

\* What a barrier's place can be.
LEMMA LocFacts ==
    ASSUME PoolTypes, EndNode \in Nat, NEW L \in Locs
    PROVE  /\ L \in Nat
           /\ \/ \E k \in 1..Len(graph) : k < EndNode /\ graph[k] = "mul" /\ L = 8 * k + 3
              \/ \E k \in 1..Len(graph) :
                     k < Len(graph) /\ k < EndNode /\ graph[k] # "nop" /\ L = 8 * k + 6
              \/ L = 8 * EndNode
<1>1. Len(graph) \in Nat
  BY GraphFacts
<1>2. CASE \E k \in {j \in 1..Len(graph) : j < EndNode /\ graph[j] = "mul"} : L = 8 * k + 3
  BY <1>1, <1>2
<1>3. CASE \E k \in {j \in 1..Len(graph) : j < Len(graph) /\ j < EndNode /\ graph[j] # "nop"} :
             L = 8 * k + 6
  BY <1>1, <1>3
<1>4. CASE L = 8 * EndNode
  BY <1>4
<1> QED
  BY <1>2, <1>3, <1>4 DEF Locs

\* The barrier after a node that has work, and the one inside a product.
LEMMA LocAfter ==
    ASSUME PoolTypes, NEW k \in 1..Len(graph), k < EndNode, EndNode \in Nat
    PROVE  /\ graph[k] = "mul" => 8 * k + 3 \in Locs
           /\ graph[k] # "nop" /\ k < Len(graph) => 8 * k + 6 \in Locs
  BY GraphFacts DEF Locs

\* The last barrier is at the node where the threads leave the graph.
LEMMA LocLast == 8 * EndNode \in Locs
  BY DEF Locs

-----------------------------------------------------------------------------
(* Steps that leave the places of the crew alone.                          *)

\* No thread passes a barrier.
LEMMA TogetherKept ==
    ASSUME PoolInv, Crew' = Crew,
           \A L \in Locs' : \/ L \in Locs /\ \A u \in Crew : Past(u, L)' <=> Past(u, L)
                            \/ \A u \in Crew : ~Past(u, L)'
    PROVE  Together'
  BY DEF PoolInv, Geometry, Together

\* No thread gets a chunk or gives one up.
LEMMA HoldingKept ==
    ASSUME PoolInv, Crew' = Crew, nGraph' = nGraph, graph' = graph, chunk' = chunk,
           \A u \in Crew : \A k \in 1..Len(graph) :
               /\ InChunks(u, k)' <=> InChunks(u, k)
               /\ InChunks(u, k) => Held(u)' = Held(u)
    PROVE  Holding'
  BY DEF PoolInv, Geometry, Holding, NChunks

\* No item is done, and no thread passes a point that says that one is.
LEMMA MadeKept ==
    ASSUME PoolInv, Crew' = Crew, Computing' = Computing,
           nGraph' = nGraph, graph' = graph, chunk' = chunk, made' = made,
           \A u \in Crew : \A k \in 1..Len(graph) :
               /\ graph[k] # "nop" => (Begun(u, k)' <=> Begun(u, k))
               /\ graph[k] = "mul" => (Done(u, k)' <=> Done(u, k))
               /\ graph[k] = "mul" => (Past(u, 8 * k + 3)' <=> Past(u, 8 * k + 3))
               /\ InChunks(u, k)' <=> InChunks(u, k)
               /\ InChunks(u, k) => Held(u)' = Held(u)
    PROVE  MadeOK'
<1> SUFFICES ASSUME Computing PROVE MadeOK'
  BY DEF MadeOK
<1>1. (made \subseteq ItemsBefore(graph, Len(graph) + 1, nGraph[2]))'
  <2>1. made \subseteq ItemsBefore(graph, Len(graph) + 1, nGraph[2])
    BY DEF PoolInv, Geometry, MadeOK
  <2> QED
    BY <2>1
<1>2. ASSUME NEW k \in 1..Len(graph) PROVE MadeAt(k)'
  <2>1. MadeAt(k)
    BY DEF PoolInv, Geometry, MadeOK
  <2>2. ASSUME graph[k] = "mul", NEW c PROVE HandedOut(k, c)' <=> HandedOut(k, c)
    BY <2>2 DEF HandedOut
  <2> QED
    BY <2>1, <2>2 DEF MadeAt, NChunks
<1> QED
  BY <1>1, <1>2 DEF MadeOK

\* A special case: no thread of the crew moves at all.
LEMMA NobodyMoves ==
    ASSUME PoolInv, Crew' = Crew, Computing' = Computing,
           nGraph' = nGraph, graph' = graph, abort' = abort, chunk' = chunk, made' = made,
           mychunk' = mychunk, barVars' = barVars,
           \A u \in Crew : Pos(u)' = Pos(u)
    PROVE  Together' /\ Holding' /\ MadeOK'
<1>1. Locs' = Locs
  BY DEF Locs, EndNode
<1>2. \A u \in Crew : Released(u)' <=> Released(u)
  BY DEF Released, barVars
<1>3. \A u \in Crew : Held(u)' = Held(u)
  BY DEF Held, barVars
<1>4. ASSUME NEW u \in Crew, NEW L PROVE Past(u, L)' <=> Past(u, L)
  BY <1>2 DEF Past
<1>5. ASSUME NEW u \in Crew, NEW k
      PROVE  /\ Begun(u, k)' <=> Begun(u, k)
             /\ Done(u, k)' <=> Done(u, k)
             /\ InChunks(u, k)' <=> InChunks(u, k)
  BY <1>2 DEF Begun, Done, InChunks
<1>6. Together'
  BY <1>1, <1>4, TogetherKept
<1>7. Holding'
  BY <1>3, <1>5, HoldingKept
<1>8. MadeOK'
  BY <1>3, <1>4, <1>5, MadeKept
<1> QED
  BY <1>6, <1>7, <1>8

-----------------------------------------------------------------------------
(* Steps outside the graph.                                                *)

\* A step in which no thread of the crew begins a node or ends a product.
SameStages ==
    /\ Crew' = Crew
    /\ Crew # {} => graph' = graph
    /\ \A u \in Crew, j \in 1..Len(graph) :
           /\ graph[j] # "nop" => (Begun(u, j)' <=> Begun(u, j))
           /\ graph[j] = "mul" => (Done(u, j)' <=> Done(u, j))

\* A step in which t alone of the crew gets on, and is done with its slice of node k, or
\* with the chunks of it.
Finishes(t) ==
    /\ Crew' = Crew /\ t \in Crew /\ graph' = graph
    /\ \A u \in Crew \ {t} : Pos(u)' = Pos(u)
    /\ \E k \in 1..Len(graph) :
           \/ graph[k] = "op" /\ Pos(t) = 8 * k + 1 /\ Pos(t)' = 8 * k + 5
           \/ graph[k] = "mul" /\ Pos(t) = 8 * k + 1 /\ Pos(t)' \in {8 * k + 2, 8 * k + 3}
           \/ graph[k] = "mul" /\ Pos(t) = 8 * k + 4 /\ Pos(t)' = 8 * k + 5

\* What the barrier needs from a step that does not touch it.
LEMMA BarrierKept ==
    ASSUME PoolInv, Crew' = Crew, barVars' = barVars
    PROVE  CrewInv(Crew)'
  BY DEF PoolInv, Control, CrewInv, Types, CountsSeen, OpenerAlone, CounterCounts, Waiting, barVars

\* Only the flags of the pool and the set of sleepers change.
LEMMA FlagsKeep ==
    ASSUME PoolInv, PoolTypes', UNCHANGED <<nGraph, want, waitVars, graphVars, localVars, pc, made, barVars>>
    PROVE  PoolInv' /\ SameStages
<1> USE DEF waitVars, graphVars, localVars
<1>1. Computing' = Computing /\ Crew' = Crew
  BY DEF Computing, Crew
<1>2. \A t : (Fresh(t)' <=> Fresh(t)) /\ (Released(t)' <=> Released(t))
  BY DEF Fresh, Released, barVars
<1>3. \A t : (AtWork(t)' <=> AtWork(t)) /\ Pos(t)' = Pos(t)
  BY <1>1, <1>2 DEF AtWork, Pos, EndNode
<1>4. Together' /\ Holding' /\ MadeOK'
  BY <1>1, <1>3, NobodyMoves
<1>5. CrewInv(Crew)'
  BY <1>1, BarrierKept
<1>6. Roles' /\ News' /\ Aborts' /\ SetDone'
  BY <1>1, <1>2 DEF PoolInv, Control, Geometry, Roles, News, Aborts, SetDone
<1>7. Stale' /\ Outside'
  BY <1>1, <1>2 DEF PoolInv, Control, Stale, Outside, barVars
<1>8. Places'
  <2>1. \A t : Place(t) => Place(t)'
    BY DEF Place, EndNode
  <2> QED
    BY <1>3, <2>1 DEF PoolInv, Geometry, Places
<1>9. SameStages
  <2>1. Crew \subseteq Threads
    BY CrewFacts DEF PoolInv, Control
  <2> QED
    BY <1>1, <1>3, <2>1 DEF SameStages, Begun, Done
<1> QED
  BY <1>4, <1>5, <1>6, <1>7, <1>8, <1>9 DEF PoolInv, Control, Geometry

\* A worker that waits for a graph moves on, or begins the current one.
LEMMA WaitingMoves ==
    ASSUME PoolInv, PoolTypes', News', NEW w \in Workers, NEW s \in (WorkerPcs \ Inside),
           pc[w] \notin InGraph \cup {"none"}, pc' = [pc EXCEPT ![w] = s], s # "none",
           UNCHANGED <<nGraph, want, graphVars, localVars, made, barVars>>,
           \A t \in Threads \ {w} : last'[t] = last[t] /\ pending'[t] = pending[t],
           s = "enter" => w \in Crew /\ ~Fresh(w)',
           w \in Crew => Pos(w)' = Pos(w)
    PROVE  PoolInv' /\ SameStages
<1> USE DEF graphVars, localVars
<1>1. 0 \in Threads /\ Workers = Threads \ {0} /\ Crew \in SUBSET Threads
  BY CrewFacts DEF PoolInv, Control
<1>2. pc'[0] = pc[0] /\ (\A t \in Threads \ {w} : pc'[t] = pc[t]) /\ pc'[w] = s
  BY <1>1 DEF PoolInv, Control, PoolTypes
<1>3. Computing' = Computing /\ Crew' = Crew
  BY <1>2 DEF Computing, Crew
<1>4. /\ \A t \in Threads \ {w} : Fresh(t)' <=> Fresh(t)
      /\ \A t : Released(t)' <=> Released(t)
  BY DEF Fresh, Released, barVars
<1>5. \A t \in Threads \ {w} : (AtWork(t)' <=> AtWork(t)) /\ Pos(t)' = Pos(t)
  BY <1>2, <1>3, <1>4 DEF AtWork, Pos, EndNode
<1>6. ~AtWork(w)'
  BY <1>2 DEF AtWork
<1>7. Together' /\ Holding' /\ MadeOK'
  BY <1>1, <1>3, <1>5, NobodyMoves
<1>8. CrewInv(Crew)'
  BY <1>3, BarrierKept
<1>9. Roles'
  <2>1. s \in WorkerPcs /\ pc[0] # "none"
    BY DEF PoolInv, Control, Roles, InGraph
  <2> QED
    BY <1>1, <1>2, <1>3, <2>1 DEF PoolInv, Control, Roles
<1>10. Aborts' /\ SetDone'
  BY <1>2, <1>3, <1>4 DEF PoolInv, Geometry, Aborts, SetDone
<1>11. Stale'
  <2>1. s \in InGraph => s = "enter"
    BY DEF Inside
  <2>2. ASSUME NEW t \in Threads \ {w}, (pc[t] \in InGraph /\ (t \notin Crew \/ Fresh(t)))'
        PROVE  (pc[t] = "lastBarrier" /\ Released(t))'
    BY <1>2, <1>3, <1>4, <2>2 DEF PoolInv, Control, Stale
  <2>3. ~(pc[w] \in InGraph /\ (w \notin Crew \/ Fresh(w)))'
    BY <1>2, <1>3, <2>1
  <2> QED
    BY <2>2, <2>3 DEF Stale
<1>12. Outside'
  BY <1>2 DEF PoolInv, Control, Outside, InGraph, barVars
<1>13. Places'
  <2>1. \A t \in Threads \ {w} : Place(t) => Place(t)'
    BY <1>2 DEF Place, EndNode
  <2> QED
    BY <1>5, <1>6, <2>1 DEF PoolInv, Geometry, Places
<1>14. SameStages
  <2>1. \A u \in Crew : Pos(u)' = Pos(u)
    BY <1>1, <1>5
  <2> QED
    BY <1>3, <2>1 DEF SameStages, Begun, Done
<1> QED
  BY <1>7, <1>8, <1>9, <1>10, <1>11, <1>12, <1>13, <1>14 DEF PoolInv, Control, Geometry

\* ggml_graph_compute_secondary_thread, the steps that read a flag.
LEMMA FlagReadsKeep ==
    ASSUME PoolInv, NEW w \in Workers, Top(w) \/ PauseWait(w) \/ StopTest(w) \/ PollFlags(w)
    PROVE  PoolInv' /\ SameStages
<1>1. /\ w \in Threads /\ pc \in [Threads -> PcValues] /\ w # 0
  BY CrewFacts DEF PoolInv, Control, PoolTypes
<1>2. PICK s \in {"top", "pauseLock", "stopTest", "poll", "pollGraph", "workLock", "exited"} :
          pc' = [pc EXCEPT ![w] = s]
  BY DEF Top, PauseWait, StopTest, PollFlags, GoTo
<1>3. /\ pc[w] \in {"top", "pauseLock", "stopTest", "poll"}
      /\ UNCHANGED <<nGraph, want, waitVars, graphVars, localVars, made, barVars>>
      /\ locked' = locked /\ stop' = stop /\ pause' = pause
      /\ asleep' = asleep \/ asleep' = asleep \cup {w}
  BY DEF Top, PauseWait, StopTest, PollFlags, At, poolVars
<1>4. PoolTypes'
  BY <1>1, <1>2, <1>3
     DEF PoolInv, Control, PoolTypes, PcValues, waitVars, graphVars, localVars
<1>5. 0 \in Threads /\ Workers = Threads \ {0} /\ pc'[0] = pc[0]
  BY <1>1, <1>2, CrewFacts DEF PoolInv, Control
<1>6. Computing' = Computing /\ Crew' = Crew
  BY <1>3, <1>5 DEF Computing, Crew
<1>7. ~pending[w]
  BY <1>3 DEF PoolInv, Control, News
<1>8. News'
  BY <1>1, <1>2, <1>3, <1>6, <1>7 DEF PoolInv, Control, News, waitVars
<1>9. Pos(w)' = Pos(w)
  BY <1>1, <1>2, <1>3 DEF Pos, Fresh, EndNode, waitVars, graphVars, InGraph, Barriers
<1>10. pc[w] \notin InGraph \cup {"none"} /\ s \in WorkerPcs \ Inside /\ s \notin {"enter", "none"}
  BY <1>2, <1>3 DEF WorkerPcs, Inside, InGraph, Barriers
<1> QED
  BY <1>1, <1>2, <1>3, <1>4, <1>8, <1>9, <1>10, WaitingMoves DEF waitVars

\* A worker learns of a new graph: work for the crew, news for the others.
LEMMA SeeKeeps ==
    ASSUME PoolInv, NEW w \in Workers, SeeGraph(w), nGraph # last[w],
           NEW s \in {"take", "workLock"}, pc' = [pc EXCEPT ![w] = s],
           pc[w] \in {"pollGraph", "workLock"}, w < nGraph[2] => s = "take",
           UNCHANGED <<poolVars, graphVars, localVars, made, barVars>>
    PROVE  PoolInv' /\ SameStages
<1>1. /\ w \in Threads /\ w # 0 /\ 0 \in Threads /\ Workers = Threads \ {0}
      /\ Threads = 0..NThreads - 1 /\ NThreads \in Nat /\ nGraph[2] \in 0..NThreads
  BY CrewFacts DEF PoolInv, Control
<1>2. PoolTypes
  BY DEF PoolInv, Control
<1>3. /\ last' = [last EXCEPT ![w] = nGraph] /\ pending' = [pending EXCEPT ![w] = w < nGraph[2]]
      /\ UNCHANGED <<nGraph, want>>
  BY DEF SeeGraph, poolVars
<1>4. PoolTypes'
  <2>1. pending' \in [Threads -> BOOLEAN]
    <3>1. pending \in [Threads -> BOOLEAN] /\ (w < nGraph[2]) \in BOOLEAN
      BY <1>2 DEF PoolTypes
    <3> QED
      BY <1>3, <3>1
  <2> QED
    BY <1>1, <1>2, <1>3, <2>1 DEF PoolTypes, PcValues, poolVars, graphVars, localVars
<1>5. pc'[0] = pc[0] /\ pc'[w] = s
  BY <1>1, <1>2 DEF PoolTypes
<1>6. Computing' = Computing /\ Crew' = Crew
  BY <1>3, <1>5 DEF Computing, Crew
<1>7. w < nGraph[2] => Computing /\ w \in Crew
  <2>1. w < nGraph[2] => Computing
    BY DEF PoolInv, Control, News
  <2>2. Computing => Crew = 0..nGraph[2] - 1
    BY CrewFacts DEF PoolInv, Control
  <2> QED
    BY <1>1, <2>1, <2>2
<1>8. News'
  <2>1. \A v \in Workers \ {w} : last'[v] = last[v] /\ pending'[v] = pending[v] /\ pc'[v] = pc[v]
    BY <1>1, <1>2, <1>3 DEF PoolTypes
  <2>2. last'[w] = nGraph /\ nGraph' = nGraph /\ nGraph[1] \in Nat
    BY <1>1, <1>2, <1>3 DEF PoolTypes
  <2>3. pending'[w] => w < nGraph[2]
    BY <1>1, <1>2, <1>3 DEF PoolTypes
  <2>4. ASSUME NEW v \in Workers \ {w}
        PROVE  (/\ last[v][1] <= nGraph[1]
                /\ pending[v] => pc[v] = "take" /\ last[v] = nGraph /\ v \in Crew
                /\ ~Computing /\ v < nGraph[2] => last[v] = nGraph)'
    BY <1>6, <2>1, <2>2 DEF PoolInv, Control, News
  <2>5. (/\ last[w][1] <= nGraph[1]
         /\ pending[w] => pc[w] = "take" /\ last[w] = nGraph /\ w \in Crew
         /\ ~Computing /\ w < nGraph[2] => last[w] = nGraph)'
    BY <1>5, <1>6, <1>7, <2>2, <2>3
  <2> QED
    BY <2>4, <2>5 DEF News
<1>9. w \in Crew => w < nGraph[2]
  BY <1>1, CrewFacts DEF PoolInv, Control
<1>10. w \in Crew => Pos(w)' = Pos(w)
  BY <1>1, <1>2, <1>3, <1>9 DEF Pos, Fresh, PoolTypes
<1>11. /\ pc[w] \notin InGraph \cup {"none"} /\ s \in WorkerPcs \ Inside
       /\ s \notin {"enter", "none"}
  BY DEF WorkerPcs, Inside, InGraph, Barriers
<1>12. \A v \in Threads \ {w} : last'[v] = last[v] /\ pending'[v] = pending[v]
  BY <1>1, <1>2, <1>3 DEF PoolTypes
<1> QED
  BY <1>3, <1>4, <1>8, <1>10, <1>11, <1>12, WaitingMoves

\* The poll of n_graph, and the wait on the condition variable.
LEMMA PollsKeep ==
    ASSUME PoolInv, NEW w \in Workers, PollGraph(w) \/ WorkWait(w)
    PROVE  PoolInv' /\ SameStages
<1>1. /\ w \in Threads /\ w # 0 /\ 0 \in Threads /\ Workers = Threads \ {0} /\ PoolTypes
  BY CrewFacts DEF PoolInv, Control
<1>2. ASSUME NEW s \in {"take", "workLock", "poll"}, pc' = [pc EXCEPT ![w] = s],
             pc[w] \in {"pollGraph", "workLock"},
             UNCHANGED <<poolVars, waitVars, graphVars, localVars, made, barVars>>
      PROVE  PoolInv' /\ SameStages
  <2>1. PoolTypes'
    BY <1>1, <1>2 DEF PoolTypes, PcValues, poolVars, waitVars, graphVars, localVars
  <2>2. pc'[0] = pc[0]
    BY <1>1, <1>2 DEF PoolTypes
  <2>3. Computing' = Computing /\ Crew' = Crew
    BY <1>2, <2>2 DEF Computing, Crew, poolVars
  <2>4. ~pending[w]
    BY <1>2 DEF PoolInv, Control, News
  <2>5. News'
    BY <1>1, <1>2, <2>3, <2>4 DEF PoolInv, Control, News, PoolTypes, waitVars, poolVars
  <2>6. Pos(w)' = Pos(w)
    BY <1>1, <1>2
       DEF PoolTypes, Pos, Fresh, EndNode, poolVars, waitVars, graphVars, InGraph, Barriers
  <2>7. /\ pc[w] \notin InGraph \cup {"none"} /\ s \in WorkerPcs \ Inside
        /\ s \notin {"enter", "none"}
    BY <1>2 DEF WorkerPcs, Inside, InGraph, Barriers
  <2> QED
    BY <1>2, <2>1, <2>5, <2>6, <2>7, WaitingMoves DEF waitVars, poolVars
<1>3. CASE PollGraph(w)
  <2>1. pc[w] = "pollGraph" /\ UNCHANGED <<poolVars, graphVars, localVars, made, barVars>>
    BY <1>3 DEF PollGraph, At
  <2>2. CASE nGraph # last[w]
    BY <1>3, <2>1, <2>2, SeeKeeps DEF PollGraph, GoTo
  <2>3. CASE nGraph = last[w]
    BY <1>2, <1>3, <2>1, <2>3 DEF PollGraph, GoTo
  <2> QED
    BY <2>2, <2>3
<1>4. CASE WorkWait(w)
  <2>1. /\ pc[w] = "workLock"
        /\ UNCHANGED <<locked, stop, pause, nGraph, want, graphVars, localVars, made, barVars>>
    BY <1>4 DEF WorkWait, At
  <2>2. CASE stop \/ pause
    BY <1>2, <1>4, <2>1, <2>2 DEF WorkWait, GoTo, poolVars
  <2>3. CASE ~stop /\ ~pause /\ nGraph # last[w]
    BY <1>4, <2>1, <2>3, SeeKeeps DEF WorkWait, GoTo, poolVars
  <2>4. CASE ~stop /\ ~pause /\ nGraph = last[w]
    <3>1. asleep' = asleep \cup {w} /\ UNCHANGED <<pc, waitVars>>
      BY <1>4, <2>4 DEF WorkWait
    <3>2. PoolTypes'
      BY <1>1, <2>1, <3>1 DEF PoolTypes, waitVars, graphVars, localVars
    <3> QED
      BY <2>1, <3>1, <3>2, FlagsKeep
  <2> QED
    BY <2>2, <2>3, <2>4
<1> QED
  BY <1>3, <1>4

\* A worker with a graph pending begins it, another goes back to the top.
LEMMA TakeKeeps ==
    ASSUME PoolInv, NEW w \in Workers, Take(w)
    PROVE  PoolInv' /\ SameStages
<1>1. /\ w \in Threads /\ w # 0 /\ 0 \in Threads /\ Workers = Threads \ {0} /\ PoolTypes
  BY CrewFacts DEF PoolInv, Control
<1> DEFINE s == IF pending[w] THEN "enter" ELSE "top"
<1>2. /\ pc[w] = "take" /\ pc' = [pc EXCEPT ![w] = s] /\ pending' = [pending EXCEPT ![w] = FALSE]
      /\ UNCHANGED <<poolVars, last, graphVars, localVars, made, barVars>>
  BY DEF Take, At, GoTo
<1>3. s \in WorkerPcs \ Inside /\ s # "none" /\ s \in PcValues /\ (s = "enter" => pending[w])
  <2>1. s \in {"enter", "top"} /\ (s = "enter" => pending[w])
    OBVIOUS
  <2> QED
    BY <2>1 DEF WorkerPcs, Inside, InGraph, PcValues, Barriers
<1> HIDE DEF s
<1>4. PoolTypes'
  BY <1>1, <1>2, <1>3 DEF PoolTypes, poolVars, graphVars, localVars
<1>5. pc'[0] = pc[0]
  BY <1>1, <1>2 DEF PoolTypes
<1>6. Computing' = Computing /\ Crew' = Crew
  BY <1>2, <1>5 DEF Computing, Crew, poolVars
<1>7. pending[w] => last[w] = nGraph /\ w \in Crew
  BY DEF PoolInv, Control, News
<1>8. /\ \A v \in Threads \ {w} : last'[v] = last[v] /\ pending'[v] = pending[v] /\ pc'[v] = pc[v]
      /\ ~pending'[w] /\ last'[w] = last[w]
  BY <1>1, <1>2 DEF PoolTypes
<1>9. News'
  BY <1>1, <1>2, <1>6, <1>8 DEF PoolInv, Control, News, poolVars
<1>10. Fresh(w)' <=> last[w] # nGraph
  BY <1>1, <1>2, <1>8 DEF Fresh, poolVars
<1>11. s = "enter" => w \in Crew /\ ~Fresh(w)'
  BY <1>3, <1>7, <1>10
<1>12. Pos(w)' = Pos(w)
  <2>1. pc'[w] = s
    BY <1>1, <1>2 DEF PoolTypes
  <2>2. CASE pending[w]
    <3>1. Pos(w) = 0
      BY <1>1, <2>2 DEF Pos, Fresh
    <3>2. Pos(w)' = 0
      BY <2>1, <2>2 DEF Pos, s
    <3> QED
      BY <3>1, <3>2
  <2>3. CASE ~pending[w]
    <3>1. Fresh(w)' <=> Fresh(w)
      BY <1>1, <1>10, <2>3 DEF Fresh
    <3>2. s = "top"
      BY <2>3 DEF s
    <3> QED
      BY <1>2, <2>1, <3>1, <3>2 DEF Pos, EndNode, graphVars, InGraph, Barriers
  <2> QED
    BY <2>2, <2>3
<1>13. pc[w] \notin InGraph \cup {"none"}
  BY <1>2 DEF InGraph, Barriers
<1> QED
  BY <1>2, <1>3, <1>4, <1>8, <1>9, <1>11, <1>12, <1>13, WaitingMoves DEF poolVars

-----------------------------------------------------------------------------
(* The caller's steps between graphs.                                      *)

\* With nobody in the barrier but threads it has let out, any crew may come next.
LEMMA QuietBarrier ==
    ASSUME PoolInv, barVars' = barVars, NEW C,
           \A t \in Threads : bar[t] = "out" \/ Released(t)
    PROVE  CrewInv(C)'
<1>1. /\ Types /\ CounterCounts
      /\ \A t \in Threads : bar[t] \in {"out", "spin"} /\ (bar[t] = "spin" => seen[t] < nPassed)
      /\ \A t \in Threads : seen[t] \in Int /\ nPassed \in Int
  BY DEF PoolInv, Control, CrewInv, Released, Types
<1>2. Waiting = {}
  BY <1>1 DEF Waiting
<1>3. Types' /\ CountsSeen(C)' /\ OpenerAlone(C)'
  BY <1>1 DEF Types, CountsSeen, OpenerAlone, barVars
<1>4. CounterCounts'
  BY <1>1, <1>2 DEF CounterCounts, Waiting, barVars
<1> QED
  BY <1>3, <1>4 DEF CrewInv

\* Between graphs every thread is outside the barrier or let out of it.
LEMMA IdleIsQuiet ==
    ASSUME PoolInv, ~Computing
    PROVE  /\ Crew = {}
           /\ \A t \in Threads : pc[t] \in InGraph => pc[t] = "lastBarrier" /\ Released(t)
           /\ \A t \in Threads : bar[t] = "out" \/ Released(t)
           /\ \A w \in Workers : ~pending[w]
<1>1. Crew = {}
  BY DEF Crew
<1> QED
  BY <1>1 DEF PoolInv, Control, Stale, News, Outside, Barriers, InGraph

\* With no crew there is nothing to say of places.
LEMMA NoCrew ==
    ASSUME Crew' = {}, ~Computing', pc'[0] # "mulBarrier"
    PROVE  Geometry'
  BY DEF Geometry, Aborts, Places, AtWork, Together, Holding, SetDone, MadeOK

\* The caller moves from one point outside a graph to another.
LEMMA IdleMoves ==
    ASSUME PoolInv, PoolTypes', pc[0] \in {"idle", "stopping", "join"},
           NEW s \in {"idle", "kick", "stopping", "join", "freed"}, pc' = [pc EXCEPT ![0] = s],
           UNCHANGED <<nGraph, waitVars, localVars, barVars>>,
           s = "kick" => /\ want' >= 1 /\ nGraph[1] < MaxGraphs
                         /\ made' = {} /\ abort' = 0 /\ ec' = "success"
    PROVE  PoolInv' /\ SameStages
<1>1. 0 \in Threads /\ Workers = Threads \ {0} /\ PoolTypes
  BY CrewFacts DEF PoolInv, Control
<1>2. pc'[0] = s /\ \A w \in Workers : pc'[w] = pc[w]
  BY <1>1 DEF PoolTypes
<1>3. ~Computing /\ ~Computing' /\ Crew = {} /\ Crew' = {}
  BY <1>2 DEF Computing, InGraph, Barriers, Crew
<1>4. CrewInv(Crew)'
  BY <1>3, IdleIsQuiet, QuietBarrier
<1>5. Roles'
  BY <1>1, <1>2, <1>3 DEF PoolInv, Control, Roles, CallerPcs
<1>6. News'
  BY <1>1, <1>2, <1>3 DEF PoolInv, Control, News, waitVars
<1>7. Stale' /\ Outside'
  <2>1. \A t : Released(t)' <=> Released(t)
    BY DEF Released, barVars
  <2>2. s \notin InGraph /\ pc[0] \notin Barriers /\ Barriers \subseteq InGraph
    BY DEF InGraph, Barriers
  <2> QED
    BY <1>1, <1>2, <1>3, <2>1, <2>2, IdleIsQuiet DEF PoolInv, Control, Stale, Outside, barVars
<1>8. Geometry'
  BY <1>2, <1>3, NoCrew
<1>9. SameStages
  BY <1>3 DEF SameStages
<1> QED
  BY <1>4, <1>5, <1>6, <1>7, <1>8, <1>9 DEF PoolInv, Control

\* ggml_threadpool_new starts the workers.
LEMMA NewKeeps ==
    ASSUME PoolInv, NEW p \in BOOLEAN, New(p)
    PROVE  PoolInv' /\ SameStages
<1>1. 0 \in Threads /\ Workers = Threads \ {0} /\ PoolTypes
  BY CrewFacts DEF PoolInv, Control
<1>2. /\ pc[0] = "none" /\ pc' = [t \in Threads |-> IF t = 0 THEN "idle" ELSE "top"] /\ pause' = p
      /\ UNCHANGED <<locked, asleep, stop, nGraph, want, waitVars, graphVars, localVars, made, barVars>>
  BY DEF New, At
<1>3. pc'[0] = "idle" /\ \A w \in Workers : pc'[w] = "top"
  BY <1>1, <1>2
<1>4. ~Computing /\ ~Computing' /\ Crew = {} /\ Crew' = {}
  BY <1>2, <1>3 DEF Computing, InGraph, Barriers, Crew
<1>5. PoolTypes'
  BY <1>1, <1>2 DEF PoolTypes, PcValues, waitVars, graphVars, localVars
<1>6. CrewInv(Crew)'
  BY <1>2, <1>4, IdleIsQuiet, QuietBarrier
<1>7. Roles'
  BY <1>3, <1>4 DEF Roles, CallerPcs, WorkerPcs
<1>8. News'
  BY <1>1, <1>2, <1>4 DEF PoolInv, Control, News, waitVars
<1>9. Stale' /\ Outside'
  <2>1. \A t \in Threads : pc'[t] \notin InGraph
    BY <1>1, <1>3 DEF InGraph, Barriers
  <2>2. \A t \in Threads : bar'[t] = "out"
    BY <1>1, <1>2 DEF PoolInv, Control, Outside, Roles, Barriers, barVars
  <2> QED
    BY <2>1, <2>2 DEF Stale, Outside
<1>10. Geometry'
  BY <1>3, <1>4, NoCrew
<1>11. SameStages
  BY <1>4 DEF SameStages
<1> QED
  BY <1>5, <1>6, <1>7, <1>8, <1>9, <1>10, <1>11 DEF PoolInv, Control

\* The flags the caller sets, and the graph it sets the pool up for.
LEMMA CallerKeeps ==
    ASSUME PoolInv,
           \/ \E p \in BOOLEAN : SetPause(p)
           \/ \E g \in Graphs, n \in 1..NThreads + 1 : Compute(g, n)
           \/ FreeStop \/ FreeSignal \/ Join
    PROVE  PoolInv' /\ SameStages
<1>1. /\ 0 \in Threads /\ Workers = Threads \ {0} /\ PoolTypes /\ NThreads \in Nat \ {0}
      /\ pc \in [Threads -> PcValues]
  BY CrewFacts DEF PoolInv, Control, PoolTypes
<1>2. ASSUME NEW p \in BOOLEAN, SetPause(p) PROVE PoolInv' /\ SameStages
  <2>1. PoolTypes'
    BY <1>1, <1>2 DEF SetPause, PoolTypes, waitVars, graphVars, localVars
  <2> QED
    BY <1>2, <2>1, FlagsKeep DEF SetPause
<1>3. ASSUME NEW g \in Graphs, NEW n \in 1..NThreads + 1, Compute(g, n) PROVE PoolInv' /\ SameStages
  <2>1. /\ pc[0] = "idle" /\ pc' = [pc EXCEPT ![0] = "kick"] /\ nGraph[1] < MaxGraphs
        /\ graph' = g /\ abort' = 0 /\ ec' = "success" /\ chunk' = 0 /\ made' = {}
        /\ want' = IF n > NThreads THEN NThreads ELSE n
        /\ UNCHANGED <<locked, asleep, stop, pause, nGraph, waitVars, localVars, barVars>>
    BY <1>3 DEF Compute, At, GoTo
  <2>2. want' \in 1..NThreads
    BY <1>1, <2>1
  <2>3. PoolTypes'
    BY <1>1, <2>1, <2>2 DEF PoolTypes, PcValues, waitVars, localVars
  <2> QED
    BY <2>1, <2>2, <2>3, IdleMoves
<1>4. ASSUME NEW s \in {"stopping", "join", "freed"}, pc' = [pc EXCEPT ![0] = s],
             pc[0] \in {"idle", "stopping", "join"},
             UNCHANGED <<nGraph, want, waitVars, graphVars, localVars, made, barVars>>,
             locked' \in BOOLEAN, stop' \in BOOLEAN, pause' \in BOOLEAN, asleep' \in {asleep, {}}
      PROVE  PoolInv' /\ SameStages
  <2>1. PoolTypes'
    BY <1>1, <1>4 DEF PoolTypes, PcValues, waitVars, graphVars, localVars
  <2> QED
    BY <1>4, <2>1, IdleMoves
<1>5. CASE FreeStop
  BY <1>1, <1>4, <1>5 DEF FreeStop, At, GoTo, PoolTypes
<1>6. CASE FreeSignal
  BY <1>1, <1>4, <1>6 DEF FreeSignal, At, GoTo, PoolTypes
<1>7. CASE Join
  BY <1>1, <1>4, <1>7 DEF Join, At, GoTo, PoolTypes, poolVars
<1> QED
  BY <1>2, <1>3, <1>5, <1>6, <1>7

\* The crew of a new graph has everything before it.
LEMMA AllAtStart ==
    ASSUME PoolTypes', EndNode' \in Nat \ {0}, 0 \in Crew', made' = {}, \A u \in Crew' : Pos(u)' = 0
    PROVE  Together' /\ Holding' /\ MadeOK'
<1>1. PICK g : g = graph'
  OBVIOUS
<1>2. g \in Graphs \cup {<<>>}
  BY <1>1 DEF PoolTypes
<1>3. Len(g) \in Nat
  BY <1>2, GraphsAssumption
<1>4. \A L \in Locs' : L \in Nat /\ L > 0
  BY <1>1, <1>3 DEF Locs
<1>5. Together'
  BY <1>4 DEF Together, Past
<1>6. \A u \in Crew', k \in 1..Len(g) :
          ~InChunks(u, k)' /\ ~Begun(u, k)' /\ ~Done(u, k)' /\ ~Past(u, 8 * k + 3)'
  BY <1>3 DEF InChunks, Begun, Done, Past
<1>7. Holding'
  BY <1>1, <1>6 DEF Holding
<1>8. MadeOK'
  <2>1. \A k \in 1..Len(g) : \A c : ~HandedOut(k, c)'
    BY <1>6 DEF HandedOut
  <2> QED
    BY <1>1, <1>6, <2>1 DEF MadeOK, MadeAt
<1> QED
  BY <1>5, <1>7, <1>8

\* ggml_graph_compute_kickoff publishes the graph: its first n threads are the crew.
LEMMA KickStoreKeeps ==
    ASSUME PoolInv, KickStore
    PROVE  PoolInv' /\ Crew = {} /\ Crew' # {} /\ \A u \in Crew' : Pos(u)' = 0
<1>1. /\ 0 \in Threads /\ Workers = Threads \ {0} /\ PoolTypes /\ Roles
      /\ NThreads \in Nat \ {0} /\ Threads = 0..NThreads - 1
  BY CrewFacts DEF PoolInv, Control
<1>2. /\ pc[0] = "kick" /\ bar[0] = "out" /\ pc' = [pc EXCEPT ![0] = "signal"]
      /\ nGraph' = <<nGraph[1] + 1, want>> /\ locked' = TRUE
      /\ UNCHANGED <<asleep, stop, pause, want, waitVars, graphVars, localVars, made, barVars>>
  BY DEF KickStore, At, GoTo
<1>3. ~Computing /\ Crew = {}
  BY <1>2 DEF Computing, InGraph, Barriers, Crew
<1>4. /\ want \in 1..NThreads /\ nGraph[1] \in 0..MaxGraphs - 1 /\ made = {} /\ abort = 0
      /\ ec = "success"
  BY <1>1, <1>2, BoundAssumption, SMTT(30) DEF Roles, PoolTypes
<1>5. nGraph' \in (0..MaxGraphs) \X (0..NThreads) /\ nGraph'[1] = nGraph[1] + 1 /\ nGraph'[2] = want
  BY <1>1, <1>2, <1>4, BoundAssumption
<1>6. PoolTypes'
  BY <1>1, <1>2, <1>5 DEF PoolTypes, PcValues, waitVars, graphVars, localVars
<1>7. pc'[0] = "signal" /\ \A w \in Workers : pc'[w] = pc[w] /\ last'[w] = last[w] /\ ~pending'[w]
  BY <1>1, <1>2, <1>3, IdleIsQuiet DEF PoolTypes, waitVars
<1>8. Computing' /\ Crew' = 0..want - 1 /\ 0 \in Crew'
  BY <1>4, <1>5, <1>7 DEF Computing, Crew
<1>9. \A w \in Workers : Fresh(w)'
  <2>1. \A w \in Workers : last[w][1] <= nGraph[1] /\ last[w][1] \in Int
    BY <1>1 DEF PoolInv, Control, News, PoolTypes
  <2>2. \A w \in Workers : last'[w][1] # nGraph'[1]
    BY <1>4, <1>5, <1>7, <2>1
  <2> QED
    BY <1>1, <2>2 DEF Fresh
<1>10. CrewInv(Crew)'
  BY <1>2, <1>3, IdleIsQuiet, QuietBarrier
<1>11. Roles'
  BY <1>1, <1>4, <1>5, <1>7 DEF Roles, CallerPcs
<1>12. News'
  <2>1. \A w \in Workers : last[w][1] <= nGraph[1] /\ last[w][1] \in Int
    BY <1>1 DEF PoolInv, Control, News, PoolTypes
  <2> QED
    BY <1>4, <1>5, <1>7, <1>8, <2>1 DEF News
<1>13. Stale' /\ Outside'
  <2>1. \A t : Released(t)' <=> Released(t)
    BY <1>2 DEF Released, barVars
  <2>2. pc'[0] \notin InGraph /\ pc[0] \notin Barriers
    BY <1>2, <1>7 DEF InGraph, Barriers
  <2> QED
    BY <1>1, <1>2, <1>3, <1>7, <2>1, <2>2, IdleIsQuiet
       DEF PoolInv, Control, Stale, Outside, barVars
<1>14. Aborts' /\ SetDone'
  <2>1. abort' = 0 /\ ec' = "success" /\ Len(graph') \in Nat
    BY <1>1, <1>2, <1>4, GraphFacts DEF graphVars
  <2> QED
    BY <1>7, <2>1 DEF Aborts, SetDone
<1>15. \A t \in Threads : ~AtWork(t)'
  BY <1>1, <1>7, <1>9 DEF AtWork, Inside, InGraph, Barriers
<1>16. Places'
  BY <1>15 DEF Places
<1>17. \A u \in Crew' : Pos(u)' = 0
  BY <1>1, <1>4, <1>7, <1>8, <1>9 DEF Pos
<1>18. EndNode' \in Nat \ {0}
  BY <1>1, <1>2, <1>4, GraphFacts DEF EndNode, graphVars
<1>19. Together' /\ Holding' /\ MadeOK'
  BY <1>2, <1>4, <1>6, <1>8, <1>17, <1>18, AllAtStart
<1> QED
  BY <1>3, <1>6, <1>8, <1>10, <1>11, <1>12, <1>13, <1>14, <1>16, <1>17, <1>19 DEF PoolInv, Control, Geometry

\* ... and wakes those that sleep.
LEMMA KickSignalKeeps ==
    ASSUME PoolInv, KickSignal
    PROVE  PoolInv' /\ SameStages
<1>1. 0 \in Threads /\ Workers = Threads \ {0} /\ PoolTypes
  BY CrewFacts DEF PoolInv, Control
<1>2. /\ pc[0] = "signal" /\ pc' = [pc EXCEPT ![0] = "enter"]
      /\ pause' = FALSE /\ asleep' = {} /\ locked' = FALSE
      /\ UNCHANGED <<stop, nGraph, want, waitVars, graphVars, localVars, made, barVars>>
  BY DEF KickSignal, At, GoTo
<1>3. pc'[0] = "enter" /\ \A w \in Workers : pc'[w] = pc[w]
  BY <1>1, <1>2 DEF PoolTypes
<1>4. Computing /\ Computing' /\ Crew' = Crew
  BY <1>2, <1>3 DEF Computing, InGraph, Crew
<1>5. \A t : (Fresh(t)' <=> Fresh(t)) /\ (Released(t)' <=> Released(t))
  BY <1>2 DEF Fresh, Released, waitVars, barVars
<1>6. PoolTypes'
  BY <1>1, <1>2 DEF PoolTypes, PcValues, InGraph, waitVars, graphVars, localVars
<1>7. \A t \in Threads : (AtWork(t)' <=> AtWork(t)) /\ Pos(t)' = Pos(t)
  <2>1. \A t \in Workers : (AtWork(t)' <=> AtWork(t)) /\ Pos(t)' = Pos(t)
    BY <1>2, <1>3, <1>4, <1>5 DEF AtWork, Pos, EndNode, graphVars, localVars
  <2>2. (AtWork(0)' <=> AtWork(0)) /\ Pos(0)' = Pos(0)
    BY <1>2, <1>3 DEF AtWork, Pos, Inside, InGraph, Barriers
  <2> QED
    BY <1>1, <2>1, <2>2
<1>8. Together' /\ Holding' /\ MadeOK'
  <2>1. Crew \subseteq Threads
    BY CrewFacts DEF PoolInv, Control
  <2> QED
    BY <1>2, <1>4, <1>7, <2>1, NobodyMoves DEF graphVars, localVars
<1>9. CrewInv(Crew)'
  BY <1>2, <1>4, BarrierKept
<1>10. Roles' /\ News'
  BY <1>2, <1>3, <1>4 DEF PoolInv, Control, Roles, News, CallerPcs, InGraph, waitVars
<1>11. Stale'
  <2>1. 0 \in Crew /\ ~Fresh(0)
    BY <1>4, CrewFacts DEF PoolInv, Control, Fresh
  <2> QED
    BY <1>1, <1>3, <1>4, <1>5, <2>1 DEF PoolInv, Control, Stale
<1>12. Outside'
  BY <1>1, <1>2, <1>3 DEF PoolInv, Control, Outside, Barriers, barVars
<1>13. Aborts' /\ SetDone'
  BY <1>2, <1>3, <1>4 DEF PoolInv, Geometry, Aborts, SetDone, graphVars
<1>14. Places'
  <2>1. \A t \in Workers : Place(t) => Place(t)'
    BY <1>2, <1>3 DEF Place, EndNode, graphVars, localVars
  <2>2. ~AtWork(0)'
    BY <1>3 DEF AtWork, Inside
  <2> QED
    BY <1>1, <1>7, <2>1, <2>2 DEF PoolInv, Geometry, Places
<1>15. SameStages
  BY <1>2, <1>4, <1>7, CrewFacts DEF SameStages, PoolInv, Control, Begun, Done, graphVars
<1> QED
  BY <1>6, <1>8, <1>9, <1>10, <1>11, <1>12, <1>13, <1>14, <1>15 DEF PoolInv, Control, Geometry

\* When the caller is through the last barrier, so is the crew, but for the end of the
\* spin loop.
LEMMA CallerThrough ==
    ASSUME PoolInv, pc[0] = "done"
    PROVE  /\ \A u \in Crew : ~Fresh(u) /\ Past(u, 8 * EndNode)
           /\ \A u \in Crew : pc[u] \in InGraph => pc[u] = "lastBarrier" /\ Released(u)
<1>1. /\ 0 \in Threads /\ Workers = Threads \ {0} /\ PoolTypes /\ Roles
      /\ 0 \in Crew /\ Crew \subseteq Threads
  BY CrewFacts DEF PoolInv, Control, Computing
<1>2. EndNode \in Nat \ {0}
  BY <1>1, PosFacts
<1>3. Pos(0) = 8 * EndNode + 1
  BY <1>1, PosFacts DEF Fresh, InGraph, Barriers
<1>4. \A u \in Crew : Past(u, 8 * EndNode)
  <2>1. Past(0, 8 * EndNode)
    BY <1>2, <1>3 DEF Past
  <2> QED
    BY <1>1, <2>1, LocLast DEF PoolInv, Geometry, Together
<1>5. ASSUME NEW u \in Crew
      PROVE  ~Fresh(u) /\ (pc[u] \in InGraph => pc[u] = "lastBarrier" /\ Released(u))
  <2>1. u \in Threads /\ Pos(u) \in Nat /\ Pos(u) >= 8 * EndNode
        /\ (Pos(u) = 8 * EndNode => Released(u))
    BY <1>1, <1>2, <1>4, PosFacts DEF Past
  <2>2. Pos(u) # 0
    BY <1>2, <2>1
  <2>3. ~Fresh(u) /\ pc[u] # "enter"
    BY <1>1, <2>1, <2>2, PosFacts
  <2>4. ASSUME pc[u] \in InGraph PROVE pc[u] = "lastBarrier" /\ Released(u)
    <3>1. AtWork(u)
      BY <2>3, <2>4 DEF AtWork, Inside
    <3>2. Place(u) /\ Pos(u) = 8 * node[u] + StageNo(pc[u]) /\ node[u] \in Nat /\ StageNo(pc[u]) \in 0..6
      BY <1>1, <2>1, <3>1, PosFacts DEF PoolInv, Geometry, Places
    <3>3. node[u] <= EndNode
      BY <3>2 DEF Place
    <3>4. node[u] = EndNode
      BY <1>2, <2>1, <3>2, <3>3
    <3>5. pc[u] \in {"node", "lastBarrier"}
      BY <1>2, <3>2, <3>4 DEF Place
    <3>6. Released(u)
      BY <2>1, <3>2, <3>4, <3>5 DEF StageNo
    <3>7. pc[u] \in Barriers
      BY <2>1, <3>6 DEF Released, PoolInv, Control, Outside
    <3> QED
      BY <3>5, <3>6, <3>7 DEF Barriers
  <2> QED
    BY <2>3, <2>4
<1> QED
  BY <1>4, <1>5

\* ggml_graph_compute returns.
LEMMA ReturnKeeps ==
    ASSUME PoolInv, ComputeReturns
    PROVE  PoolInv' /\ Crew # {} /\ Crew' = {}
<1>1. /\ 0 \in Threads /\ Workers = Threads \ {0} /\ PoolTypes /\ Roles
      /\ Crew \subseteq Threads
  BY CrewFacts DEF PoolInv, Control
<1>2. /\ pc[0] = "done" /\ pc' = [pc EXCEPT ![0] = "idle"] /\ graph' = <<>> /\ made' = {}
      /\ UNCHANGED <<poolVars, waitVars, abort, ec, chunk, localVars, barVars>>
  BY DEF ComputeReturns, At, GoTo
<1>3. pc'[0] = "idle" /\ \A w \in Workers : pc'[w] = pc[w]
  BY <1>1, <1>2 DEF PoolTypes
<1>4. Computing /\ Crew = 0..nGraph[2] - 1 /\ nGraph[2] \in Nat /\ ~Computing' /\ Crew' = {}
  BY <1>1, <1>2, <1>3, CrewFacts DEF Computing, InGraph, Barriers, Crew
<1>5. PoolTypes'
  BY <1>1, <1>2 DEF PoolTypes, PcValues, poolVars, waitVars, localVars
<1>6. \A t \in Threads : pc[t] \in InGraph => pc[t] = "lastBarrier" /\ Released(t)
  BY <1>1, <1>2, CallerThrough DEF PoolInv, Control, Stale
<1>7. \A t \in Threads : bar[t] = "out" \/ Released(t)
  BY <1>6 DEF PoolInv, Control, Outside, Barriers, InGraph
<1>8. CrewInv(Crew)'
  BY <1>2, <1>7, QuietBarrier
<1>9. Roles'
  BY <1>3, <1>4 DEF PoolInv, Control, Roles, CallerPcs
<1>10. News'
  <2>1. \A w \in Crew : ~Fresh(w)
    BY <1>2, CallerThrough
  <2>2. \A w \in Workers : w \in Nat /\ w # 0 /\ (pending[w] => w \in Crew)
    BY <1>1, PoolAssumption DEF PoolInv, Control, News
  <2>3. \A w \in Workers : ~pending[w] /\ (w < nGraph[2] => last[w] = nGraph)
    BY <1>4, <2>1, <2>2 DEF Fresh
  <2> QED
    BY <1>2, <1>3, <1>4, <2>3 DEF PoolInv, Control, News, waitVars, poolVars
<1>11. Stale' /\ Outside'
  <2>1. \A t : Released(t)' <=> Released(t)
    BY <1>2 DEF Released, barVars
  <2>2. pc'[0] \notin InGraph /\ pc[0] \notin Barriers
    BY <1>2, <1>3 DEF InGraph, Barriers
  <2> QED
    BY <1>1, <1>2, <1>3, <1>6, <2>1, <2>2 DEF PoolInv, Control, Stale, Outside, barVars
<1>12. Geometry'
  BY <1>3, <1>4, NoCrew
<1>13. Crew # {}
  BY <1>1, <1>4, CrewFacts
<1> QED
  BY <1>4, <1>5, <1>8, <1>9, <1>10, <1>11, <1>12, <1>13 DEF PoolInv, Control

-----------------------------------------------------------------------------
(* A thread in the graph.                                                  *)

\* A thread in a graph and out of the barrier is at work, or about to begin.
LEMMA InCrew ==
    ASSUME PoolInv, NEW t \in Threads, pc[t] \in InGraph, ~Released(t) \/ pc[t] # "lastBarrier"
    PROVE  /\ t \in Crew /\ ~Fresh(t) /\ (pc[t] # "enter" => AtWork(t))
           /\ Computing /\ 0 \in Crew /\ Crew = 0..nGraph[2] - 1 /\ Crew \subseteq Threads
           /\ nGraph[2] \in 1..NThreads /\ Cardinality(Crew) = nGraph[2]
<1>1. t \in Crew /\ ~Fresh(t)
  BY DEF PoolInv, Control, Stale
<1>2. Computing
  BY <1>1, CrewFacts DEF PoolInv, Control
<1> QED
  BY <1>1, <1>2, CrewFacts DEF PoolInv, Control, AtWork, Inside

\* What Place says of the node a thread is at, with its place in numbers.
LEMMA WorkFacts ==
    ASSUME PoolInv, NEW t \in Threads, AtWork(t)
    PROVE  /\ Place(t) /\ node[t] \in Nat \ {0} /\ EndNode \in Nat \ {0} /\ Len(graph) \in Nat
           /\ EndNode <= Len(graph) + 1
           /\ pc[t] \in {"node", "lastBarrier", "calc", "conv", "set", "mulBarrier", "chunk",
                         "after", "nodeBarrier"}
           /\ Pos(t) = 8 * node[t] + StageNo(pc[t]) /\ StageNo(pc[t]) \in 0..6
           /\ pc[t] \notin {"node", "lastBarrier"} => node[t] \in 1..Len(graph)
<1>1. PoolTypes /\ Roles /\ Place(t)
  BY DEF PoolInv, Control, Geometry, Places
<1>2. Computing
  BY <1>1, CrewFacts DEF AtWork
<1>3. EndNode <= Len(graph) + 1 /\ Len(graph) \in Nat
  BY <1>1, <1>2, GraphFacts DEF PoolInv, Geometry, Aborts, EndNode, PoolTypes
<1>4. pc[t] \in {"node", "lastBarrier", "calc", "conv", "set", "mulBarrier", "chunk", "after",
                 "nodeBarrier"}
  BY DEF AtWork, Inside, InGraph, Barriers
<1>5. /\ node[t] \in Nat \ {0} /\ EndNode \in Nat \ {0}
      /\ Pos(t) = 8 * node[t] + StageNo(pc[t]) /\ StageNo(pc[t]) \in 0..6
  BY <1>1, PosFacts
<1>6. pc[t] \notin {"node", "lastBarrier"} => node[t] \in 1..Len(graph)
  BY <1>1, <1>3, <1>5 DEF Place
<1> QED
  BY <1>1, <1>3, <1>4, <1>5, <1>6

\* Nobody is further than through the last barrier.
LEMMA PosBound ==
    ASSUME PoolInv, NEW t \in Crew
    PROVE  Pos(t) \in Nat /\ Pos(t) <= 8 * EndNode + 1 /\ EndNode \in Nat \ {0}
<1>1. t \in Threads /\ PoolTypes /\ Roles
  BY CrewFacts DEF PoolInv, Control
<1>2. Pos(t) \in Nat /\ EndNode \in Nat \ {0}
  BY <1>1, PosFacts
<1>3. CASE AtWork(t)
  <2>1. /\ Place(t) /\ node[t] \in Nat /\ Pos(t) = 8 * node[t] + StageNo(pc[t])
        /\ StageNo(pc[t]) \in 0..6
    BY <1>1, <1>3, WorkFacts
  <2>2. CASE pc[t] \in {"node", "lastBarrier"}
    BY <1>2, <2>1, <2>2 DEF Place, StageNo
  <2>3. CASE pc[t] \notin {"node", "lastBarrier"}
    BY <1>2, <2>1, <2>3 DEF Place
  <2> QED
    BY <2>2, <2>3
<1>4. CASE ~AtWork(t)
  <2>1. Fresh(t) \/ pc[t] \in {"signal", "enter"} \/ pc[t] \notin InGraph \cup {"signal"}
    BY <1>4 DEF AtWork, Inside
  <2> QED
    BY <1>1, <1>2, <2>1, PosFacts
<1> QED
  BY <1>2, <1>3, <1>4

\* Who holds a chunk of a node is at that node, and it is a product.
LEMMA ChunkPlace ==
    ASSUME PoolInv, NEW t \in Crew, NEW k \in Nat, InChunks(t, k), k > 0
    PROVE  /\ AtWork(t) /\ node[t] = k /\ graph[k] = "mul" /\ k \in 1..Len(graph) /\ k < EndNode
           /\ \/ pc[t] = "chunk" /\ bar[t] = "out" /\ Pos(t) = 8 * k + 4
              \/ pc[t] = "mulBarrier" /\ bar[t] = "spin" /\ Pos(t) = 8 * k + 3
<1>1. t \in Threads /\ PoolTypes /\ Roles
  BY CrewFacts DEF PoolInv, Control
<1>2. Pos(t) \in {8 * k + 3, 8 * k + 4}
  BY DEF InChunks
<1>3. AtWork(t)
  <2>1. Pos(t) # 0 /\ EndNode \in Nat /\ Pos(t) # 8 * EndNode + 1
    BY <1>1, <1>2, PosFacts
  <2> QED
    BY <1>1, <2>1, PosFacts DEF AtWork, Inside
<1>4. /\ Place(t) /\ node[t] \in Nat \ {0} /\ EndNode \in Nat \ {0} /\ Len(graph) \in Nat
      /\ Pos(t) = 8 * node[t] + StageNo(pc[t]) /\ StageNo(pc[t]) \in 0..6
      /\ pc[t] \notin {"node", "lastBarrier"} => node[t] \in 1..Len(graph)
  BY <1>1, <1>3, WorkFacts
<1>5. node[t] = k /\ StageNo(pc[t]) \in {3, 4}
  BY <1>2, <1>4, SMTT(30)
<1>6. \/ pc[t] = "chunk" /\ Pos(t) = 8 * k + 4
      \/ pc[t] = "mulBarrier" /\ Pos(t) = 8 * k + 3
  BY <1>4, <1>5 DEF StageNo
<1>7. pc[t] = "chunk" => bar[t] = "out"
  BY <1>1 DEF PoolInv, Control, Outside, Barriers
<1>8. pc[t] = "mulBarrier" => bar[t] = "spin"
  BY <1>4, <1>6 DEF InChunks, Released
<1> QED
  BY <1>3, <1>4, <1>5, <1>6, <1>7, <1>8 DEF Place

\* A thread at a node has everyone past the barriers of the nodes before it.
LEMMA OlderPassed ==
    ASSUME PoolInv, NEW t \in Crew, NEW j \in 1..Len(graph), graph[j] # "nop", j < Len(graph),
           Pos(t) > 8 * j + 6, NEW u \in Crew
    PROVE  Pos(u) >= 8 * j + 6 /\ Pos(u) \in Nat /\ Done(u, j) /\ Begun(u, j)
<1>1. /\ Pos(t) \in Nat /\ Pos(t) <= 8 * EndNode + 1 /\ EndNode \in Nat \ {0} /\ Pos(u) \in Nat
      /\ PoolTypes
  BY PosBound DEF PoolInv, Control
<1>2. j < EndNode /\ j \in Nat
  BY <1>1, GraphFacts
<1>3. 8 * j + 6 \in Locs
  BY <1>1, <1>2, LocAfter
<1>4. Past(t, 8 * j + 6)
  BY DEF Past
<1>5. Past(u, 8 * j + 6)
  BY <1>3, <1>4 DEF PoolInv, Geometry, Together
<1> QED
  BY <1>1, <1>2, <1>5 DEF Past, Done, Begun

\* Before a thread is let out of the barrier of its product, every product anyone is
\* past the barrier of is an earlier one, and done.
LEMMA EarlierProducts ==
    ASSUME PoolInv, NEW t \in Crew, AtWork(t), ~Released(t), node[t] <= Len(graph),
           StageNo(pc[t]) <= 3,
           NEW j \in 1..Len(graph), graph[j] = "mul", NEW u \in Crew, Past(u, 8 * j + 3)
    PROVE  \A v \in Crew : Done(v, j) /\ ~InChunks(v, j)
<1>1. /\ t \in Threads /\ PoolTypes
  BY CrewFacts DEF PoolInv, Control
<1>2. /\ node[t] \in Nat \ {0} /\ Pos(t) = 8 * node[t] + StageNo(pc[t]) /\ StageNo(pc[t]) \in 0..6
      /\ Len(graph) \in Nat
  BY <1>1, WorkFacts
<1>3. Pos(u) \in Nat /\ Pos(u) <= 8 * EndNode + 1 /\ EndNode \in Nat \ {0}
  BY PosBound
<1>4. j \in Nat /\ j < EndNode
  BY <1>2, <1>3 DEF Past
<1>5. 8 * j + 3 \in Locs
  BY <1>1, <1>3, <1>4, LocAfter
<1>6. Pos(t) > 8 * j + 3
  BY <1>5 DEF PoolInv, Geometry, Together, Past
<1>7. j < node[t]
  BY <1>2, <1>4, <1>6
<1>8. j < Len(graph) /\ Pos(t) > 8 * j + 6
  BY <1>2, <1>4, <1>7
<1>9. ASSUME NEW v \in Crew PROVE Pos(v) >= 8 * j + 6 /\ Pos(v) \in Nat /\ Done(v, j)
  BY <1>8, OlderPassed
<1> QED
  BY <1>4, <1>9 DEF InChunks

-----------------------------------------------------------------------------
(* Steps of the graph that do not touch the barrier.                       *)

\* What any of them leaves as it is.
LEMMA StepFrame ==
    ASSUME PoolInv, NEW t \in Threads, pc[t] \in InGraph, bar[t] = "out",
           NEW s \in InGraph, s = "set" => t = 0, pc' = [pc EXCEPT ![t] = s],
           UNCHANGED <<poolVars, waitVars, barVars>>
    PROVE  /\ t \in Crew /\ ~Fresh(t) /\ (pc[t] # "enter" => AtWork(t)) /\ ~Released(t)
           /\ Computing /\ Computing' /\ Crew' = Crew /\ Crew \subseteq Threads
           /\ nGraph' = nGraph
           /\ pc'[t] = s /\ \A u \in Threads \ {t} : pc'[u] = pc[u]
           /\ \A u : (Fresh(u)' <=> Fresh(u)) /\ (Released(u)' <=> Released(u))
           /\ \A u \in Threads \ {t} : AtWork(u)' <=> AtWork(u)
           /\ s # "enter" => AtWork(t)'
           /\ Roles' /\ News' /\ Stale' /\ Outside' /\ CrewInv(Crew)'
<1>1. /\ 0 \in Threads /\ Workers = Threads \ {0} /\ PoolTypes
  BY CrewFacts DEF PoolInv, Control
<1>2. ~Released(t)
  BY DEF Released
<1>3. /\ t \in Crew /\ ~Fresh(t) /\ (pc[t] # "enter" => AtWork(t)) /\ Computing
      /\ Crew \subseteq Threads
  BY <1>2, InCrew
<1>4. pc'[t] = s /\ \A u \in Threads \ {t} : pc'[u] = pc[u]
  BY <1>1 DEF PoolTypes
<1>5. Computing' /\ Crew' = Crew /\ nGraph' = nGraph /\ want' = want
  BY <1>1, <1>3, <1>4 DEF Computing, Crew, poolVars
<1>6. \A u : (Fresh(u)' <=> Fresh(u)) /\ (Released(u)' <=> Released(u))
  BY DEF Fresh, Released, poolVars, waitVars, barVars
<1>7. /\ \A u \in Threads \ {t} : AtWork(u)' <=> AtWork(u)
      /\ s # "enter" => AtWork(t)'
  BY <1>3, <1>4, <1>5, <1>6 DEF AtWork, Inside
<1>8. Roles'
  <2>1. s \in CallerPcs /\ (t # 0 => s \in WorkerPcs) /\ s \notin {"none", "kick"}
    BY <1>1 DEF CallerPcs, WorkerPcs, InGraph, Barriers
  <2>2. pc[0] \notin {"none", "kick"}
    BY <1>3 DEF Computing, InGraph, Barriers
  <2> QED
    BY <1>1, <1>3, <1>4, <1>5, <2>1, <2>2 DEF PoolInv, Control, Roles
<1>9. News'
  BY <1>1, <1>3, <1>4, <1>5 DEF PoolInv, Control, News, waitVars, InGraph, Barriers
<1>10. Stale'
  BY <1>3, <1>4, <1>5, <1>6 DEF PoolInv, Control, Stale
<1>11. Outside'
  BY <1>4 DEF PoolInv, Control, Outside, barVars
<1>12. CrewInv(Crew)'
  BY <1>5, BarrierKept
<1> QED
  BY <1>2, <1>3, <1>4, <1>5, <1>6, <1>7, <1>8, <1>9, <1>10, <1>11, <1>12

\* The other threads keep their places, for the graph is left where it was.
LEMMA OthersStay ==
    ASSUME NEW t \in Threads, NEW u \in Threads \ {t}, pc'[u] = pc[u], Fresh(u)' <=> Fresh(u),
           node'[u] = node[u], EndNode' = EndNode
    PROVE  Pos(u)' = Pos(u)
  BY DEF Pos

\* A thread goes on with nothing done on the way.
LEMMA MovesOn ==
    ASSUME PoolInv, NEW t \in Crew, Crew' = Crew, Computing' = Computing,
           nGraph' = nGraph, graph' = graph, EndNode' = EndNode, chunk' = chunk, made' = made,
           mychunk' = mychunk, barVars' = barVars, bar[t] = "out",
           \A u \in Crew \ {t} : Pos(u)' = Pos(u), Pos(t)' \in Nat,
           \A L \in Locs : L >= Pos(t)' \/ L < Pos(t), Pos(t) <= Pos(t)',
           \A k \in 1..Len(graph) :
               /\ graph[k] # "nop" => (Pos(t)' > 8 * k + 1 <=> Pos(t) > 8 * k + 1)
               /\ graph[k] = "mul" => (Pos(t)' > 8 * k + 4 <=> Pos(t) > 8 * k + 4)
               /\ graph[k] = "mul" => (Pos(t)' > 8 * k + 3 <=> Pos(t) > 8 * k + 3)
               /\ Pos(t)' # 8 * k + 4 /\ Pos(t) # 8 * k + 4
    PROVE  Together' /\ Holding' /\ MadeOK' /\ SameStages
<1>1. Pos(t) \in Nat /\ EndNode \in Nat /\ PoolTypes
  BY PosBound DEF PoolInv, Control
<1>2. Locs' = Locs
  BY DEF Locs
<1>3. \A u \in Crew : (Released(u)' <=> Released(u)) /\ Held(u)' = Held(u)
  BY DEF Released, Held, barVars
<1>4. ~Released(t)
  BY DEF Released
<1>5. \A L \in Locs : L \in Nat
  BY <1>1, LocFacts
<1>6. \A L \in Locs, u \in Crew : Past(u, L)' <=> Past(u, L)
  BY <1>1, <1>3, <1>4, <1>5 DEF Past
<1>7. \A u \in Crew, k \in 1..Len(graph) :
          /\ graph[k] # "nop" => (Begun(u, k)' <=> Begun(u, k))
          /\ graph[k] = "mul" => (Done(u, k)' <=> Done(u, k))
          /\ graph[k] = "mul" => (Past(u, 8 * k + 3)' <=> Past(u, 8 * k + 3))
          /\ InChunks(u, k)' <=> InChunks(u, k)
  BY <1>3, <1>4 DEF Begun, Done, Past, InChunks
<1>8. Together'
  BY <1>2, <1>6, TogetherKept
<1>9. Holding'
  BY <1>3, <1>7, HoldingKept
<1>10. MadeOK'
  BY <1>3, <1>7, MadeKept
<1>11. SameStages
  BY <1>7 DEF SameStages
<1> QED
  BY <1>8, <1>9, <1>10, <1>11

\* The places of the others are legal after a step that changes only t's.
LEMMA OthersPlaced ==
    ASSUME PoolInv, NEW t \in Threads, graph' = graph, nGraph' = nGraph, EndNode' = EndNode,
           \A u \in Threads \ {t} : /\ pc'[u] = pc[u] /\ (AtWork(u)' => AtWork(u))
                                    /\ mine'[u] = mine[u] /\ nth'[u] = nth[u] /\ node'[u] = node[u],
           AtWork(t)' => Place(t)'
    PROVE  Places'
<1>1. \A u \in Threads \ {t} : Place(u) => Place(u)'
  BY DEF Place
<1> QED
  BY <1>1 DEF PoolInv, Geometry, Places

\* ggml_graph_compute_thread begins.
LEMMA EnterKeeps ==
    ASSUME PoolInv, NEW t \in Threads, Enter(t)
    PROVE  PoolInv' /\ SameStages
<1>1. /\ pc[t] = "enter" /\ bar[t] = "out" /\ pc' = [pc EXCEPT ![t] = "node"]
      /\ mine' = [mine EXCEPT ![t] = graph] /\ nth' = [nth EXCEPT ![t] = nGraph[2]]
      /\ node' = [node EXCEPT ![t] = 1]
      /\ UNCHANGED <<poolVars, waitVars, graphVars, mychunk, made, barVars>>
  BY DEF Enter, At, GoTo
<1>2. PoolTypes /\ Roles /\ nGraph[2] \in 0..NThreads
  BY CrewFacts DEF PoolInv, Control
<1>3. "node" \in InGraph /\ "enter" \in InGraph
  BY DEF InGraph
<1>4. /\ t \in Crew /\ ~Fresh(t) /\ ~Released(t)
      /\ Computing /\ Computing' /\ Crew' = Crew /\ Crew \subseteq Threads
      /\ nGraph' = nGraph
      /\ pc'[t] = "node" /\ \A u \in Threads \ {t} : pc'[u] = pc[u]
      /\ \A u : (Fresh(u)' <=> Fresh(u)) /\ (Released(u)' <=> Released(u))
      /\ \A u \in Threads \ {t} : AtWork(u)' <=> AtWork(u)
      /\ AtWork(t)'
      /\ Roles' /\ News' /\ Stale' /\ Outside' /\ CrewInv(Crew)'
  BY <1>1, <1>3, StepFrame
<1>5. PoolTypes'
  BY <1>1, <1>2, <1>3 DEF PoolTypes, PcValues, poolVars, waitVars, graphVars
<1>6. graph' = graph /\ abort' = abort /\ ec' = ec /\ chunk' = chunk /\ EndNode' = EndNode
  BY <1>1 DEF graphVars, EndNode
<1>7. /\ mine'[t] = graph /\ nth'[t] = nGraph[2] /\ node'[t] = 1
      /\ \A u \in Threads \ {t} : mine'[u] = mine[u] /\ nth'[u] = nth[u] /\ node'[u] = node[u]
  BY <1>1, <1>2 DEF PoolTypes
<1>8. Pos(t) = 0 /\ EndNode \in Nat \ {0} /\ Len(graph) \in Nat
  BY <1>1, <1>2, PosFacts, GraphFacts
<1>9. Pos(t)' = 8
  BY <1>4, <1>7, <1>3 DEF Pos, StageNo
<1>10. \A u \in Crew \ {t} : Pos(u)' = Pos(u)
  BY <1>4, <1>6, <1>7, OthersStay
<1>11. Places'
  <2>1. Place(t)'
    BY <1>4, <1>6, <1>7, <1>8 DEF Place
  <2> QED
    BY <1>4, <1>6, <1>7, <2>1, OthersPlaced
<1>12. Together' /\ Holding' /\ MadeOK' /\ SameStages
  <2>1. \A L \in Locs : L \in Nat /\ L >= 8
    BY <1>2, <1>8 DEF Locs
  <2> QED
    BY <1>1, <1>4, <1>6, <1>8, <1>9, <1>10, <2>1, MovesOn
<1>13. Aborts' /\ SetDone'
  BY <1>1, <1>4, <1>6 DEF PoolInv, Geometry, Aborts, SetDone
<1> QED
  BY <1>4, <1>5, <1>11, <1>12, <1>13 DEF PoolInv, Control, Geometry

\* The loop over the nodes.
LEMMA NextNodeKeeps ==
    ASSUME PoolInv, NEW t \in Threads, NextNode(t)
    PROVE  PoolInv' /\ SameStages
<1>1. /\ pc[t] = "node" /\ bar[t] = "out"
      /\ UNCHANGED <<poolVars, waitVars, graphVars, mine, nth, mychunk, made, barVars>>
  BY DEF NextNode, At
<1>2. PoolTypes
  BY DEF PoolInv, Control
<1>3. AtWork(t) /\ ~Released(t)
  BY <1>1, InCrew DEF InGraph, Released
<1>4. /\ Place(t) /\ mine[t] = graph /\ node[t] \in Nat \ {0} /\ EndNode \in Nat \ {0}
      /\ Len(graph) \in Nat /\ EndNode <= Len(graph) + 1 /\ node[t] <= EndNode /\ Pos(t) = 8 * node[t]
  BY <1>1, <1>3, WorkFacts DEF Place, StageNo
<1>5. \/ /\ node[t] = EndNode
         /\ pc' = [pc EXCEPT ![t] = "lastBarrier"] /\ node' = node
      \/ /\ node[t] \in 1..Len(graph) /\ node[t] < EndNode /\ graph[node[t]] = "nop"
         /\ pc' = [pc EXCEPT ![t] = "node"] /\ node' = [node EXCEPT ![t] = node[t] + 1]
      \/ /\ node[t] \in 1..Len(graph) /\ node[t] < EndNode /\ graph[node[t]] = "op"
         /\ pc' = [pc EXCEPT ![t] = "calc"] /\ node' = node
      \/ /\ node[t] \in 1..Len(graph) /\ node[t] < EndNode /\ graph[node[t]] = "mul"
         /\ pc' = [pc EXCEPT ![t] = "conv"] /\ node' = node
  <2>1. CASE node[t] > Len(graph) \/ abort = node[t]
    <3>1. node[t] = EndNode
      BY <1>4, <2>1 DEF EndNode
    <3> QED
      BY <1>4, <2>1, <3>1 DEF NextNode, GoTo
  <2>2. CASE node[t] <= Len(graph) /\ abort # node[t]
    <3>1. node[t] \in 1..Len(graph) /\ node[t] < EndNode
      BY <1>4, <2>2 DEF EndNode
    <3>2. graph[node[t]] \in {"nop", "op", "mul"}
      BY <1>2, <3>1, GraphFacts
    <3>3. pc = [pc EXCEPT ![t] = "node"]
      BY <1>1, <1>2 DEF PoolTypes
    <3> QED
      BY <1>4, <2>2, <3>1, <3>2, <3>3 DEF NextNode, GoTo
  <2> QED
    BY <1>4, <2>1, <2>2
<1>6. graph' = graph /\ abort' = abort /\ ec' = ec /\ chunk' = chunk /\ EndNode' = EndNode
  BY <1>1 DEF graphVars, EndNode
<1>7. ASSUME NEW s \in {"lastBarrier", "node", "calc", "conv"}, NEW k \in Nat \ {0},
             pc' = [pc EXCEPT ![t] = s], node' = [node EXCEPT ![t] = k],
             (s = "lastBarrier" /\ k = node[t] /\ k = EndNode)
                 \/ (s = "node" /\ k = node[t] + 1 /\ node[t] \in 1..Len(graph) /\ node[t] < EndNode
                     /\ graph[node[t]] = "nop")
                 \/ (s = "calc" /\ k = node[t] /\ k < EndNode /\ graph[k] = "op")
                 \/ (s = "conv" /\ k = node[t] /\ k < EndNode /\ graph[k] = "mul")
      PROVE  PoolInv' /\ SameStages
  <2>1. s \in InGraph \ {"enter"} /\ s # "set" /\ "node" \in InGraph
    BY DEF InGraph, Barriers
  <2>2. /\ t \in Crew /\ ~Fresh(t)
        /\ Computing /\ Computing' /\ Crew' = Crew /\ Crew \subseteq Threads
        /\ nGraph' = nGraph
        /\ pc'[t] = s /\ \A u \in Threads \ {t} : pc'[u] = pc[u]
        /\ \A u : (Fresh(u)' <=> Fresh(u)) /\ (Released(u)' <=> Released(u))
        /\ \A u \in Threads \ {t} : AtWork(u)' <=> AtWork(u)
        /\ AtWork(t)'
        /\ Roles' /\ News' /\ Stale' /\ Outside' /\ CrewInv(Crew)'
    BY <1>1, <1>7, <2>1, StepFrame
  <2>3. PoolTypes'
    BY <1>1, <1>2, <1>7, <2>1 DEF PoolTypes, PcValues, poolVars, waitVars, graphVars
  <2>4. node'[t] = k /\ \A u \in Threads \ {t} : node'[u] = node[u]
    BY <1>2, <1>7 DEF PoolTypes
  <2>5. Pos(t)' = 8 * k + StageNo(s)
    BY <2>1, <2>2, <2>4 DEF Pos
  <2>6. \A u \in Crew \ {t} : Pos(u)' = Pos(u)
    BY <1>6, <2>2, <2>4, OthersStay
  <2>7. Places'
    <3>1. Place(t)'
      BY <1>1, <1>4, <1>6, <1>7, <2>2, <2>4 DEF Place
    <3> QED
      BY <1>1, <1>6, <2>2, <2>4, <3>1, OthersPlaced
  <2>8. /\ \A L \in Locs : L >= Pos(t)' \/ L < Pos(t)
        /\ Pos(t) <= Pos(t)' /\ Pos(t)' \in Nat
        /\ \A j \in 1..Len(graph) :
               /\ graph[j] # "nop" => (Pos(t)' > 8 * j + 1 <=> Pos(t) > 8 * j + 1)
               /\ graph[j] = "mul" => (Pos(t)' > 8 * j + 4 <=> Pos(t) > 8 * j + 4)
               /\ graph[j] = "mul" => (Pos(t)' > 8 * j + 3 <=> Pos(t) > 8 * j + 3)
               /\ Pos(t)' # 8 * j + 4 /\ Pos(t) # 8 * j + 4
    <3>1. CASE s = "node"
      <4>1. Pos(t)' = 8 * node[t] + 8
        BY <1>4, <1>7, <2>5, <3>1 DEF StageNo
      <4>2. ASSUME NEW L \in Locs PROVE L >= Pos(t)' \/ L < Pos(t)
        BY <1>2, <1>4, <1>7, <3>1, <4>1, LocFacts, SMTT(30)
      <4> QED
        BY <1>4, <1>7, <3>1, <4>1, <4>2, SMTT(30)
    <3>2. CASE s = "lastBarrier"
      <4>1. Pos(t)' = Pos(t)
        BY <1>4, <1>7, <2>5, <3>2 DEF StageNo
      <4> QED
        BY <1>2, <1>4, <4>1, LocFacts
    <3>3. CASE s \in {"calc", "conv"}
      <4>1. Pos(t)' = 8 * node[t] + 1 /\ node[t] < EndNode
        BY <1>4, <1>7, <2>5, <3>3 DEF StageNo
      <4>2. ASSUME NEW L \in Locs PROVE L >= Pos(t)' \/ L < Pos(t)
        BY <1>2, <1>4, <4>1, LocFacts
      <4> QED
        BY <1>4, <4>1, <4>2, SMTT(30)
    <3> QED
      BY <3>1, <3>2, <3>3
  <2>9. Together' /\ Holding' /\ MadeOK' /\ SameStages
    BY <1>1, <1>6, <2>2, <2>6, <2>8, MovesOn
  <2>10. Aborts' /\ SetDone'
    BY <1>1, <1>6, <1>7, <2>2 DEF PoolInv, Geometry, Aborts, SetDone
  <2> QED
    BY <2>2, <2>3, <2>7, <2>9, <2>10 DEF PoolInv, Control, Geometry
<1>8. node = [node EXCEPT ![t] = node[t]]
  BY <1>2 DEF PoolTypes
<1> QED
  BY <1>4, <1>5, <1>7, <1>8

\* ggml_graph_compute_thread: an operation of which each thread does its slice.
LEMMA CalcKeeps ==
    ASSUME PoolInv, NEW t \in Threads, Calc(t)
    PROVE  PoolInv' /\ Finishes(t)
<1>0. PICK k : k = node[t]
  OBVIOUS
<1>1. /\ pc[t] = "calc" /\ bar[t] = "out" /\ pc' = [pc EXCEPT ![t] = "after"]
      /\ made' = made \cup {<<k, "all", t>>}
      /\ UNCHANGED <<poolVars, waitVars, graphVars, localVars, barVars>>
  BY <1>0 DEF Calc, At, GoTo
<1>2. PoolTypes
  BY DEF PoolInv, Control
<1>3. "after" \in InGraph \ {"enter", "set"} /\ "calc" \in InGraph
  BY DEF InGraph, Barriers
<1>4. /\ t \in Crew /\ AtWork(t) /\ ~Fresh(t) /\ ~Released(t)
      /\ Computing /\ Computing' /\ Crew' = Crew /\ Crew \subseteq Threads
      /\ nGraph' = nGraph
      /\ pc'[t] = "after" /\ \A u \in Threads \ {t} : pc'[u] = pc[u]
      /\ \A u : (Fresh(u)' <=> Fresh(u)) /\ (Released(u)' <=> Released(u))
      /\ \A u \in Threads \ {t} : AtWork(u)' <=> AtWork(u)
      /\ AtWork(t)'
      /\ Roles' /\ News' /\ Stale' /\ Outside' /\ CrewInv(Crew)'
  BY <1>1, <1>3, StepFrame
<1>5. /\ graph' = graph /\ abort' = abort /\ ec' = ec /\ chunk' = chunk /\ EndNode' = EndNode
      /\ mine' = mine /\ nth' = nth /\ node' = node /\ mychunk' = mychunk
  BY <1>1 DEF graphVars, localVars, EndNode
<1>6. PoolTypes'
  BY <1>1, <1>2, <1>3, <1>5 DEF PoolTypes, PcValues, poolVars, waitVars
<1>7. /\ Place(t) /\ k \in 1..Len(graph) /\ Len(graph) \in Nat /\ Pos(t) = 8 * k + 1
      /\ graph[k] = "op" /\ k < EndNode /\ EndNode \in Nat
  BY <1>0, <1>1, <1>4, WorkFacts DEF StageNo, Place
<1>8. Pos(t)' = 8 * k + 5
  BY <1>0, <1>3, <1>4, <1>5 DEF Pos, StageNo
<1>9. \A u \in Crew \ {t} : Pos(u)' = Pos(u)
  BY <1>4, <1>5, OthersStay
<1>10. Places'
  <2>1. Place(t)'
    BY <1>0, <1>4, <1>5, <1>7 DEF Place
  <2> QED
    BY <1>4, <1>5, <2>1, OthersPlaced
<1>11. \A u \in Crew : Held(u)' = Held(u)
  BY <1>1, <1>5 DEF Held, barVars
<1>12. Together'
  <2>1. Locs' = Locs
    BY <1>5 DEF Locs
  <2>2. ASSUME NEW L \in Locs PROVE \A u \in Crew : Past(u, L)' <=> Past(u, L)
    <3>1. L \in Nat /\ (L < 8 * k + 1 \/ L >= 8 * k + 6)
      BY <1>2, <1>7, LocFacts
    <3> QED
      BY <1>4, <1>7, <1>8, <1>9, <3>1 DEF Past
  <2> QED
    BY <1>4, <2>1, <2>2, TogetherKept
<1>13. \A u \in Crew, j \in 1..Len(graph) :
          /\ InChunks(u, j)' <=> InChunks(u, j)
          /\ j # k \/ u # t => (Begun(u, j)' <=> Begun(u, j))
          /\ j # k => (Done(u, j)' <=> Done(u, j))
          /\ j # k => (Past(u, 8 * j + 3)' <=> Past(u, 8 * j + 3))
  BY <1>4, <1>7, <1>8, <1>9 DEF InChunks, Begun, Done, Past
<1>14. Holding'
  BY <1>4, <1>5, <1>11, <1>13, HoldingKept
<1>15. MadeOK'
  <2>1. t \in 0..nGraph[2] - 1
    BY <1>4, CrewFacts DEF PoolInv, Control
  <2>2. <<k, "all", t>> \in ItemsBefore(graph, Len(graph) + 1, nGraph[2])
    <3>1. <<k, "all", t>> \in Items(graph, k, nGraph[2])
      BY <1>7, <2>1 DEF Items
    <3>2. k \in 1..(Len(graph) + 1) - 1
      BY <1>7
    <3> QED
      BY <3>1, <3>2 DEF ItemsBefore
  <2>3. made \subseteq ItemsBefore(graph, Len(graph) + 1, nGraph[2])
    BY <1>4 DEF PoolInv, Geometry, MadeOK
  <2>4. (made \subseteq ItemsBefore(graph, Len(graph) + 1, nGraph[2]))'
    <3>1. made' \subseteq ItemsBefore(graph, Len(graph) + 1, nGraph[2])
      BY <1>1, <2>2, <2>3
    <3> QED
      BY <1>4, <1>5, <3>1
  <2>5. ASSUME NEW j \in 1..Len(graph) PROVE MadeAt(j)'
    <3>1. MadeAt(j)
      BY <1>4 DEF PoolInv, Geometry, MadeOK
    <3>2. CASE j # k
      <4>1. \A c : HandedOut(j, c)' <=> HandedOut(j, c)
        BY <1>4, <1>5, <1>11, <1>13, <3>2 DEF HandedOut
      <4>2. \A u, c : /\ <<j, "all", u>> \in made' <=> <<j, "all", u>> \in made
                      /\ <<j, "conv", u>> \in made' <=> <<j, "conv", u>> \in made
                      /\ <<j, "mul", c>> \in made' <=> <<j, "mul", c>> \in made
        BY <1>1, <3>2
      <4> QED
        BY <1>4, <1>5, <1>13, <3>1, <3>2, <4>1, <4>2 DEF MadeAt, NChunks
    <3>3. CASE j = k
      <4>1. Begun(t, k)' /\ <<k, "all", t>> \in made'
        BY <1>1, <1>7, <1>8 DEF Begun
      <4>2. \A u \in Crew \ {t} : <<k, "all", u>> \in made' <=> <<k, "all", u>> \in made
        BY <1>1
      <4> QED
        BY <1>4, <1>5, <1>7, <1>13, <3>1, <3>3, <4>1, <4>2 DEF MadeAt
    <3> QED
      BY <3>2, <3>3
  <2> QED
    BY <1>5, <2>4, <2>5 DEF MadeOK
<1>16. Aborts' /\ SetDone'
  BY <1>1, <1>4, <1>5 DEF PoolInv, Geometry, Aborts, SetDone
<1>17. Finishes(t)
  BY <1>4, <1>5, <1>7, <1>8, <1>9 DEF Finishes
<1> QED
  BY <1>4, <1>6, <1>10, <1>12, <1>14, <1>15, <1>16, <1>17 DEF PoolInv, Control, Geometry

\* ggml_compute_forward_mul_mat: the conversion of src1, before its barrier.
LEMMA ConvertKeeps ==
    ASSUME PoolInv, NEW t \in Threads, Convert(t)
    PROVE  PoolInv' /\ Finishes(t)
<1>0. PICK k : k = node[t]
  OBVIOUS
<1> DEFINE s == IF t = 0 THEN "set" ELSE "mulBarrier"
<1>1. /\ pc[t] = "conv" /\ bar[t] = "out" /\ pc' = [pc EXCEPT ![t] = s]
      /\ made' = made \cup {<<k, "conv", t>>}
      /\ UNCHANGED <<poolVars, waitVars, graphVars, localVars, barVars>>
  BY <1>0 DEF Convert, At, GoTo
<1>2. PoolTypes
  BY DEF PoolInv, Control
<1>3. /\ s \in InGraph \ {"enter"} /\ "conv" \in InGraph /\ (s = "set" => t = 0)
      /\ s \in {"set", "mulBarrier"} /\ (t = 0 => s # "mulBarrier")
  BY DEF InGraph, Barriers
<1> HIDE DEF s
<1>4. /\ t \in Crew /\ AtWork(t) /\ ~Fresh(t) /\ ~Released(t)
      /\ Computing /\ Computing' /\ Crew' = Crew /\ Crew \subseteq Threads
      /\ nGraph' = nGraph
      /\ pc'[t] = s /\ \A u \in Threads \ {t} : pc'[u] = pc[u]
      /\ \A u : (Fresh(u)' <=> Fresh(u)) /\ (Released(u)' <=> Released(u))
      /\ \A u \in Threads \ {t} : AtWork(u)' <=> AtWork(u)
      /\ AtWork(t)'
      /\ Roles' /\ News' /\ Stale' /\ Outside' /\ CrewInv(Crew)'
  BY <1>1, <1>3, StepFrame
<1>5. /\ graph' = graph /\ abort' = abort /\ ec' = ec /\ chunk' = chunk /\ EndNode' = EndNode
      /\ mine' = mine /\ nth' = nth /\ node' = node /\ mychunk' = mychunk
  BY <1>1 DEF graphVars, localVars, EndNode
<1>6. PoolTypes'
  BY <1>1, <1>2, <1>3, <1>5 DEF PoolTypes, PcValues, poolVars, waitVars
<1>7. /\ Place(t) /\ k \in 1..Len(graph) /\ Len(graph) \in Nat /\ Pos(t) = 8 * k + 1
      /\ graph[k] = "mul" /\ k < EndNode /\ EndNode \in Nat
  BY <1>0, <1>1, <1>4, WorkFacts DEF StageNo, Place
<1>8. Pos(t)' \in {8 * k + 2, 8 * k + 3}
  BY <1>0, <1>3, <1>4, <1>5 DEF Pos, StageNo
<1>9. \A u \in Crew \ {t} : Pos(u)' = Pos(u)
  BY <1>4, <1>5, OthersStay
<1>10. Places'
  <2>1. Place(t)'
    BY <1>0, <1>3, <1>4, <1>5, <1>7 DEF Place
  <2> QED
    BY <1>4, <1>5, <2>1, OthersPlaced
<1>11. \A u \in Crew : Held(u)' = Held(u)
  BY <1>1, <1>5 DEF Held, barVars
<1>12. Together'
  <2>1. Locs' = Locs
    BY <1>5 DEF Locs
  <2>2. ASSUME NEW L \in Locs PROVE \A u \in Crew : Past(u, L)' <=> Past(u, L)
    <3>1. L \in Nat /\ (L < 8 * k + 1 \/ L >= 8 * k + 3)
      BY <1>2, <1>7, LocFacts
    <3> QED
      BY <1>4, <1>7, <1>8, <1>9, <3>1 DEF Past
  <2> QED
    BY <1>4, <2>1, <2>2, TogetherKept
<1>13. \A u \in Crew, j \in 1..Len(graph) :
          /\ InChunks(u, j)' <=> InChunks(u, j)
          /\ j # k \/ u # t => (Begun(u, j)' <=> Begun(u, j))
          /\ Done(u, j)' <=> Done(u, j)
          /\ Past(u, 8 * j + 3)' <=> Past(u, 8 * j + 3)
  BY <1>4, <1>7, <1>8, <1>9 DEF InChunks, Begun, Done, Past
<1>14. Holding'
  BY <1>4, <1>5, <1>11, <1>13, HoldingKept
<1>15. MadeOK'
  <2>1. t \in 0..nGraph[2] - 1
    BY <1>4, CrewFacts DEF PoolInv, Control
  <2>2. <<k, "conv", t>> \in ItemsBefore(graph, Len(graph) + 1, nGraph[2])
    <3>1. <<k, "conv", t>> \in Items(graph, k, nGraph[2])
      BY <1>7, <2>1 DEF Items
    <3>2. k \in 1..(Len(graph) + 1) - 1
      BY <1>7
    <3> QED
      BY <3>1, <3>2 DEF ItemsBefore
  <2>3. made \subseteq ItemsBefore(graph, Len(graph) + 1, nGraph[2])
    BY <1>4 DEF PoolInv, Geometry, MadeOK
  <2>4. (made \subseteq ItemsBefore(graph, Len(graph) + 1, nGraph[2]))'
    <3>1. made' \subseteq ItemsBefore(graph, Len(graph) + 1, nGraph[2])
      BY <1>1, <2>2, <2>3
    <3> QED
      BY <1>4, <1>5, <3>1
  <2>5. ASSUME NEW j \in 1..Len(graph) PROVE MadeAt(j)'
    <3>1. MadeAt(j)
      BY <1>4 DEF PoolInv, Geometry, MadeOK
    <3>2. \A c : HandedOut(j, c)' <=> HandedOut(j, c)
      BY <1>4, <1>5, <1>11, <1>13 DEF HandedOut
    <3>3. \A u, c : /\ <<j, "all", u>> \in made' <=> <<j, "all", u>> \in made
                    /\ <<j, "mul", c>> \in made' <=> <<j, "mul", c>> \in made
      BY <1>1
    <3>4. CASE j # k
      <4>1. \A u : <<j, "conv", u>> \in made' <=> <<j, "conv", u>> \in made
        BY <1>1, <3>4
      <4> QED
        BY <1>4, <1>5, <1>13, <3>1, <3>2, <3>3, <3>4, <4>1 DEF MadeAt, NChunks
    <3>5. CASE j = k
      <4>1. Begun(t, k)' /\ <<k, "conv", t>> \in made'
        BY <1>1, <1>7, <1>8 DEF Begun
      <4>2. \A u \in Crew \ {t} : <<k, "conv", u>> \in made' <=> <<k, "conv", u>> \in made
        BY <1>1
      <4>3. \A u \in Crew : <<k, "conv", u>> \in made' <=> Begun(u, k)'
        BY <1>7, <1>13, <3>1, <3>5, <4>1, <4>2 DEF MadeAt
      <4> QED
        BY <1>4, <1>5, <1>7, <3>1, <3>2, <3>3, <3>5, <4>3 DEF MadeAt, NChunks
    <3> QED
      BY <3>4, <3>5
  <2> QED
    BY <1>5, <2>4, <2>5 DEF MadeOK
<1>16. Aborts' /\ SetDone'
  BY <1>1, <1>3, <1>4, <1>5 DEF PoolInv, Geometry, Aborts, SetDone
<1>17. Finishes(t)
  BY <1>4, <1>5, <1>7, <1>8, <1>9 DEF Finishes
<1> QED
  BY <1>4, <1>6, <1>10, <1>12, <1>14, <1>15, <1>16, <1>17 DEF PoolInv, Control, Geometry

\* Thread 0 sets the counter of chunks: nobody holds a chunk then.
LEMMA SetChunkKeeps ==
    ASSUME PoolInv, SetChunk
    PROVE  PoolInv' /\ SameStages
<1>0. PICK k : k = node[0]
  OBVIOUS
<1>1. /\ pc[0] = "set" /\ bar[0] = "out" /\ pc' = [pc EXCEPT ![0] = "mulBarrier"]
      /\ chunk' = nth[0]
      /\ UNCHANGED <<poolVars, waitVars, graph, abort, ec, localVars, made, barVars>>
  BY DEF SetChunk, At, GoTo
<1>2. PoolTypes /\ 0 \in Threads /\ nGraph[2] \in 0..NThreads /\ NThreads \in Nat
  BY CrewFacts DEF PoolInv, Control
<1>3. "mulBarrier" \in InGraph \ {"enter", "set"} /\ "set" \in InGraph
  BY DEF InGraph, Barriers
<1>4. /\ 0 \in Crew /\ AtWork(0) /\ ~Fresh(0) /\ ~Released(0)
      /\ Computing /\ Computing' /\ Crew' = Crew /\ Crew \subseteq Threads
      /\ nGraph' = nGraph
      /\ pc'[0] = "mulBarrier" /\ \A u \in Threads \ {0} : pc'[u] = pc[u]
      /\ \A u : (Fresh(u)' <=> Fresh(u)) /\ (Released(u)' <=> Released(u))
      /\ \A u \in Threads \ {0} : AtWork(u)' <=> AtWork(u)
      /\ AtWork(0)'
      /\ Roles' /\ News' /\ Stale' /\ Outside' /\ CrewInv(Crew)'
  BY <1>1, <1>2, <1>3, StepFrame
<1>5. /\ graph' = graph /\ abort' = abort /\ ec' = ec /\ EndNode' = EndNode
      /\ mine' = mine /\ nth' = nth /\ node' = node /\ mychunk' = mychunk
  BY <1>1 DEF localVars, EndNode
<1>6. /\ Place(0) /\ k \in 1..Len(graph) /\ Len(graph) \in Nat /\ Pos(0) = 8 * k + 2
      /\ graph[k] = "mul" /\ k < EndNode /\ EndNode \in Nat
  BY <1>0, <1>1, <1>2, <1>4, WorkFacts DEF StageNo, Place
<1>7. chunk' = nGraph[2] /\ chunk' \in Nat
  BY <1>1, <1>2, <1>6 DEF Place
<1>8. PoolTypes'
  BY <1>1, <1>2, <1>3, <1>5, <1>7 DEF PoolTypes, PcValues, poolVars, waitVars
<1>9. Pos(0)' = 8 * k + 3
  BY <1>0, <1>3, <1>4, <1>5 DEF Pos, StageNo
<1>10. \A u \in Crew \ {0} : Pos(u)' = Pos(u)
  BY <1>2, <1>4, <1>5, OthersStay
<1>11. Places'
  <2>1. Place(0)'
    BY <1>0, <1>4, <1>5, <1>6 DEF Place
  <2> QED
    BY <1>2, <1>4, <1>5, <2>1, OthersPlaced
<1>12. ASSUME NEW j \in 1..Len(graph), graph[j] = "mul", NEW u \in Crew, Past(u, 8 * j + 3)
       PROVE  \A v \in Crew : Done(v, j) /\ ~InChunks(v, j)
  <2>1. node[0] <= Len(graph) /\ StageNo(pc[0]) <= 3
    BY <1>0, <1>1, <1>6 DEF StageNo
  <2> QED
    BY <1>4, <1>12, <2>1, EarlierProducts
<1>13. \A u \in Crew : Pos(u) \in Nat
  BY PosBound
<1>14. \A u \in Crew, j \in 1..Len(graph) :
          /\ InChunks(u, j)' <=> InChunks(u, j)
          /\ Begun(u, j)' <=> Begun(u, j)
          /\ Done(u, j)' <=> Done(u, j)
          /\ Past(u, 8 * j + 3)' <=> Past(u, 8 * j + 3)
  BY <1>4, <1>6, <1>9, <1>10 DEF InChunks, Begun, Done, Past
<1>15. Together'
  <2>1. Locs' = Locs
    BY <1>5 DEF Locs
  <2>2. ASSUME NEW L \in Locs PROVE \A u \in Crew : Past(u, L)' <=> Past(u, L)
    <3>1. L \in Nat /\ (L < 8 * k + 2 \/ L >= 8 * k + 3)
      BY <1>2, <1>6, LocFacts
    <3> QED
      BY <1>4, <1>6, <1>9, <1>10, <3>1 DEF Past
  <2> QED
    BY <1>4, <2>1, <2>2, TogetherKept
<1>16. Holding'
  <2>1. ASSUME NEW u \in Crew, NEW j \in 1..Len(graph) PROVE ~InChunks(u, j)
    <3>1. SUFFICES ASSUME InChunks(u, j) PROVE FALSE
      OBVIOUS
    <3>2. graph[j] = "mul"
      BY <1>6, <3>1, ChunkPlace
    <3>3. Past(u, 8 * j + 3)
      BY <1>6, <3>1 DEF InChunks, Past
    <3> QED
      BY <1>12, <3>1, <3>2, <3>3
  <2> QED
    BY <1>4, <1>5, <1>14, <2>1 DEF Holding
<1>17. MadeOK'
  <2>1. (made \subseteq ItemsBefore(graph, Len(graph) + 1, nGraph[2]))'
    <3>1. made \subseteq ItemsBefore(graph, Len(graph) + 1, nGraph[2])
      BY <1>4 DEF PoolInv, Geometry, MadeOK
    <3> QED
      BY <1>1, <1>4, <1>5, <3>1
  <2>2. ASSUME NEW j \in 1..Len(graph) PROVE MadeAt(j)'
    <3>1. MadeAt(j)
      BY <1>4 DEF PoolInv, Geometry, MadeOK
    <3>2. ASSUME graph[j] = "mul", NEW c PROVE HandedOut(j, c)' <=> HandedOut(j, c)
      <4>1. CASE \E u \in Crew : Past(u, 8 * j + 3)
        BY <1>4, <1>12, <1>14, <3>2, <4>1 DEF HandedOut
      <4>2. CASE ~\E u \in Crew : Past(u, 8 * j + 3)
        <5>1. \A u \in Crew : ~Done(u, j)
          BY <1>6, <1>13, <4>2 DEF Done, Past
        <5> QED
          BY <1>4, <1>14, <4>2, <5>1 DEF HandedOut
      <4> QED
        BY <4>1, <4>2
    <3> QED
      BY <1>1, <1>4, <1>5, <1>14, <3>1, <3>2 DEF MadeAt, NChunks
  <2> QED
    BY <1>5, <2>1, <2>2 DEF MadeOK
<1>18. Aborts' /\ SetDone'
  BY <1>4, <1>5, <1>7 DEF PoolInv, Geometry, Aborts, SetDone
<1>19. SameStages
  BY <1>4, <1>5, <1>14 DEF SameStages
<1> QED
  BY <1>4, <1>8, <1>11, <1>15, <1>16, <1>17, <1>18, <1>19 DEF PoolInv, Control, Geometry

\* The chunks of a product for n threads are at least n.
LEMMA EnoughChunks ==
    ASSUME NEW m \in Nat \ {0}
    PROVE  NChunks(m) \in Nat /\ NChunks(m) >= m
  BY ChunksAssumption DEF NChunks

\* While a thread is at the chunks of a product, all are past its barrier, nobody holds
\* a chunk of another node, the nodes before are done and those after not begun.
LEMMA ChunkWorld ==
    ASSUME PoolInv, NEW t \in Threads, pc[t] = "chunk", bar[t] = "out", NEW k, k = node[t]
    PROVE  /\ t \in Crew /\ InChunks(t, k) /\ Held(t) = mychunk[t] /\ Pos(t) = 8 * k + 4
           /\ k \in 1..Len(graph) /\ Len(graph) \in Nat /\ graph[k] = "mul"
           /\ k < EndNode /\ EndNode \in Nat
           /\ nGraph[2] <= chunk /\ mychunk[t] < chunk /\ nth[t] = nGraph[2]
           /\ \A u \in Crew \ {t} : InChunks(u, k) => Held(u) # mychunk[t]
           /\ \A u \in Crew : Pos(u) \in Nat /\ Past(u, 8 * k + 3)
           /\ \A u \in Crew, j \in 1..Len(graph) : InChunks(u, j) => j = k
           /\ \A u \in Crew, j \in 1..Len(graph) : graph[j] # "nop" /\ j < k => Done(u, j)
           /\ \A u \in Crew, j \in 1..Len(graph) : graph[j] = "mul" /\ j > k => ~Past(u, 8 * j + 3)
<1>1. t \in Crew /\ AtWork(t) /\ Crew \subseteq Threads
  BY InCrew DEF InGraph
<1>2. PoolTypes
  BY DEF PoolInv, Control
<1>3. /\ Place(t) /\ k \in 1..Len(graph) /\ Len(graph) \in Nat /\ Pos(t) = 8 * k + 4
      /\ graph[k] = "mul" /\ k < EndNode /\ EndNode \in Nat \ {0} /\ nth[t] = nGraph[2]
  BY <1>1, WorkFacts DEF StageNo, Place
<1>4. InChunks(t, k) /\ Held(t) = mychunk[t]
  BY <1>3 DEF InChunks, Held
<1>5. /\ nGraph[2] <= chunk /\ mychunk[t] < chunk
      /\ \A u \in Crew \ {t} : InChunks(u, k) => Held(u) # mychunk[t]
  <2>1. /\ nGraph[2] <= chunk /\ Held(t) < chunk
        /\ \A u \in Crew \ {t} : InChunks(u, k) => Held(t) # Held(u)
    BY <1>1, <1>3, <1>4 DEF PoolInv, Geometry, Holding
  <2> QED
    BY <1>4, <2>1
<1>6. \A u \in Crew : Pos(u) \in Nat /\ Pos(u) <= 8 * EndNode + 1
  BY PosBound
<1>7. ~Released(t)
  BY DEF Released
<1>8. \A j \in 1..Len(graph) : graph[j] = "mul" /\ j < EndNode => 8 * j + 3 \in Locs
  BY <1>2, <1>3, LocAfter
<1>9. \A u, v \in Crew, j \in 1..Len(graph) :
          graph[j] = "mul" /\ j < EndNode /\ Past(u, 8 * j + 3) => Past(v, 8 * j + 3)
  BY <1>8 DEF PoolInv, Geometry, Together
<1>10. Past(t, 8 * k + 3)
  BY <1>3 DEF Past
<1>11. \A u \in Crew : Past(u, 8 * k + 3)
  BY <1>1, <1>3, <1>9, <1>10
<1>12. ASSUME NEW u \in Crew, NEW j \in 1..Len(graph), graph[j] = "mul", j > k
       PROVE  ~Past(u, 8 * j + 3)
  <2>1. CASE j < EndNode
    <3>1. ~Past(t, 8 * j + 3)
      BY <1>3, <1>12 DEF Past
    <3> QED
      BY <1>1, <1>9, <1>12, <2>1, <3>1
  <2>2. CASE j >= EndNode
    BY <1>3, <1>6, <2>2 DEF Past
  <2> QED
    BY <1>3, <2>1, <2>2
<1>13. ASSUME NEW u \in Crew, NEW j \in 1..Len(graph), graph[j] # "nop", j < k
       PROVE  Pos(u) >= 8 * j + 6 /\ Done(u, j)
  <2>1. j < Len(graph) /\ Pos(t) > 8 * j + 6
    BY <1>3, <1>13
  <2> QED
    BY <1>1, <1>13, <2>1, OlderPassed
<1>14. ASSUME NEW u \in Crew, NEW j \in 1..Len(graph), InChunks(u, j) PROVE j = k
  <2>1. graph[j] = "mul"
    BY <1>3, <1>14, ChunkPlace
  <2>2. Past(u, 8 * j + 3) /\ ~Done(u, j)
    BY <1>3, <1>6, <1>14 DEF InChunks, Past, Done
  <2>3. ~(j > k)
    BY <1>12, <2>1, <2>2
  <2>4. ~(j < k)
    BY <1>13, <2>1, <2>2
  <2> QED
    BY <1>3, <2>3, <2>4
<1> QED
  BY <1>1, <1>3, <1>4, <1>5, <1>6, <1>11, <1>12, <1>13, <1>14

\* The positions of a thread before and after a chunk of node k, against the marks of
\* another node j.
LEMMA ChunkNumbers ==
    ASSUME NEW k \in Int, NEW j \in Int, j # k, NEW p, NEW q,
           p = 8 * k + 4, q = 8 * k + 4 \/ q = 8 * k + 5
    PROVE  /\ q > 8 * j + 1 <=> p > 8 * j + 1
           /\ q > 8 * j + 4 <=> p > 8 * j + 4
           /\ q > 8 * j + 3 <=> p > 8 * j + 3
<1>1. CASE j < k
  BY <1>1, SMT
<1>2. CASE j > k
  BY <1>2, SMT
<1> QED
  BY <1>1, <1>2, SMT

\* The step of a chunk, as the other nodes see it: only the items of node k change.
LEMMA ChunkElsewhere ==
    ASSUME PoolInv, NEW t \in Threads, pc[t] = "chunk", bar[t] = "out", NEW k, k = node[t],
           NEW j \in 1..Len(graph), j # k,
           Crew' = Crew, graph' = graph, nGraph' = nGraph,
           \A u \in Crew \ {t} : Pos(u)' = Pos(u), Pos(t)' \in {8 * k + 4, 8 * k + 5},
           \A u \in Crew : Released(u)' <=> Released(u),
           \A c : <<j, "all", c>> \in made' <=> <<j, "all", c>> \in made,
           \A c : <<j, "conv", c>> \in made' <=> <<j, "conv", c>> \in made,
           \A c : <<j, "mul", c>> \in made' <=> <<j, "mul", c>> \in made,
           Computing
    PROVE  MadeAt(j)'
<1>1. MadeAt(j)
  BY DEF PoolInv, Geometry, MadeOK
<1>2. /\ t \in Crew /\ Pos(t) = 8 * k + 4 /\ k \in 1..Len(graph) /\ Len(graph) \in Nat
      /\ graph[k] = "mul"
      /\ \A u \in Crew : Pos(u) \in Nat
      /\ \A u \in Crew : graph[j] # "nop" /\ j < k => Done(u, j)
      /\ \A u \in Crew : graph[j] = "mul" /\ j > k => ~Past(u, 8 * j + 3)
  BY ChunkWorld, SMTT(30)
<1>3. ~Released(t)
  BY DEF Released
<1>4. ASSUME NEW u \in Crew
      PROVE  /\ Begun(u, j)' <=> Begun(u, j)
             /\ Done(u, j)' <=> Done(u, j)
             /\ Past(u, 8 * j + 3)' <=> Past(u, 8 * j + 3)
  <2>1. CASE u = t
    <3>1. k \in Int /\ j \in Int
      BY <1>2
    <3>2. Pos(t)' = 8 * k + 4 \/ Pos(t)' = 8 * k + 5
      OBVIOUS
    <3>3. ~Released(t)'
      BY <1>2, <1>3
    <3>7. /\ Pos(t)' > 8 * j + 1 <=> Pos(t) > 8 * j + 1
          /\ Pos(t)' > 8 * j + 4 <=> Pos(t) > 8 * j + 4
          /\ Pos(t)' > 8 * j + 3 <=> Pos(t) > 8 * j + 3
      BY <1>2, <3>1, <3>2, ChunkNumbers
    <3>4. Begun(t, j)' <=> Begun(t, j)
      BY <3>7 DEF Begun
    <3>5. Done(t, j)' <=> Done(t, j)
      BY <3>7 DEF Done
    <3>6. Past(t, 8 * j + 3)' <=> Past(t, 8 * j + 3)
      BY <1>3, <3>3, <3>7 DEF Past
    <3> QED
      BY <2>1, <3>4, <3>5, <3>6
  <2>2. CASE u # t
    <3>1. Pos(u)' = Pos(u) /\ (Released(u)' <=> Released(u))
      BY <2>2
    <3> QED
      BY <3>1 DEF Begun, Done, Past
  <2> QED
    BY <2>1, <2>2
<1>5. ASSUME graph[j] = "mul", NEW c PROVE HandedOut(j, c)' <=> HandedOut(j, c)
  <2>1. CASE j < k
    BY <1>2, <1>4, <1>5, <2>1 DEF HandedOut
  <2>2. CASE j > k
    <3>1. \A u \in Crew : ~Done(u, j)
      BY <1>2, <1>5, <2>2 DEF Done, Past
    <3> QED
      BY <1>2, <1>4, <1>5, <2>2, <3>1 DEF HandedOut
  <2> QED
    BY <1>2, <2>1, <2>2
<1> QED
  BY <1>1, <1>4, <1>5 DEF MadeAt, NChunks

\* ggml_compute_forward_mul_mat: a chunk is done and the next one fetched.
LEMMA DoChunkKeeps ==
    ASSUME PoolInv, NEW t \in Threads, DoChunk(t)
    PROVE  PoolInv' /\ (SameStages \/ Finishes(t))
<1>0. PICK k, c0 : k = node[t] /\ c0 = mychunk[t]
  OBVIOUS
<1>1. /\ pc[t] = "chunk" /\ bar[t] = "out"
      /\ UNCHANGED <<poolVars, waitVars, graph, abort, ec, mine, nth, node, barVars>>
  BY DEF DoChunk, At
<1>2. PoolTypes /\ nGraph[2] \in 0..NThreads /\ NThreads \in Nat
  BY CrewFacts DEF PoolInv, Control
<1>3. /\ t \in Crew /\ InChunks(t, k) /\ Held(t) = c0 /\ Pos(t) = 8 * k + 4
      /\ k \in 1..Len(graph) /\ Len(graph) \in Nat /\ graph[k] = "mul"
      /\ k < EndNode /\ EndNode \in Nat
      /\ nGraph[2] <= chunk /\ c0 < chunk /\ nth[t] = nGraph[2]
      /\ \A u \in Crew \ {t} : InChunks(u, k) => Held(u) # c0
      /\ \A u \in Crew : Pos(u) \in Nat /\ Past(u, 8 * k + 3)
      /\ \A u \in Crew, j \in 1..Len(graph) : InChunks(u, j) => j = k
  BY <1>0, <1>1, ChunkWorld
<1>4. /\ Computing /\ Crew \subseteq Threads /\ nGraph[2] \in 1..NThreads /\ 0 \in Crew
      /\ AtWork(t) /\ Crew = 0..nGraph[2] - 1
  BY <1>1, InCrew DEF InGraph
<1>5. NChunks(nGraph[2]) \in Nat /\ NChunks(nGraph[2]) >= nGraph[2] /\ c0 \in Nat /\ chunk \in Nat
  BY <1>0, <1>2, <1>4, EnoughChunks DEF PoolTypes
<1>6. PICK s \in {"after", "chunk"} :
          /\ pc' = [pc EXCEPT ![t] = s]
          /\ s = "after" => chunk' = chunk /\ mychunk' = mychunk
          /\ \/ s = "after" /\ c0 >= NChunks(nGraph[2]) /\ made' = made
             \/ /\ s = "after" /\ NChunks(nGraph[2]) = nGraph[2]
                /\ made' = made \cup {<<k, "mul", c0>>} /\ c0 < NChunks(nGraph[2])
             \/ /\ s = "chunk" /\ nGraph[2] < NChunks(nGraph[2])
                /\ made' = made \cup {<<k, "mul", c0>>} /\ c0 < NChunks(nGraph[2])
                /\ chunk' = chunk + 1 /\ mychunk' = [mychunk EXCEPT ![t] = chunk]
  <2>1. pc = [pc EXCEPT ![t] = "chunk"]
    BY <1>1, <1>2 DEF PoolTypes
  <2>2. nth[t] >= NChunks(nth[t]) <=> NChunks(nGraph[2]) = nGraph[2]
    BY <1>3, <1>5, <1>4
  <2>3. ~(nth[t] >= NChunks(nth[t])) <=> nGraph[2] < NChunks(nGraph[2])
    BY <1>3, <1>5, <1>4
  <2>4. CASE c0 >= NChunks(nGraph[2])
    BY <1>0, <1>3, <1>5, <2>4, SMTT(30) DEF DoChunk, GoTo
  <2>5. CASE c0 < NChunks(nGraph[2]) /\ nth[t] >= NChunks(nth[t])
    BY <1>0, <1>3, <1>5, <2>2, <2>5 DEF DoChunk, GoTo
  <2>6. CASE c0 < NChunks(nGraph[2]) /\ ~(nth[t] >= NChunks(nth[t]))
    BY <1>0, <1>3, <1>5, <2>1, <2>3, <2>6 DEF DoChunk, GoTo
  <2> QED
    BY <1>5, <2>4, <2>5, <2>6
<1>7. s \in InGraph \ {"enter", "set"} /\ "chunk" \in InGraph
  BY DEF InGraph, Barriers
<1>8. /\ ~Fresh(t) /\ ~Released(t)
      /\ Computing' /\ Crew' = Crew /\ nGraph' = nGraph
      /\ pc'[t] = s /\ \A u \in Threads \ {t} : pc'[u] = pc[u]
      /\ \A u : (Fresh(u)' <=> Fresh(u)) /\ (Released(u)' <=> Released(u))
      /\ \A u \in Threads \ {t} : AtWork(u)' <=> AtWork(u)
      /\ AtWork(t)'
      /\ Roles' /\ News' /\ Stale' /\ Outside' /\ CrewInv(Crew)'
  BY <1>1, <1>6, <1>7, StepFrame
<1>9. /\ graph' = graph /\ abort' = abort /\ ec' = ec /\ EndNode' = EndNode
      /\ mine' = mine /\ nth' = nth /\ node' = node
  BY <1>1 DEF EndNode
<1>10. chunk' \in Nat /\ mychunk' \in [Threads -> Nat]
  <2>1. mychunk \in [Threads -> Nat]
    BY <1>2 DEF PoolTypes
  <2>2. CASE s = "after"
    BY <1>5, <1>6, <2>1, <2>2
  <2>3. CASE s = "chunk"
    BY <1>5, <1>6, <2>1, <2>3
  <2> QED
    BY <2>2, <2>3
<1>11. PoolTypes'
  BY <1>1, <1>2, <1>6, <1>7, <1>9, <1>10 DEF PoolTypes, PcValues, poolVars, waitVars
<1>12. Pos(t)' = IF s = "chunk" THEN 8 * k + 4 ELSE 8 * k + 5
  BY <1>0, <1>6, <1>7, <1>8, <1>9 DEF Pos, StageNo
<1>13. \A u \in Crew \ {t} : Pos(u)' = Pos(u)
  BY <1>4, <1>8, <1>9, OthersStay
<1>14. Places'
  <2>1. Place(t)
    BY <1>4 DEF PoolInv, Geometry, Places
  <2>2. Place(t)'
    BY <1>0, <1>3, <1>6, <1>8, <1>9, <2>1 DEF Place
  <2> QED
    BY <1>4, <1>8, <1>9, <2>2, OthersPlaced
<1>15. \A u \in Crew \ {t} : Held(u)' = Held(u)
  <2>1. \A u \in Threads \ {t} : mychunk'[u] = mychunk[u]
    BY <1>2, <1>6 DEF PoolTypes
  <2> QED
    BY <1>1, <1>4, <2>1 DEF Held, barVars
<1>16. s = "chunk" => Held(t)' = chunk
  BY <1>1, <1>2, <1>6 DEF Held, barVars, PoolTypes
<1>17. Together'
  <2>1. Locs' = Locs
    BY <1>9 DEF Locs
  <2>2. ASSUME NEW L \in Locs PROVE \A u \in Crew : Past(u, L)' <=> Past(u, L)
    <3>1. L \in Nat /\ (L < 8 * k + 4 \/ L >= 8 * k + 6)
      BY <1>2, <1>3, LocFacts, SMTT(30)
    <3> QED
      BY <1>3, <1>8, <1>12, <1>13, <3>1 DEF Past
  <2> QED
    BY <1>8, <2>1, <2>2, TogetherKept
<1>18. \A u \in Crew \ {t}, j \in 1..Len(graph) : InChunks(u, j)' <=> InChunks(u, j)
  BY <1>8, <1>13 DEF InChunks
<1>19. \A j \in 1..Len(graph) : InChunks(t, j)' <=> j = k /\ s = "chunk"
  BY <1>3, <1>8, <1>12 DEF InChunks
<1>20. \A u \in Crew \ {t} : InChunks(u, k) => Held(u) < chunk /\ Held(u) \in Nat
                                  /\ (NChunks(nGraph[2]) = nGraph[2] => Held(u) = u)
  <2>1. \A u \in Crew : Held(u) \in Nat
    <3>1. \A u \in Crew : u \in Nat /\ u \in Threads
      BY <1>4
    <3>2. \A u \in Threads : mychunk[u] \in Nat
      BY <1>2 DEF PoolTypes
    <3> QED
      BY <3>1, <3>2 DEF Held
  <2> QED
    BY <1>3, <2>1 DEF PoolInv, Geometry, Holding
<1>21. Holding'
  <2> SUFFICES ASSUME NEW u \in Crew, NEW j \in 1..Len(graph), InChunks(u, j)'
               PROVE  /\ nGraph[2] <= chunk' /\ Held(u)' < chunk'
                      /\ \A v \in Crew \ {u} : InChunks(v, j)' => Held(u)' # Held(v)'
                      /\ NChunks(nGraph[2]) = nGraph[2] => Held(u)' = u
    BY <1>8, <1>9 DEF Holding, NChunks
  <2>1. j = k
    BY <1>3, <1>18, <1>19
  <2>2. CASE s = "after"
    <3>1. u # t /\ chunk' = chunk /\ InChunks(u, k)
      BY <1>6, <1>18, <1>19, <2>1, <2>2
    <3>2. \A v \in Crew \ {u} : InChunks(v, k) => Held(u) # Held(v)
      BY <1>3, <3>1 DEF PoolInv, Geometry, Holding
    <3>3. \A v \in Crew \ {u} : InChunks(v, j)' => v # t /\ InChunks(v, k)
      BY <1>18, <1>19, <2>1, <2>2
    <3> QED
      BY <1>3, <1>15, <1>20, <2>1, <3>1, <3>2, <3>3
  <2>3. CASE s = "chunk"
    <3>1. chunk' = chunk + 1 /\ NChunks(nGraph[2]) # nGraph[2]
      BY <1>5, <1>6, <2>3
    <3>2. \A v \in Crew \ {t} : InChunks(v, k) => Held(v)' < chunk /\ Held(v)' \in Nat
      BY <1>15, <1>20
    <3>3. \A v, w \in Crew \ {t} : v # w /\ InChunks(v, k) /\ InChunks(w, k) => Held(v)' # Held(w)'
      BY <1>3, <1>15 DEF PoolInv, Geometry, Holding
    <3>4. CASE u = t
      <4>1. Held(u)' = chunk
        BY <1>16, <2>3, <3>4
      <4>2. nGraph[2] <= chunk' /\ Held(u)' < chunk'
        BY <1>2, <1>3, <1>5, <3>1, <4>1
      <4>3. ASSUME NEW v \in Crew \ {u}, InChunks(v, j)' PROVE Held(u)' # Held(v)'
        <5>1. v \in Crew \ {t} /\ InChunks(v, k)
          BY <1>18, <2>1, <3>4, <4>3
        <5>2. Held(v)' < chunk /\ Held(v)' \in Nat
          BY <3>2, <5>1
        <5> QED
          BY <1>5, <4>1, <5>2
      <4> QED
        BY <3>1, <4>2, <4>3
    <3>5. CASE u # t
      <4>1. InChunks(u, k)
        BY <1>18, <2>1, <3>5
      <4>2. ASSUME NEW v \in Crew \ {u}, InChunks(v, j)' PROVE Held(u)' # Held(v)'
        <5>1. CASE v = t
          <6>1. Held(v)' = chunk
            BY <1>16, <2>3, <5>1
          <6>2. Held(u)' < chunk /\ Held(u)' \in Nat
            BY <3>2, <3>5, <4>1
          <6> QED
            BY <1>5, <6>1, <6>2
        <5>2. CASE v # t
          BY <1>18, <2>1, <3>3, <3>5, <4>1, <4>2, <5>2
        <5> QED
          BY <5>1, <5>2
      <4>3. Held(u)' < chunk /\ Held(u)' \in Nat
        BY <3>2, <3>5, <4>1
      <4>4. nGraph[2] <= chunk' /\ Held(u)' < chunk'
        BY <1>2, <1>3, <1>5, <3>1, <4>3, SMTT(30)
      <4> QED
        BY <3>1, <4>2, <4>4
    <3> QED
      BY <3>4, <3>5
  <2> QED
    BY <2>2, <2>3
<1>22. MadeOK'
  <2>1. (made \subseteq ItemsBefore(graph, Len(graph) + 1, nGraph[2]))'
    <3>1. made \subseteq ItemsBefore(graph, Len(graph) + 1, nGraph[2])
      BY <1>4 DEF PoolInv, Geometry, MadeOK
    <3>2. c0 < NChunks(nGraph[2]) =>
              <<k, "mul", c0>> \in ItemsBefore(graph, Len(graph) + 1, nGraph[2])
      <4>1. c0 < NChunks(nGraph[2]) => <<k, "mul", c0>> \in Items(graph, k, nGraph[2])
        BY <1>3, <1>5 DEF Items
      <4>2. k \in 1..(Len(graph) + 1) - 1
        BY <1>3
      <4> QED
        BY <4>1, <4>2 DEF ItemsBefore
    <3>3. made' \subseteq ItemsBefore(graph, Len(graph) + 1, nGraph[2])
      BY <1>6, <3>1, <3>2
    <3> QED
      BY <1>8, <1>9, <3>3
  <2>2. ASSUME NEW j \in 1..Len(graph), j # k PROVE MadeAt(j)'
    <3>1. \A c : /\ <<j, "all", c>> \in made' <=> <<j, "all", c>> \in made
                 /\ <<j, "conv", c>> \in made' <=> <<j, "conv", c>> \in made
                 /\ <<j, "mul", c>> \in made' <=> <<j, "mul", c>> \in made
      BY <1>6, <2>2
    <3>2. Pos(t)' \in {8 * k + 4, 8 * k + 5}
      BY <1>12
    <3> QED
      BY <1>0, <1>1, <1>4, <1>8, <1>9, <1>13, <2>2, <3>1, <3>2, ChunkElsewhere
  <2>3. MadeAt(k)'
    <3>1. MadeAt(k)
      BY <1>3, <1>4 DEF PoolInv, Geometry, MadeOK
    <3>2. \A u : <<k, "conv", u>> \in made' <=> <<k, "conv", u>> \in made
      BY <1>6
    <3>3. \A u \in Crew : Begun(u, k)' <=> Begun(u, k)
      BY <1>3, <1>12, <1>13 DEF Begun
    <3>4. \A u \in Crew : Past(u, 8 * k + 3)'
      BY <1>3, <1>8, <1>12, <1>13 DEF Past
    <3>5. ~Done(t, k) /\ \A u \in Crew : InChunks(u, k) => ~Done(u, k)
      BY <1>3 DEF Done, InChunks
    <3> DEFINE Free(c) == \A u \in Crew \ {t} : ~(InChunks(u, k) /\ Held(u) = c)
    <3>6. ASSUME NEW c \in 0..NChunks(nGraph[2]) - 1
          PROVE  <<k, "mul", c>> \in made <=> c < chunk /\ c # c0 /\ Free(c)
      <4>1. <<k, "mul", c>> \in made <=> HandedOut(k, c)
        BY <1>3, <3>1, <3>6 DEF MadeAt
      <4>2. HandedOut(k, c) <=> c < chunk /\ \A u \in Crew : ~(InChunks(u, k) /\ Held(u) = c)
        BY <1>3, <3>5 DEF HandedOut
      <4>3. (\A u \in Crew : ~(InChunks(u, k) /\ Held(u) = c)) <=> c # c0 /\ Free(c)
        BY <1>3
      <4> QED
        BY <4>1, <4>2, <4>3
    <3>7. Free(c0)
      BY <1>3
    <3>8. ASSUME NEW c \in 0..NChunks(nGraph[2]) - 1, s = "after"
          PROVE  HandedOut(k, c)' <=> c < chunk /\ Free(c)
      <4>1. chunk' = chunk /\ c < chunk
        BY <1>3, <1>5, <1>6, <1>4, <3>8
      <4>2. (\A u \in Crew : ~(InChunks(u, k) /\ Held(u) = c)') <=> Free(c)
        BY <1>3, <1>15, <1>18, <1>19, <3>8
      <4>3. (\A u \in Crew : Done(u, k)') => Free(c)
        BY <1>3, <1>13, <3>5 DEF Done
      <4> QED
        BY <1>8, <3>4, <4>1, <4>2, <4>3 DEF HandedOut
    <3>9. ASSUME NEW c \in 0..NChunks(nGraph[2]) - 1, s = "chunk"
          PROVE  HandedOut(k, c)' <=> c < chunk /\ Free(c)
      <4>1. chunk' = chunk + 1 /\ ~Done(t, k)'
        BY <1>6, <1>12, <1>3, <3>9 DEF Done
      <4>2. (\A u \in Crew : ~(InChunks(u, k) /\ Held(u) = c)') <=> c # chunk /\ Free(c)
        BY <1>3, <1>15, <1>16, <1>18, <1>19, <3>9
      <4>3. HandedOut(k, c)' <=> c < chunk + 1 /\ c # chunk /\ Free(c)
        BY <1>3, <1>8, <3>4, <4>1, <4>2 DEF HandedOut
      <4> QED
        BY <1>5, <4>3
    <3>10. ASSUME NEW c \in 0..NChunks(nGraph[2]) - 1
           PROVE  <<k, "mul", c>> \in made' <=> c < chunk /\ Free(c)
      <4>1. CASE c0 >= NChunks(nGraph[2])
        <5>1. made' = made /\ c # c0
          BY <1>5, <1>6, <4>1
        <5> QED
          BY <3>6, <5>1
      <4>2. CASE c0 < NChunks(nGraph[2])
        <5>1. made' = made \cup {<<k, "mul", c0>>}
          BY <1>5, <1>6, <4>2
        <5> QED
          BY <1>3, <3>6, <3>7, <5>1
      <4> QED
        BY <1>5, <4>1, <4>2
    <3> HIDE DEF Free
    <3>11. \A c \in 0..NChunks(nGraph[2]) - 1 : <<k, "mul", c>> \in made' <=> HandedOut(k, c)'
      BY <3>8, <3>9, <3>10
    <3>12. \A u \in Crew : <<k, "conv", u>> \in made' <=> Begun(u, k)'
      BY <1>3, <3>1, <3>2, <3>3 DEF MadeAt
    <3> QED
      BY <1>3, <1>8, <1>9, <3>11, <3>12 DEF MadeAt, NChunks
  <2> QED
    BY <1>9, <2>1, <2>2, <2>3 DEF MadeOK
<1>23. Aborts' /\ SetDone'
  <2>1. Aborts'
    BY <1>4, <1>8, <1>9 DEF PoolInv, Geometry, Aborts
  <2>2. SetDone'
    <3> SUFFICES ASSUME pc'[0] = "mulBarrier", ~Released(0)' PROVE chunk' = nGraph'[2]
      BY DEF SetDone
    <3>1. t # 0 /\ pc[0] = "mulBarrier" /\ ~Released(0)
      BY <1>4, <1>6, <1>8
    <3>2. AtWork(0) /\ node[0] <= Len(graph) /\ StageNo(pc[0]) <= 3
      <4>1. AtWork(0)
        BY <1>4, <3>1, InCrew DEF InGraph, Barriers
      <4> QED
        BY <1>4, <3>1, <4>1, WorkFacts DEF StageNo
    <3>3. ~InChunks(t, k)
      BY <1>3, <1>4, <3>1, <3>2, EarlierProducts
    <3> QED
      BY <1>3, <3>3
  <2> QED
    BY <2>1, <2>2
<1>24. CASE s = "after"
  <2>1. Finishes(t)
    BY <1>3, <1>8, <1>9, <1>12, <1>13, <1>24 DEF Finishes
  <2> QED
    BY <1>8, <1>11, <1>14, <1>17, <1>21, <1>22, <1>23, <2>1 DEF PoolInv, Control, Geometry
<1>25. CASE s = "chunk"
  <2>1. \A u \in Crew : Pos(u)' = Pos(u)
    BY <1>3, <1>12, <1>13, <1>25
  <2>2. SameStages
    BY <1>8, <1>9, <2>1 DEF SameStages, Begun, Done
  <2> QED
    BY <1>8, <1>11, <1>14, <1>17, <1>21, <1>22, <1>23, <2>2 DEF PoolInv, Control, Geometry
<1> QED
  BY <1>24, <1>25

\* The end of a node: thread 0 may ask all to leave at the next one, which nobody has
\* reached; the last node has no barrier.
LEMMA AfterNodeKeeps ==
    ASSUME PoolInv, NEW t \in Threads, AfterNode(t)
    PROVE  PoolInv' /\ SameStages
<1>0. PICK k, n, s :
          /\ k = node[t]
          /\ s = IF k < Len(graph) THEN "nodeBarrier" ELSE "node"
          /\ n = IF k < Len(graph) THEN k ELSE k + 1
  OBVIOUS
<1>1. /\ pc[t] = "after" /\ bar[t] = "out"
      /\ UNCHANGED <<poolVars, waitVars, graph, chunk, mine, nth, mychunk, made, barVars>>
      /\ \/ UNCHANGED <<abort, ec>>
         \/ t = 0 /\ abort' = k + 1 /\ ec' = "aborted"
  BY <1>0 DEF AfterNode, At
<1>2. PoolTypes
  BY DEF PoolInv, Control
<1>3. /\ "after" \in InGraph /\ s \in InGraph \ {"enter", "set"} /\ s \in {"nodeBarrier", "node"}
  BY <1>0 DEF InGraph, Barriers
<1>4. AtWork(t) /\ Computing
  BY <1>1, <1>3, InCrew DEF Released
<1>5. /\ Place(t) /\ k \in 1..Len(graph) /\ Len(graph) \in Nat /\ Pos(t) = 8 * k + 5
      /\ mine[t] = graph /\ graph[k] # "nop" /\ k < EndNode /\ EndNode \in Nat \ {0}
      /\ EndNode <= Len(graph) + 1
  BY <1>0, <1>1, <1>4, WorkFacts DEF StageNo, Place
<1>6. pc' = [pc EXCEPT ![t] = s] /\ node' = [node EXCEPT ![t] = n]
  <2>1. node = [node EXCEPT ![t] = k]
    BY <1>0, <1>2 DEF PoolTypes
  <2> QED
    BY <1>0, <1>5, <2>1 DEF AfterNode, GoTo
<1>7. /\ t \in Crew /\ ~Fresh(t) /\ ~Released(t)
      /\ Computing' /\ Crew' = Crew /\ Crew \subseteq Threads
      /\ nGraph' = nGraph
      /\ pc'[t] = s /\ \A u \in Threads \ {t} : pc'[u] = pc[u]
      /\ \A u : (Fresh(u)' <=> Fresh(u)) /\ (Released(u)' <=> Released(u))
      /\ \A u \in Threads \ {t} : AtWork(u)' <=> AtWork(u)
      /\ AtWork(t)'
      /\ Roles' /\ News' /\ Stale' /\ Outside' /\ CrewInv(Crew)'
  BY <1>1, <1>3, <1>6, StepFrame
<1>8. /\ graph' = graph /\ chunk' = chunk /\ made' = made
      /\ mine' = mine /\ nth' = nth /\ mychunk' = mychunk
      /\ node'[t] = n /\ \A u \in Threads \ {t} : node'[u] = node[u]
  BY <1>1, <1>2, <1>6 DEF PoolTypes
<1>9. n \in Nat \ {0}
  BY <1>0, <1>5
<1>10. PoolTypes'
  <2>1. abort' \in Nat /\ ec' \in {"success", "aborted"}
    BY <1>1, <1>2, <1>5, SMTT(30) DEF PoolTypes
  <2>2. pc' \in [Threads -> PcValues] /\ node' \in [Threads -> Nat \ {0}]
    BY <1>2, <1>3, <1>6, <1>9 DEF PoolTypes, PcValues
  <2> QED
    BY <1>1, <1>2, <1>8, <2>1, <2>2 DEF PoolTypes, poolVars, waitVars
<1>11. EndNode' = EndNode \/ (k < Len(graph) /\ EndNode' = k + 1)
  <2>1. CASE UNCHANGED <<abort, ec>>
    BY <1>8, <2>1 DEF EndNode
  <2>2. CASE abort' = k + 1
    <3>1. EndNode' = k + 1
      BY <1>5, <2>2 DEF EndNode
    <3>2. k < Len(graph) \/ EndNode = k + 1
      BY <1>5
    <3> QED
      BY <3>1, <3>2
  <2> QED
    BY <1>1, <2>1, <2>2
<1>12. ASSUME k < Len(graph), NEW u \in Crew PROVE Pos(u) <= 8 * k + 6 /\ ~Past(u, 8 * k + 6)
  <2>1. 8 * k + 6 \in Locs
    BY <1>2, <1>5, <1>12, LocAfter
  <2>2. ~Past(t, 8 * k + 6)
    BY <1>5 DEF Past
  <2>3. ~Past(u, 8 * k + 6)
    BY <1>7, <2>1, <2>2 DEF PoolInv, Geometry, Together
  <2>4. Pos(u) \in Nat
    BY PosBound
  <2> QED
    BY <1>5, <2>3, <2>4 DEF Past
<1>13. \A u \in Crew : Pos(u) \in Nat
  BY PosBound
<1>14. Pos(t)' = IF k < Len(graph) THEN 8 * k + 6 ELSE 8 * k + 8
  BY <1>0, <1>3, <1>5, <1>7, <1>8 DEF Pos, StageNo
<1>15. ASSUME NEW u \in Crew \ {t} PROVE Pos(u)' = Pos(u)
  <2>1. CASE EndNode' = EndNode
    BY <1>7, <1>8, <2>1, OthersStay
  <2>2. CASE k < Len(graph)
    <3>1. Pos(u) # 8 * EndNode + 1
      BY <1>5, <1>12, <2>2
    <3>2. Fresh(u) \/ pc[u] \in {"signal", "enter"} \/ pc[u] \in InGraph
      BY <3>1 DEF Pos
    <3>3. pc'[u] = pc[u] /\ (Fresh(u)' <=> Fresh(u)) /\ node'[u] = node[u]
      BY <1>7, <1>8
    <3> QED
      BY <3>2, <3>3 DEF Pos
  <2> QED
    BY <1>11, <2>1, <2>2
<1>16. Places'
  <2>1. Place(t)'
    <3>1. n <= EndNode' /\ (s = "nodeBarrier" => n < EndNode' /\ n < Len(graph) /\ n = k)
      BY <1>0, <1>5, <1>11
    <3>2. s # "lastBarrier" /\ s \notin {"calc", "conv", "set", "mulBarrier", "chunk", "after"}
      BY <1>3
    <3> QED
      BY <1>5, <1>3, <1>7, <1>8, <3>1, <3>2 DEF Place
  <2>2. CASE EndNode' = EndNode
    BY <1>7, <1>8, <2>1, <2>2, OthersPlaced
  <2>3. CASE k < Len(graph) /\ EndNode' = k + 1
    <3>1. ASSUME NEW u \in Threads \ {t}, AtWork(u) PROVE Place(u)'
      <4>1. u \in Crew /\ Pos(u) <= 8 * k + 6
        BY <1>12, <2>3, <3>1 DEF AtWork
      <4>2. /\ Place(u) /\ node[u] \in Nat \ {0}
            /\ Pos(u) = 8 * node[u] + StageNo(pc[u]) /\ StageNo(pc[u]) \in 0..6
        BY <3>1, WorkFacts
      <4>3. node[u] < k + 1
        BY <1>5, <4>1, <4>2, SMTT(30)
      <4>4. pc[u] # "lastBarrier"
        BY <1>5, <4>2, <4>3 DEF Place
      <4>5. pc'[u] = pc[u] /\ node'[u] = node[u]
        BY <1>7, <1>8
      <4> QED
        BY <1>5, <1>7, <1>8, <2>3, <4>2, <4>3, <4>4, <4>5 DEF Place
    <3> QED
      BY <1>7, <2>1, <3>1 DEF Places
  <2> QED
    BY <1>11, <2>2, <2>3
<1>17. \A u \in Crew : Held(u)' = Held(u)
  BY <1>1, <1>8 DEF Held, barVars
<1>18. ASSUME NEW u \in Crew, NEW j \in 1..Len(graph)
       PROVE  /\ InChunks(u, j)' <=> InChunks(u, j)
              /\ Begun(u, j)' <=> Begun(u, j)
              /\ Done(u, j)' <=> Done(u, j)
              /\ Past(u, 8 * j + 3)' <=> Past(u, 8 * j + 3)
  <2>1. CASE u = t
    <3>1. k \in Int /\ j \in Int
      BY <1>5
    <3>2. InChunks(t, j)' <=> InChunks(t, j)
      BY <1>5, <1>7, <1>14, <3>1 DEF InChunks
    <3>3. Begun(t, j)' <=> Begun(t, j)
      BY <1>5, <1>14, <3>1 DEF Begun
    <3>4. Done(t, j)' <=> Done(t, j)
      BY <1>5, <1>14, <3>1 DEF Done
    <3>5. Past(t, 8 * j + 3)' <=> Past(t, 8 * j + 3)
      BY <1>5, <1>7, <1>14, <3>1 DEF Past
    <3> QED
      BY <2>1, <3>2, <3>3, <3>4, <3>5
  <2>2. CASE u # t
    <3>1. Pos(u)' = Pos(u) /\ (Released(u)' <=> Released(u))
      BY <1>7, <1>15, <2>2
    <3> QED
      BY <3>1 DEF InChunks, Begun, Done, Past
  <2> QED
    BY <2>1, <2>2
<1>19. Together'
  <2>1. ASSUME NEW L \in Locs
        PROVE  \A u \in Crew : Past(u, L)' <=> Past(u, L)
    <3>1. L \in Nat /\ (L < 8 * k + 5 \/ L >= 8 * k + 8 \/ (L >= 8 * k + 6 /\ k < Len(graph)))
      BY <1>2, <1>5, LocFacts
    <3>2. Past(t, L)' <=> Past(t, L)
      BY <1>5, <1>7, <1>14, <3>1 DEF Past
    <3>3. \A u \in Crew \ {t} : Past(u, L)' <=> Past(u, L)
      BY <1>7, <1>15 DEF Past
    <3> QED
      BY <3>2, <3>3
  <2>2. CASE EndNode' = EndNode
    <3>1. Locs' = Locs
      BY <1>8, <2>2 DEF Locs
    <3> QED
      BY <1>7, <2>1, <3>1, TogetherKept
  <2>3. CASE k < Len(graph) /\ EndNode' = k + 1
    <3>1. \A L \in Locs' : L \in Locs \/ L = 8 * (k + 1)
      BY <1>5, <1>8, <2>3 DEF Locs
    <3>2. \A u \in Crew \ {t} : ~Past(u, 8 * (k + 1))'
      BY <1>5, <1>12, <1>13, <1>15, <2>3 DEF Past
    <3>3. ~Past(t, 8 * (k + 1))'
      BY <1>5, <1>14, <2>3 DEF Past
    <3>4. \A L \in Locs' : \/ L \in Locs /\ \A u \in Crew : Past(u, L)' <=> Past(u, L)
                           \/ \A u \in Crew : ~Past(u, L)'
      BY <2>1, <3>1, <3>2, <3>3
    <3> QED
      BY <1>7, <3>4, TogetherKept
  <2> QED
    BY <1>11, <2>2, <2>3
<1>20. Holding'
  BY <1>7, <1>8, <1>17, <1>18, HoldingKept
<1>21. MadeOK'
  BY <1>4, <1>7, <1>8, <1>17, <1>18, MadeKept
<1>22. Aborts' /\ SetDone'
  <2>1. Aborts
    BY DEF PoolInv, Geometry
  <2>2. Aborts'
    BY <1>1, <1>4, <1>5, <1>8, <2>1 DEF Aborts
  <2>3. pc'[0] = "mulBarrier" => pc[0] = "mulBarrier"
    BY <1>2, <1>3, <1>6 DEF PoolTypes
  <2>4. SetDone'
    BY <1>4, <1>7, <1>8, <2>3 DEF PoolInv, Geometry, SetDone
  <2> QED
    BY <2>2, <2>4
<1>23. SameStages
  BY <1>7, <1>8, <1>18 DEF SameStages
<1> QED
  BY <1>7, <1>10, <1>16, <1>19, <1>20, <1>21, <1>22, <1>23 DEF PoolInv, Control, Geometry

-----------------------------------------------------------------------------
(* ggml_barrier in the graph.                                              *)

\* A thread that waits in a barrier is at one of the places of Locs.
LEMMA BarrierPlace ==
    ASSUME PoolInv, NEW t \in Threads, AtWork(t), pc[t] \in Barriers, NEW k, k = node[t]
    PROVE  /\ Pos(t) \in Locs /\ Place(t)
           /\ k \in Nat \ {0} /\ EndNode \in Nat \ {0} /\ Len(graph) \in Nat
           /\ \/ /\ pc[t] = "mulBarrier" /\ Pos(t) = 8 * k + 3
                 /\ k \in 1..Len(graph) /\ k < EndNode /\ graph[k] = "mul"
              \/ /\ pc[t] = "nodeBarrier" /\ Pos(t) = 8 * k + 6
                 /\ k \in 1..Len(graph) /\ k < EndNode
              \/ pc[t] = "lastBarrier" /\ Pos(t) = 8 * k /\ k = EndNode
<1>1. /\ Place(t) /\ k \in Nat \ {0} /\ EndNode \in Nat \ {0} /\ Len(graph) \in Nat
      /\ Pos(t) = 8 * k + StageNo(pc[t])
      /\ pc[t] \notin {"node", "lastBarrier"} => k \in 1..Len(graph)
  BY WorkFacts
<1>2. PoolTypes
  BY DEF PoolInv, Control
<1>3. CASE pc[t] = "mulBarrier"
  <2>1. k \in 1..Len(graph) /\ k < EndNode /\ graph[k] = "mul" /\ Pos(t) = 8 * k + 3
    BY <1>1, <1>3 DEF Place, StageNo
  <2> QED
    BY <1>1, <1>2, <1>3, <2>1, LocAfter
<1>4. CASE pc[t] = "nodeBarrier"
  <2>1. /\ k \in 1..Len(graph) /\ k < EndNode /\ k < Len(graph) /\ graph[k] # "nop"
        /\ Pos(t) = 8 * k + 6
    BY <1>1, <1>4 DEF Place, StageNo
  <2> QED
    BY <1>1, <1>2, <1>4, <2>1, LocAfter
<1>5. CASE pc[t] = "lastBarrier"
  <2>1. k = EndNode /\ Pos(t) = 8 * k
    BY <1>1, <1>5 DEF Place, StageNo
  <2> QED
    BY <1>1, <1>5, <2>1, LocLast
<1> QED
  BY <1>3, <1>4, <1>5 DEF Barriers

\* A step inside the barrier that lets nobody out.
LEMMA BarrierMoves ==
    ASSUME PoolInv, NEW t \in Threads, pc[t] \in Barriers, ~Released(t), CrewInv(Crew)',
           UNCHANGED <<poolVars, waitVars, graphVars, localVars, pc, made>>,
           \A u \in Threads \ {t} : bar'[u] = bar[u],
           \A u \in Threads : Released(u)' <=> Released(u)
    PROVE  PoolInv' /\ SameStages
<1> USE DEF poolVars, waitVars, graphVars, localVars
<1>1. PoolTypes /\ Crew \subseteq Threads /\ 0 \in Threads
  BY CrewFacts DEF PoolInv, Control
<1>2. Computing' = Computing /\ Crew' = Crew /\ EndNode' = EndNode /\ Locs' = Locs
  BY DEF Computing, Crew, EndNode, Locs
<1>3. \A u : Fresh(u)' <=> Fresh(u)
  BY DEF Fresh
<1>4. \A u : (AtWork(u)' <=> AtWork(u)) /\ Pos(u)' = Pos(u) /\ (Place(u)' <=> Place(u))
  BY <1>2, <1>3 DEF AtWork, Pos, Place
<1>5. \A k \in 1..Len(graph) : ~InChunks(t, k)
  <2>1. AtWork(t)
    BY InCrew DEF InGraph, Barriers
  <2>2. PICK k : k = node[t]
    OBVIOUS
  <2>3. /\ k \in Nat /\ Len(graph) \in Nat
        /\ Pos(t) = 8 * k + 3 \/ Pos(t) = 8 * k + 6 \/ Pos(t) = 8 * k
    BY <2>1, <2>2, BarrierPlace
  <2> QED
    BY <2>3 DEF InChunks
<1>6. \A u \in Crew, k \in 1..Len(graph) :
          /\ InChunks(u, k)' <=> InChunks(u, k)
          /\ InChunks(u, k) => Held(u)' = Held(u)
          /\ Begun(u, k)' <=> Begun(u, k)
          /\ Done(u, k)' <=> Done(u, k)
  BY <1>1, <1>4, <1>5 DEF InChunks, Held, Begun, Done
<1>7. \A u \in Crew : \A L : Past(u, L)' <=> Past(u, L)
  BY <1>1, <1>4 DEF Past
<1>8. Together'
  BY <1>2, <1>7, TogetherKept
<1>9. Holding'
  BY <1>2, <1>6, HoldingKept
<1>10. MadeOK'
  BY <1>2, <1>6, <1>7, MadeKept
<1>11. Roles' /\ News' /\ Aborts' /\ SetDone'
  BY <1>1, <1>2 DEF PoolInv, Control, Geometry, Roles, News, Aborts, SetDone
<1>12. Stale' /\ Places'
  BY <1>2, <1>3, <1>4 DEF PoolInv, Control, Geometry, Stale, Places
<1>13. Outside'
  BY DEF PoolInv, Control, Outside
<1>14. PoolTypes'
  BY <1>1 DEF PoolTypes
<1>15. SameStages
  BY <1>2, <1>6 DEF SameStages
<1> QED
  BY <1>2, <1>8, <1>9, <1>10, <1>11, <1>12, <1>13, <1>14, <1>15 DEF PoolInv, Control, Geometry

\* A worker late from the last graph leaves its spin loop: the current one does not
\* count on it.
LEMMA StaleLeaves ==
    ASSUME PoolInv, NEW t \in Threads, pc[t] = "lastBarrier", t \notin Crew \/ Fresh(t),
           CrewInv(Crew)', LeaveBarrier(t),
           UNCHANGED <<poolVars, waitVars, graphVars, made>>,
           bar'[t] = "out", \A u \in Threads \ {t} : bar'[u] = bar[u],
           \A u \in Threads \ {t} : Released(u)' <=> Released(u)
    PROVE  PoolInv' /\ SameStages
<1> USE DEF poolVars, waitVars, graphVars
<1>1. /\ PoolTypes /\ Crew \subseteq Threads /\ 0 \in Threads /\ Workers = Threads \ {0}
      /\ Roles /\ (Computing => 0 \in Crew)
  BY CrewFacts DEF PoolInv, Control
<1>2. t # 0
  BY <1>1 DEF Fresh, Computing, InGraph, Barriers
<1>3. /\ pc' = [pc EXCEPT ![t] = "top"]
      /\ mine' = [mine EXCEPT ![t] = <<>>] /\ nth' = [nth EXCEPT ![t] = 0]
      /\ node' = [node EXCEPT ![t] = 1] /\ mychunk' = [mychunk EXCEPT ![t] = 0]
  BY <1>2 DEF LeaveBarrier, GoTo
<1>4. /\ pc'[t] = "top"
      /\ \A u \in Threads \ {t} : /\ pc'[u] = pc[u] /\ mine'[u] = mine[u] /\ nth'[u] = nth[u]
                                  /\ node'[u] = node[u] /\ mychunk'[u] = mychunk[u]
  BY <1>1, <1>3 DEF PoolTypes
<1>5. PoolTypes'
  <2>1. 0 \in 0..NThreads
    BY CrewFacts DEF PoolInv, Control
  <2>2. /\ pc' \in [Threads -> PcValues] /\ node' \in [Threads -> Nat \ {0}]
        /\ mychunk' \in [Threads -> Nat]
    BY <1>1, <1>3 DEF PoolTypes, PcValues
  <2>3. mine' \in [Threads -> Graphs \cup {<<>>}]
    BY <1>1, <1>3 DEF PoolTypes
  <2>4. nth' \in [Threads -> 0..NThreads]
    BY <1>1, <1>3, <2>1 DEF PoolTypes
  <2> QED
    BY <1>1, <2>2, <2>3, <2>4 DEF PoolTypes
<1>6. Computing' = Computing /\ Crew' = Crew /\ EndNode' = EndNode /\ Locs' = Locs
  BY <1>1, <1>2, <1>4 DEF Computing, Crew, EndNode, Locs
<1>7. \A u : Fresh(u)' <=> Fresh(u)
  BY DEF Fresh
<1>8. \A u \in Threads \ {t} :
          (AtWork(u)' <=> AtWork(u)) /\ Pos(u)' = Pos(u) /\ (Place(u)' <=> Place(u))
  BY <1>4, <1>6, <1>7 DEF AtWork, Pos, Place
<1>9. t \in Crew => Pos(t) = 0 /\ Pos(t)' = 0
  BY <1>7 DEF Pos
<1>10. ~AtWork(t)'
  BY <1>4 DEF AtWork, Inside, InGraph, Barriers
<1>11. Len(graph) \in Nat /\ EndNode \in Nat \ {0}
  BY <1>1, GraphFacts, PosFacts
<1>12. \A L \in Locs : L \in Nat /\ L > 0
  BY <1>11 DEF Locs
<1>13. ASSUME NEW u \in Crew, NEW k \in 1..Len(graph)
       PROVE  /\ InChunks(u, k)' <=> InChunks(u, k)
              /\ InChunks(u, k) => Held(u)' = Held(u)
              /\ Begun(u, k)' <=> Begun(u, k)
              /\ Done(u, k)' <=> Done(u, k)
              /\ Past(u, 8 * k + 3)' <=> Past(u, 8 * k + 3)
  <2>1. CASE u = t
    BY <1>9, <1>11, <2>1 DEF InChunks, Begun, Done, Past
  <2>2. CASE u # t
    <3>1. /\ Pos(u)' = Pos(u) /\ (Released(u)' <=> Released(u)) /\ bar'[u] = bar[u]
          /\ mychunk'[u] = mychunk[u]
      BY <1>1, <1>4, <1>8, <2>2
    <3> QED
      BY <3>1 DEF InChunks, Held, Begun, Done, Past
  <2> QED
    BY <2>1, <2>2
<1>14. \A L \in Locs, u \in Crew : Past(u, L)' <=> Past(u, L)
  <2>1. \A L \in Locs, u \in Crew \ {t} : Past(u, L)' <=> Past(u, L)
    BY <1>1, <1>8 DEF Past
  <2>2. \A L \in Locs : t \in Crew => (Past(t, L)' <=> Past(t, L))
    BY <1>9, <1>12 DEF Past
  <2> QED
    BY <2>1, <2>2
<1>15. Together'
  BY <1>6, <1>14, TogetherKept
<1>16. Holding'
  BY <1>6, <1>13, HoldingKept
<1>17. MadeOK'
  BY <1>6, <1>13, MadeKept
<1>18. Roles'
  <2>1. pc[0] # "none"
    BY <1>1, <1>2 DEF Roles
  <2> QED
    BY <1>1, <1>2, <1>4, <1>6, <2>1 DEF Roles, WorkerPcs
<1>19. News'
  BY <1>1, <1>4, <1>6 DEF PoolInv, Control, News
<1>20. Aborts' /\ SetDone'
  BY <1>1, <1>2, <1>4, <1>6 DEF PoolInv, Geometry, Aborts, SetDone
<1>21. Stale'
  BY <1>4, <1>6, <1>7 DEF PoolInv, Control, Stale, InGraph, Barriers
<1>22. Outside'
  BY <1>4 DEF PoolInv, Control, Outside
<1>23. Places'
  BY <1>8, <1>10 DEF PoolInv, Geometry, Places
<1>24. SameStages
  BY <1>6, <1>13 DEF SameStages
<1> QED
  BY <1>5, <1>6, <1>15, <1>16, <1>17, <1>18, <1>19, <1>20, <1>21, <1>22, <1>23, <1>24
     DEF PoolInv, Control, Geometry

\* What a thread at work that leaves a barrier finds, and what it leaves as it is.
LEMMA LeaveFrame ==
    ASSUME PoolInv, NEW t \in Threads, AtWork(t), pc[t] \in Barriers, NEW k, k = node[t],
           LeaveBarrier(t),
           UNCHANGED <<poolVars, waitVars, graphVars, made>>,
           bar'[t] = "out", \A u \in Threads \ {t} : bar'[u] = bar[u],
           \A u \in Threads \ {t} : Released(u) => Released(u)'
    PROVE  /\ Computing /\ Computing' /\ t \in Crew /\ Crew' = Crew /\ Crew \subseteq Threads
           /\ 0 \in Crew /\ Crew = 0..nGraph[2] - 1 /\ nGraph[2] \in Nat
           /\ EndNode' = EndNode /\ Locs' = Locs /\ ~Released(t)'
           /\ \A u \in Crew \ {t} : Pos(u)' = Pos(u)
           /\ \A u \in Threads \ {t} : mychunk'[u] = mychunk[u] /\ pc'[u] = pc[u]
           /\ pc[t] = "mulBarrier" => Pos(t)' = 8 * k + 4 /\ Held(t)' = t
           /\ pc[t] = "nodeBarrier" => Pos(t)' = 8 * k + 8
           /\ pc[t] = "lastBarrier" => Pos(t)' = 8 * k + 1
           /\ pc'[t] # "mulBarrier"
           /\ PoolTypes' /\ Roles' /\ News' /\ Stale' /\ Outside' /\ Places' /\ Aborts'
<1> USE DEF poolVars, waitVars, graphVars
<1>1. /\ PoolTypes /\ Roles /\ t \in Crew /\ ~Fresh(t)
  BY DEF PoolInv, Control, AtWork
<1>2. /\ Computing /\ 0 \in Crew /\ Crew = 0..nGraph[2] - 1 /\ nGraph[2] \in Nat
      /\ Crew \subseteq Threads /\ 0 \in Threads /\ Workers = Threads \ {0} /\ 0 \in 0..NThreads
  BY <1>1, CrewFacts
<1>3. /\ Place(t) /\ k \in Nat \ {0} /\ EndNode \in Nat \ {0} /\ Len(graph) \in Nat
      /\ \/ pc[t] = "mulBarrier" /\ k < EndNode /\ graph[k] = "mul"
         \/ pc[t] = "nodeBarrier" /\ k < EndNode
         \/ pc[t] = "lastBarrier" /\ k = EndNode
  BY BarrierPlace
<1>4. PICK s \in {"chunk", "node", "done", "top"} :
          /\ pc' = [pc EXCEPT ![t] = s]
          /\ s = "done" => t = 0
          /\ s = "top" => t # 0
          /\ pc[t] = "mulBarrier" => s = "chunk" /\ UNCHANGED <<mine, nth, node>>
                                     /\ mychunk' = [mychunk EXCEPT ![t] = t]
          /\ pc[t] = "nodeBarrier" => s = "node" /\ UNCHANGED <<mine, nth>>
                                      /\ node' = [node EXCEPT ![t] = k + 1]
                                      /\ mychunk' = [mychunk EXCEPT ![t] = 0]
          /\ pc[t] = "lastBarrier" => s \in {"done", "top"}
                                      /\ mine' = [mine EXCEPT ![t] = <<>>]
                                      /\ nth' = [nth EXCEPT ![t] = 0]
                                      /\ node' = [node EXCEPT ![t] = 1]
                                      /\ mychunk' = [mychunk EXCEPT ![t] = 0]
  <2>1. CASE pc[t] = "mulBarrier"
    BY <2>1 DEF LeaveBarrier, GoTo
  <2>2. CASE pc[t] = "nodeBarrier"
    <3>1. node' = [node EXCEPT ![t] = k + 1]
      BY <2>2 DEF LeaveBarrier
    <3> QED
      BY <2>2, <3>1 DEF LeaveBarrier, GoTo
  <2>3. CASE pc[t] = "lastBarrier"
    BY <2>3 DEF LeaveBarrier, GoTo
  <2> QED
    BY <1>3, <2>1, <2>2, <2>3
<1>5. /\ pc' \in [Threads -> PcValues] /\ mine' \in [Threads -> Graphs \cup {<<>>}]
      /\ nth' \in [Threads -> 0..NThreads] /\ node' \in [Threads -> Nat \ {0}]
      /\ mychunk' \in [Threads -> Nat]
  <2>1. pc' \in [Threads -> PcValues]
    BY <1>1, <1>4 DEF PoolTypes, PcValues, InGraph
  <2>2. t \in Nat
    BY <1>1, <1>2
  <2>3. CASE pc[t] = "mulBarrier"
    BY <1>1, <1>4, <2>1, <2>2, <2>3 DEF PoolTypes
  <2>4. CASE pc[t] = "nodeBarrier"
    <3>1. k + 1 \in Nat \ {0} /\ 0 \in Nat
      BY <1>3
    <3>2. node' \in [Threads -> Nat \ {0}]
      BY <1>1, <1>4, <2>4, <3>1 DEF PoolTypes
    <3>3. mychunk' \in [Threads -> Nat]
      BY <1>1, <1>4, <2>4, <3>1 DEF PoolTypes
    <3> QED
      BY <1>1, <1>4, <2>1, <2>4, <3>2, <3>3 DEF PoolTypes
  <2>5. CASE pc[t] = "lastBarrier"
    <3>1. mine' \in [Threads -> Graphs \cup {<<>>}]
      BY <1>1, <1>4, <2>5 DEF PoolTypes
    <3>2. nth' \in [Threads -> 0..NThreads]
      <4>1. nth \in [Threads -> 0..NThreads]
        BY <1>1 DEF PoolTypes
      <4>2. nth' = [nth EXCEPT ![t] = 0]
        BY <1>4, <2>5
      <4> QED
        BY <1>2, <4>1, <4>2
    <3>3. 1 \in Nat \ {0} /\ 0 \in Nat
      OBVIOUS
    <3>4. node' \in [Threads -> Nat \ {0}]
      BY <1>1, <1>4, <2>5, <3>3 DEF PoolTypes
    <3>5. mychunk' \in [Threads -> Nat]
      BY <1>1, <1>4, <2>5, <3>3 DEF PoolTypes
    <3> QED
      BY <2>1, <3>1, <3>2, <3>4, <3>5
  <2> QED
    BY <1>3, <2>3, <2>4, <2>5
<1>6. PoolTypes'
  BY <1>1, <1>5 DEF PoolTypes
<1>7. \A u \in Threads \ {t} : /\ pc'[u] = pc[u] /\ mine'[u] = mine[u] /\ nth'[u] = nth[u]
                               /\ node'[u] = node[u] /\ mychunk'[u] = mychunk[u]
  <2>1. CASE pc[t] = "mulBarrier"
    BY <1>1, <1>4, <2>1 DEF PoolTypes
  <2>2. CASE pc[t] = "nodeBarrier"
    BY <1>1, <1>4, <2>2 DEF PoolTypes
  <2>3. CASE pc[t] = "lastBarrier"
    BY <1>1, <1>4, <2>3 DEF PoolTypes
  <2> QED
    BY <1>3, <2>1, <2>2, <2>3
<1>8. pc'[t] = s
  BY <1>1, <1>4 DEF PoolTypes
<1>9. Computing' /\ Crew' = Crew
  <2>1. pc'[0] \in InGraph \cup {"signal", "done"}
    BY <1>2, <1>4, <1>7, <1>8 DEF Computing, InGraph
  <2> QED
    BY <1>2, <2>1 DEF Computing, Crew
<1>10. EndNode' = EndNode /\ Locs' = Locs
  BY DEF EndNode, Locs
<1>11. \A u : Fresh(u)' <=> Fresh(u)
  BY DEF Fresh
<1>12. \A u \in Threads \ {t} :
           (AtWork(u)' <=> AtWork(u)) /\ Pos(u)' = Pos(u) /\ (Place(u) => Place(u)')
  BY <1>7, <1>9, <1>10, <1>11 DEF AtWork, Pos, Place
<1>13. ~Released(t)'
  BY DEF Released
<1>14. pc[t] = "mulBarrier" => Pos(t)' = 8 * k + 4 /\ Held(t)' = t
  <2> SUFFICES ASSUME pc[t] = "mulBarrier" PROVE Pos(t)' = 8 * k + 4 /\ Held(t)' = t
    OBVIOUS
  <2>1. s = "chunk" /\ node'[t] = k /\ mychunk'[t] = t
    BY <1>1, <1>4 DEF PoolTypes
  <2> QED
    BY <1>1, <1>8, <1>11, <2>1 DEF Pos, StageNo, Held, InGraph
<1>15. pc[t] = "nodeBarrier" => Pos(t)' = 8 * k + 8
  <2> SUFFICES ASSUME pc[t] = "nodeBarrier" PROVE Pos(t)' = 8 * k + 8
    OBVIOUS
  <2>1. s = "node" /\ node'[t] = k + 1
    BY <1>1, <1>4 DEF PoolTypes
  <2>2. Pos(t)' = 8 * (k + 1) + 0
    BY <1>1, <1>8, <1>11, <2>1 DEF Pos, StageNo, InGraph
  <2> QED
    BY <1>3, <2>2
<1>16. pc[t] = "lastBarrier" => Pos(t)' = 8 * k + 1
  BY <1>1, <1>3, <1>4, <1>8, <1>10, <1>11 DEF Pos, InGraph, Barriers
<1>17. Roles'
  <2>1. s \in CallerPcs \/ s = "top"
    BY DEF CallerPcs, InGraph
  <2>2. s \in WorkerPcs \/ s = "done"
    BY DEF WorkerPcs, InGraph
  <2>3. pc[0] \notin {"none", "kick"}
    BY <1>2 DEF Computing, InGraph, Barriers
  <2>4. pc'[0] \in CallerPcs /\ pc'[0] \notin {"none", "kick"}
    BY <1>1, <1>2, <1>4, <1>7, <1>8, <2>1, <2>3 DEF Roles
  <2>5. \A w \in Workers : pc'[w] \in WorkerPcs
    BY <1>1, <1>2, <1>4, <1>7, <1>8, <2>2 DEF Roles
  <2> QED
    BY <1>1, <1>2, <2>4, <2>5 DEF Roles
<1>18. News'
  <2>1. pc[t] # "take"
    BY DEF Barriers
  <2> QED
    BY <1>2, <1>7, <1>9, <2>1 DEF PoolInv, Control, News
<1>19. Stale'
  BY <1>1, <1>7, <1>9, <1>11 DEF PoolInv, Control, Stale
<1>20. Outside'
  BY <1>7 DEF PoolInv, Control, Outside
<1>21. Place(t)' \/ ~AtWork(t)'
  <2>1. CASE pc[t] = "mulBarrier"
    <3>1. s = "chunk" /\ node'[t] = k /\ mine'[t] = graph' /\ nth'[t] = nGraph'[2]
      BY <1>1, <1>3, <1>4, <2>1 DEF PoolTypes, Place
    <3> QED
      BY <1>3, <1>8, <1>10, <2>1, <3>1 DEF Place
  <2>2. CASE pc[t] = "nodeBarrier"
    <3>1. s = "node" /\ node'[t] = k + 1 /\ mine'[t] = graph' /\ nth'[t] = nGraph'[2]
      BY <1>1, <1>3, <1>4, <2>2 DEF PoolTypes, Place
    <3> QED
      BY <1>3, <1>8, <1>10, <2>2, <3>1 DEF Place
  <2>3. CASE pc[t] = "lastBarrier"
    BY <1>4, <1>8, <2>3 DEF AtWork, Inside, InGraph, Barriers
  <2> QED
    BY <1>3, <2>1, <2>2, <2>3
<1>22. Places'
  BY <1>12, <1>21 DEF PoolInv, Geometry, Places
<1>23. Aborts'
  BY <1>2 DEF PoolInv, Geometry, Aborts
<1>24. pc'[t] # "mulBarrier"
  BY <1>8
<1> QED
  BY <1>1, <1>2, <1>6, <1>7, <1>9, <1>10, <1>12, <1>13, <1>14, <1>15, <1>16, <1>17, <1>18,
     <1>19, <1>20, <1>22, <1>23, <1>24

\* Places of a thread before and after it leaves a barrier, in numbers: it passes no
\* point but the barrier's own.
LEMMA LeaveNumbers ==
    ASSUME NEW k \in Nat \ {0}, NEW j \in Nat \ {0}, NEW p \in Nat, NEW q \in Nat,
           \/ p = 8 * k + 3 /\ q = 8 * k + 4
           \/ p = 8 * k + 6 /\ q = 8 * k + 8
           \/ p = 8 * k /\ q = 8 * k + 1
    PROVE  /\ q > 8 * j + 1 <=> p > 8 * j + 1
           /\ q > 8 * j + 4 <=> p > 8 * j + 4
           /\ q > 8 * j + 3 <=> p >= 8 * j + 3
           /\ q # 8 * j + 3 /\ p # 8 * j + 4
           /\ q = 8 * j + 4 <=> p = 8 * j + 3
           /\ \A L \in Nat : L = p \/ L < p \/ L >= q \/ L = p + 1
  OBVIOUS

\* A thread that was let out leaves its spin loop.
LEMMA SpinThrough ==
    ASSUME PoolInv, NEW t \in Threads, AtWork(t), pc[t] \in Barriers, Released(t),
           CrewInv(Crew)', LeaveBarrier(t),
           UNCHANGED <<poolVars, waitVars, graphVars, made>>,
           bar'[t] = "out", \A u \in Threads \ {t} : bar'[u] = bar[u],
           \A u \in Threads \ {t} : Released(u)' <=> Released(u)
    PROVE  PoolInv' /\ SameStages
<1>0. PICK k, q : k = node[t] /\ q = Pos(t)'
  OBVIOUS
<1>1. /\ Computing /\ Computing' /\ t \in Crew /\ Crew' = Crew /\ Crew \subseteq Threads
      /\ 0 \in Crew
      /\ EndNode' = EndNode /\ Locs' = Locs /\ ~Released(t)'
      /\ \A u \in Crew \ {t} : Pos(u)' = Pos(u)
      /\ \A u \in Threads \ {t} : mychunk'[u] = mychunk[u] /\ pc'[u] = pc[u]
      /\ pc[t] = "mulBarrier" => q = 8 * k + 4 /\ Held(t)' = t
      /\ pc[t] = "nodeBarrier" => q = 8 * k + 8
      /\ pc[t] = "lastBarrier" => q = 8 * k + 1
      /\ pc'[t] # "mulBarrier"
      /\ PoolTypes' /\ Roles' /\ News' /\ Stale' /\ Outside' /\ Places' /\ Aborts'
  BY <1>0, LeaveFrame
<1>2. /\ k \in Nat \ {0} /\ EndNode \in Nat \ {0} /\ Len(graph) \in Nat
      /\ \/ pc[t] = "mulBarrier" /\ Pos(t) = 8 * k + 3
         \/ pc[t] = "nodeBarrier" /\ Pos(t) = 8 * k + 6
         \/ pc[t] = "lastBarrier" /\ Pos(t) = 8 * k /\ k = EndNode
  BY <1>0, BarrierPlace
<1>3. /\ Pos(t) \in Nat /\ q \in Nat
      /\ \/ Pos(t) = 8 * k + 3 /\ q = 8 * k + 4
         \/ Pos(t) = 8 * k + 6 /\ q = 8 * k + 8
         \/ Pos(t) = 8 * k /\ q = 8 * k + 1
  BY <1>1, <1>2
<1>4. PoolTypes
  BY DEF PoolInv, Control
<1>5. Together'
  <2>1. ASSUME NEW L \in Locs PROVE Past(t, L)' <=> Past(t, L)
    <3>1. L \in Nat /\ L # 8 * k + 7
      BY <1>2, <1>4, LocFacts
    <3>2. q > L <=> Pos(t) >= L
      BY <1>2, <1>3, <3>1
    <3>3. Past(t, L) <=> Pos(t) >= L
      BY <1>3, <3>1 DEF Past
    <3>4. Past(t, L)' <=> q > L
      BY <1>0, <1>1 DEF Past
    <3> QED
      BY <3>2, <3>3, <3>4
  <2>2. \A L \in Locs, u \in Crew \ {t} : Past(u, L)' <=> Past(u, L)
    BY <1>1 DEF Past
  <2> QED
    BY <1>1, <2>1, <2>2, TogetherKept
<1>6. ASSUME NEW u \in Crew, NEW j \in 1..Len(graph)
      PROVE  /\ InChunks(u, j)' <=> InChunks(u, j)
             /\ InChunks(u, j) => Held(u)' = Held(u)
             /\ Begun(u, j)' <=> Begun(u, j)
             /\ Done(u, j)' <=> Done(u, j)
             /\ Past(u, 8 * j + 3)' <=> Past(u, 8 * j + 3)
  <2>1. CASE u = t
    <3>1. /\ q > 8 * j + 1 <=> Pos(t) > 8 * j + 1
          /\ q > 8 * j + 4 <=> Pos(t) > 8 * j + 4
          /\ q > 8 * j + 3 <=> Pos(t) >= 8 * j + 3
          /\ q # 8 * j + 3 /\ Pos(t) # 8 * j + 4
          /\ q = 8 * j + 4 <=> Pos(t) = 8 * j + 3
      <4>1. j \in Nat \ {0}
        BY <1>2
      <4> QED
        BY <1>2, <1>3, <4>1, LeaveNumbers
    <3>2. InChunks(t, j)' <=> InChunks(t, j)
      BY <1>0, <1>1, <3>1 DEF InChunks
    <3>3. Begun(t, j)' <=> Begun(t, j)
      BY <1>0, <3>1 DEF Begun
    <3>4. Done(t, j)' <=> Done(t, j)
      BY <1>0, <3>1 DEF Done
    <3>5. Past(t, 8 * j + 3)' <=> Past(t, 8 * j + 3)
      <4>1. Past(t, 8 * j + 3) <=> Pos(t) >= 8 * j + 3
        BY <1>2, <1>3 DEF Past
      <4>2. Past(t, 8 * j + 3)' <=> q > 8 * j + 3
        BY <1>0, <1>1 DEF Past
      <4> QED
        BY <3>1, <4>1, <4>2
    <3>6. InChunks(t, j) => Held(t)' = Held(t)
      <4>1. InChunks(t, j) => pc[t] = "mulBarrier"
        BY <1>2, <3>1 DEF InChunks
      <4> QED
        BY <1>1, <4>1 DEF Held, Released
    <3> QED
      BY <2>1, <3>2, <3>3, <3>4, <3>5, <3>6
  <2>2. CASE u # t
    <3>1. /\ Pos(u)' = Pos(u) /\ (Released(u)' <=> Released(u)) /\ bar'[u] = bar[u]
          /\ mychunk'[u] = mychunk[u]
      BY <1>1, <2>2
    <3> QED
      BY <3>1 DEF InChunks, Held, Begun, Done, Past
  <2> QED
    BY <2>1, <2>2
<1>7. Holding'
  BY <1>1, <1>6, HoldingKept DEF poolVars, graphVars
<1>8. MadeOK'
  BY <1>1, <1>6, MadeKept DEF poolVars, graphVars
<1>9. SetDone'
  <2>1. CASE t = 0
    BY <1>1, <2>1 DEF SetDone
  <2>2. CASE t # 0
    BY <1>1, <2>2 DEF PoolInv, Geometry, SetDone, poolVars, graphVars
  <2> QED
    BY <2>1, <2>2
<1>10. CrewInv(Crew)'
  OBVIOUS
<1>11. SameStages
  BY <1>1, <1>6 DEF SameStages, graphVars
<1> QED
  BY <1>1, <1>5, <1>7, <1>8, <1>9, <1>10, <1>11 DEF PoolInv, Control, Geometry

\* When all the others of the crew wait in a barrier, it is the one t is at.
LEMMA AllMeet ==
    ASSUME PoolInv, NEW t \in Crew, AtWork(t), pc[t] \in Barriers, ~Released(t),
           \A u \in Crew \ {t} : bar[u] = "spin" /\ seen[u] = nPassed
    PROVE  \A u \in Crew : /\ AtWork(u) /\ ~Released(u) /\ Pos(u) = Pos(t)
                           /\ pc[u] = pc[t] /\ node[u] = node[t]
<1>1. Crew \subseteq Threads /\ PoolTypes
  BY CrewFacts DEF PoolInv, Control
<1>2. nPassed \in Nat
  BY DEF PoolInv, Control, CrewInv, Types
<1>3. ASSUME NEW u \in Crew
      PROVE  AtWork(u) /\ ~Released(u) /\ pc[u] \in Barriers
  <2>1. CASE u = t
    BY <2>1
  <2>2. CASE u # t
    <3>1. bar[u] = "spin" /\ seen[u] = nPassed /\ u \in Threads
      BY <1>1, <2>2
    <3>2. ~Released(u)
      BY <1>2, <3>1 DEF Released
    <3>3. pc[u] \in Barriers
      BY <3>1 DEF PoolInv, Control, Outside
    <3>4. AtWork(u)
      BY <3>1, <3>2, <3>3, InCrew DEF InGraph, Barriers
    <3> QED
      BY <3>2, <3>3, <3>4
  <2> QED
    BY <2>1, <2>2
<1>4. ASSUME NEW u \in Crew, NEW v \in Crew PROVE Pos(u) <= Pos(v)
  <2>1. Pos(v) \in Locs /\ Pos(v) \in Nat /\ Pos(u) \in Nat
    BY <1>1, <1>3, BarrierPlace, PosBound
  <2>2. ~Past(v, Pos(v))
    BY <1>3, <2>1 DEF Past
  <2>3. ~Past(u, Pos(v))
    BY <2>1, <2>2 DEF PoolInv, Geometry, Together
  <2> QED
    BY <2>1, <2>3 DEF Past
<1>5. ASSUME NEW u \in Crew PROVE Pos(u) = Pos(t) /\ pc[u] = pc[t] /\ node[u] = node[t]
  <2>1. Pos(u) \in Nat /\ Pos(t) \in Nat
    BY PosBound
  <2>2. Pos(u) = Pos(t)
    BY <1>4, <2>1
  <2>3. \A v \in Crew :
            /\ node[v] \in Nat
            /\ \/ pc[v] = "mulBarrier" /\ Pos(v) = 8 * node[v] + 3
               \/ pc[v] = "nodeBarrier" /\ Pos(v) = 8 * node[v] + 6
               \/ pc[v] = "lastBarrier" /\ Pos(v) = 8 * node[v]
    BY <1>1, <1>3, BarrierPlace
  <2> QED
    BY <2>2, <2>3
<1> QED
  BY <1>3, <1>5

\* The barrier opens: its opener leaves at once, the others may.
LEMMA OpenKeeps ==
    ASSUME PoolInv, NEW t \in Threads, AtWork(t), pc[t] \in Barriers, ~Released(t),
           \A u \in Crew \ {t} : bar[u] = "spin" /\ seen[u] = nPassed,
           CrewInv(Crew)', LeaveBarrier(t),
           UNCHANGED <<poolVars, waitVars, graphVars, made>>,
           bar'[t] = "out", \A u \in Threads \ {t} : bar'[u] = bar[u],
           \A u \in Threads \ {t} : Released(u) => Released(u)',
           \A u \in Crew \ {t} : Released(u)'
    PROVE  PoolInv' /\ SameStages
<1>0. PICK k, p, q : k = node[t] /\ p = Pos(t) /\ q = Pos(t)'
  OBVIOUS
<1>1. /\ Computing /\ Computing' /\ t \in Crew /\ Crew' = Crew /\ Crew \subseteq Threads
      /\ 0 \in Crew /\ Crew = 0..nGraph[2] - 1 /\ nGraph[2] \in Nat
      /\ EndNode' = EndNode /\ Locs' = Locs /\ ~Released(t)'
      /\ \A u \in Crew \ {t} : Pos(u)' = Pos(u)
      /\ pc[t] = "mulBarrier" => q = 8 * k + 4 /\ Held(t)' = t
      /\ pc[t] = "nodeBarrier" => q = 8 * k + 8
      /\ pc[t] = "lastBarrier" => q = 8 * k + 1
      /\ PoolTypes' /\ Roles' /\ News' /\ Stale' /\ Outside' /\ Places' /\ Aborts'
      /\ pc'[t] # "mulBarrier" /\ \A u \in Threads \ {t} : pc'[u] = pc[u]
  BY <1>0, LeaveFrame
<1>2. /\ k \in Nat \ {0} /\ EndNode \in Nat \ {0} /\ Len(graph) \in Nat
      /\ \/ pc[t] = "mulBarrier" /\ p = 8 * k + 3 /\ k \in 1..Len(graph)
         \/ pc[t] = "nodeBarrier" /\ p = 8 * k + 6
         \/ pc[t] = "lastBarrier" /\ p = 8 * k /\ k = EndNode
  BY <1>0, BarrierPlace
<1>3. /\ p \in Nat /\ q \in Nat
      /\ \/ p = 8 * k + 3 /\ q = 8 * k + 4
         \/ p = 8 * k + 6 /\ q = 8 * k + 8
         \/ p = 8 * k /\ q = 8 * k + 1
      /\ pc[t] = "mulBarrier" <=> p = 8 * k + 3
  BY <1>1, <1>2
<1>4. \A u \in Crew : /\ ~Released(u) /\ Pos(u) = p /\ pc[u] = pc[t] /\ AtWork(u)
  BY <1>0, <1>1, AllMeet
<1>5. /\ Pos(t)' = q /\ ~Released(t)'
      /\ \A u \in Crew \ {t} : Pos(u)' = p /\ Released(u)' /\ bar'[u] = "spin"
  BY <1>0, <1>1, <1>4
<1>6. ASSUME NEW j \in 1..Len(graph)
      PROVE  /\ q > 8 * j + 1 <=> p > 8 * j + 1
             /\ q > 8 * j + 4 <=> p > 8 * j + 4
             /\ q > 8 * j + 3 <=> p >= 8 * j + 3
             /\ q # 8 * j + 3 /\ p # 8 * j + 4
             /\ q = 8 * j + 4 <=> p = 8 * j + 3
             /\ p = 8 * j + 3 <=> j = k /\ pc[t] = "mulBarrier"
  <2>1. j \in Nat \ {0}
    BY <1>2
  <2>2. p = 8 * j + 3 <=> j = k /\ pc[t] = "mulBarrier"
    BY <1>2, <1>3, <2>1
  <2> QED
    BY <1>2, <1>3, <2>1, <2>2, LeaveNumbers
<1>7. ASSUME NEW u \in Crew, NEW j \in 1..Len(graph)
      PROVE  /\ Begun(u, j)' <=> Begun(u, j)
             /\ Done(u, j)' <=> Done(u, j)
             /\ ~InChunks(u, j)
             /\ InChunks(u, j)' <=> j = k /\ pc[t] = "mulBarrier"
             /\ Past(u, 8 * j + 3) <=> p > 8 * j + 3
             /\ Past(u, 8 * j + 3)' <=> p >= 8 * j + 3
  <2>1. /\ q > 8 * j + 1 <=> p > 8 * j + 1
        /\ q > 8 * j + 4 <=> p > 8 * j + 4
        /\ q > 8 * j + 3 <=> p >= 8 * j + 3
        /\ q # 8 * j + 3 /\ p # 8 * j + 4
        /\ q = 8 * j + 4 <=> p = 8 * j + 3
        /\ p = 8 * j + 3 <=> j = k /\ pc[t] = "mulBarrier"
    BY <1>6
  <2>2. Pos(u) = p /\ ~Released(u)
    BY <1>4
  <2>3. ~InChunks(u, j) /\ (Past(u, 8 * j + 3) <=> p > 8 * j + 3)
    BY <2>1, <2>2 DEF InChunks, Past
  <2>4. CASE u = t
    <3>1. Pos(u)' = q /\ ~Released(u)'
      BY <1>5, <2>4
    <3>2. Begun(u, j)' <=> Begun(u, j)
      BY <2>1, <2>2, <3>1 DEF Begun
    <3>3. Done(u, j)' <=> Done(u, j)
      BY <2>1, <2>2, <3>1 DEF Done
    <3>4. InChunks(u, j)' <=> j = k /\ pc[t] = "mulBarrier"
      BY <2>1, <3>1 DEF InChunks
    <3>5. Past(u, 8 * j + 3)' <=> p >= 8 * j + 3
      BY <2>1, <3>1 DEF Past
    <3> QED
      BY <2>3, <3>2, <3>3, <3>4, <3>5
  <2>5. CASE u # t
    <3>1. Pos(u)' = p /\ Released(u)'
      BY <1>5, <2>5
    <3>2. Begun(u, j)' <=> Begun(u, j)
      BY <2>2, <3>1 DEF Begun
    <3>3. Done(u, j)' <=> Done(u, j)
      BY <2>2, <3>1 DEF Done
    <3>4. InChunks(u, j)' <=> j = k /\ pc[t] = "mulBarrier"
      BY <2>1, <3>1 DEF InChunks
    <3>5. Past(u, 8 * j + 3)' <=> p >= 8 * j + 3
      <4>1. p >= 8 * j + 3 <=> (p > 8 * j + 3 \/ p = 8 * j + 3)
        BY <1>2, <1>3
      <4> QED
        BY <3>1, <4>1 DEF Past
    <3> QED
      BY <2>3, <3>2, <3>3, <3>4, <3>5
  <2> QED
    BY <2>4, <2>5
<1>8. PoolTypes
  BY DEF PoolInv, Control
<1>9. Together'
  <2>1. ASSUME NEW L \in Locs, NEW u \in Crew PROVE Past(u, L)' <=> p >= L
    <3>1. L \in Nat /\ L # 8 * k + 7
      BY <1>2, <1>8, LocFacts
    <3>2. q > L <=> p >= L
      BY <1>2, <1>3, <3>1
    <3>3. p >= L <=> (p > L \/ p = L)
      BY <1>3, <3>1
    <3>4. CASE u = t
      BY <1>5, <3>2, <3>4 DEF Past
    <3>5. CASE u # t
      BY <1>5, <3>3, <3>5 DEF Past
    <3> QED
      BY <3>4, <3>5
  <2> QED
    BY <1>1, <2>1 DEF Together
<1>10. nGraph' = nGraph /\ graph' = graph /\ chunk' = chunk /\ made' = made
  BY DEF poolVars, graphVars
<1>11. pc[t] = "mulBarrier" => chunk = nGraph[2] /\ \A u \in Crew : Held(u)' = u
  <2>1. pc[t] = "mulBarrier" => chunk = nGraph[2]
    BY <1>1, <1>4 DEF PoolInv, Geometry, SetDone
  <2>2. \A u \in Crew \ {t} : Held(u)' = u
    BY <1>5 DEF Held
  <2> QED
    BY <1>1, <2>1, <2>2
<1>12. Holding'
  <2>1. ASSUME NEW u \in Crew, NEW j \in 1..Len(graph), InChunks(u, j)'
        PROVE  /\ nGraph[2] <= chunk /\ Held(u)' < chunk
               /\ \A v \in Crew \ {u} : InChunks(v, j)' => Held(u)' # Held(v)'
               /\ Held(u)' = u
    <3>1. chunk = nGraph[2] /\ \A v \in Crew : Held(v)' = v
      BY <1>7, <1>11, <2>1
    <3> QED
      BY <1>1, <3>1
  <2> QED
    BY <1>1, <1>10, <2>1 DEF Holding, NChunks
<1>13. MadeOK'
  <2>1. ASSUME NEW j \in 1..Len(graph), NEW c \in Nat
        PROVE  HandedOut(j, c)' <=> HandedOut(j, c)
    <3>1. CASE j = k /\ pc[t] = "mulBarrier"
      <4>1. p = 8 * j + 3
        BY <1>6, <3>1
      <4>2. ~Past(t, 8 * j + 3) /\ ~Done(t, j) /\ ~Done(t, j)'
        <5>1. Pos(t) = p /\ j \in Int /\ t \in Crew
          BY <1>1, <1>2, <1>4
        <5>2. ~Done(t, j)
          BY <1>3, <4>1, <5>1 DEF Done
        <5>3. ~Past(t, 8 * j + 3)
          BY <1>3, <1>7, <4>1, <5>1
        <5> QED
          BY <1>7, <5>1, <5>2, <5>3
      <4>3. ~HandedOut(j, c)
        BY <1>1, <4>2 DEF HandedOut
      <4>4. c < chunk => InChunks(c, j)' /\ Held(c)' = c /\ c \in Crew
        BY <1>1, <1>7, <1>11, <3>1
      <4>5. ~HandedOut(j, c)'
        BY <1>1, <1>10, <4>2, <4>4 DEF HandedOut
      <4> QED
        BY <4>3, <4>5
    <3>2. CASE ~(j = k /\ pc[t] = "mulBarrier")
      <4>1. p # 8 * j + 3 /\ j \in Nat
        BY <1>2, <1>6, <3>2
      <4>2. p >= 8 * j + 3 <=> p > 8 * j + 3
        BY <1>3, <4>1
      <4>3. \A u \in Crew : /\ Done(u, j)' <=> Done(u, j)
                            /\ ~InChunks(u, j) /\ ~InChunks(u, j)'
                            /\ Past(u, 8 * j + 3)' <=> Past(u, 8 * j + 3)
        BY <1>7, <3>2, <4>2
      <4> QED
        BY <1>1, <1>10, <4>3 DEF HandedOut
    <3> QED
      BY <3>1, <3>2
  <2>2. (made \subseteq ItemsBefore(graph, Len(graph) + 1, nGraph[2]))'
    <3>1. made \subseteq ItemsBefore(graph, Len(graph) + 1, nGraph[2])
      BY <1>1 DEF PoolInv, Geometry, MadeOK
    <3> QED
      BY <1>10, <3>1
  <2>3. ASSUME NEW j \in 1..Len(graph) PROVE MadeAt(j)'
    <3>1. MadeAt(j)
      BY <1>1 DEF PoolInv, Geometry, MadeOK
    <3>2. \A c \in 0..NChunks(nGraph[2]) - 1 : HandedOut(j, c)' <=> HandedOut(j, c)
      <4>1. NChunks(nGraph[2]) \in Nat
        <5>1. nGraph[2] \in Nat \ {0}
          BY <1>1
        <5> QED
          BY <5>1, EnoughChunks
      <4> QED
        BY <2>1, <4>1
    <3> QED
      BY <1>1, <1>7, <1>10, <3>1, <3>2 DEF MadeAt, NChunks
  <2> QED
    BY <1>10, <2>2, <2>3 DEF MadeOK
<1>14. SetDone'
  <2>1. CASE t = 0
    BY <1>1, <2>1 DEF SetDone
  <2>2. CASE t # 0
    BY <1>1, <2>2 DEF SetDone
  <2> QED
    BY <2>1, <2>2
<1>15. SameStages
  BY <1>1, <1>7, <1>10 DEF SameStages
<1> QED
  BY <1>1, <1>9, <1>12, <1>13, <1>14, <1>15 DEF PoolInv, Control, Geometry

\* ggml_barrier in ggml_graph_compute_thread and ggml_compute_forward_mul_mat.
LEMMA MeetOthersKeeps ==
    ASSUME PoolInv, NEW t \in Threads, MeetOthers(t)
    PROVE  PoolInv' /\ SameStages
<1>1. /\ pc[t] \in Barriers /\ (Load(t, nGraph[2]) \/ BarStep(t))
      /\ bar'[t] = "out" => LeaveBarrier(t)
      /\ bar'[t] # "out" => UNCHANGED <<pc, localVars>>
      /\ UNCHANGED <<poolVars, waitVars, graphVars, made>>
  BY DEF MeetOthers
<1>2. PICK C \in SUBSET Threads : C = Crew
  BY CrewFacts DEF PoolInv, Control
<1>3. CrewInv(C) /\ PoolTypes
  BY <1>2 DEF PoolInv, Control
<1>4. /\ bar \in [Threads -> BarSteps] /\ seen \in [Threads -> Nat \cup {-1}] /\ nPassed \in Nat
  BY <1>3 DEF CrewInv, Types
<1>5. ~Released(t) => /\ t \in C /\ ~Fresh(t) /\ AtWork(t) /\ Computing
                      /\ Cardinality(C) = nGraph[2]
  BY <1>1, <1>2, InCrew DEF InGraph, Barriers
<1>6. Computing => 0 \in Crew /\ 0 \in Threads
  BY CrewFacts DEF PoolInv, Control
<1>7. ASSUME ~Released(t), bar'[t] # "out", CrewInv(C)', \A u \in Threads \ {t} : bar'[u] = bar[u],
             \A u \in Threads : Released(u)' <=> Released(u)
      PROVE  PoolInv' /\ SameStages
  <2>1. Crew' = C
    BY <1>1, <1>2, <1>7 DEF Crew, Computing, poolVars
  <2>2. CrewInv(Crew)'
    BY <1>7, <2>1
  <2> QED
    BY <1>1, <1>7, <2>2, BarrierMoves
<1>8. ASSUME bar'[t] = "out", CrewInv(C)' PROVE CrewInv(Crew)'
  <2>1. LeaveBarrier(t)
    BY <1>1, <1>8
  <2>2. PICK s \in {"chunk", "node", "done", "top"} :
            pc' = [pc EXCEPT ![t] = s] /\ (s = "top" => t # 0)
    BY <2>1 DEF LeaveBarrier, GoTo
  <2>3. /\ \A u \in Threads \ {t} : pc'[u] = pc[u]
        /\ pc'[t] = s
    BY <1>3, <2>2 DEF PoolTypes
  <2>4. pc'[0] \in InGraph \cup {"signal", "done"} <=> pc[0] \in InGraph \cup {"signal", "done"}
    <3>1. CASE t = 0
      BY <1>1, <2>2, <2>3, <3>1 DEF InGraph, Barriers
    <3>2. CASE t # 0
      <4>1. 0 \in Threads
        BY CrewFacts DEF PoolInv, Control
      <4> QED
        BY <2>3, <3>2, <4>1
    <3> QED
      BY <3>1, <3>2
  <2>5. Crew' = Crew
    BY <1>1, <2>4 DEF Crew, Computing, poolVars
  <2> QED
    BY <1>2, <1>8, <2>5
<1>9. CASE Load(t, nGraph[2])
  <2>1. bar[t] = "out" /\ ~Released(t)
    BY <1>9 DEF Load, Released
  <2>2. t \in C /\ AtWork(t) /\ Cardinality(C) = nGraph[2]
    BY <1>5, <2>1
  <2>3. CrewInv(C)'
    BY <1>3, <1>9, <2>2, LoadKeeps
  <2>4. CASE nGraph[2] = 1
    <3>1. UNCHANGED barVars /\ bar'[t] = "out"
      BY <1>9, <2>1, <2>4 DEF Load, barVars
    <3>2. Crew \ {t} = {}
      <4>1. Crew = 0..nGraph[2] - 1
        BY <1>1, <2>1, InCrew DEF InGraph, Barriers
      <4> QED
        BY <1>2, <2>2, <2>4, <4>1
    <3>3. \A u : Released(u)' <=> Released(u)
      BY <3>1 DEF Released, barVars
    <3> QED
      BY <1>1, <1>8, <2>1, <2>2, <2>3, <3>1, <3>2, <3>3, OpenKeeps DEF barVars
  <2>5. CASE nGraph[2] # 1
    <3>1. /\ bar' = [bar EXCEPT ![t] = "add"] /\ seen' = [seen EXCEPT ![t] = nPassed]
          /\ nPassed' = nPassed
      BY <1>9, <2>5 DEF Load, BarGoTo
    <3>2. bar'[t] = "add" /\ \A u \in Threads \ {t} : bar'[u] = bar[u] /\ seen'[u] = seen[u]
      BY <1>4, <3>1
    <3>3. \A u \in Threads : Released(u)' <=> Released(u)
      BY <2>1, <3>1, <3>2 DEF Released
    <3> QED
      BY <1>7, <2>1, <2>3, <3>2, <3>3
  <2> QED
    BY <2>4, <2>5
<1>10. CASE Arrive(t)
  <2>1. /\ bar[t] = "add" /\ nPassed' = nPassed /\ seen' = seen
        /\ bar' = [bar EXCEPT ![t] = IF nBarrier = width[t] - 1 THEN "clear" ELSE "spin"]
    BY <1>10 DEF Arrive, BarGoTo
  <2>2. bar'[t] \in {"clear", "spin"} /\ \A u \in Threads \ {t} : bar'[u] = bar[u]
    BY <1>4, <2>1
  <2>3. seen[t] = nPassed /\ ~Released(t)
    BY <1>3, <2>1 DEF CrewInv, CountsSeen, Released
  <2>4. \A u \in Threads : Released(u)' <=> Released(u)
    BY <1>4, <2>1, <2>2, <2>3 DEF Released
  <2>5. CrewInv(C)'
    BY <1>3, <1>10, ArriveKeeps
  <2> QED
    BY <1>7, <2>2, <2>3, <2>4, <2>5
<1>11. CASE Clear(t)
  <2>1. /\ bar[t] = "clear" /\ nPassed' = nPassed /\ seen' = seen
        /\ bar' = [bar EXCEPT ![t] = "release"]
    BY <1>11 DEF Clear, BarGoTo
  <2>2. bar'[t] = "release" /\ \A u \in Threads \ {t} : bar'[u] = bar[u]
    BY <1>4, <2>1
  <2>3. ~Released(t) /\ \A u \in Threads : Released(u)' <=> Released(u)
    BY <2>1, <2>2 DEF Released
  <2>4. CrewInv(C)'
    BY <1>3, <1>11, ClearKeeps
  <2> QED
    BY <1>7, <2>2, <2>3, <2>4
<1>12. CASE Release(t)
  <2>1. /\ bar[t] = "release" /\ nPassed' = nPassed + 1 /\ seen' = seen
        /\ bar' = [bar EXCEPT ![t] = "out"]
    BY <1>12 DEF Release, BarGoTo
  <2>2. bar'[t] = "out" /\ \A u \in Threads \ {t} : bar'[u] = bar[u]
    BY <1>4, <2>1
  <2>3. /\ CrewInv(C)' /\ t \in C
        /\ \A u \in C \ {t} : bar[u] = "spin" /\ seen[u] = nPassed
    BY <1>3, <1>12, ReleaseKeeps
  <2>4. ~Released(t) /\ AtWork(t)
    BY <1>5, <2>1 DEF Released
  <2>5. \A u \in Threads \ {t} : Released(u) => Released(u)'
    <3>1. \A u \in Threads : seen[u] \in Int
      BY <1>4
    <3> QED
      BY <1>4, <2>1, <2>2, <3>1 DEF Released
  <2>6. \A u \in Crew \ {t} : Released(u)'
    BY <1>2, <1>4, <2>1, <2>2, <2>3 DEF Released
  <2> QED
    BY <1>1, <1>2, <1>8, <2>2, <2>3, <2>4, <2>5, <2>6, OpenKeeps
<1>13. CASE Spin(t)
  <2>1. /\ bar[t] = "spin" /\ nPassed # seen[t] /\ bar' = [bar EXCEPT ![t] = "out"]
        /\ nPassed' = nPassed /\ seen' = seen
    BY <1>13 DEF Spin, BarGoTo
  <2>2. Released(t)
    BY <1>3, <1>4, <2>1 DEF CrewInv, CountsSeen, Released
  <2>3. bar'[t] = "out" /\ \A u \in Threads \ {t} : bar'[u] = bar[u]
    BY <1>4, <2>1
  <2>4. \A u \in Threads \ {t} : Released(u)' <=> Released(u)
    BY <2>1, <2>3 DEF Released
  <2>5. CrewInv(C)' /\ CrewInv(Crew)' /\ LeaveBarrier(t)
    BY <1>1, <1>3, <1>8, <1>13, <2>3, SpinKeeps
  <2>6. CASE AtWork(t)
    BY <1>1, <2>2, <2>3, <2>4, <2>5, <2>6, SpinThrough
  <2>7. CASE ~AtWork(t)
    <3>1. t \notin Crew \/ Fresh(t)
      BY <1>1, <2>7 DEF AtWork, Inside, InGraph, Barriers
    <3>2. pc[t] = "lastBarrier"
      BY <1>1, <3>1 DEF PoolInv, Control, Stale, InGraph
    <3> QED
      BY <1>1, <2>3, <2>4, <2>5, <3>1, <3>2, StaleLeaves
  <2> QED
    BY <2>6, <2>7
<1> QED
  BY <1>1, <1>9, <1>10, <1>11, <1>12, <1>13 DEF BarStep

-----------------------------------------------------------------------------
(* The invariant of the pool.                                              *)

\* A pool that is not created yet satisfies the invariant.
LEMMA InitPool == Init => PoolInv
<1> SUFFICES ASSUME Init PROVE PoolInv
  OBVIOUS
<1>1. /\ NThreads \in Nat \ {0} /\ Threads = 0..NThreads - 1 /\ 0 \in Threads
      /\ Workers = Threads \ {0}
  BY PoolAssumption DEF Workers
<1>2. PoolTypes
  <2>1. nGraph \in (0..MaxGraphs) \X (0..NThreads)
    BY <1>1, BoundAssumption DEF Init
  <2>2. last \in [Threads -> (0..MaxGraphs) \X (0..NThreads)]
    BY <1>1, BoundAssumption DEF Init
  <2>3. 0 \in 0..NThreads /\ 0 \in Nat /\ 1 \in Nat \ {0}
    BY <1>1
  <2>4. /\ pc \in [Threads -> PcValues] /\ pending \in [Threads -> BOOLEAN]
        /\ mine \in [Threads -> Graphs \cup {<<>>}]
    BY DEF Init, PcValues
  <2>5. nth \in [Threads -> 0..NThreads]
    BY <2>3 DEF Init
  <2>6. node \in [Threads -> Nat \ {0}] /\ mychunk \in [Threads -> Nat]
    BY <2>3 DEF Init
  <2> QED
    BY <2>1, <2>2, <2>3, <2>4, <2>5, <2>6 DEF Init, PoolTypes
<1>3. \A t \in Threads : pc[t] = "none" /\ bar[t] = "out" /\ ~pending[t]
  BY DEF Init, BarInit
<1>4. ~Computing /\ Crew = {}
  BY <1>1, <1>3 DEF Computing, InGraph, Barriers, Crew
<1>5. CrewInv(Crew)
  <2>1. Waiting = {}
    BY <1>3 DEF Waiting
  <2> QED
    BY <2>1, FS_EmptySet
       DEF Init, BarInit, CrewInv, Types, CountsSeen, OpenerAlone, CounterCounts, BarSteps
<1>6. Roles
  BY <1>1, <1>3, <1>4 DEF Roles, CallerPcs, WorkerPcs
<1>7. News
  <2>1. \A w \in Workers : last[w] = nGraph /\ nGraph = <<0, 0>>
    BY <1>1 DEF Init
  <2> QED
    BY <1>1, <1>3, <2>1 DEF News
<1>8. Stale /\ Outside
  BY <1>3 DEF Stale, Outside, InGraph, Barriers
<1>9. Geometry
  BY <1>1, <1>3, <1>4
     DEF Geometry, Aborts, Places, AtWork, Together, Holding, SetDone, MadeOK
<1> QED
  BY <1>2, <1>5, <1>6, <1>7, <1>8, <1>9 DEF PoolInv, Control

\* What a step means for the crew: the stages of Lockstep.
StepStages == SameStages \/ (\E t \in Threads : Finishes(t)) \/ KickStore \/ ComputeReturns

\* Every step keeps the invariant, and is one stage of Lockstep or none.
LEMMA StepKeeps == PoolInv /\ [Next]_vars => PoolInv' /\ StepStages
<1> SUFFICES ASSUME PoolInv, [Next]_vars PROVE PoolInv' /\ StepStages
  OBVIOUS
<1>1. PoolTypes
  BY DEF PoolInv, Control
<1>2. CASE UNCHANGED vars
  <2>1. PoolTypes'
    BY <1>1, <1>2 DEF PoolTypes, vars, poolVars, waitVars, graphVars, localVars
  <2> QED
    BY <1>2, <2>1, FlagsKeep DEF vars, poolVars, StepStages
<1>3. ASSUME NEW p \in BOOLEAN, New(p) \/ SetPause(p) PROVE PoolInv' /\ StepStages
  BY <1>3, NewKeeps, CallerKeeps DEF StepStages
<1>4. CASE \E g \in Graphs, n \in 1..NThreads + 1 : Compute(g, n)
  BY <1>4, CallerKeeps DEF StepStages
<1>5. CASE FreeStop
  BY <1>5, CallerKeeps DEF StepStages
<1>6. CASE CallerStep
  BY <1>6, KickStoreKeeps, KickSignalKeeps, SetChunkKeeps, ReturnKeeps, CallerKeeps 
     DEF CallerStep, StepStages
<1>7. ASSUME NEW w \in Workers, Awake(w) PROVE PoolInv' /\ StepStages
  BY <1>7, FlagReadsKeep, PollsKeep, TakeKeeps DEF Awake, StepStages
<1>8. ASSUME NEW w \in Workers, SpuriousWake(w) PROVE PoolInv' /\ StepStages
  <2>1. /\ asleep' = asleep \ {w}
        /\ UNCHANGED <<locked, stop, pause, nGraph, want, waitVars, graphVars, localVars, pc, made, barVars>>
    BY <1>8 DEF SpuriousWake
  <2>2. PoolTypes'
    BY <1>1, <2>1 DEF PoolTypes, waitVars, graphVars, localVars
  <2> QED
    BY <2>1, <2>2, FlagsKeep DEF StepStages
<1>9. ASSUME NEW t \in Threads, ComputeStep(t) PROVE PoolInv' /\ StepStages
  BY <1>9, EnterKeeps, NextNodeKeeps, CalcKeeps, ConvertKeeps, DoChunkKeeps, AfterNodeKeeps,
     MeetOthersKeeps DEF ComputeStep, StepStages
<1> QED
  BY <1>2, <1>3, <1>4, <1>5, <1>6, <1>7, <1>8, <1>9 DEF Next, Gone

\* PoolInv: the types, who is where, the barrier used by the crew of the graph, and
\* which items are done, at every point of every interleaving of the pool.
THEOREM PoolInvariant == Spec => []PoolInv
  BY InitPool, StepKeeps, PTL DEF Spec

-----------------------------------------------------------------------------
(* What the invariant says.                                                *)

\* Every variable of the pool and of its barrier keeps its type.
THEOREM PoolTypeCorrect == Spec => []TypeOK
<1>1. PoolInv => TypeOK
  <2> SUFFICES ASSUME PoolInv PROVE TypeOK
    OBVIOUS
  <2>1. Crew \in SUBSET Threads /\ PoolTypes
    BY CrewFacts DEF PoolInv, Control
  <2>2. nBarrier = 0 \/ nBarrier = Cardinality(Waiting)
    BY DEF PoolInv, Control, CrewInv, CounterCounts
  <2>3. PICK C \in SUBSET Threads : C = Crew
    BY <2>1
  <2>4. CrewInv(C)
    BY <2>3 DEF PoolInv, Control
  <2>5. Cardinality(Waiting) \in Nat /\ Cardinality(Waiting) <= Cardinality(Threads)
        /\ Cardinality(Threads) \in Nat
    <3>1. /\ Cardinality(C) \in Nat /\ Cardinality(C) <= Cardinality(Threads)
          /\ Cardinality(Threads) \in Nat /\ Cardinality(Waiting) \in 0..Cardinality(C)
      BY <2>4, WaitingFinite DEF CrewInv
    <3> QED
      BY <3>1
  <2>6. nBarrier \in 0..Cardinality(Threads)
    BY <2>2, <2>5
  <2>7. BarTypeOK
    BY <2>4, <2>6 DEF CrewInv, Types, BarTypeOK
  <2> QED
    BY <2>1, <2>7 DEF PoolTypes, TypeOK
<1> QED
  BY <1>1, PoolInvariant, PTL

\* What a thread at work on an item has behind it.
LEMMA CurrentItem ==
    ASSUME PoolInv, NEW t \in Threads, NEW x \in Current(t), NEW k, k = node[t]
    PROVE  /\ t \in Crew /\ AtWork(t) /\ ~Released(t) /\ Computing /\ k \in 1..Len(graph)
           /\ Len(graph) \in Nat /\ nth[t] = nGraph[2]
           /\ \/ pc[t] = "calc" /\ x = <<k, "all", t>> /\ graph[k] = "op" /\ Pos(t) = 8 * k + 1
              \/ pc[t] = "conv" /\ x = <<k, "conv", t>> /\ graph[k] = "mul" /\ Pos(t) = 8 * k + 1
              \/ /\ pc[t] = "chunk" /\ bar[t] = "out" /\ x = <<k, "mul", mychunk[t]>>
                 /\ graph[k] = "mul" /\ Pos(t) = 8 * k + 4
                 /\ mychunk[t] < NChunks(nGraph[2])
<1>1. pc[t] \in {"calc", "conv", "chunk"}
  BY DEF Current
<1>2. bar[t] = "out" /\ ~Released(t)
  BY <1>1 DEF PoolInv, Control, Outside, Barriers, Released
<1>3. t \in Crew /\ AtWork(t) /\ Computing
  BY <1>1, <1>2, InCrew DEF InGraph
<1>4. /\ Place(t) /\ k \in 1..Len(graph) /\ Len(graph) \in Nat
      /\ Pos(t) = 8 * k + StageNo(pc[t])
  BY <1>1, <1>3, WorkFacts
<1>5. nth[t] = nGraph[2]
  BY <1>4 DEF Place
<1>6. CASE pc[t] = "calc"
  BY <1>2, <1>3, <1>4, <1>5, <1>6 DEF Current, Place, StageNo
<1>7. CASE pc[t] = "conv"
  BY <1>2, <1>3, <1>4, <1>5, <1>7 DEF Current, Place, StageNo
<1>8. CASE pc[t] = "chunk"
  <2>1. mychunk[t] < NChunks(nth[t]) /\ x = <<k, "mul", mychunk[t]>>
    BY <1>8 DEF Current
  <2> QED
    BY <1>2, <1>3, <1>4, <1>5, <1>8, <2>1 DEF Place, StageNo
<1> QED
  BY <1>1, <1>6, <1>7, <1>8

\* No chunk and no slice is computed twice: ggml_threadpool_chunk_add hands out every
\* chunk once, and no other thread has the slice or chunk a thread works on.
THEOREM PoolItemsOnce == Spec => []EachItemOnce
<1>1. PoolInv => EachItemOnce
  <2> SUFFICES ASSUME PoolInv, NEW t \in Threads
               PROVE  /\ Current(t) \cap made = {}
                      /\ \A u \in Threads \ {t} : Current(t) \cap Current(u) = {}
    BY DEF EachItemOnce
  <2>1. Crew \subseteq Threads /\ PoolTypes
    BY CrewFacts DEF PoolInv, Control
  <2>2. ASSUME NEW x \in Current(t) PROVE x \notin made
    <3>0. PICK k : k = node[t]
      OBVIOUS
    <3>1. /\ t \in Crew /\ AtWork(t) /\ ~Released(t) /\ Computing /\ k \in 1..Len(graph)
          /\ Len(graph) \in Nat /\ nth[t] = nGraph[2]
          /\ \/ pc[t] = "calc" /\ x = <<k, "all", t>> /\ graph[k] = "op" /\ Pos(t) = 8 * k + 1
             \/ pc[t] = "conv" /\ x = <<k, "conv", t>> /\ graph[k] = "mul" /\ Pos(t) = 8 * k + 1
             \/ /\ pc[t] = "chunk" /\ bar[t] = "out" /\ x = <<k, "mul", mychunk[t]>>
                /\ graph[k] = "mul" /\ Pos(t) = 8 * k + 4
                /\ mychunk[t] < NChunks(nGraph[2])
      BY <3>0, CurrentItem
    <3>2. MadeAt(k)
      BY <3>1 DEF PoolInv, Geometry, MadeOK
    <3>3. CASE Pos(t) = 8 * k + 1
      <4>1. ~Begun(t, k)
        BY <3>1, <3>3 DEF Begun
      <4> QED
        BY <3>1, <3>2, <3>3, <4>1 DEF MadeAt
    <3>4. CASE Pos(t) = 8 * k + 4
      <4>1. InChunks(t, k) /\ Held(t) = mychunk[t] /\ ~Done(t, k) /\ graph[k] = "mul"
            /\ x = <<k, "mul", mychunk[t]>> /\ mychunk[t] < NChunks(nGraph[2])
        BY <3>1, <3>4 DEF InChunks, Held, Done
      <4>2. ~HandedOut(k, mychunk[t])
        BY <3>1, <4>1 DEF HandedOut
      <4>3. mychunk[t] \in 0..NChunks(nGraph[2]) - 1
        <5>1. mychunk[t] \in Nat
          BY <2>1 DEF PoolTypes
        <5>2. nGraph[2] \in Nat \ {0}
          BY <3>1, CrewFacts, PoolAssumption DEF PoolInv, Control
        <5>3. NChunks(nGraph[2]) \in Nat
          BY <5>2, EnoughChunks
        <5> QED
          BY <4>1, <5>1, <5>3
      <4> QED
        BY <3>2, <4>1, <4>2, <4>3 DEF MadeAt
    <3> QED
      BY <3>1, <3>3, <3>4
  <2>3. ASSUME NEW u \in Threads \ {t}, NEW x \in Current(t), x \in Current(u) PROVE FALSE
    <3>1. ASSUME NEW v \in {t, u}
          PROVE  /\ v \in Crew /\ node[v] \in 1..Len(graph)
                 /\ \/ pc[v] = "calc" /\ x = <<node[v], "all", v>>
                    \/ pc[v] = "conv" /\ x = <<node[v], "conv", v>>
                    \/ /\ pc[v] = "chunk" /\ bar[v] = "out" /\ x = <<node[v], "mul", mychunk[v]>>
                       /\ Pos(v) = 8 * node[v] + 4
      <4>1. v \in Threads /\ x \in Current(v)
        BY <2>3, <3>1
      <4> QED
        BY <4>1, CurrentItem
    <3>2. /\ node[t] = node[u] /\ mychunk[t] = mychunk[u]
          /\ pc[t] = "chunk" /\ pc[u] = "chunk"
      BY <3>1
    <3>3. /\ InChunks(t, node[t]) /\ Held(t) = mychunk[t]
          /\ InChunks(u, node[t]) /\ Held(u) = mychunk[t]
      BY <3>1, <3>2 DEF InChunks, Held
    <3>4. t \in Crew /\ u \in Crew \ {t} /\ node[t] \in 1..Len(graph)
      BY <3>1
    <3> QED
      BY <3>3, <3>4 DEF PoolInv, Geometry, Holding
  <2> QED
    BY <2>2, <2>3
<1> QED
  BY <1>1, PoolInvariant, PTL

\* The items of a node all threads are through with are all done.
LEMMA NodeDone ==
    ASSUME PoolInv, Computing, NEW j \in 1..Len(graph),
           \A u \in Crew : graph[j] # "nop" => Done(u, j) /\ Begun(u, j)
    PROVE  Items(graph, j, nGraph[2]) \subseteq made
<1>1. MadeAt(j) /\ Crew = 0..nGraph[2] - 1 /\ graph[j] \in {"nop", "op", "mul"}
  BY CrewFacts, GraphFacts DEF PoolInv, Control, Geometry, MadeOK
<1>2. CASE graph[j] = "nop"
  BY <1>2 DEF Items
<1>3. CASE graph[j] = "op"
  <2>1. \A u \in 0..nGraph[2] - 1 : <<j, "all", u>> \in made
    BY <1>1, <1>3 DEF MadeAt
  <2> QED
    BY <1>3, <2>1 DEF Items
<1>4. CASE graph[j] = "mul"
  <2>1. \A u \in 0..nGraph[2] - 1 : <<j, "conv", u>> \in made
    BY <1>1, <1>4 DEF MadeAt
  <2>2. \A c \in 0..NChunks(nGraph[2]) - 1 : <<j, "mul", c>> \in made
    BY <1>1, <1>4 DEF MadeAt, HandedOut
  <2> QED
    BY <1>4, <2>1, <2>2 DEF Items
<1> QED
  BY <1>1, <1>2, <1>3, <1>4

\* A thread works on a node only when the nodes before it are done by all threads, and
\* on a product only when all of src1 is converted.
THEOREM PoolSourcesReady == Spec => []SourcesReady
<1>1. PoolInv => SourcesReady
  <2> SUFFICES ASSUME PoolInv, NEW t \in Threads, NEW x \in Current(t)
               PROVE  /\ ItemsBefore(graph, node[t], nGraph[2]) \subseteq made
                      /\ pc[t] = "chunk" => \A i \in 0..nth[t] - 1 : <<node[t], "conv", i>> \in made
    BY DEF SourcesReady
  <2>0. PICK k : k = node[t]
    OBVIOUS
  <2>1. /\ t \in Crew /\ AtWork(t) /\ ~Released(t) /\ Computing /\ k \in 1..Len(graph)
        /\ Len(graph) \in Nat /\ nth[t] = nGraph[2]
        /\ Pos(t) = 8 * k + 1 \/ Pos(t) = 8 * k + 4
        /\ pc[t] = "chunk" => Pos(t) = 8 * k + 4 /\ graph[k] = "mul"
    BY <2>0, CurrentItem
  <2>2. /\ 0 \in Crew /\ Crew = 0..nGraph[2] - 1 /\ PoolTypes
    BY <2>1, CrewFacts DEF PoolInv, Control
  <2>3. ASSUME NEW j \in 1..k - 1 PROVE Items(graph, j, nGraph[2]) \subseteq made
    <3>1. j \in 1..Len(graph) /\ j < Len(graph) /\ Pos(t) > 8 * j + 6
      BY <2>1
    <3>2. \A u \in Crew : graph[j] # "nop" => Done(u, j) /\ Begun(u, j)
      BY <2>1, <3>1, OlderPassed
    <3> QED
      BY <2>1, <3>1, <3>2, NodeDone
  <2>4. ItemsBefore(graph, k, nGraph[2]) \subseteq made
    BY <2>3 DEF ItemsBefore
  <2>5. ASSUME pc[t] = "chunk", NEW i \in 0..nth[t] - 1 PROVE <<k, "conv", i>> \in made
    <3>1. i \in Crew /\ graph[k] = "mul" /\ Pos(t) = 8 * k + 4
      BY <2>1, <2>2, <2>5
    <3>2. MadeAt(k)
      BY <2>1 DEF PoolInv, Geometry, MadeOK
    <3>3. Begun(i, k)
      <4>1. EndNode \in Nat /\ k < EndNode
        <5>1. pc[t] \notin {"node", "lastBarrier"} /\ Place(t) /\ EndNode \in Nat
          BY <2>1, <2>5, WorkFacts DEF AtWork
        <5> QED
          BY <2>0, <5>1 DEF Place
      <4>2. 8 * k + 3 \in Locs
        BY <2>1, <2>2, <3>1, <4>1, LocAfter
      <4>3. Past(t, 8 * k + 3)
        BY <2>1, <3>1 DEF Past
      <4>4. Past(i, 8 * k + 3)
        BY <2>1, <3>1, <4>2, <4>3 DEF PoolInv, Geometry, Together
      <4>5. Pos(i) \in Nat
        BY <3>1, PosBound
      <4> QED
        BY <2>1, <4>4, <4>5 DEF Past, Begun
    <3> QED
      BY <3>1, <3>2, <3>3 DEF MadeAt
  <2> QED
    BY <2>0, <2>4, <2>5
<1> QED
  BY <1>1, PoolInvariant, PTL

\* ggml_graph_compute returns with every node done entirely or not at all: an abort
\* leaves the same nodes undone by all threads, success leaves none.
THEOREM PoolWholeNodes == Spec => []WholeNodes
<1>1. PoolInv => WholeNodes
  <2> SUFFICES ASSUME PoolInv, pc[0] = "done"
               PROVE  \E k \in 1..Len(graph) + 1 :
                          /\ made = ItemsBefore(graph, k, nGraph[2])
                          /\ ec = "success" => k = Len(graph) + 1
    BY DEF WholeNodes
  <2>1. /\ Computing /\ 0 \in Crew /\ Crew = 0..nGraph[2] - 1 /\ Crew \subseteq Threads
        /\ nGraph[2] \in Nat \ {0} /\ PoolTypes /\ Roles
    BY CrewFacts, PoolAssumption DEF PoolInv, Control, Computing
  <2>2. /\ Len(graph) \in Nat /\ EndNode \in 1..Len(graph) + 1
        /\ ec = "success" => EndNode = Len(graph) + 1
        /\ \A k \in 1..Len(graph) : graph[k] \in {"nop", "op", "mul"}
    <3>1. EndNode \in Nat \ {0} /\ Len(graph) \in Nat
      BY <2>1, GraphFacts, PosFacts
    <3>2. abort <= Len(graph) + 1 /\ (ec = "success" <=> abort = 0)
      BY <2>1 DEF PoolInv, Geometry, Aborts
    <3>3. abort \in Nat /\ EndNode = IF abort = 0 THEN Len(graph) + 1 ELSE abort
      BY <2>1 DEF EndNode, PoolTypes
    <3>4. EndNode <= Len(graph) + 1 /\ (ec = "success" => EndNode = Len(graph) + 1)
      BY <3>1, <3>2, <3>3
    <3>5. \A k \in 1..Len(graph) : graph[k] \in {"nop", "op", "mul"}
      BY <2>1, GraphFacts
    <3> QED
      BY <3>1, <3>4, <3>5
  <2>3. \A u \in Crew : Pos(u) \in Nat /\ Pos(u) >= 8 * EndNode /\ Pos(u) <= 8 * EndNode + 1
    <3>1. \A u \in Crew : Past(u, 8 * EndNode)
      BY CallerThrough
    <3>2. \A u \in Crew : Pos(u) \in Nat /\ Pos(u) <= 8 * EndNode + 1
      BY PosBound
    <3> QED
      BY <2>2, <3>1, <3>2 DEF Past
  <2>4. ASSUME NEW j \in 1..Len(graph), NEW u \in Crew
        PROVE  /\ j < EndNode => Done(u, j) /\ Begun(u, j)
               /\ j >= EndNode => ~Done(u, j) /\ ~Begun(u, j) /\ ~Past(u, 8 * j + 3)
    <3>1. Pos(u) \in Nat /\ Pos(u) >= 8 * EndNode /\ Pos(u) <= 8 * EndNode + 1 /\ j \in Nat
      BY <2>2, <2>3
    <3> QED
      BY <2>2, <3>1 DEF Done, Begun, Past
  <2>5. ItemsBefore(graph, EndNode, nGraph[2]) \subseteq made
    <3>1. ASSUME NEW j \in 1..EndNode - 1 PROVE Items(graph, j, nGraph[2]) \subseteq made
      <4>1. j \in 1..Len(graph) /\ j < EndNode
        BY <2>2
      <4> QED
        BY <2>1, <2>4, <4>1, NodeDone
    <3> QED
      BY <3>1 DEF ItemsBefore
  <2>6. made \subseteq ItemsBefore(graph, EndNode, nGraph[2])
    <3> SUFFICES ASSUME NEW x \in made PROVE x \in ItemsBefore(graph, EndNode, nGraph[2])
      OBVIOUS
    <3>1. x \in ItemsBefore(graph, Len(graph) + 1, nGraph[2])
      BY <2>1 DEF PoolInv, Geometry, MadeOK
    <3>2. PICK j \in 1..Len(graph) : x \in Items(graph, j, nGraph[2])
      BY <2>2, <3>1 DEF ItemsBefore
    <3>3. j < EndNode
      <4> SUFFICES ASSUME j >= EndNode PROVE FALSE
        BY <2>2
      <4>1. MadeAt(j)
        BY <2>1 DEF PoolInv, Geometry, MadeOK
      <4>2. \A u \in Crew : ~Done(u, j) /\ ~Begun(u, j) /\ ~Past(u, 8 * j + 3)
        BY <2>4
      <4>3. CASE graph[j] = "nop"
        BY <3>2, <4>3 DEF Items
      <4>4. CASE graph[j] = "op"
        <5>1. PICK i \in 0..nGraph[2] - 1 : x = <<j, "all", i>>
          BY <3>2, <4>4 DEF Items
        <5> QED
          BY <2>1, <4>1, <4>2, <4>4, <5>1 DEF MadeAt
      <4>5. CASE graph[j] = "mul"
        <5>1. CASE \E i \in 0..nGraph[2] - 1 : x = <<j, "conv", i>>
          BY <2>1, <4>1, <4>2, <4>5, <5>1 DEF MadeAt
        <5>2. CASE \E c \in 0..NChunks(nGraph[2]) - 1 : x = <<j, "mul", c>>
          <6>1. \A c : ~HandedOut(j, c)
            BY <2>1, <4>2 DEF HandedOut
          <6> QED
            BY <4>1, <4>5, <5>2, <6>1 DEF MadeAt
        <5> QED
          BY <3>2, <4>5, <5>1, <5>2 DEF Items
      <4> QED
        BY <2>2, <4>3, <4>4, <4>5
    <3>4. j \in 1..EndNode - 1
      BY <2>2, <3>3
    <3> QED
      BY <3>2, <3>4 DEF ItemsBefore
  <2>7. made = ItemsBefore(graph, EndNode, nGraph[2])
    BY <2>5, <2>6
  <2>8. PICK k : k = EndNode
    OBVIOUS
  <2>9. /\ k \in 1..Len(graph) + 1 /\ made = ItemsBefore(graph, k, nGraph[2])
        /\ ec = "success" => k = Len(graph) + 1
    BY <2>2, <2>7, <2>8
  <2> QED
    BY <2>9
<1> QED
  BY <1>1, PoolInvariant, PTL

\* When ggml_graph_compute resets the pool, and when it is freed, no worker reads what
\* is reset: all are out of the graph, but for the end of the last spin loop.
THEOREM PoolResetQuiet == Spec => QuietReset
<1>1. PoolInv =>
          (pc[0] = "idle" /\ pc'[0] \in {"kick", "stopping"} =>
               \A w \in Workers : pc[w] \in InGraph => pc[w] = "lastBarrier" /\ bar[w] = "spin")
  <2> SUFFICES ASSUME PoolInv, pc[0] = "idle", NEW w \in Workers, pc[w] \in InGraph
               PROVE  pc[w] = "lastBarrier" /\ bar[w] = "spin"
    OBVIOUS
  <2>1. ~Computing /\ w \in Threads
    BY CrewFacts DEF Computing, InGraph, Barriers, PoolInv, Control
  <2> QED
    BY <2>1, IdleIsQuiet DEF Released
<1> QED
  BY <1>1, PoolInvariant, PTL DEF QuietReset

-----------------------------------------------------------------------------
(* The pool implements Lockstep.                                           *)

\* The nodes with work a thread has begun, and the products it is through with: what it
\* has finished of the stages of the graph.
BegunNodes(t) == {j \in 1..Len(graph) : graph[j] # "nop" /\ Begun(t, j)}
DoneMuls(t)   == {j \in 1..Len(graph) : graph[j] = "mul" /\ Done(t, j)}
Stages(t)     == IF t \in Crew THEN Cardinality(BegunNodes(t)) + Cardinality(DoneMuls(t)) ELSE 0

\* The sets of nodes are finite, and get one member more at a time.
LEMMA NodesFinite ==
    ASSUME NEW n \in Nat, NEW S \in SUBSET (1..n)
    PROVE  /\ IsFiniteSet(S) /\ Cardinality(S) \in Nat
           /\ \A T \in SUBSET S : Cardinality(T) \in Nat /\ Cardinality(T) <= Cardinality(S)
           /\ \A k \in 1..n : k \notin S => Cardinality(S \cup {k}) = Cardinality(S) + 1
<1>1. IsFiniteSet(1..n)
  BY FS_Interval
<1>2. IsFiniteSet(S) /\ Cardinality(S) \in Nat
  BY <1>1, FS_Subset, FS_CardinalityType
<1>3. ASSUME NEW T \in SUBSET S
      PROVE  Cardinality(T) \in Nat /\ Cardinality(T) <= Cardinality(S)
  BY <1>2, FS_Subset, FS_CardinalityType
<1>4. ASSUME NEW k \in 1..n, k \notin S PROVE Cardinality(S \cup {k}) = Cardinality(S) + 1
  BY <1>2, <1>4, FS_AddElement
<1> QED
  BY <1>2, <1>3, <1>4

\* The stages a thread has finished are a number.
LEMMA StagesNat == PoolInv => \A t \in Threads : Stages(t) \in Nat
<1> SUFFICES ASSUME PoolInv, NEW t \in Threads PROVE Stages(t) \in Nat
  OBVIOUS
<1>1. Len(graph) \in Nat
  BY GraphFacts DEF PoolInv, Control
<1>2. BegunNodes(t) \in SUBSET (1..Len(graph)) /\ DoneMuls(t) \in SUBSET (1..Len(graph))
  BY DEF BegunNodes, DoneMuls
<1>3. Cardinality(BegunNodes(t)) \in Nat /\ Cardinality(DoneMuls(t)) \in Nat
  BY <1>1, <1>2, NodesFinite
<1> QED
  BY <1>3 DEF Stages

\* The number of stages the model has for a thread is what its place says.
Agrees == \A t \in Threads : Progress(t) = Stages(t)

LEMMA ProgressIsStages == PoolInv => Agrees
<1> SUFFICES ASSUME PoolInv, NEW t \in Threads PROVE Progress(t) = Stages(t)
  BY DEF Agrees
<1>1. PoolTypes /\ Roles
  BY DEF PoolInv, Control
<1>2. /\ Len(graph) \in Nat /\ EndNode \in Nat \ {0} /\ Pos(t) \in Nat
      /\ \A j \in 1..Len(graph) : graph[j] \in {"nop", "op", "mul"}
  BY <1>1, GraphFacts, PosFacts
<1>3. CASE t \notin Crew
  BY <1>3 DEF Progress, Stages
<1>4. CASE t \in Crew /\ (Fresh(t) \/ pc[t] \in {"signal", "enter"})
  <2>1. Progress(t) = 0
    BY <1>4 DEF Progress, Fresh
  <2>2. Pos(t) = 0
    BY <1>4 DEF Pos
  <2>3. BegunNodes(t) = {} /\ DoneMuls(t) = {}
    BY <1>2, <2>2 DEF BegunNodes, DoneMuls, Begun, Done
  <2> QED
    BY <1>4, <2>1, <2>3, FS_EmptySet DEF Stages
<1>5. CASE t \in Crew /\ ~Fresh(t) /\ pc[t] \notin InGraph \cup {"signal"}
  <2>1. Pos(t) = 8 * EndNode + 1
    BY <1>1, <1>5, PosFacts
  <2>2. EndNode <= Len(graph) + 1
    <3>1. Computing
      BY <1>1, <1>5, CrewFacts
    <3> QED
      BY <1>1, <1>2, <3>1 DEF PoolInv, Geometry, Aborts, EndNode, PoolTypes
  <2>3. BegunNodes(t) = {j \in 1..EndNode - 1 : graph[j] # "nop"}
    BY <1>2, <2>1, <2>2 DEF BegunNodes, Begun
  <2>4. DoneMuls(t) = {j \in 1..EndNode - 1 : graph[j] = "mul"}
    BY <1>2, <2>1, <2>2 DEF DoneMuls, Done
  <2>5. Progress(t) = StagesBefore(graph, EndNode)
    <3>1. pc[t] # "enter"
      BY <1>5 DEF InGraph
    <3> QED
      BY <1>5, <3>1 DEF Progress, Fresh, EndNode
  <2> QED
    BY <1>5, <2>3, <2>4, <2>5 DEF Stages, StagesBefore
<1>6. CASE t \in Crew /\ ~Fresh(t) /\ pc[t] \in Inside
  <2>0. PICK k : k = node[t]
    OBVIOUS
  <2>1. AtWork(t)
    BY <1>6 DEF AtWork
  <2>2. /\ Place(t) /\ k \in Nat \ {0} /\ EndNode <= Len(graph) + 1 /\ k <= EndNode
        /\ pc[t] \in {"node", "lastBarrier", "calc", "conv", "set", "mulBarrier", "chunk",
                      "after", "nodeBarrier"}
        /\ Pos(t) = 8 * k + StageNo(pc[t]) /\ mine[t] = graph
        /\ pc[t] \notin {"node", "lastBarrier"} => k \in 1..Len(graph)
        /\ pc[t] \in {"set", "mulBarrier", "chunk"} => graph[k] = "mul"
        /\ pc[t] \in {"after", "nodeBarrier"} => graph[k] # "nop"
    BY <2>0, <2>1, WorkFacts DEF Place
  <2>3. Progress(t) = StagesBefore(graph, k) + StagesOfNode(t)
    <3>1. pc[t] \in InGraph /\ pc[t] \notin {"signal", "enter"}
      BY <1>6 DEF Inside, InGraph, Barriers
    <3>2. Progress(t) = StagesBefore(mine[t], node[t]) + StagesOfNode(t)
      BY <1>6, <3>1 DEF Progress, Fresh
    <3> QED
      BY <2>0, <2>2, <3>2
  <2> DEFINE B == {j \in 1..k - 1 : graph[j] # "nop"}
             M == {j \in 1..k - 1 : graph[j] = "mul"}
  <2>4. /\ B \in SUBSET (1..Len(graph)) /\ M \in SUBSET (1..Len(graph)) /\ k \notin B /\ k \notin M
    BY <1>2, <2>2
  <2>5. StagesBefore(graph, k) = Cardinality(B) + Cardinality(M)
    BY DEF StagesBefore
  <2>6. CASE pc[t] \in {"node", "lastBarrier", "calc", "conv"}
    <3>1. Pos(t) \in {8 * k, 8 * k + 1} /\ StagesOfNode(t) = 0
      BY <2>2, <2>6 DEF StageNo, StagesOfNode
    <3>2. BegunNodes(t) = B
      BY <1>2, <2>2, <3>1 DEF BegunNodes, Begun
    <3>3. DoneMuls(t) = M
      BY <1>2, <2>2, <3>1 DEF DoneMuls, Done
    <3>4. Cardinality(B) \in Nat /\ Cardinality(M) \in Nat
      BY <1>2, <2>4, NodesFinite
    <3> HIDE DEF B, M
    <3> QED
      BY <1>6, <2>3, <2>5, <3>1, <3>2, <3>3, <3>4 DEF Stages
  <2>7. CASE pc[t] \in {"set", "mulBarrier", "chunk"}
    <3>1. /\ Pos(t) \in {8 * k + 2, 8 * k + 3, 8 * k + 4} /\ StagesOfNode(t) = 1
          /\ graph[k] = "mul" /\ k \in 1..Len(graph)
      BY <2>2, <2>7 DEF StageNo, StagesOfNode
    <3>2. BegunNodes(t) = B \cup {k}
      BY <1>2, <2>2, <3>1, SMTT(30) DEF BegunNodes, Begun
    <3>3. DoneMuls(t) = M
      BY <1>2, <2>2, <3>1, SMTT(30) DEF DoneMuls, Done
    <3>4. /\ Cardinality(B) \in Nat /\ Cardinality(M) \in Nat
          /\ Cardinality(B \cup {k}) = Cardinality(B) + 1
      <4> HIDE DEF B, M
      <4> QED
        BY <1>2, <2>4, <3>1, NodesFinite
    <3> HIDE DEF B, M
    <3> QED
      BY <1>6, <2>3, <2>5, <3>1, <3>2, <3>3, <3>4 DEF Stages
  <2>8. CASE pc[t] \in {"after", "nodeBarrier"}
    <3>1. /\ Pos(t) \in {8 * k + 5, 8 * k + 6}
          /\ StagesOfNode(t) = IF graph[k] = "mul" THEN 2 ELSE 1
          /\ graph[k] # "nop" /\ k \in 1..Len(graph)
      BY <2>0, <2>2, <2>8 DEF StageNo, StagesOfNode
    <3>2. BegunNodes(t) = B \cup {k}
      BY <1>2, <2>2, <3>1, SMTT(30) DEF BegunNodes, Begun
    <3>3. DoneMuls(t) = IF graph[k] = "mul" THEN M \cup {k} ELSE M
      BY <1>2, <2>2, <3>1, SMTT(30) DEF DoneMuls, Done
    <3>4. /\ Cardinality(B) \in Nat /\ Cardinality(M) \in Nat
          /\ Cardinality(B \cup {k}) = Cardinality(B) + 1
          /\ Cardinality(M \cup {k}) = Cardinality(M) + 1
      <4> HIDE DEF B, M
      <4> QED
        BY <1>2, <2>4, <3>1, NodesFinite
    <3> HIDE DEF B, M
    <3> QED
      BY <1>6, <2>3, <2>5, <3>1, <3>2, <3>3, <3>4 DEF Stages
  <2> QED
    BY <2>2, <2>6, <2>7, <2>8
<1> QED
  BY <1>3, <1>4, <1>5, <1>6 DEF Inside

\* A step in which nobody finishes a stage is none of Lockstep's.
LEMMA LockStutters ==
    ASSUME PoolInv, PoolInv', SameStages
    PROVE  Crew' = Crew /\ \A t \in Threads : Progress(t)' = Progress(t)
<1>1. Agrees'
  BY ProgressIsStages, PTL
<1>2. \A t \in Threads : Progress(t) = Stages(t)
  BY ProgressIsStages DEF Agrees
<1>3. Crew' = Crew
  BY DEF SameStages
<1>4. ASSUME NEW t \in Crew PROVE BegunNodes(t)' = BegunNodes(t) /\ DoneMuls(t)' = DoneMuls(t)
  BY DEF SameStages, BegunNodes, DoneMuls
<1>5. \A t \in Threads : Stages(t)' = Stages(t)
  BY <1>3, <1>4 DEF Stages
<1> QED
  BY <1>1, <1>2, <1>3, <1>5 DEF Agrees

\* Who finishes a stage has everyone of the crew at it, or past it.
LEMMA OthersFinished ==
    ASSUME PoolInv, NEW t \in Crew, NEW k \in 1..Len(graph), graph[k] # "nop",
           Pos(t) = 8 * k + 1 \/ (Pos(t) = 8 * k + 4 /\ graph[k] = "mul"), NEW u \in Crew
    PROVE  Stages(u) >= Stages(t)
<1>1. /\ PoolTypes /\ Len(graph) \in Nat /\ Pos(u) \in Nat /\ Pos(t) \in Nat
      /\ Pos(t) <= 8 * EndNode + 1 /\ EndNode \in Nat
  BY GraphFacts, PosBound DEF PoolInv, Control
<1>2. ASSUME NEW j \in 1..Len(graph), graph[j] # "nop", j < k
      PROVE  Done(u, j) /\ Begun(u, j)
  <2>1. j < Len(graph) /\ Pos(t) > 8 * j + 6
    BY <1>1, <1>2
  <2> QED
    BY <1>2, <2>1, OlderPassed
<1>3. Pos(t) = 8 * k + 4 => Begun(u, k)
  <2> SUFFICES ASSUME Pos(t) = 8 * k + 4 PROVE Begun(u, k)
    OBVIOUS
  <2>1. graph[k] = "mul" /\ k < EndNode
    BY <1>1
  <2>2. 8 * k + 3 \in Locs
    BY <1>1, <2>1, LocAfter
  <2>3. Past(t, 8 * k + 3)
    BY <1>1 DEF Past
  <2>4. Past(u, 8 * k + 3)
    BY <2>2, <2>3 DEF PoolInv, Geometry, Together
  <2> QED
    BY <1>1, <2>4 DEF Past, Begun
<1>4. BegunNodes(t) \subseteq BegunNodes(u)
  <2> SUFFICES ASSUME NEW j \in 1..Len(graph), graph[j] # "nop", Begun(t, j) PROVE Begun(u, j)
    BY DEF BegunNodes
  <2>1. j < k \/ (j = k /\ Pos(t) = 8 * k + 4)
    BY <1>1 DEF Begun
  <2> QED
    BY <1>2, <1>3, <2>1
<1>5. DoneMuls(t) \subseteq DoneMuls(u)
  <2> SUFFICES ASSUME NEW j \in 1..Len(graph), graph[j] = "mul", Done(t, j) PROVE Done(u, j)
    BY DEF DoneMuls
  <2>1. j < k
    BY <1>1 DEF Done
  <2> QED
    BY <1>2, <2>1
<1>6. BegunNodes(u) \in SUBSET (1..Len(graph)) /\ DoneMuls(u) \in SUBSET (1..Len(graph))
  BY DEF BegunNodes, DoneMuls
<1>7. /\ Cardinality(BegunNodes(t)) \in Nat /\ Cardinality(BegunNodes(u)) \in Nat
      /\ Cardinality(BegunNodes(t)) <= Cardinality(BegunNodes(u))
  BY <1>1, <1>4, <1>6, NodesFinite
<1>8. /\ Cardinality(DoneMuls(t)) \in Nat /\ Cardinality(DoneMuls(u)) \in Nat
      /\ Cardinality(DoneMuls(t)) <= Cardinality(DoneMuls(u))
  BY <1>1, <1>5, <1>6, NodesFinite
<1> QED
  BY <1>7, <1>8 DEF Stages

\* The end of a thread's slice of a node, or of the chunks of a product, is a stage
\* that everyone before has reached.
LEMMA LockFinishes ==
    ASSUME PoolInv, PoolInv', NEW t \in Threads, Finishes(t)
    PROVE  /\ Crew' = Crew /\ t \in Crew
           /\ \A u \in Crew : Progress(u) >= Progress(t)
           /\ Progress(t)' = Progress(t) + 1
           /\ \A u \in Threads \ {t} : Progress(u)' = Progress(u)
<1>1. Agrees'
  BY ProgressIsStages, PTL
<1>2. \A u \in Threads : Progress(u) = Stages(u) /\ Stages(u) \in Nat
  BY ProgressIsStages, StagesNat DEF Agrees
<1>3. /\ Crew' = Crew /\ t \in Crew /\ graph' = graph /\ Crew \subseteq Threads
      /\ \A u \in Crew \ {t} : Pos(u)' = Pos(u)
  BY CrewFacts DEF Finishes, PoolInv, Control
<1>4. PICK k \in 1..Len(graph) :
          \/ graph[k] = "op" /\ Pos(t) = 8 * k + 1 /\ Pos(t)' = 8 * k + 5
          \/ graph[k] = "mul" /\ Pos(t) = 8 * k + 1 /\ Pos(t)' \in {8 * k + 2, 8 * k + 3}
          \/ graph[k] = "mul" /\ Pos(t) = 8 * k + 4 /\ Pos(t)' = 8 * k + 5
  BY DEF Finishes
<1>5. \A u \in Crew : Stages(u) >= Stages(t)
  BY <1>3, <1>4, OthersFinished
<1>6. \A u \in Threads \ {t} : Stages(u)' = Stages(u)
  <2>1. \A u \in Crew \ {t} : BegunNodes(u)' = BegunNodes(u) /\ DoneMuls(u)' = DoneMuls(u)
    BY <1>3 DEF BegunNodes, DoneMuls, Begun, Done
  <2> QED
    BY <1>3, <2>1 DEF Stages
<1>7. Len(graph) \in Nat /\ k \in Nat
  BY GraphFacts DEF PoolInv, Control
<1>8. /\ BegunNodes(t) \in SUBSET (1..Len(graph)) /\ DoneMuls(t) \in SUBSET (1..Len(graph))
      /\ Cardinality(BegunNodes(t)) \in Nat /\ Cardinality(DoneMuls(t)) \in Nat
  <2>1. BegunNodes(t) \in SUBSET (1..Len(graph)) /\ DoneMuls(t) \in SUBSET (1..Len(graph))
    BY DEF BegunNodes, DoneMuls
  <2> QED
    BY <1>7, <2>1, NodesFinite
<1>9. Stages(t)' = Stages(t) + 1
  <2>1. CASE Pos(t) = 8 * k + 1
    <3>1. k \notin BegunNodes(t) /\ BegunNodes(t)' = BegunNodes(t) \cup {k}
      <4>1. \A j \in 1..Len(graph) : Begun(t, j) <=> j < k
        BY <1>7, <2>1 DEF Begun
      <4>2. \A j \in 1..Len(graph) : Begun(t, j)' <=> j <= k
        BY <1>4, <1>7, <2>1 DEF Begun
      <4>3. graph[k] # "nop"
        BY <1>4
      <4> QED
        BY <1>3, <1>7, <4>1, <4>2, <4>3 DEF BegunNodes
    <3>2. DoneMuls(t)' = DoneMuls(t)
      <4>1. \A j \in 1..Len(graph) : Done(t, j) <=> j < k
        BY <1>7, <2>1 DEF Done
      <4>2. \A j \in 1..Len(graph) : graph[j] = "mul" => (Done(t, j)' <=> j < k)
        BY <1>4, <1>7, <2>1 DEF Done
      <4> QED
        BY <1>3, <4>1, <4>2 DEF DoneMuls
    <3>3. Cardinality(BegunNodes(t) \cup {k}) = Cardinality(BegunNodes(t)) + 1
      BY <1>7, <1>8, <3>1, NodesFinite
    <3> QED
      BY <1>3, <1>8, <3>1, <3>2, <3>3 DEF Stages
  <2>2. CASE Pos(t) = 8 * k + 4
    <3>1. BegunNodes(t)' = BegunNodes(t)
      <4>1. \A j \in 1..Len(graph) : (Begun(t, j) <=> j <= k) /\ (Begun(t, j)' <=> j <= k)
        BY <1>4, <1>7, <2>2 DEF Begun
      <4> QED
        BY <1>3, <4>1 DEF BegunNodes
    <3>2. k \notin DoneMuls(t) /\ DoneMuls(t)' = DoneMuls(t) \cup {k}
      <4>1. \A j \in 1..Len(graph) : (Done(t, j) <=> j < k) /\ (Done(t, j)' <=> j <= k)
        BY <1>4, <1>7, <2>2 DEF Done
      <4>2. graph[k] = "mul"
        BY <1>4, <1>7, <2>2
      <4> QED
        BY <1>3, <1>7, <4>1, <4>2 DEF DoneMuls
    <3>3. Cardinality(DoneMuls(t) \cup {k}) = Cardinality(DoneMuls(t)) + 1
      BY <1>7, <1>8, <3>2, NodesFinite
    <3> QED
      BY <1>3, <1>8, <3>1, <3>2, <3>3 DEF Stages
  <2> QED
    BY <1>4, <2>1, <2>2
<1> QED
  BY <1>1, <1>2, <1>3, <1>5, <1>6, <1>9 DEF Agrees

\* The crew is made of threads of the pool, and the graph is a sequence.
LEMMA CrewInPool == PoolInv => Crew \in SUBSET Threads /\ Len(graph) \in Nat
  BY CrewFacts, GraphFacts DEF PoolInv, Control

\* The kickoff begins a graph for a crew that has finished nothing of it.
LEMMA LockBegins ==
    ASSUME PoolInv, PoolInv', KickStore
    PROVE  /\ Crew = {} /\ Crew' # {} /\ Crew' \in SUBSET Threads
           /\ \A t \in Threads : Progress(t)' = 0
<1>1. Crew = {} /\ Crew' # {} /\ \A u \in Crew' : Pos(u)' = 0
  BY KickStoreKeeps
<1>2. Agrees'
  BY ProgressIsStages, PTL
<1>3. (Crew \in SUBSET Threads /\ Len(graph) \in Nat)'
  BY CrewInPool, PTL
<1>5. ASSUME NEW u \in Crew' PROVE BegunNodes(u)' = {} /\ DoneMuls(u)' = {}
  BY <1>1, <1>3 DEF BegunNodes, DoneMuls, Begun, Done
<1>6. \A u \in Threads : Stages(u)' = 0
  BY <1>5, FS_EmptySet DEF Stages
<1> QED
  BY <1>1, <1>2, <1>3, <1>6 DEF Agrees

\* The call returns when all have finished the same stages.
LEMMA LockEnds ==
    ASSUME PoolInv, PoolInv', ComputeReturns
    PROVE  /\ Crew # {} /\ Crew' = {}
           /\ \A t, u \in Crew : Progress(t) = Progress(u)
           /\ \A t \in Threads : Progress(t)' = 0
<1>1. Crew # {} /\ Crew' = {} /\ pc[0] = "done" /\ Crew \subseteq Threads
  BY ReturnKeeps, CrewFacts DEF ComputeReturns, At, PoolInv, Control
<1>2. Agrees'
  BY ProgressIsStages, PTL
<1>3. \A u \in Threads : Progress(u) = Stages(u)
  BY ProgressIsStages DEF Agrees
<1>4. \A u \in Crew : /\ Pos(u) \in Nat /\ EndNode \in Nat
                      /\ Pos(u) >= 8 * EndNode /\ Pos(u) <= 8 * EndNode + 1
  <2>1. \A u \in Crew : Past(u, 8 * EndNode)
    BY <1>1, CallerThrough
  <2>2. \A u \in Crew : Pos(u) \in Nat /\ EndNode \in Nat /\ Pos(u) <= 8 * EndNode + 1
    BY PosBound
  <2> QED
    BY <2>1, <2>2 DEF Past
<1>5. ASSUME NEW u \in Crew
      PROVE  /\ BegunNodes(u) = {j \in 1..Len(graph) : graph[j] # "nop" /\ j < EndNode}
             /\ DoneMuls(u) = {j \in 1..Len(graph) : graph[j] = "mul" /\ j < EndNode}
  <2>1. Len(graph) \in Nat
    BY GraphFacts DEF PoolInv, Control
  <2>2. \A j \in 1..Len(graph) : (Begun(u, j) <=> j < EndNode) /\ (Done(u, j) <=> j < EndNode)
    BY <1>4, <2>1 DEF Begun, Done
  <2> QED
    BY <2>2 DEF BegunNodes, DoneMuls
<1>6. \A t, u \in Crew : Stages(t) = Stages(u)
  BY <1>5 DEF Stages
<1>7. \A t \in Threads : Stages(t)' = 0
  BY <1>1 DEF Stages
<1> QED
  BY <1>1, <1>2, <1>3, <1>6, <1>7 DEF Agrees

\* The threads of the pool go through a graph in lockstep: for any number of threads, any
\* graphs, any thread counts, aborts and pauses, no thread begins a stage before all of
\* the crew have finished the one before it.
THEOREM PoolInLockstep == Spec => InLockstep
<1>1. Init => Abstract!LockInit
  <2> SUFFICES ASSUME Init PROVE Abstract!LockInit
    OBVIOUS
  <2>1. 0 \in Threads
    BY PoolAssumption
  <2>2. Crew = {}
    BY <2>1 DEF Init, Crew, Computing, InGraph, Barriers
  <2>3. \A t \in Threads : Progress(t) = 0
    BY <2>2 DEF Progress
  <2> QED
    BY <2>2, <2>3 DEF Abstract!LockInit
<1>2. PoolInv /\ PoolInv' /\ StepStages => [Abstract!LockNext]_(Abstract!lockVars)
  <2> SUFFICES ASSUME PoolInv, PoolInv', StepStages
               PROVE  [Abstract!LockNext]_(Abstract!lockVars)
    OBVIOUS
  <2>1. CASE SameStages
    <3>1. Crew' = Crew /\ \A t \in Threads : Progress(t)' = Progress(t)
      BY <2>1, LockStutters
    <3> QED
      BY <3>1 DEF Abstract!lockVars
  <2>2. ASSUME NEW t \in Threads, Finishes(t) PROVE Abstract!LockNext
    <3>1. /\ Crew' = Crew /\ t \in Crew /\ Crew \subseteq Threads
          /\ \A u \in Crew : Progress(u) >= Progress(t)
          /\ Progress(t)' = Progress(t) + 1
          /\ \A u \in Threads \ {t} : Progress(u)' = Progress(u)
      BY <2>2, LockFinishes, CrewFacts DEF PoolInv, Control
    <3>2. Abstract!Finish(t)
      BY <3>1 DEF Abstract!Finish
    <3> QED
      BY <3>2 DEF Abstract!LockNext
  <2>3. CASE KickStore
    <3>1. /\ Crew = {} /\ Crew' # {} /\ Crew' \in SUBSET Threads
          /\ \A t \in Threads : Progress(t)' = 0
      BY <2>3, LockBegins
    <3>2. Abstract!Begin(Crew')
      BY <3>1 DEF Abstract!Begin
    <3> QED
      BY <3>1, <3>2 DEF Abstract!LockNext
  <2>4. CASE ComputeReturns
    <3>1. /\ Crew # {} /\ Crew' = {} /\ Crew \subseteq Threads
          /\ \A t, u \in Crew : Progress(t) = Progress(u)
          /\ \A t \in Threads : Progress(t)' = 0
      BY <2>4, LockEnds, CrewFacts DEF PoolInv, Control
    <3>2. Abstract!End
      BY <3>1 DEF Abstract!End
    <3> QED
      BY <3>2 DEF Abstract!LockNext
  <2> QED
    BY <2>1, <2>2, <2>3, <2>4 DEF StepStages
<1>3. PoolInv /\ [Next]_vars => [Abstract!LockNext]_(Abstract!lockVars)
  BY <1>2, StepKeeps
<1> QED
  BY <1>1, <1>3, PoolInvariant, PTL DEF Spec, InLockstep, Abstract!LockSpec
===============================================================================
