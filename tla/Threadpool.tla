------------------------------ MODULE Threadpool ------------------------------
(***************************************************************************)
(* The ggml thread pool (the build without OpenMP): thread 0 is the caller *)
(* of ggml_graph_compute, the others are secondary threads that poll, then *)
(* sleep, until the caller publishes a graph.  All of them walk the nodes  *)
(* of the graph and meet at a barrier after each; a matrix product has a   *)
(* barrier of its own and a shared counter that hands out its chunks.      *)
(*                                                                         *)
(* whisper.cpp passes no pool, so on the app's path a pool lives for one   *)
(* graph (New, Compute, Free); a pool that is kept may compute several     *)
(* graphs with different thread counts and be paused in between.           *)
(*                                                                         *)
(* A step is one access to shared memory, or one critical section of the   *)
(* mutex.  The mutex is only ever held across steps by the caller, so it   *)
(* is a flag.  Memory is sequentially consistent.                          *)
(***************************************************************************)
EXTENDS Barrier, Sequences

CONSTANTS
    NThreads,   \* threads of the pool, the caller included
    Graphs,     \* graphs the caller may compute: sequences of node kinds
    Chunks,     \* chunks mul_mat cuts its result into
    MaxGraphs   \* bound: graphs computed by one pool

ASSUME PoolAssumption == NThreads \in Nat \ {0} /\ Threads = 0..NThreads - 1
ASSUME GraphsAssumption == Graphs \subseteq Seq({"nop", "op", "mul"})
ASSUME ChunksAssumption == Chunks \in Nat \ {0}
ASSUME BoundAssumption == MaxGraphs \in Nat

VARIABLES
    locked,     \* the caller holds the mutex
    asleep,     \* threads in ggml_cond_wait
    stop, pause,\* flags of the pool
    nGraph,     \* n_graph: number of graphs published, threads of the last
    last,       \* last_graph of each thread
    pending,    \* pending flag of each thread
    graph,      \* cgraph of the pool
    abort,      \* node to leave the graph at, 0 when none
    ec,         \* result of the graph
    chunk,      \* current_chunk
    want,       \* threads the caller asked for
    pc,         \* where each thread is
    mine,       \* its local cgraph
    nth,        \* its local params.nth
    node,       \* its local node_n
    mychunk,    \* its local current_chunk in mul_mat
    made        \* work items of the current graph done so far

poolVars  == <<locked, asleep, stop, pause, nGraph, want>>
waitVars  == <<last, pending>>
graphVars == <<graph, abort, ec, chunk>>
localVars == <<mine, nth, node, mychunk>>
vars      == <<poolVars, waitVars, graphVars, localVars, pc, made, barVars>>

-----------------------------------------------------------------------------
Workers == Threads \ {0}

\* In a barrier a thread's pc says which one.
Barriers == {"mulBarrier", "nodeBarrier", "lastBarrier"}

\* Past the point where a thread still reads what the caller passed in.
InGraph  == {"enter", "node", "calc", "conv", "set", "chunk", "after"} \cup Barriers
PcValues == InGraph \cup
    {"none", "idle", "kick", "signal", "done", "stopping", "join", "freed",
     "top", "pauseLock", "stopTest", "poll", "pollGraph", "workLock", "take", "exited"}

At(t, s)   == pc[t] = s /\ bar[t] = "out"
GoTo(t, s) == pc' = [pc EXCEPT ![t] = s]

\* Chunks of a product for n threads: too few for the threads, one for each.
NChunks(n) == IF Chunks < 4 * n THEN n ELSE Chunks

\* Work items: the slice or chunk i of a stage of a node.
Items(g, k, n) ==
    CASE g[k] = "nop" -> {}
      [] g[k] = "op"  -> {<<k, "all", i>> : i \in 0..n - 1}
      [] g[k] = "mul" -> {<<k, "conv", i>> : i \in 0..n - 1} \cup
                         {<<k, "mul", i>> : i \in 0..NChunks(n) - 1}

ItemsBefore(g, k, n) == UNION {Items(g, j, n) : j \in 1..k - 1}

Init ==
    /\ BarInit
    /\ locked = FALSE /\ asleep = {} /\ stop = FALSE /\ pause = FALSE
    /\ nGraph = <<0, 0>> /\ want = 0
    /\ last = [t \in Threads |-> <<0, 0>>]
    /\ pending = [t \in Threads |-> FALSE]
    /\ graph = <<>> /\ abort = 0 /\ ec = "success" /\ chunk = 0
    /\ pc = [t \in Threads |-> "none"]
    /\ mine = [t \in Threads |-> <<>>]
    /\ nth = [t \in Threads |-> 0]
    /\ node = [t \in Threads |-> 1]
    /\ mychunk = [t \in Threads |-> 0]
    /\ made = {}

-----------------------------------------------------------------------------
(* The caller: ggml_threadpool_new, ggml_graph_compute, pause, resume, free. *)

\* The pool may be created paused (tpp->paused).
New(p) ==
    /\ At(0, "none")
    /\ pause' = p
    /\ pc' = [t \in Threads |-> IF t = 0 THEN "idle" ELSE "top"]
    /\ UNCHANGED <<locked, asleep, stop, nGraph, want, waitVars, graphVars,
                   localVars, made, barVars>>

\* ggml_graph_compute sets the pool up for graph g and asks for n threads.
Compute(g, n) ==
    /\ At(0, "idle")
    /\ nGraph[1] < MaxGraphs
    /\ graph' = g /\ abort' = 0 /\ ec' = "success" /\ chunk' = 0
    /\ want' = IF n > NThreads THEN NThreads ELSE n
    /\ made' = {}
    /\ GoTo(0, "kick")
    /\ UNCHANGED <<locked, asleep, stop, pause, nGraph, waitVars, localVars, barVars>>

\* ggml_graph_compute_kickoff: the store polling threads wait for ...
KickStore ==
    /\ At(0, "kick")
    /\ locked' = TRUE
    /\ nGraph' = <<nGraph[1] + 1, want>>
    /\ GoTo(0, "signal")
    /\ UNCHANGED <<asleep, stop, pause, want, waitVars, graphVars, localVars, made, barVars>>

\* Mutant: the store alone, for the threads that poll.
KickSilent ==
    /\ At(0, "signal")
    /\ pause' = FALSE
    /\ locked' = FALSE
    /\ GoTo(0, "enter")
    /\ UNCHANGED <<asleep, stop, nGraph, want, waitVars, graphVars, localVars, made, barVars>>

\* ... then the broadcast for those that sleep; it also ends a pause.
KickSignal ==
    /\ At(0, "signal")
    /\ pause' = FALSE
    /\ asleep' = {}
    /\ locked' = FALSE
    /\ GoTo(0, "enter")
    /\ UNCHANGED <<stop, nGraph, want, waitVars, graphVars, localVars, made, barVars>>

\* ggml_graph_compute returns ec, and the caller has its graph back.
ComputeReturns ==
    /\ At(0, "done")
    /\ GoTo(0, "idle")
    /\ graph' = <<>> /\ made' = {}
    /\ UNCHANGED <<poolVars, waitVars, abort, ec, chunk, localVars, barVars>>

\* ggml_threadpool_pause and _resume, when they change the flag.
SetPause(p) ==
    /\ At(0, "idle")
    /\ pause # p
    /\ pause' = p
    /\ asleep' = {}
    /\ UNCHANGED <<locked, stop, nGraph, want, waitVars, graphVars, localVars,
                   pc, made, barVars>>

\* ggml_threadpool_free: the flags under the mutex, then the joins.
FreeStop ==
    /\ At(0, "idle")
    /\ locked' = TRUE
    /\ stop' = TRUE
    /\ GoTo(0, "stopping")
    /\ UNCHANGED <<asleep, pause, nGraph, want, waitVars, graphVars, localVars, made, barVars>>

FreeSignal ==
    /\ At(0, "stopping")
    /\ pause' = FALSE
    /\ asleep' = {}
    /\ locked' = FALSE
    /\ GoTo(0, "join")
    /\ UNCHANGED <<stop, nGraph, want, waitVars, graphVars, localVars, made, barVars>>

Join ==
    /\ At(0, "join")
    /\ \A w \in Workers : pc[w] = "exited"
    /\ GoTo(0, "freed")
    /\ UNCHANGED <<poolVars, waitVars, graphVars, localVars, made, barVars>>

-----------------------------------------------------------------------------
(* ggml_graph_compute_secondary_thread: waiting for work.                  *)

\* while (threadpool->pause)
Top(w) ==
    /\ At(w, "top")
    /\ GoTo(w, IF pause THEN "pauseLock" ELSE "stopTest")
    /\ UNCHANGED <<poolVars, waitVars, graphVars, localVars, made, barVars>>

\* Under the mutex: still paused, sleep.  After the sleep, test again.
PauseWait(w) ==
    /\ At(w, "pauseLock") /\ ~locked
    /\ asleep' = IF pause THEN asleep \cup {w} ELSE asleep
    /\ GoTo(w, "top")
    /\ UNCHANGED <<locked, stop, pause, nGraph, want, waitVars, graphVars,
                   localVars, made, barVars>>

StopTest(w) ==
    /\ At(w, "stopTest")
    /\ GoTo(w, IF stop THEN "exited" ELSE "poll")
    /\ UNCHANGED <<poolVars, waitVars, graphVars, localVars, made, barVars>>

\* thread_ready without the mutex: first the flags ...
PollFlags(w) ==
    /\ At(w, "poll")
    /\ GoTo(w, IF stop \/ pause THEN "workLock" ELSE "pollGraph")
    /\ UNCHANGED <<poolVars, waitVars, graphVars, localVars, made, barVars>>

\* A new graph is work for the first nGraph[2] threads, and news for the rest.
SeeGraph(w) ==
    /\ last' = [last EXCEPT ![w] = nGraph]
    /\ pending' = [pending EXCEPT ![w] = w < nGraph[2]]

\* ... then n_graph.  With nothing new the thread polls on, or gives up and sleeps.
PollGraph(w) ==
    /\ At(w, "pollGraph")
    /\ \/ /\ nGraph # last[w]
          /\ SeeGraph(w)
          /\ GoTo(w, IF w < nGraph[2] THEN "take" ELSE "workLock")
       \/ /\ nGraph = last[w]
          /\ \E s \in {"poll", "workLock"} : GoTo(w, s)
          /\ UNCHANGED waitVars
    /\ UNCHANGED <<poolVars, graphVars, localVars, made, barVars>>

\* while (!thread_ready) cond_wait, under the mutex.
WorkWait(w) ==
    /\ At(w, "workLock") /\ ~locked /\ w \notin asleep
    /\ \/ /\ stop \/ pause
          /\ GoTo(w, "take")
          /\ UNCHANGED <<asleep, waitVars>>
       \/ /\ ~stop /\ ~pause /\ nGraph # last[w]
          /\ SeeGraph(w)
          /\ GoTo(w, "take")
          /\ UNCHANGED asleep
       \/ /\ ~stop /\ ~pause /\ nGraph = last[w]
          /\ asleep' = asleep \cup {w}
          /\ UNCHANGED <<pc, waitVars>>
    /\ UNCHANGED <<locked, stop, pause, nGraph, want, graphVars, localVars, made, barVars>>

\* A condition variable may wake a thread nobody signalled.
SpuriousWake(w) ==
    /\ w \in asleep
    /\ asleep' = asleep \ {w}
    /\ UNCHANGED <<locked, stop, pause, nGraph, want, waitVars, graphVars,
                   localVars, pc, made, barVars>>

Take(w) ==
    /\ At(w, "take")
    /\ pending' = [pending EXCEPT ![w] = FALSE]
    /\ GoTo(w, IF pending[w] THEN "enter" ELSE "top")
    /\ UNCHANGED <<poolVars, last, graphVars, localVars, made, barVars>>

-----------------------------------------------------------------------------
(* ggml_graph_compute_thread and the barrier and chunks of mul_mat.        *)

Enter(t) ==
    /\ At(t, "enter")
    /\ mine' = [mine EXCEPT ![t] = graph]
    /\ nth' = [nth EXCEPT ![t] = nGraph[2]]
    /\ node' = [node EXCEPT ![t] = 1]
    /\ GoTo(t, "node")
    /\ UNCHANGED <<poolVars, waitVars, graphVars, mychunk, made, barVars>>

\* The loop condition; a node without work costs no barrier.
NextNode(t) ==
    /\ At(t, "node")
    /\ \/ /\ node[t] > Len(mine[t]) \/ abort = node[t]
          /\ GoTo(t, "lastBarrier")
          /\ UNCHANGED node
       \/ /\ node[t] <= Len(mine[t]) /\ abort # node[t]
          /\ IF mine[t][node[t]] = "nop"
             THEN node' = [node EXCEPT ![t] = @ + 1] /\ UNCHANGED pc
             ELSE /\ GoTo(t, IF mine[t][node[t]] = "op" THEN "calc" ELSE "conv")
                  /\ UNCHANGED node
    /\ UNCHANGED <<poolVars, waitVars, graphVars, mine, nth, mychunk, made, barVars>>

\* An operation that gives each thread its slice.
Calc(t) ==
    /\ At(t, "calc")
    /\ made' = made \cup {<<node[t], "all", t>>}
    /\ GoTo(t, "after")
    /\ UNCHANGED <<poolVars, waitVars, graphVars, localVars, barVars>>

\* mul_mat: each thread converts its slice of src1 into the work buffer.
Convert(t) ==
    /\ At(t, "conv")
    /\ made' = made \cup {<<node[t], "conv", t>>}
    /\ GoTo(t, IF t = 0 THEN "set" ELSE "mulBarrier")
    /\ UNCHANGED <<poolVars, waitVars, graphVars, localVars, barVars>>

\* Mutant: the counter starts at a chunk that thread nth - 1 already has.
SetChunkLow ==
    /\ At(0, "set")
    /\ chunk' = nth[0] - 1
    /\ GoTo(0, "mulBarrier")
    /\ UNCHANGED <<poolVars, waitVars, graph, abort, ec, localVars, made, barVars>>

\* Every thread starts at chunk ith, so the first free one is nth.
SetChunk ==
    /\ At(0, "set")
    /\ chunk' = nth[0]
    /\ GoTo(0, "mulBarrier")
    /\ UNCHANGED <<poolVars, waitVars, graph, abort, ec, localVars, made, barVars>>

\* Compute a chunk and fetch the next, if there can be one.
DoChunk(t) ==
    /\ At(t, "chunk")
    /\ \/ /\ mychunk[t] >= NChunks(nth[t])
          /\ GoTo(t, "after")
          /\ UNCHANGED <<chunk, mychunk, made>>
       \/ /\ mychunk[t] < NChunks(nth[t])
          /\ made' = made \cup {<<node[t], "mul", mychunk[t]>>}
          /\ IF nth[t] >= NChunks(nth[t])
             THEN GoTo(t, "after") /\ UNCHANGED <<chunk, mychunk>>
             ELSE /\ mychunk' = [mychunk EXCEPT ![t] = chunk]
                  /\ chunk' = chunk + 1
                  /\ UNCHANGED pc
    /\ UNCHANGED <<poolVars, waitVars, graph, abort, ec, mine, nth, node, barVars>>

\* Mutant: no barrier before a node that has no work.
AfterNodeSkips(t) ==
    /\ At(t, "after")
    /\ \/ UNCHANGED <<abort, ec>>
       \/ t = 0 /\ abort' = node[t] + 1 /\ ec' = "aborted"
    /\ IF node[t] < Len(mine[t]) /\ mine[t][node[t] + 1] # "nop"
       THEN GoTo(t, "nodeBarrier") /\ UNCHANGED node
       ELSE GoTo(t, "node") /\ node' = [node EXCEPT ![t] = @ + 1]
    /\ UNCHANGED <<poolVars, waitVars, graph, chunk, mine, nth, mychunk, made, barVars>>

\* Mutant: the abort is not reported in ec.
AfterNodeSilent(t) ==
    /\ At(t, "after")
    /\ UNCHANGED ec
    /\ \/ UNCHANGED abort
       \/ t = 0 /\ abort' = node[t] + 1
    /\ IF node[t] < Len(mine[t])
       THEN GoTo(t, "nodeBarrier") /\ UNCHANGED node
       ELSE GoTo(t, "node") /\ node' = [node EXCEPT ![t] = @ + 1]
    /\ UNCHANGED <<poolVars, waitVars, graph, chunk, mine, nth, mychunk, made, barVars>>

\* Thread 0 asks the abort callback; then all meet, unless it was the last node.
AfterNode(t) ==
    /\ At(t, "after")
    /\ \/ UNCHANGED <<abort, ec>>
       \/ t = 0 /\ abort' = node[t] + 1 /\ ec' = "aborted"
    /\ IF node[t] < Len(mine[t])
       THEN GoTo(t, "nodeBarrier") /\ UNCHANGED node
       ELSE GoTo(t, "node") /\ node' = [node EXCEPT ![t] = @ + 1]
    /\ UNCHANGED <<poolVars, waitVars, graph, chunk, mine, nth, mychunk, made, barVars>>

\* Where a thread goes on after a barrier; after the last one its locals are gone.
LeaveBarrier(t) ==
    \/ /\ pc[t] = "mulBarrier"
       /\ GoTo(t, "chunk")
       /\ mychunk' = [mychunk EXCEPT ![t] = t]
       /\ UNCHANGED <<mine, nth, node>>
    \/ /\ pc[t] = "nodeBarrier"
       /\ GoTo(t, "node")
       /\ node' = [node EXCEPT ![t] = @ + 1]
       /\ mychunk' = [mychunk EXCEPT ![t] = 0]
       /\ UNCHANGED <<mine, nth>>
    \/ /\ pc[t] = "lastBarrier"
       /\ GoTo(t, IF t = 0 THEN "done" ELSE "top")
       /\ mine' = [mine EXCEPT ![t] = <<>>]
       /\ nth' = [nth EXCEPT ![t] = 0]
       /\ node' = [node EXCEPT ![t] = 1]
       /\ mychunk' = [mychunk EXCEPT ![t] = 0]

\* Mutant: the caller does not wait in the last barrier.
MeetOthersNotLast(t) ==
    /\ pc[t] \in Barriers
    /\ IF t = 0 /\ pc[t] = "lastBarrier" /\ bar[t] = "spin"
       THEN bar' = [bar EXCEPT ![t] = "out"] /\ UNCHANGED <<nBarrier, nPassed, seen, width>>
       ELSE Load(t, nGraph[2]) \/ BarStep(t)
    /\ IF bar'[t] = "out"
       THEN LeaveBarrier(t)
       ELSE UNCHANGED <<pc, localVars>>
    /\ UNCHANGED <<poolVars, waitVars, graphVars, made>>

MeetOthers(t) ==
    /\ pc[t] \in Barriers
    /\ Load(t, nGraph[2]) \/ BarStep(t)
    /\ IF bar'[t] = "out"
       THEN LeaveBarrier(t)
       ELSE UNCHANGED <<pc, localVars>>
    /\ UNCHANGED <<poolVars, waitVars, graphVars, made>>

-----------------------------------------------------------------------------
Awake(w) ==
    /\ w \notin asleep
    /\ \/ Top(w) \/ PauseWait(w) \/ StopTest(w) \/ PollFlags(w) \/ PollGraph(w)
       \/ WorkWait(w) \/ Take(w)

ComputeStep(t) ==
    \/ Enter(t) \/ NextNode(t) \/ Calc(t) \/ Convert(t) \/ DoChunk(t) \/ AfterNode(t)
    \/ MeetOthers(t)

CallerStep == KickStore \/ KickSignal \/ SetChunk \/ ComputeReturns \/ FreeSignal \/ Join

\* The joined pool is gone.
Gone == At(0, "freed") /\ UNCHANGED vars

Next ==
    \/ \E p \in BOOLEAN : New(p) \/ SetPause(p)
    \/ \E g \in Graphs, n \in 1..NThreads + 1 : Compute(g, n)
    \/ FreeStop
    \/ CallerStep
    \/ \E w \in Workers : Awake(w) \/ SpuriousWake(w)
    \/ \E t \in Threads : ComputeStep(t)
    \/ Gone

\* The kernel runs every thread; a caller that has started a call finishes it.
Fairness ==
    /\ WF_vars(CallerStep)
    /\ \A w \in Workers : WF_vars(Awake(w))
    /\ \A t \in Threads : WF_vars(ComputeStep(t))

Spec == Init /\ [][Next]_vars /\ Fairness

-----------------------------------------------------------------------------
TypeOK ==
    /\ BarTypeOK
    /\ locked \in BOOLEAN /\ stop \in BOOLEAN /\ pause \in BOOLEAN
    /\ asleep \subseteq Workers
    /\ nGraph \in (0..MaxGraphs) \X (0..NThreads)
    /\ want \in 0..NThreads
    /\ last \in [Threads -> (0..MaxGraphs) \X (0..NThreads)]
    /\ pending \in [Threads -> BOOLEAN]
    /\ graph \in Graphs \cup {<<>>}
    /\ abort \in Nat /\ ec \in {"success", "aborted"} /\ chunk \in Nat
    /\ pc \in [Threads -> PcValues]
    /\ mine \in [Threads -> Graphs \cup {<<>>}]
    /\ nth \in [Threads -> 0..NThreads]
    /\ node \in [Threads -> Nat \ {0}]
    /\ mychunk \in [Threads -> Nat]

\* The item a thread is about to compute, as a set.
Current(t) ==
    CASE pc[t] = "calc" -> {<<node[t], "all", t>>}
      [] pc[t] = "conv" -> {<<node[t], "conv", t>>}
      [] pc[t] = "chunk" /\ mychunk[t] < NChunks(nth[t]) -> {<<node[t], "mul", mychunk[t]>>}
      [] OTHER -> {}

\* Nothing is computed twice: two threads never work on one chunk, and a chunk
\* handed out is one nobody has done (ggml_threadpool_chunk_add).
EachItemOnce ==
    \A t \in Threads :
        /\ Current(t) \cap made = {}
        /\ \A u \in Threads \ {t} : Current(t) \cap Current(u) = {}

\* A node reads what the nodes before it wrote: when a thread works on a node,
\* every item of the earlier nodes is done, and the products of a node start when
\* the whole of src1 is converted (the barriers of ggml_graph_compute_thread and
\* ggml_compute_forward_mul_mat).
SourcesReady ==
    \A t \in Threads :
        Current(t) # {} =>
            /\ ItemsBefore(graph, node[t], nGraph[2]) \subseteq made
            /\ pc[t] = "chunk" => \A i \in 0..nth[t] - 1 : <<node[t], "conv", i>> \in made

\* When ggml_graph_compute returns, every node is done entirely or not at all: the
\* threads left an aborted graph at the same node, and success means all of it.
WholeNodes ==
    pc[0] = "done" =>
        \E k \in 1..Len(graph) + 1 :
            /\ made = ItemsBefore(graph, k, nGraph[2])
            /\ ec = "success" => k = Len(graph) + 1

\* "No worker threads should be accessing the parameters below at this stage": when
\* ggml_graph_compute resets the pool for a graph, and when it is freed, no worker
\* is inside a graph, but for the end of its last barrier.
QuietReset ==
    [][pc[0] = "idle" /\ pc'[0] \in {"kick", "stopping"} =>
        \A w \in Workers : pc[w] \in InGraph => pc[w] = "lastBarrier" /\ bar[w] = "spin"]_vars

\* A graph that was started is computed, and a free ends: no thread is left
\* spinning in a barrier or asleep on the condition variable.
CallsReturn == pc[0] \in {"kick", "stopping"} ~> pc[0] \in {"done", "freed"}

\* Stages of the nodes before k.
StagesBefore(g, k) ==
    Cardinality({j \in 1..k - 1 : g[j] # "nop"}) + Cardinality({j \in 1..k - 1 : g[j] = "mul"})

\* Stages of its node a thread has finished.
StagesOfNode(t) ==
    CASE pc[t] \in {"set", "mulBarrier", "chunk"} -> 1
      [] pc[t] \in {"after", "nodeBarrier"} -> IF mine[t][node[t]] = "mul" THEN 2 ELSE 1
      [] OTHER -> 0

Computing == pc[0] \in InGraph \cup {"signal", "done"}

Crew == IF Computing THEN 0..nGraph[2] - 1 ELSE {}

\* Stages of the current graph a thread has finished: none before it enters, all up
\* to the end or the abort once it is through the last barrier.
Progress(t) ==
    LET left == pc[t] \notin InGraph \cup {"signal"}
        new  == t # 0 /\ (last[t] # nGraph \/ pending[t])
        stop_at == IF abort = 0 THEN Len(graph) + 1 ELSE abort
    IN  IF t \notin Crew \/ new \/ pc[t] \in {"signal", "enter"} THEN 0
        ELSE IF left THEN StagesBefore(graph, stop_at)
        ELSE StagesBefore(mine[t], node[t]) + StagesOfNode(t)

Abstract == INSTANCE Lockstep WITH crew <- Crew, at <- [t \in Threads |-> Progress(t)]

\* The pool implements Lockstep: no thread begins a stage before all have finished
\* the one before it, and the call returns when all have done the same stages.
InLockstep == Abstract!LockSpec
=============================================================================
