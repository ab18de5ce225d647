------------------------------ MODULE GraphAlloc ------------------------------
(***************************************************************************)
(* ggml_gallocr: places the tensors of a compute graph in one buffer so    *)
(* that tensors whose uses do not meet share bytes.  A plan walks the      *)
(* graph once, allocating each tensor before its first use and freeing it  *)
(* after its last; the addresses are kept by position and given to every   *)
(* later graph the plan is large enough for.                               *)
(*                                                                         *)
(* The caller is ggml_backend_sched_alloc_splits with one backend, as      *)
(* whisper runs it on the CPU: allocate; if that fails reserve, and        *)
(* allocate again.  Every graph of one scheduler comes from one builder    *)
(* function, so the topology stays and the sizes change; tensors of one    *)
(* layout keep having one layout.                                          *)
(***************************************************************************)
EXTENDS DynAlloc, Sequences

CONSTANTS
    NLeafs,         \* n_leafs
    NNodes,         \* n_nodes
    MaxSrc,         \* GGML_MAX_SRC
    Topologies,     \* graphs: [op : kind of each tensor, src : its sources,
                    \* root : view_src, or the tensor if it is no view,
                    \* layout : type and shape of each tensor, out : outputs]
    Sizings,        \* bytes of each layout, for one call
    MaxCalls,       \* bound: graphs allocated
    Refusals        \* bound: buffer allocations the backend refuses

Tensors == 1..NLeafs + NNodes
Leafs   == 1..NLeafs                        \* tensors that no node computes
Nodes   == NLeafs + 1..NLeafs + NNodes      \* tensors in the order they run
None    == <<>>            \* nothing there: a null pointer, no address

ASSUME CountsAssumption ==
    /\ NLeafs \in Nat /\ NNodes \in Nat /\ MaxSrc \in Nat
    /\ MaxCalls \in Nat /\ Refusals \in Nat /\ Sizings # {}

\* A tensor is computed from tensors before it, a leaf from none; a view, which is
\* never a leaf, looks into a tensor before it that is no view itself
\* (ggml_new_tensor_impl); a tensor with memory of its own has a size.
ASSUME GraphsAssumption ==
    \A g \in Topologies : \A t \in Tensors :
        /\ g.src[t] \in Seq(1..t - 1) /\ Len(g.src[t]) <= MaxSrc
        /\ t \in Leafs => g.src[t] = <<>> /\ g.op[t] # "view"
        /\ g.op[t] # "view" => g.root[t] = t
        /\ g.op[t] = "view" => g.root[t] \in 1..t - 1 /\ g.op[g.root[t]] # "view"
        /\ g.op[t] \notin {"ext", "view"} => \A s \in Sizings : s[g.layout[t]] \in Sizes

VARIABLES
    graph,      \* the graph's topology
    bytes,      \* bytes of each layout in the current call
    stage,      \* where ggml_backend_sched_alloc_splits is
    at, pos,    \* tensor and step the loops of ggml_gallocr_alloc_graph_impl are at
    children,   \* hash_node.n_children
    views,      \* hash_node.n_views
    allocated,  \* hash_node.allocated
    addr,       \* hash_node.addr
    saved,      \* node_allocs and leaf_allocs: address and size_max
    buffer,     \* the vbuffer: size of each chunk, or None
    place,      \* tensor->data, once init_tensor has set it
    calls,      \* calls made
    refused     \* buffer allocations refused

hashVars == <<children, views, allocated, addr>>
walkVars == <<at, pos>>
gVars    == <<graph, bytes, stage, walkVars, hashVars, saved, buffer, place, calls, refused>>
vars     == <<gVars, dynVars>>

-----------------------------------------------------------------------------
Op(t)      == graph.op[t]
Src(t)     == graph.src[t]
\* ggml_impl_is_view
IsView(t)  == Op(t) = "view"
\* Tensors with memory of their own: neither set by the application nor views.
Placed     == {t \in Tensors : Op(t) \notin {"ext", "view"}}
Root(t)    == graph.root[t]
\* ggml_are_same_layout
SameLayout(t, u) == graph.layout[t] = graph.layout[u]
Size(t)    == bytes[graph.layout[t]]

\* Mutant: a node that uses a tensor twice counts once.
UsesOnce(t) == {n \in Nodes : \E j \in DOMAIN Src(n) : Src(n)[j] = t}

\* Node and number of each source that is t.
Uses(t) == {u \in Nodes \X (1..MaxSrc) : u[2] \in DOMAIN Src(u[1]) /\ Src(u[1])[u[2]] = t}

ViewsOf(t) == {v \in Nodes : IsView(v) /\ Root(v) = t}

\* The step the walk is at: leafs, then for each node its sources, the node itself,
\* and its sources once more to drop the ones it used last.
Current ==
    LET k == Len(Src(at))
    IN  IF pos <= k THEN <<"alloc", Src(at)[pos]>>
        ELSE IF pos = k + 1 THEN <<"alloc", at>>
        ELSE <<"release", Src(at)[pos - k - 1]>>

Walking == at \in Tensors

-----------------------------------------------------------------------------
\* The initial hash table does not matter: every plan clears it.
Init ==
    /\ DynInit
    /\ graph \in Topologies
    /\ bytes = CHOOSE s \in Sizings : TRUE
    /\ stage = "idle" /\ at = NLeafs + NNodes + 1 /\ pos = 1
    /\ children = [t \in Tensors |-> 0] /\ views = [t \in Tensors |-> 0]
    /\ allocated = [t \in Tensors |-> FALSE] /\ addr = [t \in Tensors |-> None]
    /\ saved = None /\ buffer = None
    /\ place = [t \in Tensors |-> None]
    /\ calls = 0 /\ refused = 0

\* A graph of the next call: built anew, none of its tensors placed.
Call ==
    /\ stage \in {"idle", "ready"} /\ calls < MaxCalls
    /\ bytes' \in Sizings
    /\ place' = [t \in Tensors |-> None]
    /\ stage' = "alloc" /\ calls' = calls + 1
    /\ UNCHANGED <<graph, walkVars, hashVars, saved, buffer, refused, dynVars>>

\* ggml_gallocr_needs_realloc, for a graph of the same topology.
NeedsRealloc ==
    IF saved = None THEN TRUE ELSE \E t \in Placed : saved[t].max < Size(t)

\* ggml_gallocr_reserve begins: hash table cleared, uses counted, allocator reset.
BeginPlan(next) ==
    /\ TallocReset
    /\ at' = 1 /\ pos' = 1 /\ stage' = next
    /\ children' = [t \in Tensors |-> Cardinality(Uses(t))]
    /\ views' = [t \in Tensors |-> Cardinality(ViewsOf(t))]
    /\ allocated' = [t \in Tensors |-> FALSE]
    /\ addr' = [t \in Tensors |-> None]
    /\ UNCHANGED <<graph, bytes, saved, buffer, place, calls, refused>>

\* ggml_gallocr_init_tensor for every tensor: the saved addresses in the buffer.
\* Without a buffer ggml_vbuffer_tensor_alloc dereferences a null pointer.
InitTensors ==
    /\ IF buffer = None
       THEN stage' = "crashed" /\ UNCHANGED place
       ELSE /\ stage' = "ready"
            /\ place' = [t \in Tensors |-> saved[t].addr]
    /\ UNCHANGED <<graph, bytes, walkVars, hashVars, saved, buffer, calls, refused, dynVars>>

\* ggml_gallocr_alloc_graph, the first time and after a reservation.
AllocGraph ==
    \/ /\ stage = "alloc" /\ NeedsRealloc /\ BeginPlan("plan")
    \/ /\ stage = "realloc" /\ BeginPlan("replan")
    \/ /\ stage \in {"alloc", "again"} /\ ~NeedsRealloc /\ InitTensors

-----------------------------------------------------------------------------
Planning == stage \in {"plan", "replan"}

Step(kind, t) ==
    /\ Planning /\ Walking /\ Current = <<kind, t>>
    /\ IF pos = 2 * Len(Src(at)) + 1 THEN at' = at + 1 /\ pos' = 1
       ELSE pos' = pos + 1 /\ UNCHANGED at
    /\ UNCHANGED <<graph, bytes, stage, saved, buffer, place, calls, refused>>

Keep == UNCHANGED <<hashVars, dynVars>>

\* Mutant: a parent that has views is reused.
ReusableViewed(t) ==
    {j \in DOMAIN Src(t) :
        LET p == Src(t)[j] IN /\ allocated[p] /\ p \notin graph.out
                              /\ SameLayout(t, p) /\ children[p] = 1}

\* Sources of t whose memory t may take over: own, not an output, of the same
\* layout, with this one use left and no views.
Reusable(t) ==
    {j \in DOMAIN Src(t) :
        LET p == Src(t)[j] IN /\ allocated[p] /\ p \notin graph.out
                              /\ SameLayout(t, p)
                              /\ children[p] = 1 /\ views[p] = 0}

FirstOf(J) == CHOOSE j \in J : \A k \in J : j <= k

\* Mutant: the parent still counts as allocated.
TakeOverBoth(t) ==
    LET p == Src(t)[FirstOf(Reusable(t))]
    IN  /\ allocated' = [allocated EXCEPT ![t] = TRUE]
        /\ addr' = [addr EXCEPT ![t] = addr[p]]
        /\ UNCHANGED <<children, views, dynVars>>

\* t is computed in place: the memory of the first such source becomes t's.
TakeOver(t) ==
    LET p == Src(t)[FirstOf(Reusable(t))]
    IN  /\ allocated' = [allocated EXCEPT ![t] = TRUE, ![p] = FALSE]
        /\ addr' = [addr EXCEPT ![t] = addr[p]]
        /\ UNCHANGED <<children, views, dynVars>>

InPlace(t) == Op(t) = "inplace" /\ Reusable(t) # {}

\* ggml_gallocr_allocate_node
AllocateNode(t) ==
    /\ Step("alloc", t)
    /\ \/ allocated[t] /\ Keep
       \/ t \notin Placed /\ Keep
       \/ t \in Placed /\ ~allocated[t] /\ InPlace(t) /\ TakeOver(t)
       \/ /\ t \in Placed /\ ~allocated[t] /\ ~InPlace(t)
          /\ \E c \in ChunkIds : \E o \in {0} \cup {b.off : b \in free[c]} :
                /\ TallocAlloc(Aligned(Size(t)), c, o)
                /\ addr' = [addr EXCEPT ![t] = [chunk |-> c, off |-> o]]
          /\ allocated' = [allocated EXCEPT ![t] = TRUE]
          /\ UNCHANGED <<children, views>>

Region(t) == [chunk |-> addr[t].chunk, off |-> addr[t].off, size |-> Aligned(Size(t))]

\* Mutant: outputs are freed like any tensor.
FreeAny(t) ==
    /\ TallocFree(Region(t)) /\ allocated' = [allocated EXCEPT ![t] = FALSE]

\* ggml_gallocr_free_node: outputs are never freed.
FreeNode(t) ==
    \/ t \in graph.out /\ UNCHANGED <<allocated, dynVars>>
    \/ /\ t \notin graph.out
       /\ TallocFree(Region(t)) /\ allocated' = [allocated EXCEPT ![t] = FALSE]

FreeIfOwn(t) == IF allocated[t] THEN FreeNode(t) ELSE UNCHANGED <<allocated, dynVars>>

\* The end of a node's step for one source: one use fewer, and after the last
\* one its memory, or a view's share in its root's memory, is given up.
Release(p) ==
    /\ Step("release", p)
    /\ children' = [children EXCEPT ![p] = @ - 1]
    /\ UNCHANGED addr
    /\ LET last == children'[p] = 0 /\ views[p] = 0
           r    == Root(p)
       IN  \/ ~last /\ UNCHANGED <<views, allocated, dynVars>>
           \/ last /\ ~IsView(p) /\ FreeIfOwn(p) /\ UNCHANGED views
           \/ /\ last /\ IsView(p)
              /\ views' = [views EXCEPT ![r] = @ - 1]
              /\ IF views'[r] = 0 /\ children[r] = 0 THEN FreeIfOwn(r)
                 ELSE UNCHANGED <<allocated, dynVars>>

\* Mutant: only the first chunk is compared.
OutgrownFirst == IF buffer = None THEN TRUE ELSE maxSize[1] > buffer[1]

\* The buffer is too small for the plan.
Outgrown == IF buffer = None THEN TRUE ELSE \E c \in 1..nChunks : maxSize[c] > buffer[c]

\* The end of ggml_gallocr_reserve_n_impl: addresses saved, then the buffer
\* allocated if the old one is too small.  The caller sees a refusal only from
\* alloc_graph; the result of its own ggml_gallocr_reserve_n is not looked at.
EndPlan ==
    /\ Planning /\ ~Walking
    /\ saved' = [t \in Tensors |-> IF t \in Placed THEN [addr |-> addr[t], max |-> Size(t)]
                                   ELSE [addr |-> None, max |-> 0]]
    /\ \/ /\ ~Outgrown
          /\ stage' = "again" /\ UNCHANGED <<buffer, refused>>
       \/ /\ Outgrown
          /\ buffer' = [c \in ChunkIds |-> IF c <= nChunks THEN maxSize[c] ELSE 0]
          /\ stage' = "again" /\ UNCHANGED refused
       \/ /\ Outgrown /\ refused < Refusals
          /\ buffer' = None /\ refused' = refused + 1
          /\ stage' = IF stage = "plan" THEN "realloc" ELSE "again"
    /\ UNCHANGED <<graph, bytes, walkVars, hashVars, place, calls, dynVars>>

Next ==
    \/ Call
    \/ AllocGraph
    \/ \E t \in Tensors : AllocateNode(t) \/ Release(t)
    \/ EndPlan

Spec == Init /\ [][Next]_vars

-----------------------------------------------------------------------------
\* Types.
TypeOK ==
    /\ DynTypeOK
    /\ stage \in {"idle", "alloc", "realloc", "again", "plan", "replan",
                  "ready", "crashed"}
    /\ children \in [Tensors -> Nat] /\ views \in [Tensors -> Nat]
    /\ allocated \in [Tensors -> BOOLEAN]
    /\ calls \in 0..MaxCalls /\ refused \in 0..Refusals

\* The hash table and the allocator agree at every step of a plan: each tensor
\* that counts as allocated has one region to itself, and no region is left
\* without a tensor that will free it (in-place reuse, views, outputs).
RegionsOwned ==
    Planning =>
        /\ live = {Region(t) : t \in {x \in Tensors : allocated[x]}}
        /\ \A t, u \in Tensors : allocated[t] /\ allocated[u] /\ t # u => Region(t) # Region(u)

Ready == stage = "ready"

Meet(t, u) ==
    /\ place[t].chunk = place[u].chunk
    /\ place[t].off < place[u].off + Size(u) /\ place[u].off < place[t].off + Size(t)

\* m runs after t is written and before, or when, node n reads t.
Between(t, m, n) == m > t /\ m <= n

\* When node n runs, every source still has the bytes that were written to it: no
\* node in between has written over them, and n itself only where it works in
\* place; inputs keep apart from the start ("allocated at the beginning of the
\* graph in non-overlapping addresses").
SourcesIntact ==
    Ready => \A n \in Nodes : \A j \in DOMAIN Src(n) :
        LET t == Root(Src(n)[j])
        IN  t \in Placed =>
                /\ \A m \in Nodes \cap Placed :
                      Between(t, m, n) /\ Meet(t, m) =>
                          m = n /\ Op(n) = "inplace" /\ place[n] = place[t] /\ SameLayout(n, t)
                /\ \A l \in Leafs \cap Placed : l # t /\ t \in Leafs => ~Meet(l, t)

\* "output tensors are never freed and never overwritten"
OutputsKept ==
    Ready => \A t \in graph.out \cap Placed : \A m \in Nodes \cap Placed : m > t => ~Meet(t, m)

\* Every tensor lies inside the buffer, also when the plan was made for other sizes.
InsideBuffer ==
    Ready => \A t \in Placed : place[t].off + Size(t) <= buffer[place[t].chunk]

\* A refused buffer is reported, never used.
RefusalReported == stage # "crashed"
=============================================================================
