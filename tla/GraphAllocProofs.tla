---------------------------- MODULE GraphAllocProofs ----------------------------
(***************************************************************************)
(* ggml_gallocr, for every graph, every sizes of its tensors, any number   *)
(* of sources, calls and refused buffers: the hash table and the allocator *)
(* agree, no value is overwritten while a node is to read it, outputs are  *)
(* kept, and every tensor lies in the buffer.                              *)
(*                                                                         *)
(* The heart of it is that the counters of the hash table are the uses     *)
(* still to come (Counted), so that a tensor whose memory was given up or  *)
(* taken over has no use left (Kept).  What a tensor overlaps was then     *)
(* read for the last time before (Laid), and stays so.                     *)
(***************************************************************************)
EXTENDS GraphAlloc, DynAllocProofs, FiniteSetTheorems, WellFoundedInduction, TLAPS

Stages == {"idle", "alloc", "realloc", "again", "plan", "replan", "ready", "crashed"}

Addresses == [chunk : ChunkIds, off : Nat]

\* The walk has dropped source j of node n.
Dropped(n, j) == n < at \/ (n = at /\ pos > Len(Src(n)) + 1 + j)

\* The uses of t still to come, and the views of t that keep it.
UsesLeft(t)  == {u \in Uses(t) : ~Dropped(u[1], u[2])}
ViewsLeft(t) == {v \in Nodes : IsView(v) /\ Root(v) = t /\ (Uses(v) = {} \/ UsesLeft(v) # {})}

\* The walk has given t its address.
Given(t) == t \in Placed /\ (t < at \/ (t = at /\ pos > Len(Src(t)) + 1))

-----------------------------------------------------------------------------
\* Variables that keep their types in and between plans.
Typed ==
    /\ graph \in Topologies /\ bytes \in Sizings /\ stage \in Stages
    /\ at \in 1..NLeafs + NNodes + 1 /\ pos \in Nat \ {0}
    /\ Walking => pos <= 2 * Len(Src(at)) + 1
    /\ children \in [Tensors -> Nat] /\ views \in [Tensors -> Nat]
    /\ allocated \in [Tensors -> BOOLEAN] /\ DOMAIN addr = Tensors
    /\ calls \in 0..MaxCalls /\ refused \in 0..Refusals
    /\ buffer # None => buffer \in [ChunkIds -> Nat]

\* n_children and n_views count what is left to come.
Counted ==
    \A t \in Tensors : /\ children[t] = Cardinality(UsesLeft(t))
                       /\ views[t] = Cardinality(ViewsLeft(t))

\* Each allocated tensor has one region to itself, and no region is left over.
Owned ==
    /\ live = {Region(t) : t \in {x \in Tensors : allocated[x]}}
    /\ \A t, u \in Tensors : allocated[t] /\ allocated[u] /\ t # u => Region(t) # Region(u)
    /\ \A t \in Tensors : allocated[t] => Given(t)

\* Addresses lie in the buffer to be.
Addressed ==
    \A t \in Tensors : Given(t) =>
        /\ addr[t] \in Addresses /\ addr[t].chunk <= nChunks
        /\ addr[t].off + Aligned(Size(t)) <= maxSize[addr[t].chunk]

\* What is needed is allocated, except a source that the node at hand has taken
\* over and not yet dropped; outputs always are; so are leafs while leafs are placed.
Kept ==
    \A t \in Tensors : Given(t) /\ ~allocated[t] =>
        /\ t \notin graph.out /\ at > NLeafs
        /\ ViewsLeft(t) = {}
        /\ UsesLeft(t) # {} => /\ Walking /\ pos > Len(Src(at)) + 1
                               /\ \A u \in UsesLeft(t) : u[1] = at

\* With addresses a and aligned sizes z, tensors t and m share no byte.
Clear(a, z, t, m) ==
    \/ a[t].chunk # a[m].chunk
    \/ a[t].off + z[t] <= a[m].off \/ a[m].off + z[m] <= a[t].off

\* If m, placed after t, lies over t then t was last read before m is computed, or by
\* m itself in place.
ReadBefore(a, t, m) ==
    \A n \in Nodes : \A j \in DOMAIN Src(n) :
        Root(Src(n)[j]) = t =>
            n < m \/ (n = m /\ Op(n) = "inplace" /\ a[n] = a[t] /\ SameLayout(n, t))

\* The tensors G are laid out well by addresses a and aligned sizes z.
Laid(G, a, z) ==
    \A t, m \in G : t < m /\ ~Clear(a, z, t, m) =>
        /\ ReadBefore(a, t, m)
        /\ t \notin graph.out
        /\ m \notin Leafs

AlignedSizes == [t \in Placed |-> Aligned(Size(t))]

InPlan == Counted /\ Owned /\ Addressed /\ Kept /\ Laid({t \in Tensors : Given(t)}, addr, AlignedSizes)

\* The plan that is kept: laid out well for the sizes it was made for, and in the
\* buffer if there is one.
Saved ==
    saved # None =>
        /\ \A t \in Placed : saved[t].addr \in Addresses /\ saved[t].max \in Nat
        /\ Laid(Placed, [t \in Placed |-> saved[t].addr], [t \in Placed |-> Aligned(saved[t].max)])
        /\ buffer # None => \A t \in Placed :
              saved[t].addr.off + Aligned(saved[t].max) <= buffer[saved[t].addr.chunk]

\* Once ready, tensors are where the plan says, and fit.
Used ==
    stage = "ready" =>
        /\ saved # None /\ buffer # None
        /\ \A t \in Placed : place[t] = saved[t].addr /\ Size(t) <= saved[t].max

GInv == DynInv /\ Typed /\ (Planning => InPlan) /\ Saved /\ Used

-----------------------------------------------------------------------------
\* What a graph is made of (ggml_new_tensor_impl).
LEMMA GraphFacts ==
    ASSUME graph \in Topologies, bytes \in Sizings, NEW t \in Tensors
    PROVE  /\ Len(Src(t)) \in 0..MaxSrc /\ DOMAIN Src(t) = 1..Len(Src(t))
           /\ \A j \in DOMAIN Src(t) : Src(t)[j] \in Tensors /\ Src(t)[j] < t
           /\ t \in Leafs => Len(Src(t)) = 0 /\ ~IsView(t)
           /\ Root(t) \in Tensors /\ ~IsView(Root(t)) /\ (~IsView(t) => Root(t) = t)
           /\ t \in Placed => ~IsView(t) /\ Size(t) \in Sizes
<1>1. /\ graph.src[t] \in Seq(1..t - 1) /\ Len(graph.src[t]) <= MaxSrc
      /\ t \in Leafs => graph.src[t] = <<>> /\ graph.op[t] # "view"
      /\ graph.op[t] # "view" => graph.root[t] = t
      /\ graph.op[t] = "view" => graph.root[t] \in 1..t - 1 /\ graph.op[graph.root[t]] # "view"
      /\ graph.op[t] \notin {"ext", "view"} => bytes[graph.layout[t]] \in Sizes
  BY GraphsAssumption
<1>2. t \in 1..NLeafs + NNodes /\ NLeafs \in Nat /\ NNodes \in Nat /\ MaxSrc \in Nat
  BY CountsAssumption DEF Tensors
<1>3. /\ Len(Src(t)) \in 0..MaxSrc /\ DOMAIN Src(t) = 1..Len(Src(t))
      /\ \A j \in DOMAIN Src(t) : Src(t)[j] \in 1..t - 1
  BY <1>1, <1>2 DEF Src
<1>4. \A j \in DOMAIN Src(t) : Src(t)[j] \in Tensors /\ Src(t)[j] < t
  BY <1>2, <1>3 DEF Tensors
<1>5. t \in Leafs => Len(Src(t)) = 0 /\ ~IsView(t)
  BY <1>1 DEF Src, IsView, Op
<1>6. Root(t) \in Tensors /\ ~IsView(Root(t)) /\ (~IsView(t) => Root(t) = t)
  BY <1>1, <1>2 DEF Root, IsView, Op, Tensors
<1>7. t \in Placed => ~IsView(t) /\ Size(t) \in Sizes
  BY <1>1 DEF Placed, IsView, Op, Size
<1> QED
  BY <1>3, <1>4, <1>5, <1>6, <1>7

\* Rounding up never makes a size smaller (aligned_offset).
LEMMA AlignedCovers ==
    ASSUME NEW s \in Nat
    PROVE  Aligned(s) \in Nat /\ Aligned(s) >= s
<1>1. s % Alignment \in 0..Alignment - 1
  BY AlignmentAssumption
<1>2. Alignment - (s % Alignment) \in Nat
  BY <1>1, AlignmentAssumption
<1>3. (Alignment - (s % Alignment)) % Alignment \in 0..Alignment - 1
  BY <1>2, AlignmentAssumption
<1> QED
  BY <1>3, AlignmentAssumption DEF Aligned

LEMMA PlacedSize ==
    ASSUME graph \in Topologies, bytes \in Sizings, NEW t \in Placed
    PROVE  /\ t \in Tensors /\ Size(t) \in Nat \ {0}
           /\ Aligned(Size(t)) \in Nat \ {0} /\ Aligned(Size(t)) >= Size(t)
<1>1. t \in Tensors
  BY DEF Placed
<1>2. Size(t) \in Nat \ {0}
  BY <1>1, GraphFacts, SizesAssumption
<1> QED
  BY <1>1, <1>2, AlignedCovers

\* Uses and views are finite in number.
LEMMA UsesFinite ==
    ASSUME NEW t
    PROVE  /\ IsFiniteSet(Uses(t)) /\ IsFiniteSet(UsesLeft(t)) /\ IsFiniteSet(ViewsLeft(t))
           /\ IsFiniteSet(ViewsOf(t))
           /\ Cardinality(Uses(t)) \in Nat /\ Cardinality(UsesLeft(t)) \in Nat
           /\ Cardinality(ViewsLeft(t)) \in Nat /\ Cardinality(ViewsOf(t)) \in Nat
<1>1. IsFiniteSet(Nodes) /\ IsFiniteSet(1..MaxSrc)
  BY FS_Interval, CountsAssumption DEF Nodes
<1>2. IsFiniteSet(Nodes \X (1..MaxSrc))
  BY <1>1, FS_Product
<1>3. Uses(t) \subseteq Nodes \X (1..MaxSrc) /\ UsesLeft(t) \subseteq Uses(t)
      /\ ViewsLeft(t) \subseteq Nodes /\ ViewsOf(t) \subseteq Nodes
  BY DEF Uses, UsesLeft, ViewsLeft, ViewsOf
<1>4. /\ IsFiniteSet(Uses(t)) /\ IsFiniteSet(UsesLeft(t)) /\ IsFiniteSet(ViewsLeft(t))
      /\ IsFiniteSet(ViewsOf(t))
  BY <1>1, <1>2, <1>3, FS_Subset
<1> QED
  BY <1>4, FS_CardinalityType

\* A use is a source of a node after the tensor.
LEMMA UseFacts ==
    ASSUME graph \in Topologies, bytes \in Sizings, NEW t, NEW u \in Uses(t)
    PROVE  /\ u = <<u[1], u[2]>> /\ u[1] \in Nodes /\ u[1] \in Tensors
           /\ u[2] \in DOMAIN Src(u[1]) /\ u[2] \in 1..Len(Src(u[1])) /\ Src(u[1])[u[2]] = t
           /\ t \in Tensors /\ t < u[1]
<1>1. /\ u = <<u[1], u[2]>> /\ u[1] \in Nodes /\ u[2] \in DOMAIN Src(u[1])
      /\ Src(u[1])[u[2]] = t
  BY DEF Uses
<1>2. u[1] \in Tensors
  BY <1>1, CountsAssumption DEF Nodes, Tensors
<1> QED
  BY <1>1, <1>2, GraphFacts

\* A source of a node is a use.
LEMMA SourceIsUse ==
    ASSUME graph \in Topologies, bytes \in Sizings, NEW n \in Nodes, NEW j \in DOMAIN Src(n)
    PROVE  <<n, j>> \in Uses(Src(n)[j]) /\ n \in Tensors /\ j \in 1..Len(Src(n))
<1>1. n \in Tensors
  BY CountsAssumption DEF Nodes, Tensors
<1>2. j \in 1..Len(Src(n)) /\ Len(Src(n)) \in 0..MaxSrc /\ MaxSrc \in Nat
  BY <1>1, GraphFacts, CountsAssumption
<1> QED
  BY <1>1, <1>2 DEF Uses

-----------------------------------------------------------------------------
\* The walk: where it stands in a step that allocates, and where it goes.
LEMMA AllocStep ==
    ASSUME Typed, NEW p \in Tensors, Step("alloc", p)
    PROVE  /\ Planning /\ at \in Tensors /\ Len(Src(at)) \in Nat /\ pos \in 1..Len(Src(at)) + 1
           /\ pos <= Len(Src(at)) => pos \in DOMAIN Src(at) /\ p = Src(at)[pos]
           /\ pos = Len(Src(at)) + 1 => p = at
           /\ \/ Len(Src(at)) > 0 /\ at' = at /\ pos' = pos + 1
              \/ Len(Src(at)) = 0 /\ pos = 1 /\ at' = at + 1 /\ pos' = 1
           /\ UNCHANGED <<graph, bytes, stage, saved, buffer, place, calls, refused>>
<1> DEFINE k == Len(Src(at))
<1>1. Planning /\ at \in Tensors /\ Current = <<"alloc", p>>
      /\ UNCHANGED <<graph, bytes, stage, saved, buffer, place, calls, refused>>
      /\ IF pos = 2 * k + 1 THEN at' = at + 1 /\ pos' = 1 ELSE pos' = pos + 1 /\ UNCHANGED at
  BY DEF Step, Walking
<1>2. k \in Nat /\ pos \in Nat \ {0} /\ DOMAIN Src(at) = 1..k
  BY <1>1, GraphFacts, CountsAssumption DEF Typed
<1>3. \/ pos <= k /\ p = Src(at)[pos]
      \/ pos = k + 1 /\ p = at
  <2> HIDE DEF k
  <2> QED
    BY <1>1 DEF Current, k
<1> HIDE DEF k
<1>4. pos \in 1..k + 1 /\ (pos <= k => pos \in DOMAIN Src(at) /\ p = Src(at)[pos])
      /\ (pos = k + 1 => p = at)
  BY <1>2, <1>3
<1>5. \/ k > 0 /\ at' = at /\ pos' = pos + 1
      \/ k = 0 /\ pos = 1 /\ at' = at + 1 /\ pos' = 1
  BY <1>1, <1>2, <1>4
<1> QED
  BY <1>1, <1>2, <1>4, <1>5 DEF k

\* The same of a step that drops a source.
LEMMA ReleaseStep ==
    ASSUME Typed, NEW p \in Tensors, Step("release", p)
    PROVE  LET k == Len(Src(at))
               j == pos - k - 1
           IN  /\ Planning /\ at \in Tensors /\ k \in Nat /\ pos \in k + 2..2 * k + 1
               /\ j \in DOMAIN Src(at) /\ j \in 1..k /\ p = Src(at)[j]
               /\ \/ j < k /\ at' = at /\ pos' = pos + 1
                  \/ j = k /\ at' = at + 1 /\ pos' = 1
               /\ UNCHANGED <<graph, bytes, stage, saved, buffer, place, calls, refused>>
<1> DEFINE k == Len(Src(at))
           j == pos - k - 1
<1>1. Planning /\ at \in Tensors /\ Current = <<"release", p>>
      /\ UNCHANGED <<graph, bytes, stage, saved, buffer, place, calls, refused>>
      /\ IF pos = 2 * k + 1 THEN at' = at + 1 /\ pos' = 1 ELSE pos' = pos + 1 /\ UNCHANGED at
  BY DEF Step, Walking
<1>2. k \in Nat /\ pos \in Nat \ {0} /\ DOMAIN Src(at) = 1..k /\ pos <= 2 * k + 1
  BY <1>1, GraphFacts, CountsAssumption DEF Typed, Walking
<1>3. ~(pos <= k) /\ pos # k + 1 /\ p = Src(at)[j]
  <2> HIDE DEF k
  <2> QED
    BY <1>1 DEF Current, k
<1> HIDE DEF k
<1>4. pos \in k + 2..2 * k + 1 /\ j \in 1..k /\ j \in DOMAIN Src(at)
  BY <1>2, <1>3
<1>5. \/ j < k /\ at' = at /\ pos' = pos + 1
      \/ j = k /\ at' = at + 1 /\ pos' = 1
  BY <1>1, <1>2, <1>4
<1> QED
  BY <1>1, <1>2, <1>3, <1>4, <1>5 DEF k

\* What depends on the graph alone does not change in a plan.
LEMMA GraphSame ==
    ASSUME graph' = graph, bytes' = bytes
    PROVE  /\ Placed' = Placed /\ AlignedSizes' = AlignedSizes
           /\ \A t : /\ Uses(t)' = Uses(t) /\ Src(t)' = Src(t) /\ IsView(t)' = IsView(t)
                     /\ Root(t)' = Root(t) /\ Op(t)' = Op(t) /\ Size(t)' = Size(t)
           /\ \A t, u : SameLayout(t, u)' = SameLayout(t, u)
<1>1. \A t : /\ Src(t)' = Src(t) /\ IsView(t)' = IsView(t)
             /\ Root(t)' = Root(t) /\ Op(t)' = Op(t) /\ Size(t)' = Size(t)
  BY DEF Src, IsView, Root, Op, Size
<1>2. \A t : Uses(t)' = Uses(t)
  BY <1>1 DEF Uses
<1>3. \A t, u : SameLayout(t, u)' = SameLayout(t, u)
  BY DEF SameLayout
<1>4. Placed' = Placed
  BY <1>1 DEF Placed
<1>5. AlignedSizes' = AlignedSizes
  BY <1>1, <1>4 DEF AlignedSizes, Aligned
<1> QED
  BY <1>1, <1>2, <1>3, <1>4, <1>5

\* Allocating drops nothing; the walk passes the tensor it is at after its own step.
LEMMA AllocWalk ==
    ASSUME Typed, NEW p \in Tensors, Step("alloc", p)
    PROVE  /\ \A t \in Tensors : UsesLeft(t)' = UsesLeft(t) /\ ViewsLeft(t)' = ViewsLeft(t)
           /\ \A t \in Tensors :
                 Given(t)' <=> Given(t) \/ (t = at /\ pos = Len(Src(at)) + 1 /\ t \in Placed)
           /\ pos = Len(Src(at)) + 1 => ~Given(at)
<1>1. /\ at \in Tensors /\ Len(Src(at)) \in Nat /\ pos \in 1..Len(Src(at)) + 1
      /\ \/ Len(Src(at)) > 0 /\ at' = at /\ pos' = pos + 1
         \/ Len(Src(at)) = 0 /\ pos = 1 /\ at' = at + 1 /\ pos' = 1
      /\ graph' = graph /\ bytes' = bytes
  BY AllocStep
<1>2. graph \in Topologies /\ bytes \in Sizings /\ at \in Nat /\ Tensors \subseteq Nat
  BY <1>1, CountsAssumption DEF Typed, Tensors
<1>3. ASSUME NEW t, NEW u \in Uses(t)
      PROVE  Dropped(u[1], u[2])' <=> Dropped(u[1], u[2])
  <2> DEFINE n == u[1]
             j == u[2]
             k == Len(Src(n))
  <2>1. n \in Nat /\ j \in 1..k /\ n \in Tensors
    BY <1>2, UseFacts
  <2>2. k \in Nat /\ Src(n)' = Src(n)
    BY <1>1, <1>2, <2>1, GraphFacts, GraphSame, CountsAssumption
  <2>3. Dropped(n, j) <=> n < at \/ (n = at /\ pos > k + 1 + j)
    BY DEF Dropped
  <2>4. Dropped(n, j)' <=> n < at' \/ (n = at' /\ pos' > k + 1 + j)
    BY <2>2 DEF Dropped
  <2>5. n = at => k = Len(Src(at))
    OBVIOUS
  <2> HIDE DEF n, j, k
  <2>6. Dropped(n, j)' <=> Dropped(n, j)
    BY <1>1, <1>2, <2>1, <2>2, <2>3, <2>4, <2>5
  <2> QED
    BY <2>6 DEF n, j
<1>4. \A t : UsesLeft(t)' = UsesLeft(t)
  BY <1>1, <1>3, GraphSame DEF UsesLeft
<1>5. \A t : ViewsLeft(t)' = ViewsLeft(t)
  BY <1>1, <1>4, GraphSame DEF ViewsLeft
<1>6. ASSUME NEW t \in Tensors
      PROVE  Given(t)' <=> Given(t) \/ (t = at /\ pos = Len(Src(at)) + 1 /\ t \in Placed)
  <2> DEFINE k == Len(Src(t))
  <2>1. k \in Nat /\ t \in Nat
    BY <1>2, GraphFacts, CountsAssumption
  <2>2. Given(t) <=> t \in Placed /\ (t < at \/ (t = at /\ pos > k + 1))
    BY DEF Given
  <2>3. Given(t)' <=> t \in Placed /\ (t < at' \/ (t = at' /\ pos' > k + 1))
    BY <1>1, GraphSame DEF Given
  <2>4. t = at => k = Len(Src(at))
    OBVIOUS
  <2> HIDE DEF k
  <2> QED
    BY <1>1, <1>2, <2>1, <2>2, <2>3, <2>4
<1>7. pos = Len(Src(at)) + 1 => ~Given(at)
  BY <1>1, <1>2 DEF Given
<1> QED
  BY <1>4, <1>5, <1>6, <1>7

\* Dropping a source drops one use, and gives no address.
LEMMA ReleaseWalk ==
    ASSUME Typed, NEW p \in Tensors, Step("release", p)
    PROVE  LET u == <<at, pos - Len(Src(at)) - 1>>
           IN  /\ u \in UsesLeft(p) /\ UsesLeft(p)' = UsesLeft(p) \ {u}
               /\ \A t \in Tensors : t # p => UsesLeft(t)' = UsesLeft(t)
               /\ \A t \in Tensors : Given(t)' <=> Given(t)
<1> DEFINE k == Len(Src(at))
           i == pos - k - 1
           w == <<at, i>>
<1>1. /\ at \in Tensors /\ k \in Nat /\ pos \in k + 2..2 * k + 1
      /\ i \in DOMAIN Src(at) /\ i \in 1..k /\ p = Src(at)[i]
      /\ \/ i < k /\ at' = at /\ pos' = pos + 1
         \/ i = k /\ at' = at + 1 /\ pos' = 1
      /\ graph' = graph /\ bytes' = bytes
  BY ReleaseStep
<1>2. graph \in Topologies /\ bytes \in Sizings /\ at \in Nat /\ Tensors \subseteq Nat
  BY <1>1, CountsAssumption DEF Typed, Tensors
<1>3. at \in Nodes
  <2>1. at \notin Leafs
    BY <1>1, <1>2, GraphFacts
  <2> QED
    BY <1>1, <2>1, CountsAssumption DEF Nodes, Tensors, Leafs
<1>4. w \in Uses(p) /\ w[1] = at /\ w[2] = i
  BY <1>1, <1>2, <1>3, SourceIsUse
<1>5. ASSUME NEW t, NEW u \in Uses(t)
      PROVE  Dropped(u[1], u[2])' <=> Dropped(u[1], u[2]) \/ u = w
  <2> DEFINE n == u[1]
             j == u[2]
             l == Len(Src(n))
  <2>1. n \in Nat /\ j \in 1..l /\ n \in Tensors /\ u = <<n, j>>
    BY <1>2, UseFacts
  <2>2. l \in Nat /\ Src(n)' = Src(n)
    BY <1>1, <1>2, <2>1, GraphFacts, GraphSame, CountsAssumption
  <2>3. Dropped(n, j) <=> n < at \/ (n = at /\ pos > l + 1 + j)
    BY DEF Dropped
  <2>4. Dropped(n, j)' <=> n < at' \/ (n = at' /\ pos' > l + 1 + j)
    BY <2>2 DEF Dropped
  <2>5. n = at => l = k
    OBVIOUS
  <2>6. u = w <=> n = at /\ j = i
    BY <2>1
  <2> HIDE DEF n, j, l, w, k
  <2>7. Dropped(n, j)' <=> Dropped(n, j) \/ u = w
    BY <1>1, <1>2, <2>1, <2>2, <2>3, <2>4, <2>5, <2>6
  <2> QED
    BY <2>7 DEF n, j
<1>6. ~Dropped(at, i)
  <2> HIDE DEF k
  <2>1. Dropped(at, i) <=> at < at \/ (at = at /\ pos > k + 1 + i)
    BY DEF Dropped, k
  <2> QED
    BY <1>1, <1>2, <2>1
<1>7. w \in UsesLeft(p)
  BY <1>4, <1>6 DEF UsesLeft
<1>8. \A t : UsesLeft(t)' = UsesLeft(t) \ {w}
  <2> HIDE DEF w
  <2> QED
    BY <1>1, <1>5, GraphSame DEF UsesLeft
<1>9. \A t : t # p => w \notin UsesLeft(t)
  <2> SUFFICES ASSUME NEW t, w \in UsesLeft(t) PROVE t = p
    OBVIOUS
  <2>1. w \in Uses(t)
    BY DEF UsesLeft
  <2>2. Src(w[1])[w[2]] = t
    BY <1>2, <2>1, UseFacts
  <2> QED
    BY <1>1, <1>4, <2>2
<1>10. ASSUME NEW t \in Tensors
       PROVE  Given(t)' <=> Given(t)
  <2> DEFINE l == Len(Src(t))
  <2>1. l \in Nat /\ t \in Nat
    BY <1>2, GraphFacts, CountsAssumption
  <2>2. Given(t) <=> t \in Placed /\ (t < at \/ (t = at /\ pos > l + 1))
    BY DEF Given
  <2>3. Given(t)' <=> t \in Placed /\ (t < at' \/ (t = at' /\ pos' > l + 1))
    BY <1>1, GraphSame DEF Given
  <2>4. t = at => l = k
    OBVIOUS
  <2> HIDE DEF l, k
  <2> QED
    BY <1>1, <1>2, <2>1, <2>2, <2>3, <2>4
<1>11. \A t \in Tensors : t # p => UsesLeft(t)' = UsesLeft(t)
  <2> HIDE DEF w
  <2> QED
    BY <1>8, <1>9
<1> QED
  BY <1>7, <1>8, <1>10, <1>11

-----------------------------------------------------------------------------
\* A region handed out is new, apart from the others, and in the buffer to be.
LEMMA TallocGives ==
    ASSUME DynInv, NEW s \in Nat \ {0}, NEW c \in ChunkIds, NEW o, TallocAlloc(s, c, o)
    PROVE  LET new == [chunk |-> c, off |-> o, size |-> s]
           IN  /\ DynInv' /\ live' = live \cup {new} /\ new \notin live
               /\ o \in Nat /\ c <= nChunks' /\ o + s <= maxSize'[c]
               /\ \A l \in live : l.chunk = c => l.off + l.size <= o \/ o + s <= l.off
               /\ nChunks \in Nat /\ nChunks' \in Nat /\ nChunks <= nChunks'
               /\ \A d \in ChunkIds : maxSize[d] \in Nat /\ maxSize'[d] \in Nat
               /\ \A d \in ChunkIds : d <= nChunks => maxSize[d] <= maxSize'[d]
<1> DEFINE new == [chunk |-> c, off |-> o, size |-> s]
<1>1. DynInv'
  BY AllocKeeps
<1>2. /\ nChunks \in 0..MaxChunks /\ MaxChunks \in Nat
      /\ free \in [ChunkIds -> SUBSET Blocks] /\ maxSize \in [ChunkIds -> Nat]
      /\ nChunks' \in 0..MaxChunks /\ maxSize' \in [ChunkIds -> Nat]
      /\ live \subseteq [chunk : ChunkIds, off : Nat, size : Nat \ {0}]
  BY <1>1, ChunksAssumption DEF DynInv, DynTypeOK
<1> DEFINE Grown == /\ live' = live \cup {new} /\ new \notin live /\ o \in Nat
                    /\ nChunks <= nChunks'
                    /\ \A d \in ChunkIds : d <= nChunks => maxSize[d] <= maxSize'[d]
<1>3. Grown
  <2>1. ASSUME NEW b \in free[c], o = b.off, b.size >= s, Take(c, b, s), UNCHANGED nChunks
        PROVE  Grown
    <3>1. b \in Blocks
      BY <1>2
    <3>2. live' = live \cup {new} /\ o \in Nat /\ nChunks <= nChunks'
      BY <1>2, <2>1, <3>1 DEF Take, Blocks
    <3>3. ASSUME NEW d \in ChunkIds PROVE maxSize[d] <= maxSize'[d]
      <4>1. maxSize' = [maxSize EXCEPT ![c] = IF b.off + s > maxSize[c] THEN b.off + s ELSE maxSize[c]]
        BY <2>1 DEF Take
      <4>2. maxSize[c] \in Nat /\ maxSize[d] \in Nat /\ b.off + s \in Nat
        BY <1>2, <3>1 DEF Blocks
      <4> QED
        BY <1>2, <4>1, <4>2
    <3>4. new \notin live
      <4> SUFFICES ASSUME new \in live PROVE FALSE
        OBVIOUS
      <4>1. new.chunk = c /\ new.off = b.off /\ new.size = s
        BY <2>1
      <4>2. Apart(new, b)
        BY <2>1, <4>1 DEF DynInv, NoOverlap
      <4> QED
        BY <2>1, <3>1, <4>1, <4>2 DEF Apart, Blocks
    <3> QED
      BY <3>2, <3>3, <3>4
  <2>2. CASE \E p \in BestInner(s) : c = p[1] /\ o = p[2].off /\ Take(p[1], p[2], s) /\ UNCHANGED nChunks
    <3>1. PICK p \in BestInner(s) : c = p[1] /\ o = p[2].off /\ Take(p[1], p[2], s) /\ UNCHANGED nChunks
      BY <2>2
    <3>2. p[2] \in free[p[1]] /\ p[2].size >= s
      BY DEF BestInner, Inner
    <3> QED
      BY <2>1, <3>1, <3>2
  <2>3. CASE \E p \in BestLast(s) : c = p[1] /\ o = p[2].off /\ Take(p[1], p[2], s) /\ UNCHANGED nChunks
    <3>1. PICK p \in BestLast(s) : c = p[1] /\ o = p[2].off /\ Take(p[1], p[2], s) /\ UNCHANGED nChunks
      BY <2>3
    <3>2. p[2] \in free[p[1]] /\ p[2].size >= s
      BY DEF BestLast, Last, LastBlock
    <3> QED
      BY <2>1, <3>1, <3>2
  <2>4. CASE /\ c = nChunks + 1 /\ o = 0 /\ nChunks' = nChunks + 1
             /\ maxSize' = [maxSize EXCEPT ![c] = s]
             /\ live' = live \cup {[chunk |-> c, off |-> 0, size |-> s]}
    <3>1. \A d \in ChunkIds : d <= nChunks => d # c
      BY <1>2, <2>4
    <3>2. \A d \in ChunkIds : d <= nChunks => maxSize[d] <= maxSize'[d]
      BY <1>2, <2>4, <3>1
    <3>3. new \notin live
      <4> SUFFICES ASSUME new \in live PROVE FALSE
        OBVIOUS
      <4>1. new.chunk <= nChunks /\ new.chunk = c
        BY DEF DynInv, InBuffer
      <4> QED
        BY <1>2, <2>4, <4>1
    <3> QED
      BY <1>2, <2>4, <3>2, <3>3
  <2> QED
    BY <2>2, <2>3, <2>4 DEF TallocAlloc
<1>4. new \in live' /\ new.chunk = c /\ new.off = o /\ new.size = s
  BY <1>3
<1>5. c <= nChunks' /\ o + s <= maxSize'[c]
  BY <1>1, <1>4 DEF DynInv, InBuffer
<1>6. \A l \in live : l.chunk = c => l.off + l.size <= o \/ o + s <= l.off
  <2> SUFFICES ASSUME NEW l \in live, l.chunk = c PROVE l.off + l.size <= o \/ o + s <= l.off
    OBVIOUS
  <2>1. l \in live' /\ l # new
    BY <1>3
  <2>2. Apart(l, new)
    BY <1>1, <1>4, <2>1 DEF DynInv, NoOverlap
  <2> QED
    BY <1>4, <2>2 DEF Apart
<1> QED
  BY <1>1, <1>2, <1>3, <1>5, <1>6

-----------------------------------------------------------------------------
\* At its own step the walk finds a tensor without an address, and any source with
\* memory of its own still allocated ("only leafs need to be allocated at this point").
LEMMA SourceAllocated ==
    ASSUME Typed, InPlan, NEW p \in Tensors, Step("alloc", p), pos <= Len(Src(at)), p \in Placed
    PROVE  allocated[p]
<1>1. /\ at \in Tensors /\ Len(Src(at)) \in Nat /\ pos \in 1..Len(Src(at)) + 1
      /\ pos \in DOMAIN Src(at) /\ p = Src(at)[pos]
  BY AllocStep
<1>2. graph \in Topologies /\ bytes \in Sizings /\ at \in Nat
  BY <1>1, CountsAssumption DEF Typed, Tensors
<1>3. at \in Nodes /\ p < at
  <2>1. at \notin Leafs
    BY <1>1, <1>2, GraphFacts
  <2> QED
    BY <1>1, <1>2, <2>1, GraphFacts, CountsAssumption DEF Nodes, Tensors, Leafs
<1>4. <<at, pos>> \in Uses(p)
  BY <1>1, <1>2, <1>3, SourceIsUse
<1>5. ~Dropped(at, pos)
  BY <1>1, <1>2 DEF Dropped
<1>6. <<at, pos>> \in UsesLeft(p)
  BY <1>4, <1>5 DEF UsesLeft
<1>7. Given(p)
  BY <1>3 DEF Given
<1>8. ~(pos > Len(Src(at)) + 1)
  BY <1>1
<1> QED
  BY <1>6, <1>7, <1>8 DEF InPlan, Kept

\* Allocating a node does one of three things.
LEMMA AllocateCases ==
    ASSUME Typed, InPlan, NEW p \in Tensors, AllocateNode(p)
    PROVE  \/ Keep /\ \A t \in Tensors : Given(t)' <=> Given(t)
           \/ /\ p = at /\ pos = Len(Src(at)) + 1 /\ p \in Placed /\ ~allocated[p]
              /\ \/ InPlace(p) /\ TakeOver(p)
                 \/ \E c \in ChunkIds : \E o :
                       /\ TallocAlloc(Aligned(Size(p)), c, o)
                       /\ addr' = [addr EXCEPT ![p] = [chunk |-> c, off |-> o]]
                       /\ allocated' = [allocated EXCEPT ![p] = TRUE]
                       /\ UNCHANGED <<children, views>>
<1>1. Step("alloc", p)
  BY DEF AllocateNode
<1>2. /\ at \in Tensors /\ pos \in 1..Len(Src(at)) + 1 /\ Len(Src(at)) \in Nat
      /\ pos = Len(Src(at)) + 1 => p = at
  BY <1>1, AllocStep
<1>3. \A t \in Tensors :
         Given(t)' <=> Given(t) \/ (t = at /\ pos = Len(Src(at)) + 1 /\ t \in Placed)
  BY <1>1, AllocWalk
<1>4. CASE pos <= Len(Src(at))
  <2>1. p \in Placed => allocated[p]
    BY <1>1, <1>4, SourceAllocated
  <2>2. Keep
    BY <2>1 DEF AllocateNode
  <2>3. pos # Len(Src(at)) + 1
    BY <1>2, <1>4
  <2> QED
    BY <1>3, <2>2, <2>3
<1>5. CASE pos = Len(Src(at)) + 1
  <2>1. p = at /\ ~Given(at)
    BY <1>1, <1>2, <1>5, AllocWalk
  <2>2. ~allocated[p]
    BY <1>2, <2>1 DEF InPlan, Owned
  <2>3. CASE p \notin Placed
    <3>1. Keep
      BY <2>2, <2>3 DEF AllocateNode
    <3> QED
      BY <1>3, <2>1, <2>3, <3>1
  <2>4. CASE p \in Placed
    BY <1>5, <2>1, <2>2, <2>4 DEF AllocateNode
  <2> QED
    BY <2>3, <2>4
<1> QED
  BY <1>2, <1>4, <1>5

-----------------------------------------------------------------------------
\* When node at is placed, a tensor without views left has been read by earlier
\* nodes only, but for the uses it has left.
LEMMA ReadsOver ==
    ASSUME Typed, at \in Tensors, pos = Len(Src(at)) + 1,
           NEW t \in Tensors, ViewsLeft(t) = {},
           NEW n \in Nodes, NEW j \in DOMAIN Src(n), Root(Src(n)[j]) = t
    PROVE  n < at \/ (<<n, j>> \in UsesLeft(t) /\ Src(n)[j] = t)
<1> DEFINE s == Src(n)[j]
<1>1. graph \in Topologies /\ bytes \in Sizings /\ at \in Nat
  BY CountsAssumption DEF Typed, Tensors
<1>2. <<n, j>> \in Uses(s) /\ n \in Tensors /\ j \in 1..Len(Src(n)) /\ s \in Tensors
  BY <1>1, SourceIsUse, GraphFacts
<1>3. Len(Src(n)) \in Nat /\ n \in Nat /\ j \in Nat
  BY <1>1, <1>2, GraphFacts, CountsAssumption DEF Tensors
<1>4. Dropped(n, j) => n < at
  BY <1>1, <1>3 DEF Dropped
<1>5. n < at \/ <<n, j>> \in UsesLeft(s)
  BY <1>2, <1>4 DEF UsesLeft
<1>6. CASE s = t
  BY <1>5, <1>6
<1>7. CASE s # t
  <2>1. IsView(s) /\ s \notin Leafs
    BY <1>1, <1>2, <1>7, GraphFacts
  <2>2. s \in Nodes
    BY <1>2, <2>1, CountsAssumption DEF Nodes, Tensors, Leafs
  <2>3. UsesLeft(s) = {}
    BY <1>2, <2>1, <2>2 DEF ViewsLeft
  <2> QED
    BY <1>5, <2>3
<1> QED
  BY <1>6, <1>7

\* A tensor given up before another is placed may lie under it.
LEMMA GivenUp ==
    ASSUME Typed, InPlan, at \in Tensors, pos = Len(Src(at)) + 1,
           NEW t \in Tensors, Given(t), ~allocated[t], NEW a
    PROVE  ReadBefore(a, t, at) /\ t \notin graph.out /\ at \notin Leafs
<1>1. /\ t \notin graph.out /\ at > NLeafs /\ ViewsLeft(t) = {}
      /\ UsesLeft(t) # {} => pos > Len(Src(at)) + 1
  BY DEF InPlan, Kept
<1>2. Len(Src(at)) \in Nat
  BY GraphFacts, CountsAssumption DEF Typed
<1>3. UsesLeft(t) = {}
  BY <1>1, <1>2
<1>4. at \notin Leafs
  BY <1>1, CountsAssumption DEF Leafs, Tensors
<1>5. ReadBefore(a, t, at)
  BY <1>1, <1>3, ReadsOver DEF ReadBefore
<1> QED
  BY <1>1, <1>4, <1>5

\* A tensor is placed well if it is clear of what is still allocated, or may be over it.
LEMMA PlacedWell ==
    ASSUME Typed, InPlan, NEW p \in Tensors, Step("alloc", p), p = at,
           pos = Len(Src(at)) + 1, p \in Placed,
           NEW a, addr' = [addr EXCEPT ![p] = a],
           \A t \in Tensors : Given(t) /\ allocated[t] /\ ~Clear(addr', AlignedSizes, t, p) =>
               ReadBefore(addr', t, p) /\ t \notin graph.out /\ p \notin Leafs
    PROVE  Laid({t \in Tensors : Given(t)}, addr, AlignedSizes)'
<1>1. /\ graph' = graph /\ bytes' = bytes /\ at \in Tensors /\ Tensors \subseteq Nat
      /\ Placed' = Placed /\ AlignedSizes' = AlignedSizes
  BY AllocStep, GraphSame, CountsAssumption DEF Tensors
<1>2. \A t \in Tensors : Given(t)' <=> Given(t) \/ t = p
  BY AllocWalk
<1>3. ~Given(p) /\ DOMAIN addr = Tensors
  BY AllocWalk DEF Typed
<1>4. \A t \in Tensors : t # p => addr'[t] = addr[t]
  BY <1>3
<1> SUFFICES ASSUME NEW t \in Tensors, NEW m \in Tensors, Given(t)', Given(m)', t < m,
                    ~Clear(addr', AlignedSizes, t, m)
             PROVE  ReadBefore(addr', t, m) /\ t \notin graph.out /\ m \notin Leafs
  BY <1>1, GraphSame DEF Laid, ReadBefore, Clear, Leafs
<1>6. t # p
  <2> SUFFICES ASSUME t = p PROVE FALSE
    OBVIOUS
  <2>1. Given(m)
    BY <1>1, <1>2
  <2>2. m < at \/ m = at
    BY <2>1 DEF Given
  <2> QED
    BY <1>1, <2>2
<1>7. Given(t)
  BY <1>2, <1>6
<1>8. CASE m = p
  <2>1. CASE allocated[t]
    BY <1>7, <1>8, <2>1
  <2>2. CASE ~allocated[t]
    BY <1>1, <1>7, <1>8, <2>2, GivenUp
  <2> QED
    BY <2>1, <2>2
<1>9. CASE m # p
  <2>1. Given(m)
    BY <1>2, <1>9
  <2>2. ~Clear(addr, AlignedSizes, t, m)
    BY <1>4, <1>6, <1>9 DEF Clear
  <2>3. ReadBefore(addr, t, m) /\ t \notin graph.out /\ m \notin Leafs
    BY <1>7, <2>1, <2>2 DEF InPlan, Laid
  <2>4. ReadBefore(addr', t, m)
    BY <1>4, <1>6, <1>9, <2>3, CountsAssumption DEF ReadBefore, Nodes, Tensors
  <2> QED
    BY <2>3, <2>4
<1> QED
  BY <1>8, <1>9

\* The counters do not change when a tensor is placed.
LEMMA CountedStill ==
    ASSUME Typed, InPlan, NEW p \in Tensors, Step("alloc", p), UNCHANGED <<children, views>>
    PROVE  Counted'
BY AllocWalk DEF InPlan, Counted

\* Between a node's sources and its own step nothing is needed that is not allocated.
LEMMA KeptPlacing ==
    ASSUME Typed, InPlan, NEW p \in Tensors, Step("alloc", p), p = at,
           pos = Len(Src(at)) + 1, NEW S \in SUBSET Tensors,
           \A t \in Tensors : allocated'[t] <=> t = p \/ (allocated[t] /\ t \notin S),
           \A t \in S : /\ t \notin graph.out /\ ViewsLeft(t) = {} /\ Len(Src(at)) > 0
                        /\ \A u \in UsesLeft(t) : u[1] = at
    PROVE  Kept'
<1>1. /\ graph' = graph /\ bytes' = bytes /\ at \in Tensors /\ at \in Nat
      /\ Len(Src(at)) \in Nat
      /\ \/ Len(Src(at)) > 0 /\ at' = at /\ pos' = pos + 1
         \/ Len(Src(at)) = 0 /\ pos = 1 /\ at' = at + 1 /\ pos' = 1
  BY AllocStep, CountsAssumption DEF Tensors
<1>2. \A t \in Tensors : /\ Given(t)' <=> Given(t) \/ (t = p /\ t \in Placed)
                         /\ UsesLeft(t)' = UsesLeft(t) /\ ViewsLeft(t)' = ViewsLeft(t)
  BY AllocWalk
<1> SUFFICES ASSUME NEW t \in Tensors, Given(t)', ~allocated'[t]
             PROVE  /\ t \notin graph.out /\ at' > NLeafs /\ ViewsLeft(t) = {}
                    /\ UsesLeft(t) # {} => /\ Walking' /\ pos' > Len(Src(at)') + 1
                                           /\ \A u \in UsesLeft(t) : u[1] = at'
  BY <1>1, <1>2 DEF Kept
<1>3. Given(t) /\ t # p
  BY <1>2
<1>4. CASE ~allocated[t]
  <2>1. /\ t \notin graph.out /\ at > NLeafs /\ ViewsLeft(t) = {}
        /\ UsesLeft(t) # {} => pos > Len(Src(at)) + 1
    BY <1>3, <1>4 DEF InPlan, Kept
  <2> QED
    BY <1>1, <2>1, CountsAssumption
<1>5. CASE t \in S
  <2>1. at > NLeafs
    <3>1. at \notin Leafs
      BY <1>1, <1>5, GraphFacts DEF Typed
    <3> QED
      BY <1>1, <3>1, CountsAssumption DEF Leafs, Tensors
  <2>2. at' = at /\ pos' = pos + 1 /\ Walking' /\ Src(at)' = Src(at)
    BY <1>1, <1>5 DEF Walking, Src, Tensors
  <2> QED
    BY <1>1, <1>5, <2>1, <2>2
<1> QED
  BY <1>3, <1>4, <1>5

-----------------------------------------------------------------------------
\* A nonempty set of numbers has a first one.
LEMMA LeastOf ==
    ASSUME NEW R, IsWellFoundedOn(R, Nat), \A x, y \in Nat : <<y, x>> \in R <=> y < x,
           NEW J \in SUBSET Nat, J # {}
    PROVE  \E x \in J : \A y \in J : x <= y
<1>1. PICK x \in J : \A y \in J : <<y, x>> \notin R
  BY WFMin
<1>2. \A y \in J : x <= y
  <2> SUFFICES ASSUME NEW y \in J PROVE x <= y
    OBVIOUS
  <2>1. x \in Nat /\ y \in Nat /\ <<y, x>> \notin R
    BY <1>1
  <2>2. ~(y < x)
    BY <2>1
  <2> QED
    BY <2>1, <2>2
<1> QED
  BY <1>2

LEMMA FirstIs ==
    ASSUME NEW J \in SUBSET Nat, J # {}
    PROVE  FirstOf(J) \in J
<1>1. IsWellFoundedOn(OpToRel(<, Nat), Nat)
  BY NatLessThanWellFounded
<1>2. \A x, y \in Nat : <<y, x>> \in OpToRel(<, Nat) <=> y < x
  BY DEF OpToRel
<1>3. \E x \in J : \A y \in J : x <= y
  BY <1>1, <1>2, LeastOf, Zenon
<1> QED
  BY <1>3 DEF FirstOf

\* The source whose memory is taken over: this use is its last.
LEMMA TakenSource ==
    ASSUME Typed, InPlan, NEW p \in Tensors, Step("alloc", p), p = at,
           pos = Len(Src(at)) + 1, Reusable(p) # {}
    PROVE  LET f == FirstOf(Reusable(p))
               q == Src(p)[f]
           IN  /\ f \in DOMAIN Src(p) /\ q \in Tensors /\ q < p /\ Len(Src(p)) > 0 /\ p \in Nodes
               /\ allocated[q] /\ q \notin graph.out /\ SameLayout(p, q)
               /\ UsesLeft(q) = {<<p, f>>} /\ ViewsLeft(q) = {}
<1> DEFINE f == FirstOf(Reusable(p))
           q == Src(p)[f]
<1>1. graph \in Topologies /\ bytes \in Sizings /\ at \in Nat /\ Len(Src(at)) \in Nat
  BY GraphFacts, CountsAssumption DEF Typed, Tensors
<1>2. f \in Reusable(p)
  <2>1. Reusable(p) \subseteq Nat
    <3>1. DOMAIN Src(p) = 1..Len(Src(p)) /\ Len(Src(p)) \in Nat
      BY <1>1, GraphFacts, CountsAssumption
    <3> QED
      BY <3>1 DEF Reusable
  <2> QED
    BY <2>1, FirstIs
<1>3. /\ f \in DOMAIN Src(p) /\ allocated[q] /\ q \notin graph.out /\ SameLayout(p, q)
      /\ children[q] = 1 /\ views[q] = 0
  <2> HIDE DEF f
  <2> QED
    BY <1>2 DEF Reusable
<1>4. q \in Tensors /\ q < p /\ f \in 1..Len(Src(p))
  <2> HIDE DEF f
  <2> QED
    BY <1>1, <1>3, GraphFacts
<1>5. Len(Src(p)) > 0 /\ p \in Nodes
  <2> HIDE DEF f
  <2>1. Len(Src(p)) > 0
    BY <1>1, <1>4
  <2>2. p \notin Leafs
    BY <1>1, <2>1, GraphFacts
  <2> QED
    BY <2>1, <2>2, CountsAssumption DEF Nodes, Leafs, Tensors
<1>6. <<p, f>> \in UsesLeft(q)
  <2> HIDE DEF f
  <2>1. <<p, f>> \in Uses(q)
    BY <1>1, <1>3, <1>5, SourceIsUse
  <2>2. ~Dropped(p, f)
    BY <1>1, <1>4 DEF Dropped
  <2> QED
    BY <2>1, <2>2 DEF UsesLeft
<1>7. Cardinality(UsesLeft(q)) = 1 /\ Cardinality(ViewsLeft(q)) = 0
  <2> HIDE DEF q
  <2> QED
    BY <1>3, <1>4 DEF InPlan, Counted
<1>8. UsesLeft(q) = {<<p, f>>} /\ ViewsLeft(q) = {}
  <2> HIDE DEF q, f
  <2>1. IsFiniteSet(UsesLeft(q)) /\ IsFiniteSet(ViewsLeft(q))
    BY UsesFinite
  <2>2. \E x : UsesLeft(q) = {x}
    BY <1>7, <2>1, FS_Singleton
  <2>3. ViewsLeft(q) = {}
    BY <1>7, <2>1, FS_EmptySet
  <2> QED
    BY <1>6, <2>2, <2>3
<1> QED
  BY <1>3, <1>4, <1>5, <1>8

\* Two allocated tensors are clear of each other.
LEMMA OwnersClear ==
    ASSUME DynInv, Typed, InPlan, NEW t \in Tensors, NEW m \in Tensors,
           allocated[t], allocated[m], t # m
    PROVE  Clear(addr, AlignedSizes, t, m)
<1>1. Region(t) \in live /\ Region(m) \in live /\ Region(t) # Region(m) /\ Given(t) /\ Given(m)
  BY DEF InPlan, Owned
<1>2. Region(t).chunk = Region(m).chunk => Apart(Region(t), Region(m))
  BY <1>1 DEF DynInv, NoOverlap
<1>3. t \in Placed /\ m \in Placed
  BY <1>1 DEF Given
<1> QED
  BY <1>2, <1>3 DEF Apart, Clear, Region, AlignedSizes

LEMMA TakeOverKeeps ==
    ASSUME DynInv, Typed, InPlan, NEW p \in Tensors, Step("alloc", p), p = at,
           pos = Len(Src(at)) + 1, p \in Placed, ~allocated[p], InPlace(p), TakeOver(p)
    PROVE  InPlan' /\ UNCHANGED dynVars /\ UNCHANGED <<children, views>>
           /\ allocated' \in [Tensors -> BOOLEAN] /\ DOMAIN addr' = Tensors
<1> DEFINE f == FirstOf(Reusable(p))
           q == Src(p)[f]
<1>1. /\ f \in DOMAIN Src(p) /\ q \in Tensors /\ q < p /\ Len(Src(p)) > 0 /\ p \in Nodes
      /\ allocated[q] /\ q \notin graph.out /\ SameLayout(p, q)
      /\ UsesLeft(q) = {<<p, f>>} /\ ViewsLeft(q) = {}
  BY TakenSource DEF InPlace
<1>2. /\ allocated' = [allocated EXCEPT ![p] = TRUE, ![q] = FALSE]
      /\ addr' = [addr EXCEPT ![p] = addr[q]]
      /\ UNCHANGED <<children, views, dynVars>>
  BY DEF TakeOver
<1>0. Op(p) = "inplace"
  BY DEF InPlace
<1> HIDE DEF f, q
<1>3. /\ graph' = graph /\ bytes' = bytes /\ at \in Tensors /\ p # q
      /\ UNCHANGED <<nChunks, free, maxSize, live>>
  BY <1>1, <1>2, AllocStep, CountsAssumption DEF dynVars, Tensors
<1>4. /\ \A t \in Tensors : allocated'[t] <=> t = p \/ (allocated[t] /\ t # q)
      /\ allocated' \in [Tensors -> BOOLEAN] /\ DOMAIN addr' = Tensors
      /\ addr'[p] = addr[q] /\ \A t \in Tensors : t # p => addr'[t] = addr[t]
  BY <1>1, <1>2, <1>3 DEF Typed
<1>5. Size(p) = Size(q) /\ \A t : Size(t)' = Size(t)
  BY <1>1, <1>3, GraphSame DEF SameLayout, Size
<1>6. \A t \in Tensors : Given(t)' <=> Given(t) \/ t = p
  BY AllocWalk
<1>7. Given(q) /\ ~Given(p) /\ q \in Placed
  BY <1>1, AllocWalk DEF InPlan, Owned, Given
<1>8. Region(p)' = Region(q) /\ \A t \in Tensors : t # p => Region(t)' = Region(t)
  BY <1>4, <1>5 DEF Region, Aligned
<1>9. Counted'
  BY <1>2, CountedStill
<1>10. Owned'
  <2>1. /\ live = {Region(t) : t \in {x \in Tensors : allocated[x]}}
        /\ \A t, u \in Tensors : allocated[t] /\ allocated[u] /\ t # u => Region(t) # Region(u)
        /\ \A t \in Tensors : allocated[t] => Given(t)
    BY DEF InPlan, Owned
  <2>2. \A l \in live : \E t \in Tensors : allocated'[t] /\ Region(t)' = l
    <3> SUFFICES ASSUME NEW t \in Tensors, allocated[t]
                 PROVE  \E u \in Tensors : allocated'[u] /\ Region(u)' = Region(t)
      BY <2>1
    <3>1. CASE t = q
      BY <1>4, <1>8, <3>1
    <3>2. CASE t # q
      BY <1>4, <1>8, <3>2
    <3> QED
      BY <3>1, <3>2
  <2>3. \A t \in Tensors : allocated'[t] => Region(t)' \in live
    BY <1>1, <1>4, <1>8, <2>1
  <2>4. live' = {Region(t)' : t \in {x \in Tensors : allocated'[x]}}
    BY <1>3, <2>2, <2>3
  <2>5. \A t, u \in Tensors : allocated'[t] /\ allocated'[u] /\ t # u => Region(t)' # Region(u)'
    BY <1>1, <1>4, <1>8, <2>1
  <2>6. \A t \in Tensors : allocated'[t] => Given(t)'
    BY <1>4, <1>6, <2>1
  <2> QED
    BY <2>4, <2>5, <2>6 DEF Owned
<1>11. Addressed'
  BY <1>1, <1>3, <1>4, <1>5, <1>6, <1>7 DEF InPlan, Addressed, Addresses, ChunkIds, Aligned
<1>12. Kept'
  <2>1. \A t \in Tensors : allocated'[t] <=> t = p \/ (allocated[t] /\ t \notin {q})
    BY <1>4
  <2>2. \A t \in {q} : /\ t \notin graph.out /\ ViewsLeft(t) = {} /\ Len(Src(at)) > 0
                       /\ \A u \in UsesLeft(t) : u[1] = at
    BY <1>1
  <2> QED
    BY <1>1, <2>1, <2>2, KeptPlacing
<1>13. Laid({t \in Tensors : Given(t)}, addr, AlignedSizes)'
  <2>1. ASSUME NEW t \in Tensors, Given(t), allocated[t], ~Clear(addr', AlignedSizes, t, p)
        PROVE  ReadBefore(addr', t, p) /\ t \notin graph.out /\ p \notin Leafs
    <3>1. t # p
      BY <1>7, <2>1
    <3>2. AlignedSizes[p] = AlignedSizes[q]
      BY <1>5, <1>7 DEF AlignedSizes
    <3>3. ~Clear(addr, AlignedSizes, t, q)
      BY <1>4, <2>1, <3>1, <3>2 DEF Clear
    <3>4. t = q
      BY <1>1, <2>1, <3>3, OwnersClear
    <3>5. ReadBefore(addr', q, p)
      <4> SUFFICES ASSUME NEW n \in Nodes, NEW j \in DOMAIN Src(n), Root(Src(n)[j]) = q
                   PROVE  n < p \/ (n = p /\ Op(n) = "inplace" /\ addr'[n] = addr'[q]
                                    /\ SameLayout(n, q))
        BY DEF ReadBefore
      <4>1. n < p \/ <<n, j>> \in UsesLeft(q)
        BY <1>1, <1>3, ReadsOver
      <4>2. n < p \/ n = p
        BY <1>1, <4>1
      <4> QED
        BY <1>0, <1>1, <1>3, <1>4, <4>2
    <3>6. p \notin Leafs
      BY <1>1, CountsAssumption DEF Leafs, Nodes
    <3> QED
      BY <1>1, <3>4, <3>5, <3>6
  <2> QED
    BY <1>2, <2>1, PlacedWell
<1> QED
  BY <1>2, <1>4, <1>9, <1>10, <1>11, <1>12, <1>13 DEF InPlan

LEMMA TallocKeeps ==
    ASSUME DynInv, Typed, InPlan, NEW p \in Tensors, Step("alloc", p), p = at,
           pos = Len(Src(at)) + 1, p \in Placed, ~allocated[p],
           NEW c \in ChunkIds, NEW o, TallocAlloc(Aligned(Size(p)), c, o),
           addr' = [addr EXCEPT ![p] = [chunk |-> c, off |-> o]],
           allocated' = [allocated EXCEPT ![p] = TRUE],
           UNCHANGED <<children, views>>
    PROVE  InPlan' /\ DynInv'
           /\ allocated' \in [Tensors -> BOOLEAN] /\ DOMAIN addr' = Tensors
<1> DEFINE s == Aligned(Size(p))
           new == [chunk |-> c, off |-> o, size |-> s]
<1>1. s \in Nat \ {0}
  BY PlacedSize DEF Typed
<1>2. /\ DynInv' /\ live' = live \cup {new} /\ new \notin live
      /\ o \in Nat /\ c <= nChunks' /\ o + s <= maxSize'[c]
      /\ \A l \in live : l.chunk = c => l.off + l.size <= o \/ o + s <= l.off
      /\ nChunks \in Nat /\ nChunks' \in Nat /\ nChunks <= nChunks'
      /\ \A d \in ChunkIds : maxSize[d] \in Nat /\ maxSize'[d] \in Nat
      /\ \A d \in ChunkIds : d <= nChunks => maxSize[d] <= maxSize'[d]
  BY <1>1, TallocGives
<1>3. graph' = graph /\ bytes' = bytes /\ at \in Tensors
  BY AllocStep
<1>4. /\ \A t \in Tensors : allocated'[t] <=> t = p \/ allocated[t]
      /\ allocated' \in [Tensors -> BOOLEAN] /\ DOMAIN addr' = Tensors
      /\ addr'[p] = [chunk |-> c, off |-> o] /\ \A t \in Tensors : t # p => addr'[t] = addr[t]
  BY DEF Typed
<1>5. \A t : Size(t)' = Size(t)
  BY <1>3, GraphSame
<1>6. \A t \in Tensors : Given(t)' <=> Given(t) \/ t = p
  BY AllocWalk
<1>7. ~Given(p)
  BY AllocWalk
<1>8. Region(p)' = new /\ \A t \in Tensors : t # p => Region(t)' = Region(t)
  BY <1>4, <1>5 DEF Region, Aligned
<1>9. Counted'
  BY CountedStill
<1> HIDE DEF new
<1>10. Owned'
  <2>1. /\ live = {Region(t) : t \in {x \in Tensors : allocated[x]}}
        /\ \A t, u \in Tensors : allocated[t] /\ allocated[u] /\ t # u => Region(t) # Region(u)
        /\ \A t \in Tensors : allocated[t] => Given(t)
    BY DEF InPlan, Owned
  <2>2. \A l \in live' : \E t \in Tensors : allocated'[t] /\ Region(t)' = l
    BY <1>2, <1>4, <1>8, <2>1
  <2>3. \A t \in Tensors : allocated'[t] => Region(t)' \in live'
    BY <1>2, <1>4, <1>8, <2>1
  <2>4. live' = {Region(t)' : t \in {x \in Tensors : allocated'[x]}}
    BY <2>2, <2>3
  <2>5. \A t, u \in Tensors : allocated'[t] /\ allocated'[u] /\ t # u => Region(t)' # Region(u)'
    BY <1>2, <1>4, <1>8, <2>1
  <2>6. \A t \in Tensors : allocated'[t] => Given(t)'
    BY <1>4, <1>6, <2>1
  <2> QED
    BY <2>4, <2>5, <2>6 DEF Owned
<1>11. Addressed'
  <2> SUFFICES ASSUME NEW t \in Tensors, Given(t)'
               PROVE  /\ addr'[t] \in Addresses /\ addr'[t].chunk <= nChunks'
                      /\ addr'[t].off + Aligned(Size(t)) <= maxSize'[addr'[t].chunk]
    BY <1>5 DEF Addressed, Addresses, ChunkIds, Aligned
  <2>1. CASE t = p
    BY <1>2, <1>4, <2>1 DEF Addresses
  <2>2. CASE t # p
    <3>1. /\ addr[t] \in Addresses /\ addr[t].chunk <= nChunks /\ t \in Placed
          /\ addr[t].off + Aligned(Size(t)) <= maxSize[addr[t].chunk]
      BY <1>6, <2>2 DEF InPlan, Addressed, Given
    <3>2. Aligned(Size(t)) \in Nat /\ addr[t].chunk \in ChunkIds /\ addr[t].off \in Nat
          /\ addr[t].chunk \in Nat
      BY <3>1, PlacedSize, ChunksAssumption DEF Typed, Addresses, ChunkIds
    <3>3. addr'[t] = addr[t]
      BY <1>4, <2>2
    <3> DEFINE d == addr[t].chunk
               e == addr[t].off + Aligned(Size(t))
    <3>4. e \in Nat /\ d \in ChunkIds /\ d \in Nat /\ d <= nChunks /\ e <= maxSize[d]
      BY <3>1, <3>2
    <3> HIDE DEF d, e
    <3>5. d <= nChunks' /\ e <= maxSize'[d]
      BY <1>2, <3>4
    <3> QED
      BY <3>1, <3>3, <3>5 DEF d, e
  <2> QED
    BY <2>1, <2>2
<1>12. Kept'
  <2>1. \A t \in Tensors : allocated'[t] <=> t = p \/ (allocated[t] /\ t \notin {})
    BY <1>4
  <2>2. \A t \in {} : /\ t \notin graph.out /\ ViewsLeft(t) = {} /\ Len(Src(at)) > 0
                      /\ \A u \in UsesLeft(t) : u[1] = at
    OBVIOUS
  <2>3. {} \in SUBSET Tensors
    OBVIOUS
  <2> QED
    BY <2>1, <2>2, <2>3, KeptPlacing
<1>13. Laid({t \in Tensors : Given(t)}, addr, AlignedSizes)'
  <2>1. ASSUME NEW t \in Tensors, Given(t), allocated[t]
        PROVE  Clear(addr', AlignedSizes, t, p)
    <3>1. Region(t) \in live /\ t # p /\ t \in Placed
      BY <1>7, <2>1 DEF InPlan, Owned, Given
    <3>2. Region(t).chunk = c => Region(t).off + Region(t).size <= o \/ o + s <= Region(t).off
      BY <1>2, <3>1
    <3>3. AlignedSizes[p] = s /\ AlignedSizes[t] = Region(t).size
      BY <3>1 DEF AlignedSizes, Region
    <3>4. addr'[t].chunk = Region(t).chunk /\ addr'[t].off = Region(t).off
          /\ addr'[p].chunk = c /\ addr'[p].off = o
      BY <1>4, <3>1 DEF Region
    <3> HIDE DEF s
    <3> QED
      BY <3>2, <3>3, <3>4 DEF Clear
  <2> QED
    BY <2>1, PlacedWell
<1> QED
  BY <1>2, <1>4, <1>9, <1>10, <1>11, <1>12, <1>13 DEF InPlan

-----------------------------------------------------------------------------
\* The walk stays in the graph.
LEMMA WalkTyped ==
    ASSUME Typed, NEW p \in Tensors, Step("alloc", p) \/ Step("release", p),
           children' \in [Tensors -> Nat], views' \in [Tensors -> Nat],
           allocated' \in [Tensors -> BOOLEAN], DOMAIN addr' = Tensors
    PROVE  Typed'
<1> DEFINE k == Len(Src(at))
<1>1. /\ at \in Tensors /\ k \in Nat /\ pos \in Nat
      /\ \/ at' = at /\ pos' = pos + 1 /\ pos < 2 * k + 1
         \/ at' = at + 1 /\ pos' = 1
      /\ UNCHANGED <<graph, bytes, stage, buffer, calls, refused>>
  <2>1. CASE Step("alloc", p)
    BY <2>1, AllocStep
  <2>2. CASE Step("release", p)
    BY <2>2, ReleaseStep
  <2> QED
    BY <2>1, <2>2
<1>2. at' \in 1..NLeafs + NNodes + 1 /\ pos' \in Nat \ {0}
  <2> HIDE DEF k
  <2>1. NLeafs + NNodes \in Nat /\ at \in 1..NLeafs + NNodes
    BY <1>1, CountsAssumption DEF Tensors
  <2> DEFINE all == NLeafs + NNodes
  <2> HIDE DEF all
  <2>2. at' \in 1..all + 1 /\ pos' \in Nat \ {0}
    BY <1>1, <2>1 DEF all
  <2> QED
    BY <2>2 DEF all
<1>3. Walking' => pos' <= 2 * Len(Src(at)') + 1
  <2> SUFFICES ASSUME at' \in Tensors PROVE pos' <= 2 * Len(Src(at)') + 1
    BY DEF Walking
  <2>1. at' \in Tensors /\ Src(at)' = Src(at') /\ graph \in Topologies /\ bytes \in Sizings
    BY <1>1 DEF Src, Typed
  <2>2. Len(Src(at')) \in Nat
    BY <2>1, GraphFacts, CountsAssumption
  <2>3. CASE at' = at /\ pos' = pos + 1 /\ pos < 2 * k + 1
    BY <1>1, <2>1, <2>3
  <2>4. CASE at' = at + 1 /\ pos' = 1
    BY <2>1, <2>2, <2>4
  <2> QED
    BY <1>1, <2>3, <2>4
<1> QED
  BY <1>1, <1>2, <1>3 DEF Typed, Walking

LEMMA SkipKeeps ==
    ASSUME Typed, InPlan, NEW p \in Tensors, Step("alloc", p), Keep,
           \A t \in Tensors : Given(t)' <=> Given(t)
    PROVE  InPlan'
<1>1. /\ graph' = graph /\ bytes' = bytes /\ at \in Tensors /\ at \in Nat /\ Len(Src(at)) \in Nat
      /\ pos \in 1..Len(Src(at)) + 1
      /\ \/ Len(Src(at)) > 0 /\ at' = at /\ pos' = pos + 1
         \/ Len(Src(at)) = 0 /\ pos = 1 /\ at' = at + 1 /\ pos' = 1
  BY AllocStep, CountsAssumption DEF Tensors
<1>2. UNCHANGED <<children, views, allocated, addr, nChunks, maxSize, live>>
  BY DEF Keep, hashVars, dynVars
<1>3. \A t \in Tensors : UsesLeft(t)' = UsesLeft(t) /\ ViewsLeft(t)' = ViewsLeft(t)
  BY AllocWalk
<1>4. Counted'
  BY <1>2, CountedStill
<1>5. Owned'
  BY <1>1, <1>2, GraphSame DEF InPlan, Owned, Region, Aligned
<1>6. Addressed'
  BY <1>1, <1>2, GraphSame DEF InPlan, Addressed, Addresses, ChunkIds, Aligned
<1>7. Kept'
  <2> SUFFICES ASSUME NEW t \in Tensors, Given(t), ~allocated[t]
               PROVE  /\ t \notin graph.out /\ at' > NLeafs /\ ViewsLeft(t) = {} /\ UsesLeft(t) = {}
    BY <1>1, <1>2, <1>3 DEF Kept
  <2>1. /\ t \notin graph.out /\ at > NLeafs /\ ViewsLeft(t) = {}
        /\ UsesLeft(t) # {} => pos > Len(Src(at)) + 1
    BY DEF InPlan, Kept
  <2> QED
    BY <1>1, <2>1, CountsAssumption
<1>8. Laid({t \in Tensors : Given(t)}, addr, AlignedSizes)'
  <2>1. Laid({t \in Tensors : Given(t)}, addr, AlignedSizes)
    BY DEF InPlan
  <2>2. {t \in Tensors : Given(t)}' = {t \in Tensors : Given(t)} /\ AlignedSizes' = AlignedSizes
        /\ addr' = addr
    BY <1>1, <1>2, GraphSame
  <2> QED
    BY <1>1, <2>1, <2>2, GraphSame DEF Laid, Clear, ReadBefore
<1> QED
  BY <1>4, <1>5, <1>6, <1>7, <1>8 DEF InPlan

LEMMA AllocateKeeps ==
    ASSUME DynInv, Typed, InPlan, NEW p \in Tensors, AllocateNode(p)
    PROVE  InPlan' /\ DynInv' /\ Typed'
<1>1. Step("alloc", p)
  BY DEF AllocateNode
<1>2. CASE Keep /\ \A t \in Tensors : Given(t)' <=> Given(t)
  <2>1. InPlan'
    BY <1>1, <1>2, SkipKeeps
  <2>2. UNCHANGED <<children, views, allocated, addr, nChunks, free, maxSize, live>>
    BY <1>2 DEF Keep, hashVars, dynVars
  <2>3. DynInv'
    BY <2>2 DEF DynInv, DynTypeOK, FreeApart, NoOverlap, InBuffer
  <2>4. Typed'
    BY <1>1, <2>2, WalkTyped DEF Typed
  <2> QED
    BY <2>1, <2>3, <2>4
<1>3. CASE /\ p = at /\ pos = Len(Src(at)) + 1 /\ p \in Placed /\ ~allocated[p]
           /\ InPlace(p) /\ TakeOver(p)
  <2>1. InPlan' /\ UNCHANGED dynVars /\ UNCHANGED <<children, views>>
        /\ allocated' \in [Tensors -> BOOLEAN] /\ DOMAIN addr' = Tensors
    BY <1>1, <1>3, TakeOverKeeps
  <2>2. DynInv'
    BY <2>1 DEF dynVars, DynInv, DynTypeOK, FreeApart, NoOverlap, InBuffer
  <2>3. Typed'
    BY <1>1, <2>1, WalkTyped DEF Typed
  <2> QED
    BY <2>1, <2>2, <2>3
<1>4. CASE /\ p = at /\ pos = Len(Src(at)) + 1 /\ p \in Placed /\ ~allocated[p]
           /\ \E c \in ChunkIds : \E o :
                 /\ TallocAlloc(Aligned(Size(p)), c, o)
                 /\ addr' = [addr EXCEPT ![p] = [chunk |-> c, off |-> o]]
                 /\ allocated' = [allocated EXCEPT ![p] = TRUE]
                 /\ UNCHANGED <<children, views>>
  <2>1. InPlan' /\ DynInv' /\ UNCHANGED <<children, views>>
        /\ allocated' \in [Tensors -> BOOLEAN] /\ DOMAIN addr' = Tensors
    BY <1>1, <1>4, TallocKeeps
  <2>2. Typed'
    BY <1>1, <2>1, WalkTyped DEF Typed
  <2> QED
    BY <2>1, <2>2
<1> QED
  BY <1>2, <1>3, <1>4, AllocateCases

-----------------------------------------------------------------------------
\* What a dropped source leaves of the counters: its view of another tensor counts
\* no more once it has no use left.
LEMMA ReleaseViews ==
    ASSUME Typed, NEW p \in Tensors, Step("release", p)
    PROVE  /\ IsView(p) => ViewsLeft(p) = {} /\ p \in ViewsLeft(Root(p)) /\ Root(p) # p
           /\ \A t \in Tensors : ViewsLeft(t)' =
                 IF IsView(p) /\ UsesLeft(p)' = {} /\ t = Root(p) THEN ViewsLeft(t) \ {p}
                 ELSE ViewsLeft(t)
<1>1. /\ graph' = graph /\ bytes' = bytes /\ graph \in Topologies /\ bytes \in Sizings
  BY ReleaseStep DEF Typed
<1>2. /\ UsesLeft(p) # {} /\ UsesLeft(p)' \subseteq UsesLeft(p)
      /\ \A t \in Tensors : t # p => UsesLeft(t)' = UsesLeft(t)
  BY ReleaseWalk
<1>3. Uses(p) # {}
  BY <1>2 DEF UsesLeft
<1>4. ASSUME IsView(p)
      PROVE  ViewsLeft(p) = {} /\ p \in ViewsLeft(Root(p)) /\ Root(p) # p
  <2>1. p \in Nodes
    <3>1. p \notin Leafs
      BY <1>1, <1>4, GraphFacts
    <3> QED
      BY <3>1, CountsAssumption DEF Nodes, Leafs, Tensors
  <2>2. \A v \in Nodes : Root(v) # p
    <3> SUFFICES ASSUME NEW v \in Nodes PROVE Root(v) # p
      OBVIOUS
    <3>1. v \in Tensors
      BY CountsAssumption DEF Nodes, Tensors
    <3>2. ~IsView(Root(v))
      BY <1>1, <3>1, GraphFacts
    <3> QED
      BY <1>4, <3>2
  <2> QED
    BY <1>2, <1>4, <2>1, <2>2 DEF ViewsLeft
<1>5. Nodes \subseteq Tensors
  BY CountsAssumption DEF Nodes, Tensors
<1>6. ASSUME NEW t \in Tensors, NEW v \in Nodes
      PROVE  v \in ViewsLeft(t)' <=> v \in ViewsLeft(t)
                                     /\ ~(IsView(p) /\ UsesLeft(p)' = {} /\ t = Root(p) /\ v = p)
  <2>1. v \in ViewsLeft(t) <=> IsView(v) /\ Root(v) = t /\ (Uses(v) = {} \/ UsesLeft(v) # {})
    BY DEF ViewsLeft
  <2>2. v \in ViewsLeft(t)' <=> IsView(v) /\ Root(v) = t /\ (Uses(v) = {} \/ UsesLeft(v)' # {})
    BY <1>1, GraphSame DEF ViewsLeft
  <2>3. CASE v = p
    BY <1>2, <1>3, <2>1, <2>2, <2>3
  <2>4. CASE v # p
    BY <1>2, <1>5, <2>1, <2>2, <2>4
  <2> QED
    BY <2>3, <2>4
<1>7. \A t \in Tensors : ViewsLeft(t) \subseteq Nodes /\ ViewsLeft(t)' \subseteq Nodes
  BY DEF ViewsLeft, Nodes
<1>8. \A t \in Tensors : ViewsLeft(t)' =
         IF IsView(p) /\ UsesLeft(p)' = {} /\ t = Root(p) THEN ViewsLeft(t) \ {p}
         ELSE ViewsLeft(t)
  <2> SUFFICES ASSUME NEW t \in Tensors
               PROVE  ViewsLeft(t)' =
                        IF IsView(p) /\ UsesLeft(p)' = {} /\ t = Root(p) THEN ViewsLeft(t) \ {p}
                        ELSE ViewsLeft(t)
    OBVIOUS
  <2> QED
    BY <1>6, <1>7
<1> QED
  BY <1>4, <1>8

\* Giving up the memory of a tensor without uses and views left keeps the plan; so
\* does giving up none.
LEMMA GiveUpKeeps ==
    ASSUME DynInv, Typed, InPlan, NEW p \in Tensors, Step("release", p),
           Counted', UNCHANGED addr, NEW f \in Tensors,
           \/ UNCHANGED <<allocated, dynVars>>
           \/ UsesLeft(f)' = {} /\ ViewsLeft(f)' = {} /\ FreeIfOwn(f)
    PROVE  InPlan' /\ DynInv' /\ allocated' \in [Tensors -> BOOLEAN]
<1> DEFINE k == Len(Src(at))
<1>1. /\ graph' = graph /\ bytes' = bytes /\ at \in Tensors /\ k \in Nat /\ pos \in k + 2..2 * k + 1
      /\ \/ at' = at /\ pos' = pos + 1
         \/ at' = at + 1 /\ pos' = 1
  BY ReleaseStep
<1>2. /\ \A t \in Tensors : Given(t)' <=> Given(t)
      /\ \A t \in Tensors : UsesLeft(t)' \subseteq UsesLeft(t)
  BY ReleaseWalk
<1>3. \A t \in Tensors : ViewsLeft(t)' \subseteq ViewsLeft(t)
  BY ReleaseViews
<1>4. \/ UNCHANGED <<allocated, dynVars>>
      \/ /\ allocated[f] /\ f \notin graph.out /\ UsesLeft(f)' = {} /\ ViewsLeft(f)' = {}
         /\ TallocFree(Region(f)) /\ allocated' = [allocated EXCEPT ![f] = FALSE]
  BY DEF FreeIfOwn, FreeNode
<1>5. Owned
  BY DEF InPlan
<1>6. /\ DynInv' /\ allocated' \in [Tensors -> BOOLEAN]
      /\ UNCHANGED <<nChunks, maxSize>>
      /\ \A t \in Tensors : ~allocated'[t] =>
            ~allocated[t] \/ (t \notin graph.out /\ UsesLeft(t)' = {} /\ ViewsLeft(t)' = {})
      /\ live' = {Region(t) : t \in {x \in Tensors : allocated'[x]}}
      /\ \A t \in Tensors : allocated'[t] => allocated[t]
  <2>1. CASE UNCHANGED <<allocated, dynVars>>
    <3>1. UNCHANGED <<nChunks, free, maxSize, live, allocated>>
      BY <2>1 DEF dynVars
    <3>2. DynInv'
      BY <3>1 DEF DynInv, DynTypeOK, FreeApart, NoOverlap, InBuffer
    <3> QED
      BY <3>1, <3>2, <1>5 DEF Owned, Typed
  <2>2. CASE /\ allocated[f] /\ f \notin graph.out /\ UsesLeft(f)' = {} /\ ViewsLeft(f)' = {}
             /\ TallocFree(Region(f)) /\ allocated' = [allocated EXCEPT ![f] = FALSE]
    <3>1. Region(f) \in live
      BY <2>2, <1>5 DEF Owned
    <3>2. DynInv' /\ UNCHANGED <<nChunks, maxSize>> /\ live' = live \ {Region(f)}
      BY <2>2, <3>1, FreeKeeps DEF TallocFree
    <3>3. \A t \in Tensors : allocated'[t] <=> allocated[t] /\ t # f
      BY <2>2 DEF Typed
    <3>4. allocated' \in [Tensors -> BOOLEAN]
      BY <2>2 DEF Typed
    <3>5. live' = {Region(t) : t \in {x \in Tensors : allocated'[x]}}
      BY <2>2, <3>2, <3>3, <1>5 DEF Owned
    <3> QED
      BY <2>2, <3>2, <3>3, <3>4, <3>5
  <2> QED
    BY <1>4, <2>1, <2>2
<1>7. \A t : Region(t)' = Region(t)
  BY <1>1, GraphSame DEF Region, Aligned
<1>8. Owned'
  BY <1>2, <1>5, <1>6, <1>7 DEF Owned
<1>9. Addressed'
  BY <1>1, <1>2, <1>6, GraphSame DEF InPlan, Addressed, Addresses, ChunkIds, Aligned
<1>10. Kept'
  <2> SUFFICES ASSUME NEW t \in Tensors, Given(t), ~allocated'[t]
               PROVE  /\ t \notin graph.out /\ at' > NLeafs /\ ViewsLeft(t)' = {}
                      /\ UsesLeft(t)' # {} => /\ Walking' /\ pos' > Len(Src(at)') + 1
                                              /\ \A u \in UsesLeft(t)' : u[1] = at'
    BY <1>1, <1>2 DEF Kept
  <2>1. at > NLeafs /\ at \in Nat
    <3>1. at \notin Leafs
      BY <1>1, GraphFacts DEF Typed
    <3> QED
      BY <1>1, <3>1, CountsAssumption DEF Leafs, Tensors
  <2>2. at' > NLeafs
    BY <1>1, <2>1, CountsAssumption
  <2>3. CASE t \notin graph.out /\ UsesLeft(t)' = {} /\ ViewsLeft(t)' = {}
    BY <2>2, <2>3
  <2>4. CASE ~allocated[t]
    <3>1. /\ t \notin graph.out /\ ViewsLeft(t) = {} /\ \A u \in UsesLeft(t) : u[1] = at
      BY <2>4 DEF InPlan, Kept
    <3>2. t \notin graph.out /\ ViewsLeft(t)' = {} /\ \A u \in UsesLeft(t)' : u[1] = at
      BY <1>2, <1>3, <3>1
    <3>3. CASE at' = at /\ pos' = pos + 1
      <4>1. Walking' /\ Src(at)' = Src(at)
        BY <1>1, <3>3 DEF Walking, Src, Tensors
      <4>2. pos' > Len(Src(at)') + 1
        BY <1>1, <3>3, <4>1
      <4> QED
        BY <2>2, <3>2, <3>3, <4>1, <4>2
    <3>4. CASE at' = at + 1 /\ pos' = 1
      <4>1. \A u \in UsesLeft(t)' : ~Dropped(u[1], u[2])'
        BY DEF UsesLeft
      <4>2. \A u \in UsesLeft(t)' : FALSE
        BY <2>1, <3>2, <3>4, <4>1 DEF Dropped
      <4> QED
        BY <2>2, <3>2, <4>2
    <3> QED
      BY <1>1, <3>3, <3>4
  <2> QED
    BY <1>6, <2>3, <2>4
<1>11. Laid({t \in Tensors : Given(t)}, addr, AlignedSizes)'
  <2>1. Laid({t \in Tensors : Given(t)}, addr, AlignedSizes)
    BY DEF InPlan
  <2>2. {t \in Tensors : Given(t)}' = {t \in Tensors : Given(t)} /\ AlignedSizes' = AlignedSizes
    BY <1>1, <1>2, GraphSame
  <2> QED
    BY <1>1, <2>1, <2>2, GraphSame DEF Laid, Clear, ReadBefore
<1> QED
  BY <1>6, <1>8, <1>9, <1>10, <1>11 DEF InPlan

\* Dropping a source counts it, and gives up memory only when nothing is left to come.
LEMMA ReleaseKeeps ==
    ASSUME DynInv, Typed, InPlan, NEW p \in Tensors, Release(p)
    PROVE  InPlan' /\ DynInv' /\ Typed'
<1> DEFINE last == children'[p] = 0 /\ views[p] = 0
<1>2. /\ graph \in Topologies /\ bytes \in Sizings
      /\ children \in [Tensors -> Nat] /\ views \in [Tensors -> Nat] /\ DOMAIN addr = Tensors
  BY DEF Typed
<1>3. PICK r \in Tensors : r = Root(p)
  BY <1>2, GraphFacts
<1>1. /\ Step("release", p) /\ children' = [children EXCEPT ![p] = children[p] - 1]
      /\ UNCHANGED addr
      /\ \/ ~last /\ UNCHANGED <<views, allocated, dynVars>>
         \/ last /\ ~IsView(p) /\ FreeIfOwn(p) /\ UNCHANGED views
         \/ /\ last /\ IsView(p)
            /\ views' = [views EXCEPT ![r] = views[r] - 1]
            /\ IF views'[r] = 0 /\ children[r] = 0 THEN FreeIfOwn(r)
               ELSE UNCHANGED <<allocated, dynVars>>
  BY <1>3 DEF Release
<1>4. \A t \in Tensors : /\ children[t] = Cardinality(UsesLeft(t))
                         /\ views[t] = Cardinality(ViewsLeft(t))
  BY DEF InPlan, Counted
<1>5. /\ \A t : IsFiniteSet(UsesLeft(t)) /\ IsFiniteSet(ViewsLeft(t))
      /\ \A t \in Tensors : t # p => UsesLeft(t)' = UsesLeft(t)
  BY <1>1, ReleaseWalk, UsesFinite
<1>6. PICK u \in UsesLeft(p) : UsesLeft(p)' = UsesLeft(p) \ {u}
  BY <1>1, ReleaseWalk
<1>7. /\ IsView(p) => ViewsLeft(p) = {} /\ p \in ViewsLeft(r) /\ r # p
      /\ \A t \in Tensors : ViewsLeft(t)' =
            IF IsView(p) /\ UsesLeft(p)' = {} /\ t = r THEN ViewsLeft(t) \ {p} ELSE ViewsLeft(t)
  BY <1>1, <1>3, ReleaseViews
<1>8. IsFiniteSet(UsesLeft(p)') /\ Cardinality(UsesLeft(p)') = children[p] - 1
      /\ children[p] - 1 \in Nat
  <2>1. IsFiniteSet(UsesLeft(p) \ {u}) /\ Cardinality(UsesLeft(p) \ {u}) = Cardinality(UsesLeft(p)) - 1
    BY <1>5, <1>6, FS_RemoveElement
  <2>2. Cardinality(UsesLeft(p) \ {u}) \in Nat
    BY <2>1, FS_CardinalityType
  <2> QED
    BY <1>4, <1>6, <2>1, <2>2
<1>9. /\ children' \in [Tensors -> Nat] /\ children'[p] = Cardinality(UsesLeft(p)')
      /\ \A t \in Tensors : children'[t] = Cardinality(UsesLeft(t)')
  BY <1>1, <1>2, <1>4, <1>5, <1>8
<1>10. (children'[p] = 0 <=> UsesLeft(p)' = {}) /\ \A t \in Tensors : views[t] = 0 <=> ViewsLeft(t) = {}
  BY <1>4, <1>5, <1>8, <1>9, FS_EmptySet
<1>11. CASE ~last /\ UNCHANGED <<views, allocated, dynVars>>
  <2>1. \A t \in Tensors : ViewsLeft(t)' = ViewsLeft(t)
    BY <1>7, <1>10, <1>11
  <2>2. Counted'
    BY <1>4, <1>9, <1>11, <2>1 DEF Counted
  <2>3. InPlan' /\ DynInv' /\ allocated' \in [Tensors -> BOOLEAN]
    BY <1>1, <1>11, <2>2, GiveUpKeeps
  <2> QED
    BY <1>1, <1>2, <1>9, <1>11, <2>3, WalkTyped
<1>12. CASE last /\ ~IsView(p) /\ FreeIfOwn(p) /\ UNCHANGED views
  <2>1. \A t \in Tensors : ViewsLeft(t)' = ViewsLeft(t)
    BY <1>7, <1>12
  <2>2. Counted'
    BY <1>4, <1>9, <1>12, <2>1 DEF Counted
  <2>3. UsesLeft(p)' = {} /\ ViewsLeft(p)' = {}
    BY <1>10, <1>12, <2>1
  <2>4. InPlan' /\ DynInv' /\ allocated' \in [Tensors -> BOOLEAN]
    BY <1>1, <1>12, <2>2, <2>3, GiveUpKeeps
  <2> QED
    BY <1>1, <1>2, <1>9, <1>12, <2>4, WalkTyped
<1>13. CASE /\ last /\ IsView(p)
            /\ views' = [views EXCEPT ![r] = views[r] - 1]
            /\ IF views'[r] = 0 /\ children[r] = 0 THEN FreeIfOwn(r)
               ELSE UNCHANGED <<allocated, dynVars>>
  <2>1. /\ UsesLeft(p)' = {} /\ p \in ViewsLeft(r) /\ r # p
        /\ ViewsLeft(r)' = ViewsLeft(r) \ {p}
        /\ \A t \in Tensors : t # r => ViewsLeft(t)' = ViewsLeft(t)
    BY <1>3, <1>7, <1>10, <1>13
  <2>2. /\ IsFiniteSet(ViewsLeft(r)') /\ Cardinality(ViewsLeft(r)') = views[r] - 1
        /\ views[r] - 1 \in Nat
    <3>1. /\ IsFiniteSet(ViewsLeft(r) \ {p})
          /\ Cardinality(ViewsLeft(r) \ {p}) = Cardinality(ViewsLeft(r)) - 1
      BY <1>5, <2>1, FS_RemoveElement
    <3>2. Cardinality(ViewsLeft(r) \ {p}) \in Nat
      BY <3>1, FS_CardinalityType
    <3> QED
      BY <1>3, <1>4, <2>1, <3>1, <3>2
  <2>3. /\ views' \in [Tensors -> Nat]
        /\ \A t \in Tensors : views'[t] = Cardinality(ViewsLeft(t)')
    BY <1>2, <1>3, <1>4, <1>13, <2>1, <2>2
  <2>4. Counted'
    BY <1>9, <2>3 DEF Counted
  <2>5. \/ UNCHANGED <<allocated, dynVars>>
        \/ UsesLeft(r)' = {} /\ ViewsLeft(r)' = {} /\ FreeIfOwn(r)
    <3> SUFFICES ASSUME views'[r] = 0, children[r] = 0
                 PROVE  UsesLeft(r)' = {} /\ ViewsLeft(r)' = {}
      BY <1>13
    <3>1. Cardinality(ViewsLeft(r)') = 0 /\ Cardinality(UsesLeft(r)) = 0
      BY <1>3, <1>4, <2>3
    <3>2. ViewsLeft(r)' = {} /\ UsesLeft(r) = {}
      BY <1>5, <2>2, <3>1, FS_EmptySet
    <3> QED
      BY <1>3, <1>5, <2>1, <3>2
  <2>6. InPlan' /\ DynInv' /\ allocated' \in [Tensors -> BOOLEAN]
    BY <1>1, <1>3, <2>4, <2>5, GiveUpKeeps
  <2> QED
    BY <1>1, <1>2, <1>9, <2>3, <2>6, WalkTyped
<1> QED
  BY <1>1, <1>11, <1>12, <1>13

-----------------------------------------------------------------------------
\* The kept plan does not depend on the sizes of the call at hand.
LEMMA SavedStill ==
    ASSUME Saved, UNCHANGED <<graph, saved, buffer>>
    PROVE  Saved'
<1>1. /\ Placed' = Placed
      /\ \A t : Src(t)' = Src(t) /\ Root(t)' = Root(t) /\ Op(t)' = Op(t)
      /\ \A t, u : SameLayout(t, u)' = SameLayout(t, u)
  BY DEF Placed, Src, Root, Op, SameLayout
<1> DEFINE a == [t \in Placed |-> saved[t].addr]
           z == [t \in Placed |-> Aligned(saved[t].max)]
<1>2. a' = a /\ z' = z
  BY <1>1 DEF Aligned
<1>3. Laid(Placed, a, z)' <=> Laid(Placed, a, z)
  <2> HIDE DEF a, z
  <2> QED
    BY <1>1, <1>2 DEF Laid, Clear, ReadBefore
<1> QED
  BY <1>1, <1>3 DEF Saved, Addresses, ChunkIds, Aligned

\* A new plan: nothing has an address, and every use and view is to come.
LEMMA BeginKeeps ==
    ASSUME GInv, BeginPlan("plan") \/ BeginPlan("replan")
    PROVE  GInv'
<1>1. /\ at' = 1 /\ pos' = 1 /\ stage' \in {"plan", "replan"}
      /\ UNCHANGED <<graph, bytes, saved, buffer, place, calls, refused>>
  BY DEF BeginPlan
<1>a. /\ \A t \in Tensors : /\ children'[t] = Cardinality(Uses(t))
                             /\ views'[t] = Cardinality(ViewsOf(t))
      /\ children' \in [Tensors -> Nat] /\ views' \in [Tensors -> Nat]
  BY UsesFinite DEF BeginPlan
<1>b. /\ \A t \in Tensors : ~allocated'[t]
      /\ allocated' \in [Tensors -> BOOLEAN] /\ DOMAIN addr' = Tensors
  BY DEF BeginPlan
<1>c. TallocReset
  BY DEF BeginPlan
<1>2. Typed /\ Saved
  BY DEF GInv
<1>3. \A t \in Tensors : t \in Nat \ {0} /\ Len(Src(t)) \in Nat /\ Src(t)' = Src(t)
  BY <1>1, <1>2, GraphFacts, GraphSame, CountsAssumption DEF Typed, Tensors
<1>4. DynInv'
  BY <1>c, ChunksAssumption
     DEF TallocReset, DynInv, DynTypeOK, FreeApart, NoOverlap, InBuffer, ChunkIds
<1>5. \A t : UsesLeft(t)' = Uses(t)
  <2> SUFFICES ASSUME NEW t, NEW u \in Uses(t) PROVE ~Dropped(u[1], u[2])'
    BY <1>1, GraphSame DEF UsesLeft
  <2>1. u[1] \in Tensors /\ u[2] \in 1..Len(Src(u[1]))
    BY <1>2, UseFacts DEF Typed
  <2>2. Len(Src(u[1])') \in Nat /\ u[1] \in Nat \ {0} /\ u[2] \in Nat
    BY <1>3, <2>1
  <2> DEFINE n == u[1]
             j == u[2]
             k == Len(Src(u[1])')
  <2>3. k \in Nat /\ n \in Nat \ {0} /\ j \in Nat
    BY <2>2
  <2>4. Dropped(n, j)' <=> n < at' \/ (n = at' /\ pos' > k + 1 + j)
    BY DEF Dropped
  <2> HIDE DEF n, j, k
  <2>5. ~Dropped(n, j)'
    BY <1>1, <2>3, <2>4
  <2> QED
    BY <2>5 DEF n, j
<1>6. \A t : ViewsLeft(t)' = ViewsOf(t)
  <2> SUFFICES ASSUME NEW t PROVE ViewsLeft(t)' = ViewsOf(t)
    OBVIOUS
  <2>1. ViewsLeft(t)' = {v \in Nodes : IsView(v) /\ Root(v) = t
                                       /\ (Uses(v) = {} \/ UsesLeft(v)' # {})}
    BY <1>1, GraphSame DEF ViewsLeft
  <2> QED
    BY <1>5, <2>1 DEF ViewsOf
<1>7. Counted'
  BY <1>a, <1>5, <1>6 DEF Counted
<1>8. \A t \in Tensors : ~Given(t)'
  BY <1>1, <1>3 DEF Given
<1>9. Owned'
  BY <1>b, <1>c DEF Owned, TallocReset
<1>10. Addressed' /\ Kept' /\ Laid({t \in Tensors : Given(t)}, addr, AlignedSizes)'
  BY <1>8 DEF Addressed, Kept, Laid
<1>11. Typed'
  <2>4. at' \in 1..NLeafs + NNodes + 1
    BY <1>1, CountsAssumption
  <2>5. Walking' => pos' <= 2 * Len(Src(at)') + 1
    <3> SUFFICES ASSUME at' \in Tensors PROVE 1 <= 2 * Len(Src(at)') + 1
      BY <1>1 DEF Walking
    <3>1. Src(at)' = Src(at')
      BY <1>1 DEF Src
    <3> QED
      BY <1>3, <3>1
  <2> QED
    BY <1>1, <1>2, <1>a, <1>b, <2>4, <2>5 DEF Typed, Stages, Walking
<1>12. Saved'
  BY <1>1, <1>2, SavedStill
<1>13. Used'
  BY <1>1 DEF Used
<1> QED
  BY <1>4, <1>7, <1>9, <1>10, <1>11, <1>12, <1>13 DEF GInv, InPlan

\* The end of a plan: what every tensor got is kept, and fits the buffer there is now.
LEMMA EndKeeps ==
    ASSUME GInv, EndPlan
    PROVE  GInv'
<1>1. /\ Planning /\ ~Walking
      /\ saved' = [t \in Tensors |-> IF t \in Placed THEN [addr |-> addr[t], max |-> Size(t)]
                                     ELSE [addr |-> None, max |-> 0]]
      /\ UNCHANGED <<graph, bytes, at, pos, children, views, allocated, addr, place, calls>>
      /\ UNCHANGED <<nChunks, free, maxSize, live>>
      /\ stage' \in {"again", "realloc"}
      /\ \/ ~Outgrown /\ UNCHANGED <<buffer, refused>>
         \/ /\ buffer' = [c \in ChunkIds |-> IF c <= nChunks THEN maxSize[c] ELSE 0]
            /\ UNCHANGED refused
         \/ buffer' = None /\ refused < Refusals /\ refused' = refused + 1
  BY DEF EndPlan, walkVars, hashVars, dynVars
<1>2. DynInv /\ Typed /\ Addressed /\ Laid({t \in Tensors : Given(t)}, addr, AlignedSizes)
  BY <1>1 DEF GInv, InPlan
<1>3. \A t \in Tensors : Given(t) <=> t \in Placed
  <2>1. \A t \in Tensors : t \in Nat /\ t < at
    <3>1. NLeafs + NNodes \in Nat /\ at \in 1..NLeafs + NNodes + 1 /\ at \notin 1..NLeafs + NNodes
      BY <1>1, <1>2, CountsAssumption DEF Typed, Walking, Tensors
    <3> DEFINE all == NLeafs + NNodes
    <3> HIDE DEF all
    <3>2. at = all + 1
      BY <3>1 DEF all
    <3> QED
      BY <3>1, <3>2 DEF Tensors, all
  <2> QED
    BY <2>1 DEF Given
<1>4. DynInv'
  BY <1>1, <1>2 DEF DynInv, DynTypeOK, FreeApart, NoOverlap, InBuffer
<1>5. nChunks \in 0..MaxChunks /\ maxSize \in [ChunkIds -> Nat] /\ MaxChunks \in Nat
  BY <1>2, ChunksAssumption DEF DynInv, DynTypeOK
<1>6. Typed'
  <2>1. buffer' # None => buffer' \in [ChunkIds -> Nat]
    BY <1>1, <1>2, <1>5 DEF Typed
  <2>2. refused' \in 0..Refusals
    BY <1>1, <1>2, CountsAssumption DEF Typed
  <2>3. Src(at)' = Src(at) /\ Walking' = Walking
    BY <1>1 DEF Src, Walking
  <2> QED
    BY <1>1, <1>2, <2>1, <2>2, <2>3 DEF Typed, Stages
<1>7. \A t \in Placed : /\ t \in Tensors /\ addr[t] \in Addresses /\ addr[t].chunk <= nChunks
                        /\ addr[t].off + Aligned(Size(t)) <= maxSize[addr[t].chunk]
                        /\ Size(t) \in Nat /\ Aligned(Size(t)) \in Nat
                        /\ addr[t].chunk \in ChunkIds /\ addr[t].off \in Nat
  BY <1>2, <1>3, PlacedSize DEF Addressed, Placed, Addresses, Typed
<1>8. \A t \in Placed : saved'[t].addr = addr[t] /\ saved'[t].max = Size(t)
  <2>1. \A t \in Placed : saved'[t] = [addr |-> addr[t], max |-> Size(t)]
    BY <1>1, <1>7
  <2>2. ASSUME NEW t \in Placed PROVE saved'[t].addr = addr[t] /\ saved'[t].max = Size(t)
    <3>1. PICK x, y : x = addr[t] /\ y = Size(t)
      OBVIOUS
    <3>2. saved'[t] = [addr |-> x, max |-> y]
      BY <2>1, <3>1
    <3>3. saved'[t].addr = x /\ saved'[t].max = y
      BY <3>2
    <3> QED
      BY <3>1, <3>3
  <2> QED
    BY <2>2
<1>9. Placed' = Placed
  BY <1>1, GraphSame
<1>10. Saved'
  <2> DEFINE a == [t \in Placed |-> addr[t]]
             z == [t \in Placed |-> Aligned(Size(t))]
  <2>1. /\ [t \in Placed |-> saved[t].addr]' = a
        /\ [t \in Placed |-> Aligned(saved[t].max)]' = z
    <3> SUFFICES /\ [t \in Placed' |-> saved'[t].addr] = a
                 /\ [t \in Placed' |-> Aligned(saved'[t].max)] = z
      BY DEF Aligned
    <3> QED
      BY <1>8, <1>9
  <2>2. Laid(Placed, a, z)
    <3> SUFFICES ASSUME NEW t \in Placed, NEW m \in Placed, t < m, ~Clear(a, z, t, m)
                 PROVE  ReadBefore(a, t, m) /\ t \notin graph.out /\ m \notin Leafs
      BY DEF Laid
    <3>1. t \in Tensors /\ m \in Tensors /\ Given(t) /\ Given(m)
      BY <1>3, <1>7
    <3>2. ~Clear(addr, AlignedSizes, t, m)
      BY DEF Clear, AlignedSizes
    <3>3. ReadBefore(addr, t, m) /\ t \notin graph.out /\ m \notin Leafs
      BY <1>2, <3>1, <3>2 DEF Laid
    <3>4. a[t] = addr[t] /\ a[m] = addr[m]
      OBVIOUS
    <3> HIDE DEF a
    <3>5. ReadBefore(a, t, m)
      BY <3>3, <3>4 DEF ReadBefore
    <3> QED
      BY <3>3, <3>5
  <2>4. ASSUME buffer' # None, NEW t \in Placed
        PROVE  addr[t].off + Aligned(Size(t)) <= buffer'[addr[t].chunk]
    <3> DEFINE d == addr[t].chunk
               e == addr[t].off + Aligned(Size(t))
    <3>1. d \in ChunkIds /\ d \in 1..nChunks /\ e \in Nat /\ e <= maxSize[d] /\ maxSize[d] \in Nat
      BY <1>5, <1>7 DEF ChunkIds
    <3> HIDE DEF d, e
    <3>2. maxSize[d] <= buffer'[d]
      <4>1. CASE ~Outgrown /\ UNCHANGED buffer
        <5>1. buffer # None /\ ~(maxSize[d] > buffer[d])
          BY <3>1, <4>1 DEF Outgrown
        <5>2. buffer[d] \in Nat
          BY <1>2, <3>1, <5>1 DEF Typed
        <5> QED
          BY <3>1, <4>1, <5>1, <5>2
      <4>2. CASE buffer' = [c \in ChunkIds |-> IF c <= nChunks THEN maxSize[c] ELSE 0]
        BY <1>5, <3>1, <4>2
      <4> QED
        BY <1>1, <2>4, <4>1, <4>2
    <3>3. buffer'[d] \in Nat
      <4>1. buffer' \in [ChunkIds -> Nat]
        BY <1>6, <2>4 DEF Typed, ChunkIds
      <4> QED
        BY <3>1, <4>1
    <3> QED
      BY <3>1, <3>2, <3>3 DEF d, e
  <2>5. /\ \A t \in Placed' : saved'[t].addr \in Addresses' /\ saved'[t].max \in Nat
        /\ buffer' # None => \A t \in Placed' :
              saved'[t].addr.off + Aligned(saved'[t].max) <= buffer'[saved'[t].addr.chunk]
    BY <1>7, <1>8, <1>9, <2>4 DEF Addresses, ChunkIds
  <2>6. PICK x, y : x = a /\ y = z
    OBVIOUS
  <2>7. Laid(Placed, x, y)'
    <3>1. Laid(Placed, x, y)
      BY <2>2, <2>6
    <3> QED
      BY <1>1, <1>9, <3>1, GraphSame DEF Laid, Clear, ReadBefore
  <2>8. Laid(Placed, [t \in Placed |-> saved[t].addr], [t \in Placed |-> Aligned(saved[t].max)])'
    <3> HIDE DEF a, z
    <3> QED
      BY <2>1, <2>6, <2>7 DEF Laid, Clear, ReadBefore
  <2> QED
    BY <2>5, <2>8 DEF Saved, Aligned
<1>11. ~Planning' /\ Used'
  BY <1>1 DEF Planning, Used
<1> QED
  BY <1>4, <1>6, <1>10, <1>11 DEF GInv

\* A ready graph fits the plan: nothing had to be allocated anew (needs_realloc).
LEMMA InitKeeps ==
    ASSUME GInv, ~NeedsRealloc, InitTensors
    PROVE  GInv'
<1>1. /\ UNCHANGED <<graph, bytes, at, pos, children, views, allocated, addr, saved, buffer>>
      /\ UNCHANGED <<calls, refused, nChunks, free, maxSize, live>>
      /\ \/ stage' = "crashed"
         \/ /\ buffer # None /\ stage' = "ready"
            /\ place' = [t \in Tensors |-> saved[t].addr]
  BY DEF InitTensors, walkVars, hashVars, dynVars
<1>2. DynInv /\ Typed /\ Saved
  BY DEF GInv
<1>3. DynInv'
  BY <1>1, <1>2 DEF DynInv, DynTypeOK, FreeApart, NoOverlap, InBuffer
<1>4. Typed'
  <2>1. Src(at)' = Src(at) /\ Walking' = Walking
    BY <1>1 DEF Src, Walking
  <2> QED
    BY <1>1, <1>2, <2>1 DEF Typed, Stages
<1>5. Saved'
  BY <1>1, <1>2, SavedStill
<1>6. Used'
  <2> SUFFICES ASSUME stage' = "ready" PROVE Used'
    BY DEF Used
  <2>1. buffer # None /\ place' = [t \in Tensors |-> saved[t].addr]
    BY <1>1
  <2>2. saved # None /\ \A t \in Placed : ~(saved[t].max < Size(t))
    BY DEF NeedsRealloc
  <2>3. \A t \in Placed : t \in Tensors /\ saved[t].max \in Nat /\ Size(t) \in Nat
    BY <1>2, <2>2, PlacedSize DEF Saved, Typed
  <2>4. \A t \in Placed : place'[t] = saved[t].addr
    BY <2>1, <2>3
  <2>5. \A t \in Placed : Size(t) <= saved[t].max
    BY <2>2, <2>3
  <2> QED
    BY <1>1, <2>1, <2>2, <2>4, <2>5, GraphSame DEF Used
<1>7. ~Planning'
  BY <1>1 DEF Planning
<1> QED
  BY <1>3, <1>4, <1>5, <1>6, <1>7 DEF GInv

LEMMA CallKeeps ==
    ASSUME GInv, Call
    PROVE  GInv'
<1>1. /\ UNCHANGED <<graph, at, pos, children, views, allocated, addr, saved, buffer>>
      /\ UNCHANGED <<refused, nChunks, free, maxSize, live>>
      /\ bytes' \in Sizings /\ stage' = "alloc" /\ calls < MaxCalls /\ calls' = calls + 1
  BY DEF Call, walkVars, hashVars, dynVars
<1>2. DynInv /\ Typed /\ Saved
  BY DEF GInv
<1>3. DynInv'
  BY <1>1, <1>2 DEF DynInv, DynTypeOK, FreeApart, NoOverlap, InBuffer
<1>4. Typed'
  <2>1. Src(at)' = Src(at) /\ Walking' = Walking
    BY <1>1 DEF Src, Walking
  <2>2. calls' \in 0..MaxCalls
    BY <1>1, <1>2, CountsAssumption DEF Typed
  <2> QED
    BY <1>1, <1>2, <2>1, <2>2 DEF Typed, Stages
<1>5. Saved'
  BY <1>1, <1>2, SavedStill
<1>6. ~Planning' /\ Used'
  BY <1>1 DEF Planning, Used
<1> QED
  BY <1>3, <1>4, <1>5, <1>6 DEF GInv

\* A step of the walk leaves the kept plan alone.
LEMMA WalkKeeps ==
    ASSUME GInv, NEW t \in Tensors, AllocateNode(t) \/ Release(t)
    PROVE  GInv'
<1>1. /\ Planning
      /\ UNCHANGED <<graph, bytes, stage, saved, buffer>>
  BY DEF AllocateNode, Release, Step
<1>2. DynInv /\ Typed /\ InPlan /\ Saved
  BY <1>1 DEF GInv
<1>3. InPlan' /\ DynInv' /\ Typed'
  BY <1>2, AllocateKeeps, ReleaseKeeps
<1>4. Saved'
  BY <1>1, <1>2, SavedStill
<1>5. Used'
  BY <1>1 DEF Planning, Used
<1> QED
  BY <1>3, <1>4, <1>5 DEF GInv

\* The graph allocator's invariant.
THEOREM GallocInvariant == Spec => []GInv
<1>1. Init => GInv
  <2> SUFFICES ASSUME Init PROVE GInv
    OBVIOUS
  <2>1. /\ graph \in Topologies /\ bytes \in Sizings
        /\ stage = "idle" /\ at = NLeafs + NNodes + 1 /\ pos = 1
        /\ children \in [Tensors -> Nat] /\ views \in [Tensors -> Nat]
        /\ allocated \in [Tensors -> BOOLEAN] /\ DOMAIN addr = Tensors
        /\ saved = None /\ buffer = None
        /\ calls = 0 /\ refused = 0
    BY CountsAssumption DEF Init
  <2>2. DynInv
    BY ChunksAssumption
       DEF Init, DynInit, DynInv, DynTypeOK, FreeApart, NoOverlap, InBuffer, ChunkIds
  <2>3. at \in 1..NLeafs + NNodes + 1 /\ ~Walking
    <3>1. NLeafs + NNodes \in Nat
      BY CountsAssumption
    <3> DEFINE all == NLeafs + NNodes
    <3> HIDE DEF all
    <3>2. at \in 1..all + 1 /\ at \notin 1..all
      BY <2>1, <3>1 DEF all
    <3> QED
      BY <3>2 DEF all, Walking, Tensors
  <2>4. Typed
    BY <2>1, <2>3, CountsAssumption DEF Typed, Stages
  <2> QED
    BY <2>1, <2>2, <2>4 DEF GInv, Planning, Saved, Used
<1>2. GInv /\ [Next]_vars => GInv'
  <2> SUFFICES ASSUME GInv, [Next]_vars PROVE GInv'
    OBVIOUS
  <2>1. CASE Call
    BY <2>1, CallKeeps
  <2>2. CASE AllocGraph
    <3>1. CASE BeginPlan("plan") \/ BeginPlan("replan")
      BY <3>1, BeginKeeps
    <3>2. CASE ~NeedsRealloc /\ InitTensors
      BY <3>2, InitKeeps
    <3> QED
      BY <2>2, <3>1, <3>2 DEF AllocGraph
  <2>3. CASE \E t \in Tensors : AllocateNode(t) \/ Release(t)
    BY <2>3, WalkKeeps
  <2>4. CASE EndPlan
    BY <2>4, EndKeeps
  <2>5. CASE UNCHANGED vars
    <3>1. /\ UNCHANGED <<graph, bytes, stage, at, pos, children, views, allocated, addr, saved>>
          /\ UNCHANGED <<buffer, place, calls, refused, nChunks, free, maxSize, live>>
      BY <2>5 DEF vars, gVars, walkVars, hashVars, dynVars
    <3>2. DynInv'
      BY <3>1 DEF GInv, DynInv, DynTypeOK, FreeApart, NoOverlap, InBuffer
    <3>3. Typed'
      <4>1. Src(at)' = Src(at) /\ Walking' = Walking
        BY <3>1 DEF Src, Walking
      <4> QED
        BY <3>1, <4>1 DEF GInv, Typed
    <3>4. Saved'
      BY <3>1, SavedStill DEF GInv
    <3>5. Used'
      BY <3>1, GraphSame DEF GInv, Used
    <3>6. Planning' => InPlan'
      <4> SUFFICES ASSUME Planning PROVE InPlan'
        BY <3>1 DEF Planning
      <4>1. InPlan
        BY DEF GInv
      <4>2. \A t : UsesLeft(t)' = UsesLeft(t) /\ ViewsLeft(t)' = ViewsLeft(t)
                   /\ (Given(t)' <=> Given(t)) /\ Region(t)' = Region(t)
        BY <3>1, GraphSame DEF UsesLeft, ViewsLeft, Given, Region, Dropped, Aligned
      <4>3. Counted' /\ Owned' /\ Addressed' /\ Kept'
        BY <3>1, <4>1, <4>2, GraphSame
           DEF InPlan, Counted, Owned, Addressed, Kept, Walking, Addresses, ChunkIds, Aligned
      <4>4. Laid({t \in Tensors : Given(t)}, addr, AlignedSizes)'
        BY <3>1, <4>1, <4>2, GraphSame DEF InPlan, Laid, Clear, ReadBefore
      <4> QED
        BY <4>3, <4>4 DEF InPlan
    <3> QED
      BY <3>2, <3>3, <3>4, <3>5, <3>6 DEF GInv
  <2> QED
    BY <2>1, <2>2, <2>3, <2>4, <2>5 DEF Next
<1> QED
  BY <1>1, <1>2, PTL DEF Spec

-----------------------------------------------------------------------------
\* Types of the hash table, the walk and the allocator.
THEOREM GraphTypes == Spec => []TypeOK
<1>1. GInv => TypeOK
  BY DEF GInv, DynInv, Typed, Stages, TypeOK
<1> QED
  BY <1>1, GallocInvariant, PTL

\* At every step of a plan each allocated tensor has one region to itself and each
\* region a tensor that will free it (ggml_gallocr_allocate_node, _free_node).
THEOREM RegionsStayOwned == Spec => []RegionsOwned
<1>1. GInv => RegionsOwned
  BY DEF GInv, InPlan, Owned, RegionsOwned
<1> QED
  BY <1>1, GallocInvariant, PTL

\* In a ready graph the tensors are laid out by the kept plan, with room to spare.
LEMMA ReadyLayout ==
    ASSUME GInv, Ready, NEW t \in Placed, NEW m \in Placed, t < m, Meet(t, m) \/ Meet(m, t)
    PROVE  /\ t \notin graph.out /\ m \notin Leafs
           /\ \A n \in Nodes : \A j \in DOMAIN Src(n) :
                 Root(Src(n)[j]) = t =>
                    n < m \/ (n = m /\ Op(n) = "inplace" /\ place[n] = place[t] /\ SameLayout(n, t))
<1> DEFINE a == [x \in Placed |-> saved[x].addr]
           z == [x \in Placed |-> Aligned(saved[x].max)]
<1>1. Laid(Placed, a, z)
  BY DEF GInv, Saved, Used, Ready
<1>2. \A x \in Placed : /\ place[x] = a[x] /\ place[x] \in Addresses
                        /\ Size(x) \in Nat /\ z[x] \in Nat /\ Size(x) <= z[x]
  <2> SUFFICES ASSUME NEW x \in Placed
               PROVE  /\ place[x] = saved[x].addr /\ place[x] \in Addresses
                      /\ Size(x) \in Nat /\ Aligned(saved[x].max) \in Nat
                      /\ Size(x) <= Aligned(saved[x].max)
    OBVIOUS
  <2>1. /\ place[x] = saved[x].addr /\ saved[x].addr \in Addresses /\ saved[x].max \in Nat
        /\ Size(x) <= saved[x].max
    BY DEF GInv, Saved, Used, Ready
  <2>2. Size(x) \in Nat
    BY PlacedSize DEF GInv, Typed
  <2>3. Aligned(saved[x].max) \in Nat /\ saved[x].max <= Aligned(saved[x].max)
    BY <2>1, AlignedCovers
  <2> QED
    BY <2>1, <2>2, <2>3
<1> HIDE DEF a, z
<1>3. ~Clear(a, z, t, m)
  <2>1. /\ place[t].off \in Nat /\ place[m].off \in Nat
        /\ place[t] = a[t] /\ place[m] = a[m]
        /\ Size(t) \in Nat /\ z[t] \in Nat /\ Size(t) <= z[t]
        /\ Size(m) \in Nat /\ z[m] \in Nat /\ Size(m) <= z[m]
    BY <1>2 DEF Addresses
  <2> QED
    BY <2>1 DEF Clear, Meet
<1>4. ReadBefore(a, t, m) /\ t \notin graph.out /\ m \notin Leafs
  BY <1>1, <1>3 DEF Laid
<1> QED
  BY <1>2, <1>4 DEF ReadBefore

\* When a node runs, every source still has the bytes written to it
\* (ggml_gallocr_alloc_graph_impl: memory is reused after the last use only).
THEOREM SourcesStayIntact == Spec => []SourcesIntact
<1>1. GInv => SourcesIntact
  <2> SUFFICES ASSUME GInv, Ready, NEW n \in Nodes, NEW j \in DOMAIN Src(n),
                      Root(Src(n)[j]) \in Placed
               PROVE  LET t == Root(Src(n)[j])
                      IN  /\ \A m \in Nodes \cap Placed :
                                Between(t, m, n) /\ Meet(t, m) =>
                                    m = n /\ Op(n) = "inplace" /\ place[n] = place[t]
                                          /\ SameLayout(n, t)
                          /\ \A l \in Leafs \cap Placed : l # t /\ t \in Leafs => ~Meet(l, t)
    BY DEF SourcesIntact
  <2>1. PICK t \in Placed : t = Root(Src(n)[j])
    OBVIOUS
  <2>2. ASSUME NEW m \in Nodes \cap Placed, Between(t, m, n), Meet(t, m)
        PROVE  m = n /\ Op(n) = "inplace" /\ place[n] = place[t] /\ SameLayout(n, t)
    <3>1. t \in Nat /\ m \in Nat /\ n \in Nat /\ t < m /\ m <= n
      BY <2>2, CountsAssumption DEF Between, Placed, Tensors, Nodes
    <3>2. n < m \/ (n = m /\ Op(n) = "inplace" /\ place[n] = place[t] /\ SameLayout(n, t))
      BY <2>1, <2>2, <3>1, ReadyLayout
    <3> QED
      BY <3>1, <3>2
  <2>3. ASSUME NEW l \in Leafs \cap Placed, l # t, t \in Leafs, Meet(l, t)
        PROVE  FALSE
    <3>1. l < t \/ t < l
      BY <2>3, CountsAssumption DEF Leafs
    <3>2. CASE l < t
      BY <2>3, <3>2, ReadyLayout
    <3>3. CASE t < l
      BY <2>3, <3>3, ReadyLayout
    <3> QED
      BY <3>1, <3>2, <3>3
  <2> QED
    BY <2>1, <2>2, <2>3
<1> QED
  BY <1>1, GallocInvariant, PTL

\* "output tensors are never freed and never overwritten" (ggml-alloc.c).
THEOREM OutputsStay == Spec => []OutputsKept
<1>1. GInv => OutputsKept
  <2> SUFFICES ASSUME GInv, Ready, NEW t \in graph.out \cap Placed, NEW m \in Nodes \cap Placed,
                      m > t, Meet(t, m)
               PROVE  FALSE
    BY DEF OutputsKept
  <2>1. t < m
    BY CountsAssumption DEF Placed, Tensors, Nodes
  <2> QED
    BY <2>1, ReadyLayout
<1> QED
  BY <1>1, GallocInvariant, PTL

\* Every tensor lies inside its buffer, whatever sizes the plan was made for
\* (ggml_gallocr_needs_realloc, ggml_gallocr_reserve_n_impl).
THEOREM TensorsInside == Spec => []InsideBuffer
<1>1. GInv => InsideBuffer
  <2> SUFFICES ASSUME GInv, Ready, NEW t \in Placed
               PROVE  place[t].off + Size(t) <= buffer[place[t].chunk]
    BY DEF InsideBuffer
  <2>1. /\ place[t] = saved[t].addr /\ saved[t].addr \in Addresses /\ saved[t].max \in Nat
        /\ Size(t) <= saved[t].max /\ buffer # None
        /\ saved[t].addr.off + Aligned(saved[t].max) <= buffer[saved[t].addr.chunk]
    BY DEF GInv, Saved, Used, Ready
  <2>2. Size(t) \in Nat /\ Aligned(saved[t].max) \in Nat /\ saved[t].max <= Aligned(saved[t].max)
    BY <2>1, PlacedSize, AlignedCovers DEF GInv, Typed
  <2>3. saved[t].addr.off \in Nat /\ buffer[saved[t].addr.chunk] \in Nat
    BY <2>1 DEF GInv, Typed, Addresses
  <2> QED
    BY <2>1, <2>2, <2>3
<1> QED
  BY <1>1, GallocInvariant, PTL

\* The graph allocator uses the dynamic allocator as that is specified: it asks for
\* aligned sizes and frees only regions it was given.
THEOREM GraphUsesTalloc == Spec => DynSpec
<1>1. Init => DynInit
  BY DEF Init
<1>2. GInv /\ [Next]_vars => [DynNext]_dynVars
  <2> SUFFICES ASSUME GInv, [Next]_vars PROVE DynNext \/ UNCHANGED dynVars
    OBVIOUS
  <2>1. ASSUME Call \/ EndPlan \/ UNCHANGED vars PROVE UNCHANGED dynVars
    BY <2>1 DEF Call, EndPlan, vars
  <2>2. ASSUME AllocGraph PROVE DynNext \/ UNCHANGED dynVars
    BY <2>2 DEF AllocGraph, BeginPlan, InitTensors, DynNext
  <2>3. ASSUME NEW t \in Tensors, AllocateNode(t) PROVE DynNext \/ UNCHANGED dynVars
    <3>1. CASE UNCHANGED dynVars
      BY <3>1
    <3>2. CASE t \in Placed /\ \E c \in ChunkIds : \E o \in {0} \cup {b.off : b \in free[c]} :
                  TallocAlloc(Aligned(Size(t)), c, o)
      <4>1. Size(t) \in Sizes
        BY <3>2, GraphFacts DEF GInv, Typed
      <4> QED
        BY <3>2, <4>1 DEF DynNext
    <3> QED
      BY <2>3, <3>1, <3>2 DEF AllocateNode, Keep, TakeOver
  <2>4. ASSUME NEW p \in Tensors, Release(p) PROVE DynNext \/ UNCHANGED dynVars
    <3>1. ASSUME NEW f \in Tensors, FreeIfOwn(f) PROVE DynNext \/ UNCHANGED dynVars
      <4>1. Planning
        BY <2>4 DEF Release, Step
      <4>2. allocated[f] => Region(f) \in live
        BY <4>1 DEF GInv, InPlan, Owned
      <4> QED
        BY <3>1, <4>2 DEF FreeIfOwn, FreeNode, DynNext
    <3>2. Root(p) \in Tensors
      BY GraphFacts DEF GInv, Typed
    <3> QED
      BY <2>4, <3>1, <3>2 DEF Release
  <2> QED
    BY <2>1, <2>2, <2>3, <2>4 DEF Next
<1> QED
  BY <1>1, <1>2, GallocInvariant, PTL DEF Spec, DynSpec
=================================================================================
