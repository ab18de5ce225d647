---------------------------- MODULE DynAllocProofs ----------------------------
(***************************************************************************)
(* The allocator never hands out a byte twice, for any sizes, alignment    *)
(* and chunk limits, and for any order of allocations and frees.           *)
(*                                                                         *)
(* NoOverlap alone is not inductive: the free blocks of a chunk must not   *)
(* share bytes among themselves either, or a region cut from one of them   *)
(* would still be listed in another.                                       *)
(***************************************************************************)
EXTENDS DynAlloc, TLAPS

\* Free blocks of one chunk do not share a byte.
FreeApart == \A c \in ChunkIds : \A a, b \in free[c] : a # b => Apart(a, b)

DynInv == DynTypeOK /\ FreeApart /\ NoOverlap /\ InBuffer

-----------------------------------------------------------------------------
\* Rounding up keeps a size positive (aligned_offset).
LEMMA AlignedType ==
    ASSUME NEW s \in Nat \ {0}
    PROVE  Aligned(s) \in Nat \ {0}
<1>1. s % Alignment \in 0..Alignment - 1
  BY AlignmentAssumption
<1>2. Alignment - (s % Alignment) \in Nat
  BY <1>1, AlignmentAssumption
<1>3. (Alignment - (s % Alignment)) % Alignment \in 0..Alignment - 1
  BY <1>2, AlignmentAssumption
<1> QED
  BY <1>3, AlignmentAssumption DEF Aligned

\* What is left of a block after a cut is a block inside it.
LEMMA CutBlocks ==
    ASSUME NEW F \in SUBSET Blocks, NEW b \in Blocks, NEW s \in Nat \ {0}, b.size >= s
    PROVE  /\ Cut(F, b, s) \subseteq Blocks
           /\ \A x \in Cut(F, b, s) :
                 \/ x \in F /\ x # b
                 \/ x.off = b.off + s /\ x.size = b.size - s /\ x.size > 0
BY DEF Cut, Blocks

\* Taking the front of a free block keeps the invariant, whichever block it is.
LEMMA TakeKeeps ==
    ASSUME DynInv, NEW c \in 1..nChunks, NEW b \in free[c], NEW s \in Nat \ {0},
           b.size >= s, Take(c, b, s), UNCHANGED nChunks
    PROVE  DynInv'
<1> DEFINE new == [chunk |-> c, off |-> b.off, size |-> s]
<1>1. c \in ChunkIds /\ b \in Blocks /\ free[c] \subseteq Blocks
  <2>1. nChunks \in 0..MaxChunks /\ MaxChunks \in Nat /\ free \in [ChunkIds -> SUBSET Blocks]
    BY ChunksAssumption DEF DynInv, DynTypeOK
  <2>2. c \in ChunkIds
    BY <2>1 DEF ChunkIds
  <2> QED
    BY <2>1, <2>2
<1>2. /\ free' = [free EXCEPT ![c] = Cut(free[c], b, s)]
      /\ maxSize' = [maxSize EXCEPT ![c] = IF b.off + s > maxSize[c] THEN b.off + s ELSE maxSize[c]]
      /\ live' = live \cup {new} /\ nChunks' = nChunks
  BY DEF Take
<1>3. /\ Cut(free[c], b, s) \subseteq Blocks
      /\ \A x \in Cut(free[c], b, s) :
            \/ x \in free[c] /\ x # b
            \/ x.off = b.off + s /\ x.size = b.size - s /\ x.size > 0
  BY <1>1, CutBlocks
<1>4. new \in [chunk : ChunkIds, off : Nat, size : Nat \ {0}]
  BY <1>1 DEF Blocks
<1>5. DynTypeOK'
  BY <1>1, <1>2, <1>3, <1>4 DEF DynInv, DynTypeOK, Blocks
<1>6. FreeApart'
  <2> SUFFICES ASSUME NEW d \in ChunkIds, NEW x \in free'[d], NEW y \in free'[d], x # y
               PROVE  Apart(x, y)
    BY DEF FreeApart
  <2>1. CASE d # c
    BY <2>1, <1>2 DEF DynInv, DynTypeOK, FreeApart
  <2>2. CASE d = c
    <3>1. free'[c] = Cut(free[c], b, s)
      BY <1>1, <1>2 DEF DynInv, DynTypeOK
    <3>2. x \in Blocks /\ y \in Blocks
      BY <2>2, <3>1, <1>3
    <3>3. \A z \in free[c] : z # b => Apart(z, b) /\ Apart(b, z)
      BY <1>1 DEF DynInv, FreeApart
    <3>4. CASE x \in free[c] /\ x # b /\ y \in free[c] /\ y # b
      BY <3>4, <1>1 DEF DynInv, FreeApart
    <3>5. CASE x \in free[c] /\ x # b /\ y.off = b.off + s /\ y.size = b.size - s /\ y.size > 0
      BY <3>5, <3>2, <3>3, <1>1 DEF Apart, Blocks
    <3>6. CASE y \in free[c] /\ y # b /\ x.off = b.off + s /\ x.size = b.size - s /\ x.size > 0
      BY <3>6, <3>2, <3>3, <1>1 DEF Apart, Blocks
    <3>7. CASE x.off = b.off + s /\ x.size = b.size - s /\ y.off = b.off + s /\ y.size = b.size - s
      BY <3>7, <3>2 DEF Blocks
    <3> QED
      BY <2>2, <3>1, <1>3, <3>4, <3>5, <3>6, <3>7
  <2> QED
    BY <2>1, <2>2
<1>7. \A l \in live : l.chunk = c => Apart(l, new)
  BY <1>1 DEF DynInv, DynTypeOK, NoOverlap, Apart, Blocks
<1>8. \A d \in ChunkIds : d # c => free'[d] = free[d] /\ maxSize'[d] = maxSize[d]
  BY <1>2 DEF DynInv, DynTypeOK
<1>9. NoOverlap'
  <2>1. ASSUME NEW l \in live', NEW m \in live', l # m, l.chunk = m.chunk PROVE Apart(l, m)
    <3>1. CASE l \in live /\ m \in live
      BY <3>1, <2>1 DEF DynInv, NoOverlap
    <3>2. CASE l = new \/ m = new
      BY <3>2, <2>1, <1>2, <1>7 DEF Apart
    <3> QED
      BY <3>1, <3>2, <1>2
  <2>2. ASSUME NEW l \in live', NEW x \in free'[l.chunk] PROVE Apart(l, x)
    <3>1. l \in [chunk : ChunkIds, off : Nat, size : Nat \ {0}]
      BY <1>5 DEF DynTypeOK
    <3>2. CASE l.chunk # c
      BY <3>1, <3>2, <1>2, <1>8 DEF DynInv, NoOverlap
    <3>3. CASE l.chunk = c
      <4>1. x \in Cut(free[c], b, s) /\ x \in Blocks
        BY <3>3, <1>1, <1>2, <1>3 DEF DynInv, DynTypeOK
      <4>2. \A z \in free[c] : z # b => Apart(z, b)
        BY <1>1 DEF DynInv, FreeApart
      <4>3. CASE l \in live
        <5>1. Apart(l, b) /\ (x \in free[c] => Apart(l, x))
          BY <4>3, <3>3 DEF DynInv, NoOverlap
        <5> QED
          BY <5>1, <4>1, <1>3, <1>1, <3>1 DEF Apart, Blocks
      <4>4. CASE l = new
        BY <4>1, <4>2, <4>4, <1>3, <1>1 DEF Apart, Blocks
      <4> QED
        BY <4>3, <4>4, <1>2
    <3> QED
      BY <3>2, <3>3
  <2> QED
    BY <2>1, <2>2 DEF NoOverlap
<1>10. InBuffer'
  BY <1>1, <1>2, <1>4, <1>8 DEF DynInv, DynTypeOK, InBuffer, Blocks
<1> QED
  BY <1>5, <1>6, <1>9, <1>10 DEF DynInv

\* A new chunk has no other region in it (ggml_dyn_tallocr_new_chunk).
LEMMA NewChunkKeeps ==
    ASSUME DynInv, NEW s \in Nat \ {0}, NEW c \in ChunkIds, NEW b \in Blocks,
           c = nChunks + 1, b.off = 0, b.size >= s,
           nChunks' = c,
           free' = [free EXCEPT ![c] = Cut({b}, b, s)],
           maxSize' = [maxSize EXCEPT ![c] = s],
           live' = live \cup {[chunk |-> c, off |-> 0, size |-> s]}
    PROVE  DynInv'
<1> DEFINE new == [chunk |-> c, off |-> 0, size |-> s]
<1>1. nChunks \in Nat /\ nChunks < c /\ c \in 0..MaxChunks
  BY ChunksAssumption DEF DynInv, DynTypeOK, ChunkIds
<1>2. b.off = 0 /\ b.size \in Nat
  BY DEF Blocks
<1>3. /\ Cut({b}, b, s) \subseteq Blocks
      /\ \A x \in Cut({b}, b, s) : x.off = s /\ x.size = b.size - s
  BY <1>2, CutBlocks
<1>4. \A l \in live : /\ l.chunk # c /\ l.chunk \in ChunkIds
                      /\ l \in [chunk : ChunkIds, off : Nat, size : Nat \ {0}]
  BY <1>1 DEF DynInv, DynTypeOK, InBuffer, ChunkIds
<1>5. DynTypeOK'
  <2>1. free' \in [ChunkIds -> SUBSET Blocks] /\ maxSize' \in [ChunkIds -> Nat]
    BY <1>3 DEF DynInv, DynTypeOK
  <2>2. new \in [chunk : ChunkIds, off : Nat, size : Nat \ {0}]
    OBVIOUS
  <2>3. live' \subseteq [chunk : ChunkIds, off : Nat, size : Nat \ {0}]
    BY <2>2 DEF DynInv, DynTypeOK
  <2> QED
    BY <1>1, <2>1, <2>3 DEF DynTypeOK
<1>6. \A d \in ChunkIds : d # c => free'[d] = free[d] /\ maxSize'[d] = maxSize[d]
  BY DEF DynInv, DynTypeOK
<1>7. free'[c] = Cut({b}, b, s) /\ maxSize'[c] = s
  BY DEF DynInv, DynTypeOK
<1>8. new.chunk = c /\ new.off = 0 /\ new.size = s
  OBVIOUS
<1>9. live' = live \cup {new}
  OBVIOUS
<1> HIDE DEF new
<1>10. FreeApart'
  <2> SUFFICES ASSUME NEW d \in ChunkIds, NEW x \in free'[d], NEW y \in free'[d], x # y
               PROVE  Apart(x, y)
    BY DEF FreeApart
  <2>1. CASE d # c
    BY <2>1, <1>6 DEF DynInv, FreeApart
  <2>2. CASE d = c
    <3>1. x \in Blocks /\ y \in Blocks /\ x.off = y.off /\ x.size = y.size
      BY <2>2, <1>3, <1>7
    <3> QED
      BY <3>1 DEF Blocks
  <2> QED
    BY <2>1, <2>2
<1>11. NoOverlap'
  <2>1. \A l \in live : \A x \in free'[l.chunk] : Apart(l, x)
    BY <1>4, <1>6 DEF DynInv, NoOverlap
  <2>2. \A x \in free'[new.chunk] : Apart(new, x)
    <3> SUFFICES ASSUME NEW x \in Cut({b}, b, s) PROVE Apart(new, x)
      BY <1>7, <1>8
    <3>1. x.off = s /\ s \in Nat
      BY <1>3
    <3>2. new.off + new.size <= x.off
      BY <3>1, <1>8
    <3> QED
      BY <3>2 DEF Apart
  <2>3. \A l \in live' : \A x \in free'[l.chunk] : Apart(l, x)
    BY <2>1, <2>2, <1>9
  <2>4. \A l, m \in live' : l # m /\ l.chunk = m.chunk => Apart(l, m)
    BY <1>4, <1>8, <1>9 DEF DynInv, NoOverlap
  <2> QED
    BY <2>3, <2>4 DEF NoOverlap
<1>12. InBuffer'
  <2> SUFFICES ASSUME NEW l \in live'
               PROVE  l.chunk <= nChunks' /\ l.off + l.size <= maxSize'[l.chunk]
    BY DEF InBuffer
  <2>1. CASE l = new
    BY <2>1, <1>1, <1>7, <1>8
  <2>2. CASE l \in live
    <3>1. l.chunk <= nChunks /\ l.off + l.size <= maxSize[l.chunk] /\ l.chunk \in Nat
      BY <2>2, <1>4 DEF DynInv, InBuffer, ChunkIds
    <3> QED
      BY <3>1, <2>2, <1>1, <1>4, <1>6
  <2> QED
    BY <2>1, <2>2, <1>9
<1> QED
  BY <1>5, <1>10, <1>11, <1>12 DEF DynInv

\* ggml_dyn_tallocr_alloc keeps the invariant.
LEMMA AllocKeeps ==
    ASSUME DynInv, NEW s \in Nat \ {0}, NEW c, NEW o, TallocAlloc(s, c, o)
    PROVE  DynInv'
<1>1. CASE \E p \in BestInner(s) : Take(p[1], p[2], s) /\ UNCHANGED nChunks
  <2>1. PICK p \in BestInner(s) : Take(p[1], p[2], s) /\ UNCHANGED nChunks
    BY <1>1
  <2>2. p[1] \in 1..nChunks /\ p[2] \in free[p[1]] /\ p[2].size >= s
    BY DEF BestInner, Inner
  <2> QED
    BY <2>1, <2>2, TakeKeeps
<1>2. CASE \E p \in BestLast(s) : Take(p[1], p[2], s) /\ UNCHANGED nChunks
  <2>1. PICK p \in BestLast(s) : Take(p[1], p[2], s) /\ UNCHANGED nChunks
    BY <1>2
  <2>2. p[1] \in 1..nChunks /\ p[2] \in free[p[1]] /\ p[2].size >= s
    BY DEF BestLast, Last, LastBlock
  <2> QED
    BY <2>1, <2>2, TakeKeeps
<1>3. CASE /\ nChunks < MaxChunks /\ FirstBlock(s).size >= s /\ c = nChunks + 1
           /\ nChunks' = nChunks + 1
           /\ free' = [free EXCEPT ![c] = Cut({FirstBlock(s)}, FirstBlock(s), s)]
           /\ maxSize' = [maxSize EXCEPT ![c] = s]
           /\ live' = live \cup {[chunk |-> c, off |-> 0, size |-> s]}
  <2>1. c \in ChunkIds
    BY <1>3, ChunksAssumption DEF DynInv, DynTypeOK, ChunkIds
  <2>2. FirstBlock(s) \in Blocks /\ FirstBlock(s).off = 0
    BY ChunksAssumption DEF FirstBlock, Blocks
  <2> QED
    BY <1>3, <2>1, <2>2, NewChunkKeeps
<1> QED
  BY <1>1, <1>2, <1>3 DEF TallocAlloc

\* Freed lists some of the old blocks and one new one, which is apart from them
\* and from every region apart from the old blocks and the freed bytes.
MergesWell(F, o, s) ==
    \E m \in Blocks, G \in SUBSET F :
       /\ Freed(F, o, s) = G \cup {m}
       /\ \A x \in G : Apart(x, m)
       /\ \A x \in [chunk : ChunkIds, off : Nat, size : Nat \ {0}] :
             (x.off + x.size <= o \/ o + s <= x.off) /\ (\A b \in F : Apart(x, b)) => Apart(x, m)

\* A freed region and the free blocks next to it become one block with the same bytes.
LEMMA FreedBlocks ==
    ASSUME NEW F \in SUBSET Blocks, NEW o \in Nat, NEW s \in Nat \ {0},
           \A a, b \in F : a # b => Apart(a, b),
           \A b \in F : b.off + b.size <= o \/ o + s <= b.off
    PROVE  MergesWell(F, o, s)
<1> DEFINE before == {b \in F : b.off + b.size = o}
           after  == {b \in F : b.off = o + s}
           start  == IF before = {} THEN o ELSE (CHOOSE b \in before : TRUE).off
           end    == IF after = {} THEN o + s
                     ELSE LET b == CHOOSE b \in after : TRUE IN b.off + b.size
           m == [off |-> start, size |-> end - start]
           G == F \ (before \cup after)
<1>1. /\ before = {} => start = o
      /\ before # {} => \E b \in before : start = b.off
  OBVIOUS
<1>2. /\ after = {} => end = o + s
      /\ after # {} => \E b \in after : end = b.off + b.size
  OBVIOUS
<1>3. start \in Nat /\ start <= o
  BY <1>1 DEF Blocks
<1>4. end \in Nat /\ o + s <= end
  BY <1>2 DEF Blocks
<1>5. m \in Blocks /\ m.off = start /\ m.size = end - start /\ m.off + m.size = end
  BY <1>3, <1>4 DEF Blocks
<1>6. ASSUME NEW x, x.off \in Nat, x.size \in Nat \ {0},
             x.off + x.size <= o \/ o + s <= x.off,
             \A b \in before \cup after : Apart(x, b)
      PROVE  Apart(x, m)
  <2>1. CASE x.off + x.size <= o
    <3>1. x.off + x.size <= start
      <4>1. CASE before = {}
        BY <4>1, <2>1, <1>1
      <4>2. CASE before # {}
        <5>1. PICK b \in before : start = b.off
          BY <4>2, <1>1
        <5>2. b.off \in Nat /\ b.size \in Nat \ {0} /\ b.off + b.size = o /\ Apart(x, b)
          BY <1>6 DEF Blocks
        <5> QED
          BY <5>1, <5>2, <2>1, <1>6 DEF Apart
      <4> QED
        BY <4>1, <4>2
    <3> QED
      BY <3>1, <1>5 DEF Apart
  <2>2. CASE o + s <= x.off
    <3>1. end <= x.off
      <4>1. CASE after = {}
        BY <4>1, <2>2, <1>2
      <4>2. CASE after # {}
        <5>1. PICK b \in after : end = b.off + b.size
          BY <4>2, <1>2
        <5>2. b.off \in Nat /\ b.size \in Nat \ {0} /\ b.off = o + s /\ Apart(x, b)
          BY <1>6 DEF Blocks
        <5> QED
          BY <5>1, <5>2, <2>2, <1>6 DEF Apart
      <4> QED
        BY <4>1, <4>2
    <3> QED
      BY <3>1, <1>3, <1>4, <1>5 DEF Apart
  <2> QED
    BY <2>1, <2>2, <1>6
<1>7. \A x \in G : Apart(x, m)
  <2> SUFFICES ASSUME NEW x \in G PROVE Apart(x, m)
    OBVIOUS
  <2>1. x.off \in Nat /\ x.size \in Nat \ {0}
    BY DEF Blocks
  <2>2. \A b \in before \cup after : Apart(x, b)
    OBVIOUS
  <2> QED
    BY <2>1, <2>2, <1>6
<1>8. \A x \in [chunk : ChunkIds, off : Nat, size : Nat \ {0}] :
          (x.off + x.size <= o \/ o + s <= x.off) /\ (\A b \in F : Apart(x, b)) => Apart(x, m)
  <2> SUFFICES ASSUME NEW x \in [chunk : ChunkIds, off : Nat, size : Nat \ {0}],
                      x.off + x.size <= o \/ o + s <= x.off, \A b \in F : Apart(x, b)
               PROVE  Apart(x, m)
    OBVIOUS
  <2> QED
    BY <1>6
<1>9. Freed(F, o, s) = G \cup {m}
  BY DEF Freed
<1>10. m \in Blocks /\ G \in SUBSET F
  BY <1>5
<1>11. /\ m \in Blocks /\ G \in SUBSET F
       /\ Freed(F, o, s) = G \cup {m}
       /\ \A x \in G : Apart(x, m)
       /\ \A x \in [chunk : ChunkIds, off : Nat, size : Nat \ {0}] :
             (x.off + x.size <= o \/ o + s <= x.off) /\ (\A b \in F : Apart(x, b)) => Apart(x, m)
  BY <1>7, <1>8, <1>9, <1>10
<1> HIDE DEF m, G
<1> QED
  BY <1>11 DEF MergesWell

\* ggml_dyn_tallocr_free_bytes keeps the invariant.
LEMMA FreeKeeps ==
    ASSUME DynInv, NEW l \in live, TallocFree(l)
    PROVE  DynInv'
<1> DEFINE c == l.chunk
<1>1. /\ l \in [chunk : ChunkIds, off : Nat, size : Nat \ {0}]
      /\ free[c] \in SUBSET Blocks
  BY DEF DynInv, DynTypeOK
<1>2. /\ free' = [free EXCEPT ![c] = Freed(free[c], l.off, l.size)]
      /\ live' = live \ {l} /\ nChunks' = nChunks /\ maxSize' = maxSize
  BY DEF TallocFree
<1>3. \A b \in free[c] : b.off + b.size <= l.off \/ l.off + l.size <= b.off
  BY DEF DynInv, NoOverlap, Apart
<1>4. \A a, b \in free[c] : a # b => Apart(a, b)
  BY <1>1 DEF DynInv, FreeApart
<1>5. PICK m \in Blocks, G \in SUBSET free[c] :
          /\ Freed(free[c], l.off, l.size) = G \cup {m}
          /\ \A x \in G : Apart(x, m)
          /\ \A x \in [chunk : ChunkIds, off : Nat, size : Nat \ {0}] :
                (x.off + x.size <= l.off \/ l.off + l.size <= x.off)
                    /\ (\A b \in free[c] : Apart(x, b)) => Apart(x, m)
  <2> DEFINE F == free[c]
             o == l.off
             s == l.size
  <2>1. /\ F \in SUBSET Blocks /\ o \in Nat /\ s \in Nat \ {0}
        /\ \A a, b \in F : a # b => Apart(a, b)
        /\ \A b \in F : b.off + b.size <= o \/ o + s <= b.off
    BY <1>1, <1>3, <1>4
  <2> HIDE DEF F, o, s
  <2>2. MergesWell(F, o, s)
    BY <2>1, FreedBlocks
  <2> QED
    BY <2>2 DEF F, o, s, MergesWell
<1>6. free'[c] = G \cup {m} /\ \A d \in ChunkIds : d # c => free'[d] = free[d]
  BY <1>1, <1>2, <1>5 DEF DynInv, DynTypeOK
<1>7. DynTypeOK'
  BY <1>1, <1>2, <1>5 DEF DynInv, DynTypeOK
<1>8. FreeApart'
  <2> SUFFICES ASSUME NEW d \in ChunkIds, NEW x \in free'[d], NEW y \in free'[d], x # y
               PROVE  Apart(x, y)
    BY DEF FreeApart
  <2>1. CASE d # c
    BY <2>1, <1>6 DEF DynInv, FreeApart
  <2>2. CASE d = c
    BY <2>2, <1>4, <1>5, <1>6 DEF Apart
  <2> QED
    BY <2>1, <2>2
<1>9. NoOverlap'
  <2>1. \A k, n \in live' : k # n /\ k.chunk = n.chunk => Apart(k, n)
    BY <1>2 DEF DynInv, NoOverlap
  <2>2. ASSUME NEW k \in live', NEW x \in free'[k.chunk] PROVE Apart(k, x)
    <3>1. k \in live /\ k # l /\ k \in [chunk : ChunkIds, off : Nat, size : Nat \ {0}]
      BY <1>2 DEF DynInv, DynTypeOK
    <3>2. CASE k.chunk # c
      BY <3>1, <3>2, <1>6 DEF DynInv, NoOverlap
    <3>3. CASE k.chunk = c
      <4>1. \A b \in free[c] : Apart(k, b)
        BY <3>1, <3>3 DEF DynInv, NoOverlap
      <4>2. k.off + k.size <= l.off \/ l.off + l.size <= k.off
        BY <3>1, <3>3 DEF DynInv, NoOverlap, Apart
      <4>3. Apart(k, m)
        BY <4>1, <4>2, <3>1, <1>5
      <4> QED
        BY <4>1, <4>3, <3>3, <1>6
    <3> QED
      BY <3>2, <3>3
  <2> QED
    BY <2>1, <2>2 DEF NoOverlap
<1>10. InBuffer'
  BY <1>2 DEF DynInv, InBuffer
<1> QED
  BY <1>7, <1>8, <1>9, <1>10 DEF DynInv

-----------------------------------------------------------------------------
\* The invariant of the allocator, whatever is allocated and freed in any order.
THEOREM AllocatorInvariant == DynSpec => []DynInv
<1>1. DynInit => DynInv
  BY ChunksAssumption
     DEF DynInit, DynInv, DynTypeOK, FreeApart, NoOverlap, InBuffer, ChunkIds
<1>2. DynInv /\ [DynNext]_dynVars => DynInv'
  <2> SUFFICES ASSUME DynInv, [DynNext]_dynVars PROVE DynInv'
    OBVIOUS
  <2>1. ASSUME NEW s \in Sizes, NEW c \in ChunkIds, NEW o, TallocAlloc(Aligned(s), c, o)
        PROVE  DynInv'
    <3>1. Aligned(s) \in Nat \ {0}
      BY SizesAssumption, AlignedType
    <3> QED
      BY <2>1, <3>1, AllocKeeps
  <2>2. ASSUME NEW l \in live, TallocFree(l) PROVE DynInv'
    BY <2>2, FreeKeeps
  <2>3. CASE TallocReset
    BY <2>3, ChunksAssumption
       DEF TallocReset, DynInv, DynTypeOK, FreeApart, NoOverlap, InBuffer, ChunkIds
  <2>4. CASE UNCHANGED dynVars
    BY <2>4 DEF dynVars, DynInv, DynTypeOK, FreeApart, NoOverlap, InBuffer
  <2> QED
    BY <2>1, <2>2, <2>3, <2>4 DEF DynNext
<1> QED
  BY <1>1, <1>2, PTL DEF DynSpec

\* No byte is handed out twice (ggml_dyn_tallocr_alloc, ggml_dyn_tallocr_free_bytes).
THEOREM RegionsApart == DynSpec => []NoOverlap
BY AllocatorInvariant, PTL DEF DynInv

\* Every tensor lies inside the buffer sized by max_size (ggml_vbuffer_alloc).
THEOREM RegionsInBuffer == DynSpec => []InBuffer
BY AllocatorInvariant, PTL DEF DynInv
=============================================================================
