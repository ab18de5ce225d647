------------------------------- MODULE DynAlloc -------------------------------
(***************************************************************************)
(* ggml_dyn_tallocr: the allocator that plans where the tensors of a       *)
(* compute graph go.  It hands out regions of chunks (each chunk becomes a *)
(* backend buffer) from a list of free blocks, best fit first, and merges  *)
(* a freed region with the free blocks next to it.                         *)
(*                                                                         *)
(* The sorted array of free blocks is a set here: "the last block" is the  *)
(* one with the highest offset.  live is a ghost: the regions handed out.  *)
(***************************************************************************)
EXTENDS Integers, FiniteSets

CONSTANTS
    Sizes,          \* sizes asked for, in bytes
    Alignment,      \* alignment of the buffer type
    MaxChunkSize,   \* max_chunk_size: the largest buffer of the backend
    MaxChunks,      \* GGML_VBUFFER_MAX_CHUNKS
    Endless         \* SIZE_MAX/2, the size of the last chunk

ASSUME SizesAssumption == Sizes \subseteq Nat \ {0}
ASSUME AlignmentAssumption == Alignment \in Nat \ {0}
ASSUME ChunksAssumption == /\ MaxChunkSize \in Nat \ {0} /\ MaxChunks \in Nat \ {0}
                           /\ Endless \in Nat \ {0}

VARIABLES
    nChunks,    \* n_chunks
    free,       \* free_blocks of each chunk
    maxSize,    \* max_size of each chunk: the bytes the buffer will have
    live        \* regions allocated and not freed

dynVars == <<nChunks, free, maxSize, live>>

ChunkIds == 1..MaxChunks
Blocks   == [off : Nat, size : Nat \ {0}]

DynInit ==
    /\ nChunks = 0
    /\ free = [c \in ChunkIds |-> {}]
    /\ maxSize = [c \in ChunkIds |-> 0]
    /\ live = {}

-----------------------------------------------------------------------------
\* aligned_offset of a size.
Aligned(s) == s + ((Alignment - (s % Alignment)) % Alignment)

LastBlock(c) == {b \in free[c] : \A x \in free[c] : x.off <= b.off}

\* Free blocks other than the last of their chunk that hold s bytes.
Inner(s) ==
    UNION {{<<c, b>> : b \in {x \in free[c] \ LastBlock(c) : x.size >= s}} : c \in 1..nChunks}

\* The last chunk that has one wins; in it the smallest, the later one on a tie.
BestInner(s) ==
    {p \in Inner(s) : \A q \in Inner(s) :
        /\ q[1] <= p[1]
        /\ q[1] = p[1] => \/ p[2].size < q[2].size
                          \/ p[2].size = q[2].size /\ p[2].off >= q[2].off}

Last(s) ==
    UNION {{<<c, b>> : b \in {x \in LastBlock(c) : x.size >= s}} : c \in 1..nChunks}

\* reuse_factor: bytes left unused (>= 0), or by which the chunk grows (< 0).
Reuse(p, s) == maxSize[p[1]] - p[2].off - s

\* Least waste; if every chunk must grow, least growth.  On a tie the first chunk.
Prefer(p, q, s) ==
    LET r == Reuse(p, s)
        u == Reuse(q, s)
    IN  \/ r >= 0 /\ (u < 0 \/ r < u)
        \/ r < 0 /\ u < r
        \/ r = u /\ p[1] < q[1]

BestLast(s) == {p \in Last(s) : \A q \in Last(s) \ {p} : Prefer(p, q, s)}

\* What remains of block b of blocks F when s bytes are cut off its front.
Cut(F, b, s) ==
    (F \ {b}) \cup
    (IF b.size = s THEN {} ELSE {[off |-> b.off + s, size |-> b.size - s]})

\* Mutant: max_size follows the size of the region, not where it ends.
TakeLow(c, b, s) ==
    /\ free' = [free EXCEPT ![c] = Cut(@, b, s)]
    /\ maxSize' = [maxSize EXCEPT ![c] = IF s > @ THEN s ELSE @]
    /\ live' = live \cup {[chunk |-> c, off |-> b.off, size |-> s]}

\* Region of s bytes at the front of block b of chunk c.
Take(c, b, s) ==
    /\ free' = [free EXCEPT ![c] = Cut(@, b, s)]
    /\ maxSize' = [maxSize EXCEPT ![c] = IF b.off + s > @ THEN b.off + s ELSE @]
    /\ live' = live \cup {[chunk |-> c, off |-> b.off, size |-> s]}

\* The block a new chunk starts with.
FirstBlock(s) ==
    [off |-> 0, size |-> IF nChunks = MaxChunks - 1 THEN Endless
                         ELSE IF s > MaxChunkSize THEN s ELSE MaxChunkSize]

\* ggml_dyn_tallocr_alloc of s aligned bytes returns offset o of chunk c.
TallocAlloc(s, c, o) ==
    \/ \E p \in BestInner(s) :
          /\ c = p[1] /\ o = p[2].off
          /\ Take(p[1], p[2], s)
          /\ UNCHANGED nChunks
    \/ /\ Inner(s) = {}
       /\ \E p \in BestLast(s) :
             /\ c = p[1] /\ o = p[2].off
             /\ Take(p[1], p[2], s)
       /\ UNCHANGED nChunks
    \/ /\ Inner(s) = {} /\ Last(s) = {}
       /\ nChunks < MaxChunks
       /\ FirstBlock(s).size >= s
       /\ c = nChunks + 1 /\ o = 0
       /\ nChunks' = nChunks + 1
       /\ free' = [free EXCEPT ![c] = Cut({FirstBlock(s)}, FirstBlock(s), s)]
       /\ maxSize' = [maxSize EXCEPT ![c] = s]
       /\ live' = live \cup {[chunk |-> c, off |-> 0, size |-> s]}

\* Mutant: the freed region is merged with its neighbours, one of which stays listed.
FreeListed(F, o, s) ==
    LET before == {b \in F : b.off + b.size = o}
        after  == {b \in F : b.off = o + s}
        start  == IF before = {} THEN o ELSE (CHOOSE b \in before : TRUE).off
        end    == IF after = {} THEN o + s
                  ELSE LET b == CHOOSE b \in after : TRUE IN b.off + b.size
    IN  (F \ before) \cup {[off |-> start, size |-> end - start]}

\* The blocks F with the region of s bytes at o back among them, merged.
Freed(F, o, s) ==
    LET before == {b \in F : b.off + b.size = o}
        after  == {b \in F : b.off = o + s}
        start  == IF before = {} THEN o ELSE (CHOOSE b \in before : TRUE).off
        end    == IF after = {} THEN o + s
                  ELSE LET b == CHOOSE b \in after : TRUE IN b.off + b.size
    IN  (F \ (before \cup after)) \cup {[off |-> start, size |-> end - start]}

\* ggml_dyn_tallocr_free_bytes
TallocFree(l) ==
    /\ free' = [free EXCEPT ![l.chunk] = Freed(@, l.off, l.size)]
    /\ live' = live \ {l}
    /\ UNCHANGED <<nChunks, maxSize>>

\* ggml_dyn_tallocr_reset: a new plan starts.
TallocReset ==
    /\ nChunks' = 0
    /\ free' = [c \in ChunkIds |-> {}]
    /\ maxSize' = [c \in ChunkIds |-> 0]
    /\ live' = {}

DynNext ==
    \/ \E s \in Sizes, c \in ChunkIds :
          \E o \in {0} \cup {b.off : b \in free[c]} : TallocAlloc(Aligned(s), c, o)
    \/ \E l \in live : TallocFree(l)
    \/ TallocReset

DynSpec == DynInit /\ [][DynNext]_dynVars

-----------------------------------------------------------------------------
DynTypeOK ==
    /\ nChunks \in 0..MaxChunks
    /\ free \in [ChunkIds -> SUBSET Blocks]
    /\ maxSize \in [ChunkIds -> Nat]
    /\ live \subseteq [chunk : ChunkIds, off : Nat, size : Nat \ {0}]

Apart(a, b) == a.off + a.size <= b.off \/ b.off + b.size <= a.off

\* No two regions in use share a byte, and no byte in use is listed as free
\* (the splits and merges of ggml_dyn_tallocr_alloc and _free_bytes).
NoOverlap ==
    /\ \A l, m \in live : l # m /\ l.chunk = m.chunk => Apart(l, m)
    /\ \A l \in live : \A b \in free[l.chunk] : Apart(l, b)

\* Every region lies in the buffer that will be allocated for its chunk: max_size,
\* which sizes the buffer, covers all that was ever handed out.
InBuffer == \A l \in live : l.chunk <= nChunks /\ l.off + l.size <= maxSize[l.chunk]
=============================================================================
