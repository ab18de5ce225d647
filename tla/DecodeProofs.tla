----------------------------- MODULE DecodeProofs -----------------------------
(***************************************************************************)
(* Decode, for every size of the context, number of decoders and number of *)
(* temperatures: types, positions and cells of the cache, the order of the *)
(* timestamps, and which decoder's tokens are output.                      *)
(***************************************************************************)
EXTENDS Decode, FiniteSetTheorems, TLAPS

Statuses == {"run", "done", "back", "failed", "repeats"}

DecType == [toks : Seq(Tokens), tid : Nat, len : Nat, delta : 0..Chunk,
            hasTs : BOOLEAN, status : Statuses]

Trying   == {"sample", "batch", "rank", "emit"}    \* phases that have decoders
Before   == {"start", "window", "attempt"}         \* phases that have none

\* Numbers of the loop.
Numbers ==
    /\ phase \in Trying \cup Before \cup {"returned", "over"}
    /\ end \in Nat /\ seek \in Nat /\ past \in Nat
    /\ it \in 1..Temperatures /\ i \in 0..NMax
    /\ plen \in 0..(MaxPrompt + InitTokens)
    /\ phase \in Trying \cup {"attempt"} => seek < end /\ best \in 1..NDecoders
    /\ phase \in {"sample", "batch"} => i < NMax

\* Decoders: their number, and how many tokens each has.
Decoders ==
    /\ decs = <<>> \/ decs \in [1..NDecoders -> DecType]
    /\ phase \in Before => decs = <<>>
    /\ phase \in Trying => decs \in [1..NDecoders -> DecType]
    /\ \A j \in DOMAIN decs : decs[j].len <= Len(decs[j].toks)
    /\ phase = "sample" => \A j \in Running(decs) : Len(decs[j].toks) = i
    /\ phase = "batch" => \A j \in Running(decs) : Len(decs[j].toks) = i + 1

\* The cache: made for kvDec decoders, one cell for each token in the batches.
Cells ==
    /\ kvDec \in Nat \ {0} /\ kvSize = KvCells(kvDec) /\ kvUsed \in Nat
    /\ phase \in {"sample", "batch"} =>
          kvDec >= NDecoders /\ kvUsed <= plen + i * NDecoders

\* The state is freed by a failing attempt and by the caller.
Freeing ==
    /\ freed \in 0..2
    /\ phase \in Trying \cup Before => freed = 0
    /\ phase = "returned" => freed <= 1

IInv == Numbers /\ Decoders /\ Cells /\ Freeing

-----------------------------------------------------------------------------
\* The sizes of the context (n_max, max_prompt_ctx).
LEMMA Sizes ==
    /\ NMax \in Nat \ {0} /\ MaxPrompt \in Nat \ {0}
    /\ MaxPrompt + NMax + Reserve <= TextCtx
BY SizesAssumption DEF NMax, MaxPrompt

LEMMA SomeDecoders == NDecoders \in Nat \ {0}
BY SizesAssumption DEF NDecoders

\* The prompt has its half of the context (prompt_past1 is cut).
LEMMA PromptBounded ==
    ASSUME past \in Nat
    PROVE  PromptLen \in 0..(MaxPrompt + InitTokens)
BY Sizes, SizesAssumption DEF PromptLen, Less

\* Padding adds cells (GGML_PAD).
LEMMA PaddedCovers ==
    ASSUME NEW n \in Nat
    PROVE  Padded(n) \in Nat /\ Padded(n) >= n
<1> DEFINE q == (n + Pad - 1) \div Pad
           r == (n + Pad - 1) % Pad
<1>1. Pad \in Nat \ {0} /\ n + Pad - 1 \in Nat
  BY SizesAssumption
<1>2. q \in Nat /\ r \in 0..Pad - 1 /\ n + Pad - 1 = Pad * q + r
  BY <1>1
<1>3. Pad * q \in Nat /\ q * Pad = Pad * q
  BY <1>1, <1>2
<1>4. Pad * q >= n
  BY <1>1, <1>2, <1>3
<1> QED
  BY <1>3, <1>4 DEF Padded

\* What an update of one field leaves of a decoder.
LEMMA StatusSet ==
    ASSUME NEW d \in DecType, NEW s \in Statuses
    PROVE  LET e == [d EXCEPT !.status = s]
           IN  e \in DecType /\ e.toks = d.toks /\ e.len = d.len
BY DEF DecType

LEMMA LenSet ==
    ASSUME NEW d \in DecType, NEW n \in Nat
    PROVE  LET e == [d EXCEPT !.len = n]
           IN  e \in DecType /\ e.toks = d.toks /\ e.len = n
BY DEF DecType

LEMMA TokensSet ==
    ASSUME NEW d \in DecType, NEW T \in Seq(Tokens)
    PROVE  LET e == [d EXCEPT !.toks = T]
           IN  e \in DecType /\ e.toks = T /\ e.len = d.len
BY DEF DecType

\* A decoder takes one more token and stays what it is.
LEMMA TokenTaken ==
    ASSUME NEW d \in DecType, NEW t \in Tokens, NEW tid \in Stamps \cup {0},
           i \in Nat, d.len <= Len(d.toks), Len(d.toks) = i
    PROVE  LET e == Appended(Accept(d, t), t, tid)
           IN  e \in DecType /\ e.len <= Len(e.toks) /\ Len(e.toks) = i + 1
<1>0. Stamps \subseteq Nat
  BY SizesAssumption
<1>1. Stamps \subseteq Nat /\ (\A s \in Stamps : 2 * s \in 0..Chunk) /\ Chunk \in Nat
  BY SizesAssumption
<1> DEFINE a == Accept(d, t)
<1>2. IsStamp(t) => t \in Stamps
  BY DEF IsStamp, Tokens, Text, Eot
<1>3. Stamped(d, t) \in DecType /\ Stamped(d, t).toks = d.toks /\ Stamped(d, t).len \in 0..i + 1
  <2>1. CASE t > 0
    <3> DEFINE e == [d EXCEPT !.delta = 2 * t, !.len = i + 1, !.hasTs = TRUE]
    <3>1. t \in Stamps
      BY <2>1, <1>2 DEF IsStamp, Tokens, Text, Eot
    <3>2. 2 * t \in 0..Chunk /\ i + 1 \in Nat
      BY <3>1, <1>1
    <3> HIDE <1>1
    <3>3. e \in DecType /\ e.toks = d.toks /\ e.len = i + 1
      BY <3>2 DEF DecType
    <3> QED
      BY <2>1, <3>3 DEF Stamped
  <2>2. CASE ~(t > 0)
    BY <2>2 DEF Stamped, DecType
  <2> QED
    BY <2>1, <2>2
<1>4. a \in DecType /\ a.toks = d.toks /\ a.len \in 0..i + 1
  <2> DEFINE e == Stamped(d, t)
  <2> HIDE DEF e
  <2>1. e \in DecType /\ e.toks = d.toks /\ e.len \in 0..i + 1
    BY <1>3 DEF e
  <2>2. [d EXCEPT !.status = "back"] \in DecType
        /\ [d EXCEPT !.status = "back"].toks = d.toks
        /\ [d EXCEPT !.status = "back"].len = d.len
    BY StatusSet DEF Statuses
  <2>3. \A s \in {"done", "failed"} :
           /\ [e EXCEPT !.status = s] \in DecType
           /\ [e EXCEPT !.status = s].toks = d.toks
           /\ [e EXCEPT !.status = s].len = e.len
    BY <2>1, StatusSet DEF Statuses
  <2>4. [e EXCEPT !.status = "done", !.len = i + 1]
           = [[e EXCEPT !.status = "done"] EXCEPT !.len = i + 1]
    BY <2>1 DEF DecType
  <2>5. /\ [e EXCEPT !.status = "done", !.len = i + 1] \in DecType
        /\ [e EXCEPT !.status = "done", !.len = i + 1].toks = d.toks
        /\ [e EXCEPT !.status = "done", !.len = i + 1].len = i + 1
    <3> DEFINE f == [e EXCEPT !.status = "done"]
    <3>1. f \in DecType /\ f.toks = d.toks /\ i + 1 \in Nat
      BY <2>3
    <3> HIDE DEF f
    <3>2. [f EXCEPT !.len = i + 1] \in DecType /\ [f EXCEPT !.len = i + 1].toks = d.toks
          /\ [f EXCEPT !.len = i + 1].len = i + 1
      BY <3>1, LenSet
    <3> QED
      BY <2>4, <3>2 DEF f
  <2>6. d.len \in 0..i + 1 /\ i + 1 \in 0..i + 1
    BY DEF DecType
  <2> QED
    BY <2>1, <2>2, <2>3, <2>5, <2>6 DEF Accept, e
<1>5. Append(a.toks, t) \in Seq(Tokens) /\ Len(Append(a.toks, t)) = i + 1
  BY <1>4 DEF DecType
<1>6. Appended(a, t, tid) \in DecType
      /\ Appended(a, t, tid).toks = Append(a.toks, t) /\ Appended(a, t, tid).len = a.len
  <2> DEFINE T == Append(a.toks, t)
             v == IF Len(a.toks) > 0 THEN a.tid ELSE IF IsStamp(t) THEN t ELSE tid
             b == [a EXCEPT !.toks = T]
  <2>1. v \in Nat
    <3> HIDE DEF a
    <3>1. a.tid \in Nat
      BY <1>4 DEF DecType
    <3>2. tid \in Nat
      <4>1. 0 \in Nat
        OBVIOUS
      <4> QED
        BY <1>0, <4>1, Zenon
    <3>3. IsStamp(t) => t \in Nat
      BY <1>0, <1>2, Zenon
    <3> HIDE DEF T
    <3> QED
      BY <3>1, <3>2, <3>3, Zenon
  <2>2. b \in DecType /\ b.toks = T /\ b.len = a.len
    BY <1>4, <1>5, TokensSet
  <2>3. [b EXCEPT !.tid = v] \in DecType
        /\ [b EXCEPT !.tid = v].toks = T /\ [b EXCEPT !.tid = v].len = a.len
    <3> HIDE DEF b, v, T
    <3> QED
      BY <2>1, <2>2 DEF DecType
  <2>4. Appended(a, t, tid) = [b EXCEPT !.tid = v]
    <3> HIDE DEF a
    <3> QED
      BY <1>4 DEF Appended, DecType
  <2> QED
    BY <2>3, <2>4
<1> QED
  BY <1>4, <1>5, <1>6

\* Ranking cuts a decoder to the tokens it accepted.
LEMMA RankedType ==
    ASSUME NEW d \in DecType, d.len <= Len(d.toks)
    PROVE  Ranked(d) \in DecType /\ Ranked(d).len <= Len(Ranked(d).toks)
<1>1. SubSeq(d.toks, 1, d.len) \in Seq(Tokens) /\ Len(SubSeq(d.toks, 1, d.len)) = d.len
  BY DEF DecType
<1>2. Ranked(d) \in DecType /\ Ranked(d).len <= Len(Ranked(d).toks)
  <2> DEFINE T == SubSeq(d.toks, 1, d.len)
             e == [d EXCEPT !.toks = T]
  <2>1. e \in DecType /\ e.toks = T /\ e.len = d.len
    BY <1>1, TokensSet
  <2>2. Ranked(d) = d \/ Ranked(d) = e
    BY DEF Ranked
  <2>3. d.len \in Nat
    BY DEF DecType
  <2> HIDE DEF e, T
  <2>4. Len(T) = d.len
    BY <1>1 DEF T
  <2>5. CASE Ranked(d) = d
    BY <2>5
  <2>6. CASE Ranked(d) = e
    BY <2>6, <2>1, <2>3, <2>4
  <2> QED
    BY <2>2, <2>5, <2>6
<1> QED
  BY <1>2

-----------------------------------------------------------------------------
\* More decoders, more cells (the factor of whisper_kv_cache_init).
LEMMA CellsSuffice ==
    ASSUME NEW n \in Nat \ {0}, NEW m \in Nat \ {0}, m >= n,
           NEW k \in Nat, k < NMax, NEW p \in 0..(MaxPrompt + InitTokens),
           NEW u \in Nat, u <= p + k * n
    PROVE  u + n <= KvCells(m)
<1> DEFINE P == Padded(TextCtx)
<1>1. P \in Nat /\ P >= TextCtx /\ TextCtx \in Nat
  BY PaddedCovers, SizesAssumption
<1>2. (k + 1) * n <= NMax * n /\ (k + 1) * n = k * n + n /\ k * n \in Nat /\ NMax * n \in Nat
  BY Sizes
<1>3. u + n <= MaxPrompt + Reserve + NMax * n
  <2>1. p <= MaxPrompt + Reserve
    BY Sizes, SizesAssumption
  <2> QED
    BY <1>2, <2>1, Sizes, SizesAssumption
<1>4. MaxPrompt + Reserve <= TextCtx /\ NMax <= TextCtx
  BY Sizes, SizesAssumption
<1>5. CASE m > 1
  <2>1. KvCells(m) = P * (m + 2)
    BY <1>5 DEF KvCells
  <2>2. NMax * n <= P * n
    <3>1. NMax <= P
      BY <1>1, <1>4, Sizes
    <3> HIDE DEF P
    <3> QED
      BY <3>1, <1>1, Sizes
  <2>3. P * n <= P * m
    <3> HIDE DEF P
    <3> QED
      BY <1>1
  <2>4. P * (m + 2) = P * m + 2 * P /\ P * m \in Nat /\ P * n \in Nat
    <3> HIDE DEF P
    <3> QED
      BY <1>1
  <2> HIDE DEF P
  <2>5. u + n <= P * m + 2 * P
    BY <2>2, <2>3, <2>4, <1>1, <1>2, <1>3, <1>4, Sizes, SizesAssumption
  <2> QED
    BY <2>1, <2>4, <2>5
<1>6. CASE m = 1
  <2>1. KvCells(m) = P * 1 /\ n = 1
    BY <1>6 DEF KvCells
  <2> HIDE DEF P
  <2>2. NMax * n = NMax /\ P * 1 = P
    BY <2>1, <1>1, Sizes
  <2> QED
    BY <2>1, <2>2, <1>1, <1>3, Sizes, SizesAssumption
<1> QED
  BY <1>5, <1>6

LEMMA CellsType ==
    ASSUME NEW m \in Nat \ {0}
    PROVE  KvCells(m) \in Nat
<1>1. Padded(TextCtx) \in Nat
  BY PaddedCovers, SizesAssumption
<1>2. (IF m > 1 THEN m + 2 ELSE 1) \in Nat
  OBVIOUS
<1> QED
  BY <1>1, <1>2 DEF KvCells

\* At most NDecoders decoders are unfinished.
LEMMA RunningBounded ==
    ASSUME decs \in [1..NDecoders -> DecType]
    PROVE  Cardinality(Running(decs)) \in 0..NDecoders
<1>1. NDecoders \in Nat \ {0}
  BY SomeDecoders
<1>2. IsFiniteSet(1..NDecoders) /\ Cardinality(1..NDecoders) = NDecoders
  BY <1>1, FS_Interval
<1>3. Running(decs) \subseteq 1..NDecoders
  BY DEF Running
<1>4. IsFiniteSet(Running(decs)) /\ Cardinality(Running(decs)) <= Cardinality(1..NDecoders)
  BY <1>2, <1>3, FS_Subset
<1> QED
  BY <1>1, <1>2, <1>4, FS_CardinalityType

-----------------------------------------------------------------------------
\* One lemma per action: each keeps the invariant.
LEMMA ReturnKeeps ==
    ASSUME IInv, NEW code, Return(code), phase \in Before \cup Trying,
           kvDec' \in Nat \ {0}, kvSize' = KvCells(kvDec'), kvUsed' \in Nat, freed' \in {0, 1}
    PROVE  IInv'
<1>1. /\ phase' = "returned"
      /\ UNCHANGED <<end, seek, past, it, plen, i, decs, best>>
  BY DEF Return, loop
<1>2. NDecoders' = NDecoders /\ Running(decs)' = Running(decs)
  BY <1>1 DEF NDecoders, Running
<1>3. Numbers'
  BY <1>1, <1>2 DEF IInv, Numbers, Trying, Before
<1>4. Decoders'
  BY <1>1, <1>2 DEF IInv, Decoders, Trying, Before
<1>5. Cells'
  BY <1>1 DEF Cells, KvCells
<1>6. Freeing'
  BY <1>1 DEF Freeing, Trying, Before
<1> QED
  BY <1>3, <1>4, <1>5, <1>6 DEF IInv

LEMMA StartKeeps == IInv /\ Start => IInv'
<1> SUFFICES ASSUME IInv, Start PROVE IInv'
  OBVIOUS
<1>1. phase \in Before /\ freed = 0 /\ UNCHANGED <<kvSize, kvUsed, kvDec, freed>>
  BY DEF Start, kv, IInv, Freeing, Before
<1>2. kvDec \in Nat \ {0} /\ kvSize = KvCells(kvDec) /\ kvUsed \in Nat
  BY DEF IInv, Cells
<1>3. ASSUME NEW code, Return(code) PROVE IInv'
  BY <1>1, <1>2, <1>3, ReturnKeeps
<1>4. CASE phase' = "window" /\ UNCHANGED <<end, loop, it, plen, i, decs, best, quiet, ret>>
  <2>1. NDecoders' = NDecoders /\ UNCHANGED <<end, seek, past, it, plen, i, decs, best>>
    BY <1>4 DEF NDecoders, loop
  <2>2. Numbers' /\ Decoders'
    BY <1>1, <1>4, <2>1 DEF IInv, Numbers, Decoders, Trying, Before
  <2>3. Cells' /\ Freeing'
    BY <1>1, <1>2, <1>4 DEF Cells, KvCells, Freeing, Trying, Before
  <2> QED
    BY <2>2, <2>3 DEF IInv
<1> QED
  BY <1>3, <1>4 DEF Start

LEMMA WindowKeeps == IInv /\ Window => IInv'
<1> SUFFICES ASSUME IInv, Window PROVE IInv'
  OBVIOUS
<1>1. phase = "window" /\ phase \in Before /\ freed = 0 /\ UNCHANGED <<kvSize, kvUsed, kvDec, freed>>
  BY DEF Window, kv, IInv, Freeing, Before
<1>2. kvDec \in Nat \ {0} /\ kvSize = KvCells(kvDec) /\ kvUsed \in Nat
  BY DEF IInv, Cells
<1>3. ASSUME NEW code, Return(code) PROVE IInv'
  BY <1>1, <1>2, <1>3, ReturnKeeps
<1>4. CASE /\ ~(seek + DeltaMin >= end) /\ phase' = "attempt" /\ it' = 1 /\ best' = 1
           /\ past' = IF seek > 0 /\ seek + Short >= end THEN 0 ELSE past
           /\ UNCHANGED <<end, seek, plen, i, decs, quiet, ret>>
  <2>1. NDecoders' = 1 /\ seek < end /\ past' \in Nat /\ 1 \in 1..Temperatures
    BY <1>4, SizesAssumption DEF NDecoders, IInv, Numbers
  <2>2. Numbers'
    BY <1>4, <2>1 DEF IInv, Numbers, Trying, Before
  <2>3. decs = <<>>
    BY <1>1 DEF IInv, Decoders, Before
  <2>4. Decoders'
    BY <1>4, <2>3 DEF Decoders, Trying, Before
  <2>5. Cells' /\ Freeing'
    BY <1>1, <1>2, <1>4 DEF Cells, KvCells, Freeing, Trying, Before
  <2> QED
    BY <2>2, <2>4, <2>5 DEF IInv
<1> QED
  BY <1>3, <1>4 DEF Window

LEMMA AttemptKeeps == IInv /\ Attempt => IInv'
<1> SUFFICES ASSUME IInv, Attempt PROVE IInv'
  OBVIOUS
<1> DEFINE grow == kvDec < NDecoders
           size == IF grow THEN KvCells(NDecoders) ELSE kvSize
           made == IF grow THEN NDecoders ELSE kvDec
<1>1. phase = "attempt" /\ phase \in Before /\ freed = 0
  BY DEF Attempt, IInv, Freeing, Before
<1>2. kvDec \in Nat \ {0} /\ kvSize = KvCells(kvDec) /\ kvUsed \in Nat
  BY DEF IInv, Cells
<1>3. past \in Nat /\ PromptLen \in 0..(MaxPrompt + InitTokens) /\ PromptLen \in Nat
  BY PromptBounded, Sizes, SizesAssumption DEF IInv, Numbers
<1>4. made \in Nat \ {0} /\ size = KvCells(made) /\ made >= NDecoders
  BY <1>2, SomeDecoders
<1>5. CASE Return(-7) /\ freed' = freed + 1 /\ UNCHANGED kv
  BY <1>1, <1>2, <1>5, ReturnKeeps DEF kv
<1>6. CASE kvSize' = size /\ kvDec' = made /\ kvUsed' = PromptLen /\ Return(-8) /\ UNCHANGED freed
  BY <1>1, <1>3, <1>4, <1>6, ReturnKeeps
<1>7. CASE /\ PromptLen <= size
           /\ kvSize' = size /\ kvDec' = made
           /\ kvUsed' = PromptLen /\ plen' = PromptLen
           /\ decs' = [j \in 1..NDecoders |-> Fresh] /\ i' = 0
           /\ phase' = "sample"
           /\ UNCHANGED <<end, loop, it, best, quiet, ret, freed>>
  <2>1. NDecoders' = NDecoders /\ UNCHANGED <<end, seek, past, it, best, freed>>
    BY <1>7 DEF NDecoders, loop
  <2>2. Numbers'
    BY <1>1, <1>3, <1>7, <2>1, Sizes DEF IInv, Numbers, Trying, Before
  <2>3. Fresh \in DecType /\ Fresh.toks = <<>> /\ Fresh.len = 0
    BY SizesAssumption DEF Fresh, DecType, Statuses
  <2>4. decs' \in [1..NDecoders' -> DecType] /\ \A j \in DOMAIN decs' : decs'[j] = Fresh
    BY <1>7, <2>1, <2>3
  <2>5. Decoders'
    BY <1>7, <2>3, <2>4 DEF Decoders, Running, Trying, Before
  <2>6. KvCells(made)' = KvCells(made') /\ 0 * NDecoders = 0
    BY SomeDecoders DEF KvCells
  <2>7. Cells'
    <3> HIDE DEF made, size
    <3>1. kvDec' \in Nat \ {0} /\ kvUsed' \in Nat /\ kvDec' >= NDecoders'
      BY <1>3, <1>4, <1>7, <2>1
    <3>2. kvSize' = KvCells(kvDec)'
      BY <1>4, <1>7 DEF KvCells
    <3>3. kvUsed' <= plen' + i' * NDecoders'
      BY <1>3, <1>7, <2>1, SomeDecoders
    <3> QED
      BY <3>1, <3>2, <3>3 DEF Cells
  <2>8. Freeing'
    BY <1>1, <1>7, <2>1 DEF Freeing, Trying, Before
  <2> QED
    BY <2>2, <2>5, <2>7, <2>8 DEF IInv
<1> QED
  BY <1>5, <1>6, <1>7 DEF Attempt

LEMMA SampleKeeps == IInv /\ Sample => IInv'
<1> SUFFICES ASSUME IInv, Sample PROVE IInv'
  OBVIOUS
<1> DEFINE R == Running(decs)
<1>1. PICK pick \in [R -> Tokens], tid \in Stamps \cup {0} :
        decs' = [j \in DOMAIN decs |->
                    IF j \in R THEN Appended(Accept(decs[j], pick[j]), pick[j], tid)
                    ELSE decs[j]]
  <2>1. {s \in Stamps : s <= MaxInitial} \subseteq Stamps \cup {0} /\ {0} \subseteq Stamps \cup {0}
    OBVIOUS
  <2> QED
    BY <2>1 DEF Sample
<1>2. /\ phase = "sample" /\ phase' = IF Running(decs') = {} THEN "rank" ELSE "batch"
      /\ UNCHANGED <<end, seek, past, it, plen, i, best, kvSize, kvUsed, kvDec, freed>>
  BY DEF Sample, loop, kv
<1>3. /\ decs \in [1..NDecoders -> DecType] /\ DOMAIN decs = 1..NDecoders
      /\ \A j \in DOMAIN decs : decs[j].len <= Len(decs[j].toks)
      /\ \A j \in R : Len(decs[j].toks) = i
      /\ i \in Nat /\ R \subseteq DOMAIN decs
  BY <1>2 DEF IInv, Decoders, Numbers, Trying, Running
<1>4. NDecoders' = NDecoders
  BY <1>2 DEF NDecoders
<1>5. ASSUME NEW j \in R
      PROVE  decs'[j] \in DecType /\ decs'[j].len <= Len(decs'[j].toks) /\ Len(decs'[j].toks) = i + 1
  <2>1. decs'[j] = Appended(Accept(decs[j], pick[j]), pick[j], tid)
    BY <1>1, <1>3
  <2>2. decs[j] \in DecType /\ pick[j] \in Tokens /\ decs[j].len <= Len(decs[j].toks)
        /\ Len(decs[j].toks) = i /\ tid \in Stamps \cup {0}
    BY <1>1, <1>3
  <2> QED
    BY <2>1, <2>2, <1>3, TokenTaken
<1>6. ASSUME NEW j \in DOMAIN decs, j \notin R
      PROVE  decs'[j] = decs[j] /\ decs[j].status # "run"
  BY <1>1, <1>3, <1>6 DEF Running
<1>7. decs' \in [1..NDecoders -> DecType] /\ DOMAIN decs' = 1..NDecoders
  <2>1. DOMAIN decs' = 1..NDecoders /\ decs' = [j \in 1..NDecoders |-> decs'[j]]
    BY <1>1, <1>3
  <2>2. \A j \in 1..NDecoders : decs'[j] \in DecType
    BY <1>3, <1>5, <1>6
  <2> QED
    BY <2>1, <2>2
<1>8. Running(decs)' \subseteq R
  BY <1>3, <1>6, <1>7 DEF Running
<1>9. Numbers'
  BY <1>2, <1>4 DEF IInv, Numbers, Trying, Before
<1>10. Decoders'
  <2>1. \A j \in DOMAIN decs' : decs'[j].len <= Len(decs'[j].toks)
    BY <1>3, <1>5, <1>6, <1>7
  <2>2. \A j \in Running(decs)' : Len(decs'[j].toks) = i' + 1
    BY <1>2, <1>5, <1>8
  <2>3. phase' \in {"rank", "batch"}
    BY <1>2
  <2> QED
    BY <1>4, <1>7, <2>1, <2>2, <2>3 DEF Decoders, Trying, Before
<1>11. Cells'
  BY <1>2, <1>4 DEF IInv, Cells, KvCells
<1>12. Freeing'
  BY <1>2 DEF IInv, Freeing, Trying, Before
<1> QED
  BY <1>9, <1>10, <1>11, <1>12 DEF IInv

LEMMA BatchKeeps == IInv /\ Batch => IInv'
<1> SUFFICES ASSUME IInv, Batch PROVE IInv'
  OBVIOUS
<1> DEFINE n == Cardinality(Running(decs))
<1>1. /\ phase = "batch" /\ phase \in Trying /\ freed = 0
      /\ UNCHANGED <<kvSize, kvDec, freed>>
  BY DEF Batch, IInv, Freeing, Trying
<1>2. kvDec \in Nat \ {0} /\ kvSize = KvCells(kvDec) /\ kvUsed \in Nat
  BY DEF IInv, Cells
<1>3. n \in 0..NDecoders
  BY <1>1, RunningBounded DEF IInv, Decoders
<1>4. CASE Return(-9) /\ UNCHANGED kvUsed
  BY <1>1, <1>2, <1>4, ReturnKeeps
<1>5. CASE /\ kvUsed' = kvUsed + n /\ i' = i + 1
           /\ phase' = IF i + 1 = NMax THEN "rank" ELSE "sample"
           /\ UNCHANGED <<end, loop, it, plen, decs, best, quiet, ret>>
  <2>1. NDecoders' = NDecoders /\ UNCHANGED <<end, seek, past, it, plen, decs, best>>
    BY <1>5 DEF NDecoders, loop
  <2>2. i \in Nat /\ i < NMax /\ NMax \in Nat
    BY <1>1, Sizes DEF IInv, Numbers
  <2>3. Numbers'
    BY <1>1, <1>5, <2>1, <2>2 DEF IInv, Numbers, Trying, Before
  <2>4. Decoders'
    BY <1>1, <1>5, <2>1, <2>2 DEF IInv, Decoders, Running, Trying, Before
  <2>5. Cells'
    <3>1. kvDec >= NDecoders /\ kvUsed <= plen + i * NDecoders /\ plen \in Nat
      BY <1>1, Sizes, SizesAssumption DEF IInv, Cells, Numbers
    <3>2. (i + 1) * NDecoders = i * NDecoders + NDecoders /\ i * NDecoders \in Nat
      BY <2>2, SomeDecoders
    <3> HIDE DEF n
    <3>3. kvUsed + n \in Nat /\ kvUsed + n <= plen + (i + 1) * NDecoders
      BY <1>2, <1>3, <3>1, <3>2, SomeDecoders
    <3> QED
      BY <1>1, <1>2, <1>5, <2>1, <3>1, <3>3 DEF Cells, KvCells, n
  <2>6. Freeing'
    BY <1>1, <1>5 DEF Freeing, Trying, Before
  <2> QED
    BY <2>3, <2>4, <2>5, <2>6 DEF IInv
<1> QED
  BY <1>4, <1>5 DEF Batch

LEMMA RankKeeps == IInv /\ Rank => IInv'
<1> SUFFICES ASSUME IInv, Rank PROVE IInv'
  OBVIOUS
<1>1. PICK q \in BOOLEAN, dull \in SUBSET DOMAIN decs :
        LET D == [j \in DOMAIN decs |->
                    LET d == Ranked(decs[j])
                    IN  IF j \in dull THEN [d EXCEPT !.status = "repeats"] ELSE d]
        IN  /\ IF Scored(D) = {} THEN best' = best ELSE best' \in Scored(D)
            /\ \/ /\ it < Temperatures
                  /\ phase' = "attempt" /\ it' = it + 1 /\ decs' = <<>> /\ plen' = 0
               \/ phase' = "emit" /\ decs' = D /\ UNCHANGED <<it, plen>>
  BY DEF Rank
<1> DEFINE D == [j \in DOMAIN decs |->
                    LET d == Ranked(decs[j])
                    IN  IF j \in dull THEN [d EXCEPT !.status = "repeats"] ELSE d]
<1>2. /\ phase = "rank" /\ i' = 0 /\ kvUsed' = 0
      /\ UNCHANGED <<end, seek, past, kvSize, kvDec, freed>>
  BY DEF Rank, loop
<1>3. /\ decs \in [1..NDecoders -> DecType] /\ DOMAIN decs = 1..NDecoders
      /\ \A j \in DOMAIN decs : decs[j].len <= Len(decs[j].toks)
  BY <1>2 DEF IInv, Decoders, Trying
<1>4. ASSUME NEW j \in 1..NDecoders
      PROVE  D[j] \in DecType /\ D[j].len <= Len(D[j].toks)
  <2> DEFINE d == Ranked(decs[j])
  <2>1. d \in DecType /\ d.len <= Len(d.toks)
    BY <1>3, RankedType
  <2>2. D[j] = IF j \in dull THEN [d EXCEPT !.status = "repeats"] ELSE d
    BY <1>3
  <2> HIDE DEF d, D
  <2>3. LET e == [d EXCEPT !.status = "repeats"]
        IN  e \in DecType /\ e.toks = d.toks /\ e.len = d.len
    BY <2>1, StatusSet DEF Statuses
  <2> QED
    BY <2>1, <2>2, <2>3
<1>5. D \in [1..NDecoders -> DecType] /\ DOMAIN D = 1..NDecoders
  <2>1. DOMAIN D = 1..NDecoders /\ D = [j \in 1..NDecoders |-> D[j]]
    BY <1>3
  <2> HIDE DEF D
  <2> QED
    BY <1>4, <2>1
<1>6. best \in 1..NDecoders /\ best' \in 1..NDecoders
  <2>1. best \in 1..NDecoders
    BY <1>2 DEF IInv, Numbers, Trying
  <2>2. IF Scored(D) = {} THEN best' = best ELSE best' \in Scored(D)
    BY <1>1
  <2> HIDE DEF D
  <2>3. Scored(D) \subseteq 1..NDecoders
    BY <1>5 DEF Scored
  <2> QED
    BY <2>1, <2>2, <2>3
<1>7. Freeing'
  BY <1>1, <1>2 DEF IInv, Freeing, Trying, Before
<1>8. Cells'
  <2>1. phase' \in {"attempt", "emit"}
    BY <1>1
  <2> QED
    BY <1>2, <2>1 DEF IInv, Cells, KvCells
<1>9. CASE /\ it < Temperatures /\ phase' = "attempt" /\ it' = it + 1 /\ decs' = <<>> /\ plen' = 0
  <2>1. it \in 1..Temperatures /\ it' \in 1..Temperatures /\ it' # 1
    BY <1>9, SizesAssumption DEF IInv, Numbers
  <2>2. NDecoders' = BestOf /\ NDecoders <= BestOf
    BY <2>1, SizesAssumption DEF NDecoders
  <2>3. best' \in 1..NDecoders'
    BY <1>6, <2>2, SomeDecoders, SizesAssumption
  <2>4. Numbers'
    BY <1>2, <1>9, <2>1, <2>3, Sizes, SizesAssumption DEF IInv, Numbers, Trying, Before
  <2>5. Decoders'
    BY <1>9 DEF Decoders, Trying, Before
  <2> QED
    BY <1>7, <1>8, <2>4, <2>5 DEF IInv
<1>10. CASE phase' = "emit" /\ decs' = D /\ UNCHANGED <<it, plen>>
  <2>1. NDecoders' = NDecoders
    BY <1>10 DEF NDecoders
  <2>2. Numbers'
    BY <1>2, <1>6, <1>10, <2>1, Sizes DEF IInv, Numbers, Trying, Before
  <2>3. Decoders'
    <3> HIDE DEF D
    <3> QED
      BY <1>4, <1>5, <1>10, <2>1 DEF Decoders, Trying, Before
  <2> QED
    BY <1>7, <1>8, <2>2, <2>3 DEF IInv
<1> QED
  BY <1>1, <1>9, <1>10

LEMMA EmitKeeps == IInv /\ Emit => IInv'
<1> SUFFICES ASSUME IInv, Emit PROVE IInv'
  OBVIOUS
<1>1. /\ phase = "emit" /\ phase' = "window" /\ decs' = <<>> /\ plen' = 0 /\ best' = 1 /\ it' = 1
      /\ UNCHANGED <<end, i, kvSize, kvUsed, kvDec, freed>>
  BY DEF Emit, kv
<1> DEFINE d == decs[best]
<1>2. /\ seek' = seek + Advance(d)
      /\ \E silent \in BOOLEAN :
            past' = (IF plen > InitTokens THEN plen - 1 - InitTokens ELSE 0)
                    + (IF silent THEN 0 ELSE d.len)
  <2>1. quiet \in BOOLEAN \/ quiet \notin BOOLEAN
    OBVIOUS
  <2>2. PICK silent : /\ seek' = seek + Advance(d)
                      /\ past' = (IF plen > InitTokens THEN plen - 1 - InitTokens ELSE 0)
                                 + (IF silent THEN 0 ELSE d.len)
    BY DEF Emit
  <2>3. CASE silent
    BY <2>2, <2>3
  <2>4. CASE ~silent
    BY <2>2, <2>4
  <2> QED
    BY <2>2, <2>3, <2>4
<1>3. d \in DecType
  <2>1. decs \in [1..NDecoders -> DecType] /\ best \in 1..NDecoders
    BY <1>1 DEF IInv, Decoders, Numbers, Trying
  <2> QED
    BY <2>1
<1>4. d.len \in Nat /\ d.delta \in Nat
  BY <1>3, SizesAssumption DEF DecType
<1> HIDE DEF d
<1>5. past' \in Nat
  <2>1. plen \in Nat /\ InitTokens \in Nat
    BY Sizes, SizesAssumption DEF IInv, Numbers
  <2> QED
    BY <1>2, <1>4, <2>1
<1>6. seek' \in Nat
  <2>1. seek \in Nat /\ end \in Nat /\ seek < end
    BY <1>1 DEF IInv, Numbers, Trying
  <2>2. Advance(d) \in Nat
    BY <1>4, <2>1, SizesAssumption DEF Advance, Less
  <2> QED
    BY <1>2, <2>1, <2>2
<1>7. Numbers'
  BY <1>1, <1>5, <1>6, Sizes, SizesAssumption DEF IInv, Numbers, Trying, Before
<1>8. Decoders'
  BY <1>1 DEF Decoders, Trying, Before
<1>9. Cells' /\ Freeing'
  BY <1>1 DEF IInv, Cells, KvCells, Freeing, Trying, Before
<1> QED
  BY <1>7, <1>8, <1>9 DEF IInv

LEMMA FreeKeeps == IInv /\ Free => IInv'
<1> SUFFICES ASSUME IInv, Free PROVE IInv'
  OBVIOUS
<1>1. /\ phase = "returned" /\ phase' = "over" /\ freed' = freed + 1
      /\ UNCHANGED <<end, seek, past, it, plen, i, decs, best, kvSize, kvUsed, kvDec>>
  BY DEF Free, loop, kv
<1>2. NDecoders' = NDecoders
  BY <1>1 DEF NDecoders
<1>3. Numbers' /\ Decoders'
  BY <1>1, <1>2 DEF IInv, Numbers, Decoders, Running, Trying, Before
<1>4. Cells' /\ Freeing'
  BY <1>1 DEF IInv, Cells, KvCells, Freeing, Trying, Before
<1> QED
  BY <1>3, <1>4 DEF IInv

LEMMA StutterKeeps == IInv /\ UNCHANGED vars => IInv'
<1> SUFFICES ASSUME IInv, UNCHANGED vars PROVE IInv'
  OBVIOUS
<1>1. UNCHANGED <<phase, end, seek, past, it, plen, i, decs, best, kvSize, kvUsed, kvDec, freed>>
  BY DEF vars, loop, kv
<1>2. NDecoders' = NDecoders
  BY <1>1 DEF NDecoders
<1>3. Numbers' /\ Decoders'
  BY <1>1, <1>2 DEF IInv, Numbers, Decoders, Running, Trying, Before
<1>4. Cells' /\ Freeing'
  BY <1>1, <1>2 DEF IInv, Cells, KvCells, Freeing, Trying, Before
<1> QED
  BY <1>3, <1>4 DEF IInv

LEMMA InitHolds == Init => IInv
<1> SUFFICES ASSUME Init PROVE IInv
  OBVIOUS
<1>1. Numbers
  BY Sizes, SizesAssumption DEF Init, Numbers, Trying, Before
<1>2. Decoders
  BY DEF Init, Decoders, Trying, Before
<1>3. Cells
  <2>1. Padded(TextCtx) \in Nat /\ Padded(TextCtx) * 1 = Padded(TextCtx)
    BY PaddedCovers, SizesAssumption
  <2>2. KvCells(1) = Padded(TextCtx)
    BY <2>1 DEF KvCells
  <2> QED
    BY <2>2 DEF Init, Cells
<1>4. Freeing
  BY DEF Init, Freeing, Trying, Before
<1> QED
  BY <1>1, <1>2, <1>3, <1>4 DEF IInv

-----------------------------------------------------------------------------
\* Whatever the audio, the sizes and the choices of the sampler, the loop keeps
\* its decoders, its window and its cache in step (whisper_full_with_state).
THEOREM LoopInvariant == Spec => []IInv
<1>1. IInv /\ [Next]_vars => IInv'
  BY StartKeeps, WindowKeeps, AttemptKeeps, SampleKeeps, BatchKeeps, RankKeeps, EmitKeeps,
     FreeKeeps, StutterKeeps DEF Next
<1> QED
  BY <1>1, InitHolds, PTL DEF Spec

\* Types: no decoder accepts more tokens than it has (result_len), no window ends
\* outside the chunk, and seek never leaves the natural numbers.
THEOREM DecodeTypes == Spec => []TypeOK
<1>1. IInv => TypeOK
  <2> SUFFICES ASSUME IInv PROVE TypeOK
    OBVIOUS
  <2>1. /\ phase \in {"start", "window", "attempt", "sample", "batch", "rank", "emit",
                      "returned", "over"}
        /\ seek \in Nat /\ past \in Nat /\ it \in 1..Temperatures /\ i \in 0..NMax
        /\ kvUsed \in Nat /\ freed \in 0..2
    BY DEF IInv, Numbers, Cells, Freeing, Trying, Before
  <2>2. ASSUME NEW j \in DOMAIN decs
        PROVE  /\ decs[j].toks \in Seq(Tokens) /\ decs[j].len \in 0..Len(decs[j].toks)
               /\ decs[j].delta \in 0..Chunk
               /\ decs[j].status \in {"run", "done", "back", "failed", "repeats"}
    <3>1. decs[j].len <= Len(decs[j].toks)
      BY DEF IInv, Decoders
    <3>2. decs[j] \in DecType
      <4>1. decs = <<>> => DOMAIN decs = {}
        OBVIOUS
      <4>2. decs \in [1..NDecoders -> DecType] => DOMAIN decs = 1..NDecoders
        OBVIOUS
      <4> QED
        BY <4>1, <4>2 DEF IInv, Decoders
    <3> QED
      BY <3>1, <3>2 DEF DecType, Statuses
  <2> QED
    BY <2>1, <2>2 DEF TypeOK
<1> QED
  BY <1>1, LoopInvariant, PTL

\* The prompt and the window share the positions of the context: with n_max the
\* reserve short of one half, no token is decoded past the last embedding.
THEOREM PositionsAlwaysFit == Spec => []PositionsFit
<1>1. IInv => PositionsFit
  <2> SUFFICES ASSUME IInv, phase = "batch" PROVE plen + i < TextCtx
    BY DEF PositionsFit
  <2>1. i \in Nat /\ i < NMax /\ plen \in 0..(MaxPrompt + InitTokens)
    BY Sizes DEF IInv, Numbers
  <2> QED
    BY <2>1, Sizes, SizesAssumption
<1> QED
  BY <1>1, LoopInvariant, PTL

\* A cell is always free for the tokens of a batch, for any number of decoders:
\* the factor the cache is created with is enough.
THEOREM CellsAlwaysFit == Spec => []KvFits
<1>1. IInv => KvFits
  <2> SUFFICES ASSUME IInv, phase = "batch"
               PROVE  kvUsed + Cardinality(Running(decs)) <= kvSize
    BY DEF KvFits
  <2>1. i \in Nat /\ i < NMax /\ plen \in 0..(MaxPrompt + InitTokens)
    BY Sizes DEF IInv, Numbers
  <2>2. /\ kvUsed \in Nat /\ kvDec \in Nat \ {0} /\ kvSize = KvCells(kvDec)
        /\ kvDec >= NDecoders /\ kvUsed <= plen + i * NDecoders
    BY DEF IInv, Cells
  <2>3. kvUsed + NDecoders <= KvCells(kvDec)
    BY <2>1, <2>2, SomeDecoders, CellsSuffice
  <2>4. Cardinality(Running(decs)) \in 0..NDecoders
    BY RunningBounded DEF IInv, Decoders, Trying
  <2> QED
    BY <2>2, <2>3, <2>4, SomeDecoders, CellsType
<1> QED
  BY <1>1, LoopInvariant, PTL
-----------------------------------------------------------------------------
(***************************************************************************)
(* Which decoders may be output.  "No decoder is back" is not inductive:   *)
(* the window a timestamp ends must be an even number of ticks, or half of *)
(* it would round below the timestamp.  "A live decoder is output" needs   *)
(* that whatever has not failed when the attempt is ranked has accepted    *)
(* tokens, for a decoder that is done and for one cut off at n_max.        *)
(***************************************************************************)
Sound(d) ==
    /\ d.hasTs => 2 * (d.delta \div 2) = d.delta
    /\ d.status # "back"
    /\ d.status = "done" => d.len > 0

LiveInv ==
    /\ \A j \in DOMAIN decs : Sound(decs[j])
    /\ phase = "batch" /\ i = NMax - 1 => \A j \in Running(decs) : decs[j].len > 0
    /\ phase = "rank" => \A j \in DOMAIN decs : ~Failed(decs[j]) => decs[j].len > 0
    /\ LiveDecoderWins

\* A decoder that takes a token whisper_process_logits left it does not go back,
\* is done only with tokens, and has some if it is to go on at the limit.
LEMMA TokenSound ==
    ASSUME NEW d \in DecType, Sound(d), d.status = "run", i \in Nat,
           NEW t \in Allowed(d), NEW tid \in Stamps \cup {0}
    PROVE  LET e == Appended(Accept(d, t), t, tid)
           IN  Sound(e) /\ (e.status = "run" /\ i = NMax - 1 => e.len > 0)
<1> DEFINE e == Stamped(d, t)
           a == Accept(d, t)
<1>1. t \in Tokens /\ Stamps \subseteq Nat /\ (t > 0 => t \in Nat)
      /\ (t > 0 => (d.hasTs => t >= d.delta \div 2))
  BY SizesAssumption DEF Allowed, IsStamp, Tokens, Text, Eot
<1>2. d.delta \in Nat /\ d.len \in Nat /\ d.hasTs \in BOOLEAN
  BY SizesAssumption DEF DecType
<1>3. ~(t > 0 /\ d.hasTs /\ d.delta > 2 * t)
  <2> SUFFICES ASSUME t > 0, d.hasTs PROVE ~(d.delta > 2 * t)
    OBVIOUS
  <2>1. 2 * (d.delta \div 2) = d.delta /\ t >= d.delta \div 2 /\ t \in Nat
    BY <1>1 DEF Sound
  <2> QED
    BY <2>1, <1>2
<1>4. /\ DOMAIN e = DOMAIN d /\ e.status = "run" /\ e.len \in Nat
      /\ e.hasTs => 2 * (e.delta \div 2) = e.delta
  <2>1. CASE t > 0
    <3> DEFINE m == [d EXCEPT !.delta = 2 * t, !.len = i + 1, !.hasTs = TRUE]
    <3>1. e = m
      BY <2>1 DEF Stamped
    <3>2. DOMAIN m = DOMAIN d /\ m.status = "run" /\ m.len = i + 1 /\ m.delta = 2 * t
      BY DEF DecType
    <3>3. 2 * ((2 * t) \div 2) = 2 * t
      BY <1>1, <2>1
    <3> QED
      BY <3>1, <3>2, <3>3
  <2>2. CASE ~(t > 0)
    BY <2>2, <1>2 DEF Stamped, Sound
  <2> QED
    BY <2>1, <2>2
<1>5. DOMAIN d = {"toks", "tid", "len", "delta", "hasTs", "status"}
  BY DEF DecType
<1>6. \/ a = [e EXCEPT !.status = "done"] /\ e.len > 0
      \/ a = [e EXCEPT !.status = "done", !.len = i + 1]
      \/ a = [e EXCEPT !.status = "failed"]
      \/ a = e /\ ~(i = NMax - 1 /\ e.len = 0)
  <2> HIDE DEF e
  <2> QED
    BY <1>3 DEF Accept, e
<1> HIDE DEF e, a
<1>7. /\ DOMAIN a = DOMAIN d /\ Sound(a)
      /\ a.status = "run" /\ i = NMax - 1 => a.len > 0
  <2>1. CASE a = [e EXCEPT !.status = "done"] /\ e.len > 0
    BY <2>1, <1>4, <1>5 DEF Sound
  <2>2. CASE a = [e EXCEPT !.status = "done", !.len = i + 1]
    BY <2>2, <1>4, <1>5 DEF Sound
  <2>3. CASE a = [e EXCEPT !.status = "failed"]
    BY <2>3, <1>4, <1>5 DEF Sound
  <2>4. CASE a = e /\ ~(i = NMax - 1 /\ e.len = 0)
    BY <2>4, <1>4 DEF Sound
  <2> QED
    BY <1>6, <2>1, <2>2, <2>3, <2>4
<1>8. /\ Appended(a, t, tid).status = a.status /\ Appended(a, t, tid).len = a.len
      /\ Appended(a, t, tid).hasTs = a.hasTs /\ Appended(a, t, tid).delta = a.delta
  BY <1>5, <1>7 DEF Appended
<1> QED
  BY <1>7, <1>8 DEF Sound, a

\* Without decoders, and outside the phases of an attempt, there is nothing to show.
LEMMA NothingLive ==
    ASSUME decs' = <<>>, phase' \notin {"batch", "rank", "emit"}
    PROVE  LiveInv'
<1>1. DOMAIN decs' = {}
  OBVIOUS
<1> QED
  BY <1>1 DEF LiveInv, LiveDecoderWins

LEMMA ReturnLive ==
    ASSUME LiveInv, NEW code, Return(code)
    PROVE  LiveInv'
BY DEF Return, LiveInv, LiveDecoderWins

LEMMA SampleLive == IInv /\ LiveInv /\ Sample => LiveInv'
<1> SUFFICES ASSUME IInv, LiveInv, Sample PROVE LiveInv'
  OBVIOUS
<1> DEFINE R == Running(decs)
<1>1. PICK pick \in [R -> Tokens], tid \in Stamps \cup {0} :
        /\ \A j \in R : pick[j] \in Allowed(decs[j])
        /\ decs' = [j \in DOMAIN decs |->
                      IF j \in R THEN Appended(Accept(decs[j], pick[j]), pick[j], tid)
                      ELSE decs[j]]
  <2>1. {s \in Stamps : s <= MaxInitial} \subseteq Stamps \cup {0} /\ {0} \subseteq Stamps \cup {0}
    OBVIOUS
  <2> QED
    BY <2>1 DEF Sample
<1>2. /\ phase = "sample" /\ phase' = IF Running(decs') = {} THEN "rank" ELSE "batch"
      /\ UNCHANGED i
  BY DEF Sample
<1>3. /\ decs \in [1..NDecoders -> DecType] /\ DOMAIN decs = 1..NDecoders
      /\ i \in Nat /\ R \subseteq DOMAIN decs
  BY <1>2 DEF IInv, Decoders, Numbers, Trying, Running
<1>4. DOMAIN decs' = DOMAIN decs
  BY <1>1
<1>5. ASSUME NEW j \in R
      PROVE  Sound(decs'[j]) /\ (decs'[j].status = "run" /\ i = NMax - 1 => decs'[j].len > 0)
  <2>1. decs'[j] = Appended(Accept(decs[j], pick[j]), pick[j], tid)
    BY <1>1, <1>3
  <2>2. decs[j] \in DecType /\ Sound(decs[j]) /\ decs[j].status = "run"
        /\ pick[j] \in Allowed(decs[j])
    BY <1>1, <1>3 DEF LiveInv, Running
  <2> QED
    BY <2>1, <2>2, <1>3, TokenSound
<1>6. ASSUME NEW j \in DOMAIN decs, j \notin R
      PROVE  decs'[j] = decs[j] /\ decs[j].status # "run"
  BY <1>1, <1>3, <1>6 DEF Running
<1>7. \A j \in DOMAIN decs' : Sound(decs'[j])
  BY <1>4, <1>5, <1>6 DEF LiveInv
<1>8. i = NMax - 1 => \A j \in Running(decs)' : decs'[j].len > 0
  BY <1>4, <1>5, <1>6 DEF Running
<1>9. phase' = "rank" => \A j \in DOMAIN decs' : ~Failed(decs'[j]) => decs'[j].len > 0
  <2> SUFFICES ASSUME phase' = "rank", NEW j \in DOMAIN decs', ~Failed(decs'[j])
               PROVE  decs'[j].len > 0
    OBVIOUS
  <2>1. decs'[j].status # "run"
    BY <1>2 DEF Running
  <2>2. decs'[j] \in DecType
    <3>1. IInv'
      BY SampleKeeps
    <3> QED
      BY <3>1, <1>3, <1>4 DEF IInv, Decoders, Trying
  <2>3. decs'[j].status = "done"
    BY <2>1, <2>2 DEF Failed, DecType, Statuses
  <2> QED
    BY <1>7, <2>3 DEF Sound
<1>10. phase' \in {"rank", "batch"}
  BY <1>2
<1> QED
  BY <1>2, <1>7, <1>8, <1>9, <1>10 DEF LiveInv, LiveDecoderWins

LEMMA BatchLive == IInv /\ LiveInv /\ Batch => LiveInv'
<1> SUFFICES ASSUME IInv, LiveInv, Batch PROVE LiveInv'
  OBVIOUS
<1>1. ASSUME NEW code, Return(code) PROVE LiveInv'
  BY <1>1, ReturnLive
<1>2. CASE i' = i + 1 /\ phase' = (IF i + 1 = NMax THEN "rank" ELSE "sample") /\ UNCHANGED decs
  <2>1. phase = "batch" /\ i \in Nat
    BY DEF Batch, IInv, Numbers
  <2>2. phase' = "rank" => \A j \in DOMAIN decs : ~Failed(decs[j]) => decs[j].len > 0
    <3> SUFFICES ASSUME phase' = "rank", NEW j \in DOMAIN decs, ~Failed(decs[j])
                 PROVE  decs[j].len > 0
      OBVIOUS
    <3>1. i = NMax - 1
      BY <1>2, <2>1, Sizes
    <3>2. decs[j] \in DecType
      BY <2>1 DEF IInv, Decoders, Trying
    <3>3. decs[j].status \in {"run", "done"}
      BY <3>2 DEF Failed, DecType, Statuses
    <3> QED
      BY <2>1, <3>1, <3>3 DEF LiveInv, Running, Sound
  <2>3. phase' \in {"rank", "sample"}
    BY <1>2
  <2> QED
    BY <1>2, <2>2, <2>3 DEF LiveInv, LiveDecoderWins
<1> QED
  BY <1>1, <1>2 DEF Batch

LEMMA RankLive == IInv /\ LiveInv /\ Rank => LiveInv'
<1> SUFFICES ASSUME IInv, LiveInv, Rank PROVE LiveInv'
  OBVIOUS
<1>1. PICK q \in BOOLEAN, dull \in SUBSET DOMAIN decs :
        LET D == [j \in DOMAIN decs |->
                    LET d == Ranked(decs[j])
                    IN  IF j \in dull THEN [d EXCEPT !.status = "repeats"] ELSE d]
        IN  /\ IF Scored(D) = {} THEN best' = best ELSE best' \in Scored(D)
            /\ \/ phase' = "attempt" /\ decs' = <<>>
               \/ phase' = "emit" /\ decs' = D
  BY DEF Rank
<1> DEFINE D == [j \in DOMAIN decs |->
                    LET d == Ranked(decs[j])
                    IN  IF j \in dull THEN [d EXCEPT !.status = "repeats"] ELSE d]
<1>2. /\ phase = "rank" /\ decs \in [1..NDecoders -> DecType] /\ DOMAIN decs = 1..NDecoders
      /\ \A j \in DOMAIN decs : ~Failed(decs[j]) => decs[j].len > 0
  BY DEF Rank, IInv, Decoders, Trying, LiveInv
<1>3. ASSUME NEW j \in DOMAIN decs
      PROVE  Sound(D[j]) /\ (~Failed(D[j]) => D[j].len > 0)
  <2> DEFINE d == Ranked(decs[j])
  <2>1. DOMAIN decs[j] = {"toks", "tid", "len", "delta", "hasTs", "status"}
    BY <1>2 DEF DecType
  <2>2. /\ DOMAIN d = DOMAIN decs[j] /\ d.len = decs[j].len /\ d.delta = decs[j].delta
        /\ d.hasTs = decs[j].hasTs /\ d.status = decs[j].status
    BY <2>1 DEF Ranked
  <2>3. D[j] = IF j \in dull THEN [d EXCEPT !.status = "repeats"] ELSE d
    OBVIOUS
  <2>4. Sound(decs[j])
    BY DEF LiveInv
  <2> HIDE DEF d, D
  <2>5. CASE j \in dull
    <3>1. /\ D[j].delta = decs[j].delta /\ D[j].hasTs = decs[j].hasTs
          /\ D[j].status = "repeats"
      BY <2>1, <2>2, <2>3, <2>5
    <3> QED
      BY <2>4, <3>1 DEF Sound, Failed
  <2>6. CASE j \notin dull
    BY <1>2, <2>2, <2>3, <2>4, <2>6 DEF Sound, Failed
  <2> QED
    BY <2>5, <2>6
<1>4. CASE phase' = "attempt" /\ decs' = <<>>
  BY <1>4, NothingLive
<1>5. CASE phase' = "emit" /\ decs' = D
  <2>1. DOMAIN D = DOMAIN decs
    OBVIOUS
  <2>2. IF Scored(D) = {} THEN best' = best ELSE best' \in Scored(D)
    BY <1>1
  <2> HIDE DEF D
  <2>3. LiveDecoderWins'
    <3> SUFFICES ASSUME NEW j \in DOMAIN D, ~Failed(D[j]) PROVE ~Failed(D[best'])
      BY <1>5 DEF LiveDecoderWins, Failed
    <3>1. j \in Scored(D)
      BY <1>3, <2>1 DEF Scored
    <3> QED
      BY <2>2, <3>1 DEF Scored
  <2> QED
    BY <1>3, <1>5, <2>1, <2>3 DEF LiveInv
<1> QED
  BY <1>1, <1>4, <1>5

LEMMA OthersLive ==
    IInv /\ LiveInv /\ (Start \/ Window \/ Attempt \/ Emit \/ Free \/ UNCHANGED vars) => LiveInv'
<1>1. ASSUME LiveInv, NEW code, Return(code) PROVE LiveInv'
  BY <1>1, ReturnLive
<1>2. ASSUME IInv, LiveInv, Start PROVE LiveInv'
  <2>1. decs = <<>>
    BY <1>2 DEF Start, IInv, Decoders, Before
  <2> QED
    BY <1>1, <1>2, <2>1, NothingLive DEF Start
<1>3. ASSUME IInv, LiveInv, Window PROVE LiveInv'
  <2>1. decs = <<>>
    BY <1>3 DEF Window, IInv, Decoders, Before
  <2> QED
    BY <1>1, <1>3, <2>1, NothingLive DEF Window
<1>4. ASSUME IInv, LiveInv, Attempt PROVE LiveInv'
  <2>1. CASE decs' = [j \in 1..NDecoders |-> Fresh] /\ phase' = "sample"
    <3>1. Sound(Fresh)
      BY DEF Sound, Fresh
    <3> QED
      BY <2>1, <3>1 DEF LiveInv, LiveDecoderWins
  <2> QED
    BY <1>1, <1>4, <2>1 DEF Attempt
<1>5. ASSUME IInv, LiveInv, Emit PROVE LiveInv'
  BY <1>5, NothingLive DEF Emit
<1>6. ASSUME IInv, LiveInv, Free PROVE LiveInv'
  BY <1>6 DEF Free, LiveInv, LiveDecoderWins
<1>7. ASSUME IInv, LiveInv, UNCHANGED vars PROVE LiveInv'
  BY <1>7 DEF vars, LiveInv, LiveDecoderWins, Running
<1> QED
  BY <1>2, <1>3, <1>4, <1>5, <1>6, <1>7

\* Whatever tokens the sampler picks, what is left to be ranked has not gone back
\* and what is output is alive if anything is.
THEOREM DecodersStayLive == Spec => []LiveInv
<1>1. Init => LiveInv
  <2>1. Init => DOMAIN decs = {}
    BY DEF Init
  <2> QED
    BY <2>1 DEF Init, LiveInv, LiveDecoderWins
<1>2. IInv /\ LiveInv /\ [Next]_vars => LiveInv'
  BY SampleLive, BatchLive, RankLive, OthersLive DEF Next
<1> QED
  BY <1>1, <1>2, LoopInvariant, PTL DEF Spec

\* The masks of whisper_process_logits are tight enough for the token loop: no
\* choice of tokens makes a decoder fail for a timestamp earlier than the last.
THEOREM NeverGoesBack == Spec => []NeverBack
<1>1. LiveInv => NeverBack
  BY DEF LiveInv, NeverBack, Sound
<1> QED
  BY <1>1, DecodersStayLive, PTL

\* For any number of decoders and temperatures, a decoder that failed is output
\* only if every one did: best_decoder_id is never a stale choice by mistake.
THEOREM LiveDecoderIsOutput == Spec => []LiveDecoderWins
<1>1. LiveInv => LiveDecoderWins
  BY DEF LiveInv
<1> QED
  BY <1>1, DecodersStayLive, PTL

-----------------------------------------------------------------------------
(***************************************************************************)
(* The order of the segments.  A timestamp the sampler may pick is no      *)
(* earlier than the ones its decoder has, and the window of the decoder    *)
(* ends no earlier than any of them; so the segments of a window are in    *)
(* order and end before the next window starts.  That a lone timestamp at  *)
(* the end skips the rest of the window only moves the next one further.   *)
(***************************************************************************)

\* The timestamps of a decoder are in order, and none is past the window it has.
InOrder(T) == \A p, q \in 1..Len(T) : p < q /\ Moves(T[p]) /\ Moves(T[q]) => T[p] <= T[q]

Timed(d) ==
    /\ InOrder(d.toks)
    /\ \A p \in 1..Len(d.toks) : Moves(d.toks[p]) => d.hasTs /\ 2 * d.toks[p] <= d.delta

\* The segments of a window are known by positions in its tokens.
Positions == \E n \in Nat : DOMAIN out \subseteq 1..n

OrderInv ==
    /\ \A j \in DOMAIN decs : Timed(decs[j])
    /\ spoken \in Nat /\ Positions
    /\ \A n \in DOMAIN out : out[n][2] \in Nat
    /\ phase \in {"start", "attempt"} \cup Trying => DOMAIN out = {}
    /\ phase \in {"start", "window", "attempt"} \cup Trying => spoken <= seek
    /\ SegmentsInOrder

\* A set of positions that is not empty has a last one.  The positions after each of
\* its members are finite sets, ordered by inclusion: the least of these is empty.
LEMMA LastPosition ==
    ASSUME NEW n \in Nat, NEW S \in SUBSET (1..n), S # {}
    PROVE  FSE!Max(S) \in S /\ \A p \in S : p <= FSE!Max(S)
<1> DEFINE after(m) == {p \in S : p > m}
           F == {after(m) : m \in S}
           R == StrictSubsetOrdering(Nat)
<1>0. \A p \in S : p \in 1..n /\ p \in Nat
  OBVIOUS
<1>1. IsFiniteSet(1..n)
  BY FS_Interval
<1>2. \A m \in S : after(m) \in FiniteSubsetsOf(Nat)
  <2> SUFFICES ASSUME NEW m \in S PROVE after(m) \in FiniteSubsetsOf(Nat)
    OBVIOUS
  <2>1. after(m) \subseteq 1..n /\ after(m) \in SUBSET Nat
    BY <1>0, Zenon
  <2>2. IsFiniteSet(after(m))
    BY <1>1, <2>1, FS_Subset
  <2> QED
    BY <2>1, <2>2 DEF FiniteSubsetsOf
<1>3. F \subseteq FiniteSubsetsOf(Nat) /\ F # {}
  BY <1>2
<1>4. IsWellFoundedOn(R, FiniteSubsetsOf(Nat))
  BY FS_StrictSubsetOrderingWellFounded
<1> HIDE DEF F, R
<1>5. PICK X \in F : \A Y \in F : ~(<<Y, X>> \in R)
  BY <1>3, <1>4, WFMin
<1>6. PICK m \in S : X = after(m)
  BY DEF F
<1>7. after(m) = {}
  <2> SUFFICES ASSUME NEW p \in after(m) PROVE FALSE
    OBVIOUS
  <2>1. p \in S /\ p > m /\ p \in Nat /\ m \in Nat
    BY <1>0
  <2>2. after(p) \subseteq after(m) /\ p \notin after(p) /\ p \in after(m)
    <3>1. ASSUME NEW q \in after(p) PROVE q \in after(m)
      BY <1>0, <2>1
    <3>2. p \notin after(p)
      BY <2>1
    <3> QED
      BY <3>1, <3>2
  <2>3. after(p) \in F /\ after(p) \in SUBSET Nat /\ after(m) \in SUBSET Nat
    <3>1. after(p) \in F
      BY <2>1, Zenon DEF F
    <3>2. \A k \in S : after(k) \in SUBSET Nat
      BY <1>0, Zenon
    <3> QED
      BY <2>1, <3>1, <3>2, Zenon
  <2> HIDE DEF after
  <2>4. <<after(p), after(m)>> \in R
    BY <2>2, <2>3 DEF R, StrictSubsetOrdering
  <2> QED
    BY <1>5, <1>6, <2>3, <2>4
<1>8. \A p \in S : m >= p
  BY <1>7
<1>9. FSE!Max(S) \in S /\ \A p \in S : FSE!Max(S) >= p
  BY <1>8 DEF FSE!Max
<1> QED
  BY <1>9

\* The segments of a window are in order, and within the window.
LEMMA SegmentsOrdered ==
    ASSUME seek \in Nat, NEW T \in Seq(Tokens), NEW first \in Nat, NEW delta \in Nat,
           InOrder(T), \A p \in 1..Len(T) : Moves(T[p]) => 2 * T[p] <= delta
    PROVE  LET S == Segments(T, first, delta)
           IN  /\ DOMAIN S \subseteq 1..Len(T) + 1
               /\ \A n \in DOMAIN S :
                     /\ S[n][2] \in Nat /\ seek <= S[n][2] /\ S[n][2] <= seek + delta
                     /\ \A m \in DOMAIN S : m < n => S[m][2] <= S[n][1] /\ S[n][1] <= S[n][2]
<1> DEFINE S == Segments(T, first, delta)
<1>1. Len(T) \in Nat /\ \A p \in 1..Len(T) : Moves(T[p]) => T[p] \in Nat /\ T[p] > 0
  <2>1. Stamps \subseteq Nat
    BY SizesAssumption
  <2>2. \A t \in Tokens : Moves(t) => t \in Nat /\ t > 0
    BY <2>1 DEF Tokens, Text, Eot, Moves
  <2> QED
    BY <2>2
<1>2. /\ DOMAIN S = {n \in 1..Len(T) + 1 : (n <= Len(T) => Moves(T[n])) /\ TextLeft(T, n)}
      /\ \A n \in DOMAIN S :
            /\ S[n][1] = StartOf(T, n, first)
            /\ S[n][2] = seek + (IF n <= Len(T) THEN 2 * T[n] ELSE delta)
  BY DEF Segments
<1> HIDE DEF S
<1>3. ASSUME NEW n \in DOMAIN S
      PROVE  /\ n \in 1..Len(T) + 1 /\ n \in Nat
             /\ S[n][2] \in Nat /\ seek <= S[n][2] /\ S[n][2] <= seek + delta
             /\ \A p \in 1..n - 1 : Moves(T[p]) => seek + 2 * T[p] <= S[n][2]
  <2>1. n \in 1..Len(T) + 1 /\ n \in Nat /\ (n <= Len(T) => Moves(T[n]))
    BY <1>1, <1>2
  <2>2. CASE n <= Len(T)
    <3>1. n \in 1..Len(T) /\ T[n] \in Nat /\ 2 * T[n] <= delta /\ S[n][2] = seek + 2 * T[n]
      BY <1>1, <1>2, <2>1, <2>2
    <3>2. \A p \in 1..n - 1 : Moves(T[p]) => T[p] <= T[n] /\ T[p] \in Nat
      <4> SUFFICES ASSUME NEW p \in 1..n - 1, Moves(T[p]) PROVE T[p] <= T[n] /\ T[p] \in Nat
        OBVIOUS
      <4>1. p \in 1..Len(T) /\ p < n /\ Moves(T[n])
        BY <1>1, <2>1, <2>2, <3>1
      <4> QED
        BY <1>1, <3>1, <4>1 DEF InOrder
    <3> QED
      BY <2>1, <3>1, <3>2, SMTT(30)
  <2>3. CASE ~(n <= Len(T))
    <3>1. n - 1 = Len(T) /\ S[n][2] = seek + delta
      BY <1>1, <1>2, <2>1, <2>3
    <3>2. \A p \in 1..n - 1 : Moves(T[p]) => 2 * T[p] <= delta /\ T[p] \in Nat
      BY <1>1, <3>1
    <3> QED
      BY <2>1, <3>1, <3>2
  <2> QED
    BY <2>2, <2>3
<1>4. ASSUME NEW n \in DOMAIN S, NEW m \in DOMAIN S, m < n
      PROVE  S[m][2] <= S[n][1] /\ S[n][1] <= S[n][2]
  <2> DEFINE stamps == {p \in 1..n - 1 : Moves(T[p])}
             last == FSE!Max(stamps)
  <2>1. n \in 1..Len(T) + 1 /\ m \in 1..Len(T) + 1 /\ m <= Len(T) /\ m \in 1..n - 1
    BY <1>1, <1>2, <1>4
  <2>2. Moves(T[m]) /\ S[m][2] = seek + 2 * T[m]
    BY <1>2, <2>1
  <2>3. m \in stamps
    BY <2>1, <2>2
  <2>4. last \in stamps /\ \A p \in stamps : p <= last
    <3>1. n - 1 \in Nat /\ stamps \in SUBSET (1..n - 1) /\ stamps # {}
      BY <1>1, <2>1, <2>3
    <3> HIDE DEF stamps
    <3> QED
      BY <3>1, LastPosition
  <2>5. S[n][1] = seek + 2 * T[last]
    BY <1>2, <2>3 DEF StartOf
  <2>6. last \in 1..Len(T) /\ m \in 1..Len(T) /\ m <= last /\ Moves(T[last])
        /\ last \in 1..n - 1
    BY <1>1, <2>1, <2>3, <2>4
  <2> HIDE DEF last, stamps
  <2>7. T[m] \in Nat /\ T[last] \in Nat /\ T[m] <= T[last]
    BY <1>1, <2>2, <2>6, SMTT(30) DEF InOrder
  <2>8. seek + 2 * T[last] <= S[n][2]
    BY <1>3, <2>6
  <2> QED
    BY <2>2, <2>5, <2>7, <2>8
<1> QED
  BY <1>1, <1>3, <1>4 DEF S

\* The token whisper_process_logits leaves a decoder keeps its timestamps in order.
LEMMA TokenTimed ==
    ASSUME NEW d \in DecType, Sound(d), Timed(d), NEW t \in Allowed(d), NEW tid
    PROVE  Timed(Appended(Accept(d, t), t, tid))
<1> DEFINE e == Stamped(d, t)
           a == Accept(d, t)
<1>1. /\ t \in Tokens /\ (Moves(t) => t \in Nat)
      /\ Moves(t) => (d.hasTs => t >= d.delta \div 2)
  BY SizesAssumption DEF Allowed, IsStamp, Tokens, Text, Eot, Moves
<1>2. /\ DOMAIN d = {"toks", "tid", "len", "delta", "hasTs", "status"}
      /\ d.toks \in Seq(Tokens) /\ d.delta \in Nat /\ d.hasTs \in BOOLEAN
  BY SizesAssumption DEF DecType
<1>3. \A p \in 1..Len(d.toks) :
         Moves(d.toks[p]) => d.toks[p] \in Nat /\ (Moves(t) => d.toks[p] <= t)
  <2> SUFFICES ASSUME NEW p \in 1..Len(d.toks), Moves(d.toks[p])
               PROVE  d.toks[p] \in Nat /\ (Moves(t) => d.toks[p] <= t)
    OBVIOUS
  <2>1. d.toks[p] \in Nat
    <3>1. d.toks[p] \in Tokens
      BY <1>2
    <3>2. Stamps \subseteq Nat
      BY SizesAssumption
    <3> QED
      BY <3>1, <3>2 DEF Tokens, Text, Eot, Moves
  <2>2. d.hasTs /\ 2 * d.toks[p] <= d.delta /\ 2 * (d.delta \div 2) = d.delta
    BY DEF Timed, Sound
  <2>3. Moves(t) => t >= d.delta \div 2 /\ t \in Nat
    BY <1>1, <2>2
  <2>4. d.delta \div 2 \in Nat
    BY <1>2
  <2> QED
    BY <1>2, <2>1, <2>2, <2>3, <2>4
<1>4. /\ DOMAIN e = DOMAIN d /\ e.toks = d.toks
      /\ IF Moves(t) THEN e.delta = 2 * t /\ e.hasTs ELSE e.delta = d.delta /\ e.hasTs = d.hasTs
  <2>1. CASE Moves(t)
    BY <1>2, <2>1 DEF Stamped, Moves
  <2>2. CASE ~Moves(t)
    BY <1>2, <2>2 DEF Stamped, Moves
  <2> QED
    BY <2>1, <2>2
<1>5. ~(t > 0 /\ d.hasTs /\ d.delta > 2 * t)
  <2> SUFFICES ASSUME Moves(t), d.hasTs PROVE ~(d.delta > 2 * t)
    BY DEF Moves
  <2>1. 2 * (d.delta \div 2) = d.delta /\ t >= d.delta \div 2 /\ t \in Nat
    BY <1>1 DEF Sound
  <2>2. d.delta \div 2 \in Nat
    BY <1>2
  <2> QED
    BY <1>2, <2>1, <2>2
<1>6. \/ a = [e EXCEPT !.status = "done"]
      \/ a = [e EXCEPT !.status = "done", !.len = i + 1]
      \/ a = [e EXCEPT !.status = "failed"]
      \/ a = e
  <2> HIDE DEF e
  <2> QED
    BY <1>5 DEF Accept, e
<1> HIDE DEF e, a
<1>7. DOMAIN a = DOMAIN d /\ a.toks = d.toks /\ a.delta = e.delta /\ a.hasTs = e.hasTs
  BY <1>2, <1>4, <1>6
<1> DEFINE b == Appended(a, t, tid)
<1>8. b.toks = Append(d.toks, t) /\ b.delta = e.delta /\ b.hasTs = e.hasTs
  BY <1>2, <1>7 DEF Appended
<1> HIDE DEF b
<1>9. /\ Len(b.toks) = Len(d.toks) + 1 /\ Len(d.toks) \in Nat
      /\ \A p \in 1..Len(d.toks) : b.toks[p] = d.toks[p]
      /\ b.toks[Len(d.toks) + 1] = t
  BY <1>2, <1>8
<1>10. InOrder(b.toks)
  <2> SUFFICES ASSUME NEW p \in 1..Len(b.toks), NEW q \in 1..Len(b.toks), p < q,
                      Moves(b.toks[p]), Moves(b.toks[q])
               PROVE  b.toks[p] <= b.toks[q]
    BY DEF InOrder
  <2>1. p \in 1..Len(d.toks) /\ b.toks[p] = d.toks[p]
    BY <1>9
  <2>2. CASE q \in 1..Len(d.toks)
    BY <1>9, <2>1, <2>2 DEF Timed, InOrder
  <2>3. CASE q = Len(d.toks) + 1
    BY <1>3, <1>9, <2>1, <2>3
  <2> QED
    BY <1>9, <2>2, <2>3
<1>11. ASSUME NEW p \in 1..Len(b.toks), Moves(b.toks[p])
       PROVE  b.hasTs /\ 2 * b.toks[p] <= b.delta
  <2>1. CASE p \in 1..Len(d.toks)
    <3>1. Moves(d.toks[p]) /\ d.toks[p] \in Nat /\ d.hasTs /\ 2 * d.toks[p] <= d.delta
          /\ b.toks[p] = d.toks[p]
      BY <1>3, <1>9, <1>11, <2>1 DEF Timed
    <3>2. CASE Moves(t)
      BY <1>1, <1>3, <1>4, <1>8, <2>1, <3>1, <3>2
    <3>3. CASE ~Moves(t)
      BY <1>4, <1>8, <3>1, <3>3
    <3> QED
      BY <3>2, <3>3
  <2>2. CASE p = Len(d.toks) + 1
    BY <1>1, <1>4, <1>8, <1>9, <1>11, <2>2
  <2> QED
    BY <1>9, <2>1, <2>2
<1> QED
  BY <1>10, <1>11 DEF Timed, b, a

\* Ranking cuts a decoder's tokens, and may fail it: the timestamps left are in order.
LEMMA RankedTimed ==
    ASSUME NEW d \in DecType, Timed(d), d.len <= Len(d.toks)
    PROVE  /\ Timed(Ranked(d))
           /\ Timed([Ranked(d) EXCEPT !.status = "repeats"])
<1>1. DOMAIN d = {"toks", "tid", "len", "delta", "hasTs", "status"} /\ d.len \in Nat
      /\ d.toks \in Seq(Tokens)
  BY DEF DecType
<1> DEFINE T == SubSeq(d.toks, 1, d.len)
<1>2. Len(T) = d.len /\ \A p \in 1..Len(T) : p \in 1..Len(d.toks) /\ T[p] = d.toks[p]
  BY <1>1
<1> HIDE DEF T
<1>3. InOrder(T) /\ \A p \in 1..Len(T) : Moves(T[p]) => d.hasTs /\ 2 * T[p] <= d.delta
  BY <1>2 DEF Timed, InOrder
<1> DEFINE r == Ranked(d)
<1>4. /\ DOMAIN r = DOMAIN d /\ (r.toks = d.toks \/ r.toks = T)
      /\ r.delta = d.delta /\ r.hasTs = d.hasTs
  BY <1>1 DEF Ranked, T
<1> HIDE DEF r
<1>5. Timed(r)
  BY <1>3, <1>4 DEF Timed
<1>6. LET s == [r EXCEPT !.status = "repeats"]
      IN  s.toks = r.toks /\ s.delta = r.delta /\ s.hasTs = r.hasTs
  BY <1>1, <1>4
<1>7. Timed([r EXCEPT !.status = "repeats"])
  BY <1>5, <1>6 DEF Timed
<1> QED
  BY <1>5, <1>7 DEF r

\* The call returns with the segments it has.
LEMMA ReturnOrder ==
    ASSUME OrderInv, NEW code, Return(code)
    PROVE  OrderInv'
<1>1. phase' = "returned" /\ UNCHANGED <<end, seek, out, spoken, decs>>
  BY DEF Return, loop
<1> QED
  BY <1>1 DEF OrderInv, Positions, SegmentsInOrder, Trying

\* The segments of the window before are behind seek when the next window starts.
LEMMA WindowOrder == IInv /\ OrderInv /\ Window => OrderInv'
<1> SUFFICES ASSUME IInv, OrderInv, Window PROVE OrderInv'
  OBVIOUS
<1>1. ASSUME NEW code, Return(code) PROVE OrderInv'
  BY <1>1, ReturnOrder
<1>2. CASE /\ ~(seek + DeltaMin >= end) /\ phase' = "attempt"
           /\ spoken' = (IF out = <<>> THEN spoken ELSE out[FSE!Max(DOMAIN out)][2])
           /\ out' = <<>> /\ UNCHANGED <<seek, decs>>
  <2>1. /\ phase = "window" /\ seek \in Nat /\ end \in Nat /\ ~(seek >= end)
        /\ spoken \in Nat /\ spoken <= seek
    BY <1>2, SizesAssumption DEF Window, IInv, Numbers, OrderInv
  <2>2. spoken' \in Nat /\ spoken' <= seek
    <3>1. CASE out = <<>>
      BY <1>2, <2>1, <3>1
    <3>2. CASE out # <<>> /\ DOMAIN out # {}
      <4>1. PICK n \in Nat : DOMAIN out \subseteq 1..n
        BY DEF OrderInv, Positions
      <4>2. FSE!Max(DOMAIN out) \in DOMAIN out
        BY <3>2, <4>1, LastPosition
      <4>3. spoken' = out[FSE!Max(DOMAIN out)][2]
        BY <1>2, <3>2
      <4> QED
        BY <2>1, <4>2, <4>3 DEF OrderInv, SegmentsInOrder
    <3>3. CASE DOMAIN out = {}
      <4>1. out = <<>>
        BY <3>3 DEF OrderInv
      <4> QED
        BY <3>1, <4>1
    <3> QED
      BY <3>1, <3>2, <3>3
  <2>3. DOMAIN out' = {}
    BY <1>2
  <2>4. Positions' /\ SegmentsInOrder'
    BY <2>3 DEF Positions, SegmentsInOrder
  <2> QED
    BY <1>2, <2>2, <2>3, <2>4 DEF OrderInv, Trying
<1> QED
  BY <1>1, <1>2 DEF Window

LEMMA SampleOrder == IInv /\ LiveInv /\ OrderInv /\ Sample => OrderInv'
<1> SUFFICES ASSUME IInv, LiveInv, OrderInv, Sample PROVE OrderInv'
  OBVIOUS
<1> DEFINE R == Running(decs)
<1>1. PICK pick \in [R -> Tokens], tid \in Stamps \cup {0} :
        /\ \A j \in R : pick[j] \in Allowed(decs[j])
        /\ decs' = [j \in DOMAIN decs |->
                      IF j \in R THEN Appended(Accept(decs[j], pick[j]), pick[j], tid)
                      ELSE decs[j]]
  <2>1. {s \in Stamps : s <= MaxInitial} \subseteq Stamps \cup {0} /\ {0} \subseteq Stamps \cup {0}
    OBVIOUS
  <2> QED
    BY <2>1 DEF Sample
<1>2. /\ phase = "sample" /\ phase' \in {"rank", "batch"}
      /\ UNCHANGED <<end, seek, out, spoken>>
  BY DEF Sample, loop
<1>3. decs \in [1..NDecoders -> DecType] /\ DOMAIN decs = 1..NDecoders /\ R \subseteq DOMAIN decs
  BY <1>2 DEF IInv, Decoders, Trying, Running
<1>4. DOMAIN decs' = DOMAIN decs
  BY <1>1
<1>5. ASSUME NEW j \in DOMAIN decs' PROVE Timed(decs'[j])
  <2>1. CASE j \in R
    <3>1. decs'[j] = Appended(Accept(decs[j], pick[j]), pick[j], tid)
      BY <1>1, <1>3, <2>1
    <3>2. decs[j] \in DecType /\ Sound(decs[j]) /\ Timed(decs[j]) /\ pick[j] \in Allowed(decs[j])
      BY <1>1, <1>3, <2>1 DEF LiveInv, OrderInv
    <3> QED
      BY <3>1, <3>2, TokenTimed
  <2>2. CASE j \notin R
    <3>1. decs'[j] = decs[j]
      BY <1>1, <1>4, <2>2
    <3> QED
      BY <1>4, <3>1 DEF OrderInv
  <2> QED
    BY <2>1, <2>2
<1> QED
  BY <1>2, <1>5 DEF OrderInv, Positions, SegmentsInOrder, Trying

LEMMA RankOrder == IInv /\ OrderInv /\ Rank => OrderInv'
<1> SUFFICES ASSUME IInv, OrderInv, Rank PROVE OrderInv'
  OBVIOUS
<1>1. PICK dull \in SUBSET DOMAIN decs :
        LET D == [j \in DOMAIN decs |->
                    LET d == Ranked(decs[j])
                    IN  IF j \in dull THEN [d EXCEPT !.status = "repeats"] ELSE d]
        IN  \/ phase' = "attempt" /\ decs' = <<>>
            \/ phase' = "emit" /\ decs' = D
  BY DEF Rank
<1>2. phase = "rank" /\ UNCHANGED <<end, seek, out, spoken>>
  BY DEF Rank, loop
<1>3. /\ decs \in [1..NDecoders -> DecType] /\ DOMAIN decs = 1..NDecoders
      /\ \A j \in DOMAIN decs : decs[j].len <= Len(decs[j].toks)
  BY <1>2 DEF IInv, Decoders, Trying
<1>4. ASSUME NEW j \in DOMAIN decs' PROVE Timed(decs'[j])
  <2>1. decs' # <<>> /\ j \in DOMAIN decs
    BY <1>1, <1>4
  <2>2. decs'[j] \in {Ranked(decs[j]), [Ranked(decs[j]) EXCEPT !.status = "repeats"]}
    BY <1>1, <2>1
  <2>3. decs[j] \in DecType /\ Timed(decs[j]) /\ decs[j].len <= Len(decs[j].toks)
    BY <1>3, <2>1 DEF OrderInv
  <2> QED
    BY <2>2, <2>3, RankedTimed
<1>5. phase' \in {"attempt", "emit"}
  BY <1>1
<1> QED
  BY <1>2, <1>4, <1>5 DEF OrderInv, Positions, SegmentsInOrder, Trying

\* The segments that are output come after the ones before and end before the next window.
LEMMA EmitOrder == IInv /\ OrderInv /\ Emit => OrderInv'
<1> SUFFICES ASSUME IInv, OrderInv, Emit PROVE OrderInv'
  OBVIOUS
<1> DEFINE d == decs[best]
<1>1. /\ phase = "emit" /\ phase' = "window" /\ decs' = <<>> /\ UNCHANGED <<end, spoken>>
      /\ seek' = seek + Advance(d)
      /\ out' = <<>> \/ out' = Segments(d.toks, d.tid, d.delta)
  BY DEF Emit
<1>2. d \in DecType /\ Timed(d)
  <2>1. decs \in [1..NDecoders -> DecType] /\ best \in 1..NDecoders
    BY <1>1 DEF IInv, Decoders, Numbers, Trying
  <2> QED
    BY <2>1 DEF OrderInv
<1>3. /\ d.toks \in Seq(Tokens) /\ d.tid \in Nat /\ d.delta \in Nat /\ d.delta <= Chunk
      /\ InOrder(d.toks) /\ \A p \in 1..Len(d.toks) : Moves(d.toks[p]) => 2 * d.toks[p] <= d.delta
  BY <1>2, SizesAssumption DEF DecType, Timed
<1> HIDE DEF d
<1>4. /\ seek \in Nat /\ end \in Nat /\ seek < end
      /\ spoken \in Nat /\ spoken <= seek
  BY <1>1 DEF IInv, Numbers, OrderInv, Trying
<1>5. seek' \in Nat /\ seek <= seek' /\ (seek + d.delta <= seek' \/ seek' >= end)
  <2>1. Advance(d) \in {d.delta, end - seek, Chunk}
    BY DEF Advance, Less
  <2> QED
    BY <1>1, <1>3, <1>4, <2>1, SizesAssumption
<1>6. CASE out' = <<>>
  <2>1. DOMAIN out' = {}
    BY <1>6
  <2> QED
    BY <1>1, <1>4, <1>5, <2>1 DEF OrderInv, Positions, SegmentsInOrder, Trying
<1>7. CASE out' = Segments(d.toks, d.tid, d.delta)
  <2>1. /\ DOMAIN out' \subseteq 1..Len(d.toks) + 1
        /\ \A n \in DOMAIN out' :
              /\ out'[n][2] \in Nat /\ seek <= out'[n][2] /\ out'[n][2] <= seek + d.delta
              /\ \A m \in DOMAIN out' : m < n => out'[m][2] <= out'[n][1] /\ out'[n][1] <= out'[n][2]
    BY <1>3, <1>4, <1>7, SegmentsOrdered
  <2>2. Positions'
    <3>1. Len(d.toks) + 1 \in Nat
      BY <1>3
    <3> QED
      BY <2>1, <3>1 DEF Positions
  <2>3. SegmentsInOrder'
    <3>1. ASSUME NEW n \in DOMAIN out'
          PROVE  (out'[n][2] <= seek' \/ seek' >= end) /\ spoken <= out'[n][2]
      BY <1>3, <1>4, <1>5, <2>1
    <3> QED
      BY <1>1, <2>1, <3>1 DEF SegmentsInOrder
  <2>4. DOMAIN decs' = {}
    BY <1>1
  <2> QED
    BY <1>1, <1>4, <1>5, <2>1, <2>2, <2>3, <2>4 DEF OrderInv, Trying
<1> QED
  BY <1>1, <1>6, <1>7

\* The other steps leave segments, seek and the decoders' tokens alone.
LEMMA OthersOrder ==
    OrderInv /\ (Start \/ Attempt \/ Batch \/ Free \/ UNCHANGED vars) => OrderInv'
<1>1. ASSUME OrderInv, NEW code, Return(code) PROVE OrderInv'
  BY <1>1, ReturnOrder
<1>2. ASSUME OrderInv, Start PROVE OrderInv'
  <2>1. CASE phase = "start" /\ phase' = "window" /\ UNCHANGED <<end, loop, decs>>
    BY <1>2, <2>1 DEF OrderInv, Positions, SegmentsInOrder, Trying, loop
  <2> QED
    BY <1>1, <1>2, <2>1 DEF Start
<1>3. ASSUME OrderInv, Attempt PROVE OrderInv'
  <2>1. CASE /\ decs' = [j \in 1..NDecoders |-> Fresh] /\ phase = "attempt" /\ phase' = "sample"
             /\ UNCHANGED <<end, loop>>
    <3>1. Timed(Fresh)
      BY DEF Timed, InOrder, Fresh
    <3> QED
      BY <1>3, <2>1, <3>1 DEF OrderInv, Positions, SegmentsInOrder, Trying, loop
  <2> QED
    BY <1>1, <1>3, <2>1 DEF Attempt
<1>4. ASSUME OrderInv, Batch PROVE OrderInv'
  <2>1. CASE phase = "batch" /\ phase' \in {"rank", "sample"} /\ UNCHANGED <<end, loop, decs>>
    BY <1>4, <2>1 DEF OrderInv, Positions, SegmentsInOrder, Trying, loop
  <2> QED
    BY <1>1, <1>4, <2>1 DEF Batch
<1>5. ASSUME OrderInv, Free PROVE OrderInv'
  BY <1>5 DEF Free, OrderInv, Positions, SegmentsInOrder, Trying, loop
<1>6. ASSUME OrderInv, UNCHANGED vars PROVE OrderInv'
  BY <1>6 DEF vars, loop, OrderInv, Positions, SegmentsInOrder, Trying
<1> QED
  BY <1>2, <1>3, <1>4, <1>5, <1>6

\* The invariant holds of the loop, for all sizes, tokens and temperatures.
THEOREM SegmentsStayOrdered == Spec => []OrderInv
<1>1. Init => OrderInv
  <2> SUFFICES ASSUME Init PROVE OrderInv
    OBVIOUS
  <2>1. DOMAIN decs = {} /\ DOMAIN out = {}
    BY DEF Init
  <2> QED
    BY <2>1 DEF Init, OrderInv, Positions, SegmentsInOrder
<1>2. IInv /\ LiveInv /\ OrderInv /\ [Next]_vars => OrderInv'
  BY WindowOrder, SampleOrder, RankOrder, EmitOrder, OthersOrder DEF Next
<1> QED
  BY <1>1, <1>2, LoopInvariant, DecodersStayLive, PTL DEF Spec

\* The segments whisper_full_with_state adds to result_all are in order: none starts
\* before the one before it in its window ends, none ends before the windows before it
\* or after the start of the next, whatever the sampler picks.
THEOREM SegmentsAreInOrder == Spec => []SegmentsInOrder
<1>1. OrderInv => SegmentsInOrder
  BY DEF OrderInv
<1> QED
  BY <1>1, SegmentsStayOrdered, PTL
===============================================================================
