-------------------------------- MODULE Decode --------------------------------
(***************************************************************************)
(* One transcription: whisper_full_with_state as the JNI bridge calls it   *)
(* (greedy, timestamps on, no abort callback), and the release of the      *)
(* context by WhisperEngine.                                               *)
(*                                                                         *)
(* The audio is decoded window by window.  A window is encoded, then tried *)
(* at rising temperatures until a sequence of tokens is accepted; its      *)
(* timestamps decide where the next window starts.  Probabilities are      *)
(* abstracted to choices; the sampling threads of one step share nothing,  *)
(* so the decoders' steps are taken together.  Times are in ticks of       *)
(* seek (10 ms in the code).                                               *)
(***************************************************************************)
EXTENDS Integers, Sequences, FiniteSets

FSE == INSTANCE FiniteSetsExt

CONSTANTS
    Ends,           \* lengths of the audio (seek_end)
    Chunk,          \* 100*WHISPER_CHUNK_SIZE, ticks of a window
    DeltaMin,       \* delta_min, ticks too short to decode
    Short,          \* rest so short that the text before it is dropped (500)
    Stamps,         \* timestamps the model can tell, in steps of two ticks
    MaxInitial,     \* max_initial_ts
    TextCtx,        \* n_text_ctx
    Pad,            \* cells the cache is padded to (256)
    Reserve,        \* cells of TextCtx the code keeps free of a window (4)
    InitTokens,     \* tokens of prompt_init
    Temperatures,   \* number of temperatures
    Conditioned,    \* those below WHISPER_HISTORY_CONDITIONING_TEMP_CUTOFF
    BestOf,         \* greedy.best_of: decoders at a temperature above 0
    Lengthy         \* result length from which the entropy counts (32)

ASSUME SizesAssumption ==
    /\ Chunk \in Nat /\ DeltaMin \in Nat \ {0} /\ Ends \subseteq Nat
    /\ Stamps \subseteq 0..Chunk \div 2 /\ MaxInitial \in Stamps
    /\ Temperatures \in Nat \ {0} /\ BestOf \in Nat \ {0} /\ Pad \in Nat \ {0}
    \* prompt_init (at most four tokens) fits in what n_max leaves free
    /\ TextCtx \in Nat /\ Reserve \in Nat /\ Reserve < TextCtx \div 2
    /\ InitTokens \in Nat /\ InitTokens <= Reserve

\* Tokens by rank of their id: text, then end of text, then the timestamps.
Text == -2
Eot  == -1
Tokens == {Text, Eot} \cup Stamps

NMax      == TextCtx \div 2 - Reserve     \* n_max
MaxPrompt == TextCtx \div 2               \* max_prompt_ctx

VARIABLES
    phase,      \* where the call is
    end,        \* seek_end
    seek,       \* start of the current window
    past,       \* length of prompt_past1
    it,         \* temperature being tried
    plen,       \* length of prompt
    i,          \* tokens each unfinished decoder has
    decs,       \* decoders of this attempt
    best,       \* best_decoder_id
    quiet,      \* no_speech_prob > no_speech_thold, chosen where it is first read
    kvSize,     \* kv_self.size
    kvUsed,     \* occupied cells; they fill from the front until the next clear
    kvDec,      \* kv_self_n_dec
    out,        \* segments of the window just decoded, by where they end in its tokens
    spoken,     \* end of the last segment of the windows before it
    ret,        \* value returned
    freed       \* times the state was freed

loop == <<seek, past, out, spoken>>
kv   == <<kvSize, kvUsed, kvDec>>
vars == <<phase, end, loop, it, plen, i, decs, best, quiet, kv, ret, freed>>

Less(a, b) == IF a < b THEN a ELSE b
Padded(n)  == ((n + Pad - 1) \div Pad) * Pad

-----------------------------------------------------------------------------
Init ==
    /\ phase = "start" /\ end \in Ends
    /\ seek = 0 /\ past = 0 /\ out = <<>> /\ spoken = 0
    /\ it = 1 /\ plen = 0 /\ i = 0 /\ decs = <<>> /\ best = 1 /\ quiet = FALSE
    /\ kvSize = Padded(TextCtx) /\ kvUsed = 0 /\ kvDec = 1
    /\ ret = 0 /\ freed = 0

Return(code) ==
    /\ phase' = "returned" /\ ret' = code
    /\ UNCHANGED <<end, loop, it, plen, i, decs, best, quiet>>

\* Spectrogram and language detection (-3 when that fails); audio of less than
\* 100 ms is not decoded at all.
Start ==
    /\ phase = "start" /\ UNCHANGED <<kv, freed>>
    /\ \/ Return(-3)
       \/ end < DeltaMin /\ Return(0)
       \/ /\ end >= DeltaMin /\ phase' = "window"
          /\ UNCHANGED <<end, loop, it, plen, i, decs, best, quiet, ret>>

\* Head of the main loop: stop, or encode the window at seek.
Window ==
    /\ phase = "window" /\ UNCHANGED <<kv, freed>>
    /\ IF seek + DeltaMin >= end THEN Return(0)
       ELSE \/ Return(-6)
            \/ /\ phase' = "attempt" /\ it' = 1 /\ best' = 1
               /\ past' = IF seek > 0 /\ seek + Short >= end THEN 0 ELSE past
               /\ spoken' = (IF out = <<>> THEN spoken ELSE out[FSE!Max(DOMAIN out)][2]) /\ out' = <<>>
               /\ UNCHANGED <<end, seek, plen, i, decs, quiet, ret>>

NDecoders == IF it = 1 THEN 1 ELSE BestOf

Fresh == [toks |-> <<>>, tid |-> 0, len |-> 0, delta |-> Chunk, hasTs |-> FALSE,
          status |-> "run"]

\* Mutant: the text before is taken without a limit.
PromptLenAll ==
    IF it \in Conditioned /\ past > 0 THEN 1 + past + InitTokens ELSE InitTokens

\* prompt: the marker and the last of the text before, if this temperature is
\* conditioned on it, then prompt_init.
PromptLen ==
    IF it \in Conditioned /\ past > 0
    THEN 1 + Less(MaxPrompt - 1, past) + InitTokens
    ELSE InitTokens

\* Mutant: one context's worth of cells for all the decoders.
KvCellsOne(n) == Padded(TextCtx)

\* Cells of the cache for n decoders.
KvCells(n) == Padded(TextCtx) * (IF n > 1 THEN n + 2 ELSE 1)

\* Start of an attempt: decoders reset, prompt built, cache recreated if it was
\* made for fewer decoders, cleared, and the prompt decoded.  When the cache
\* cannot be allocated the state is freed and ctx->state left pointing at it.
Attempt ==
    /\ phase = "attempt"
    /\ LET grow == kvDec < NDecoders
           size == IF grow THEN KvCells(NDecoders) ELSE kvSize
       IN  \/ /\ grow
              /\ Return(-7) /\ freed' = freed + 1
              /\ UNCHANGED kv
           \/ /\ kvSize' = size /\ kvDec' = IF grow THEN NDecoders ELSE kvDec
              /\ kvUsed' = PromptLen
              /\ Return(-8) /\ UNCHANGED freed
           \/ /\ PromptLen <= size
              /\ kvSize' = size /\ kvDec' = IF grow THEN NDecoders ELSE kvDec
              /\ kvUsed' = PromptLen /\ plen' = PromptLen
              /\ decs' = [j \in 1..NDecoders |-> Fresh] /\ i' = 0
              /\ phase' = "sample"
              /\ UNCHANGED <<end, loop, it, best, quiet, ret, freed>>

-----------------------------------------------------------------------------
IsStamp(t) == t >= 0

\* Mutant: a timestamp may be earlier than the one before.
AllowedAny(d) ==
    LET n    == Len(d.toks)
        last == n > 0 /\ IsStamp(d.toks[n])
        pen  == n < 2 \/ IsStamp(d.toks[n - 1])
    IN  {t \in Tokens :
            /\ t = Text => ~(last /\ ~pen)
            /\ t = Eot => n > 0
            /\ IsStamp(t) => ~(last /\ pen) /\ (n = 0 => t <= MaxInitial)}

\* Tokens whisper_process_logits leaves a decoder: no end of text first, stamps in
\* pairs except before the end, the first one early, none before the one known.
Allowed(d) ==
    LET n    == Len(d.toks)
        last == n > 0 /\ IsStamp(d.toks[n])
        pen  == n < 2 \/ IsStamp(d.toks[n - 1])
    IN  {t \in Tokens :
            /\ t = Text => ~(last /\ ~pen)
            /\ t = Eot => n > 0
            /\ IsStamp(t) => /\ ~(last /\ pen)
                             /\ n = 0 => t <= MaxInitial
                             /\ d.hasTs => t >= d.delta \div 2}

\* Mutant: the stamp of the window's start counts as an end of the window.
StampedZero(d, t) ==
    IF t >= 0 THEN [d EXCEPT !.delta = 2 * t, !.len = i + 1, !.hasTs = TRUE] ELSE d

\* Mutant: one token too many is accepted.
StampedPast(d, t) ==
    IF t > 0 THEN [d EXCEPT !.delta = 2 * t, !.len = i + 2, !.hasTs = TRUE] ELSE d

\* A timestamp moves the end of the window and of the accepted tokens.
Stamped(d, t) ==
    IF t > 0 THEN [d EXCEPT !.delta = 2 * t, !.len = i + 1, !.hasTs = TRUE] ELSE d

AtEnd(d) == seek + d.delta + DeltaMin >= end

\* What the loop makes of decoder d when its token number i is t.
Accept(d, t) ==
    LET e    == Stamped(d, t)
        back == t > 0 /\ d.hasTs /\ d.delta > 2 * t /\ d.len < i
        stop == t = Eot \/ (e.hasTs /\ AtEnd(e))
    IN  IF back THEN [d EXCEPT !.status = "back"]
        ELSE IF stop /\ e.len > 0 THEN [e EXCEPT !.status = "done"]
        ELSE IF stop /\ AtEnd(e) THEN [e EXCEPT !.status = "done", !.len = i + 1]
        ELSE IF stop THEN [e EXCEPT !.status = "failed"]
        ELSE IF i = NMax - 1 /\ (e.len = 0 \/ e.delta < Chunk \div 2)
             THEN [e EXCEPT !.status = "failed"]
        ELSE e

Running(D) == {j \in DOMAIN D : D[j].status = "run"}

\* The decoder with token t appended; tid is the likeliest timestamp there.
Appended(d, t, tid) ==
    [d EXCEPT !.toks = Append(@, t),
              !.tid = IF Len(d.toks) > 0 THEN @ ELSE IF IsStamp(t) THEN t ELSE tid]

\* Token i of every unfinished decoder, then one batch for those that go on.
Sample ==
    /\ phase = "sample"
    /\ \E pick \in [Running(decs) -> Tokens] :
       \E tid \in IF i = 0 THEN {s \in Stamps : s <= MaxInitial} ELSE {0} :
          /\ \A j \in Running(decs) : pick[j] \in Allowed(decs[j])
          /\ decs' = [j \in DOMAIN decs |->
                        IF j \in Running(decs)
                        THEN Appended(Accept(decs[j], pick[j]), pick[j], tid)
                        ELSE decs[j]]
    /\ phase' = IF Running(decs') = {} THEN "rank" ELSE "batch"
    /\ UNCHANGED <<end, loop, it, plen, i, best, quiet, kv, ret, freed>>

\* whisper_decode_internal of the batch: one cell for each decoder that goes on.
Batch ==
    /\ phase = "batch" /\ UNCHANGED <<kvSize, kvDec, freed>>
    /\ LET n == Cardinality(Running(decs))
       IN  \/ Return(-9) /\ UNCHANGED kvUsed
           \/ /\ kvUsed + n <= kvSize
              /\ kvUsed' = kvUsed + n
              /\ i' = i + 1
              /\ phase' = IF i + 1 = NMax THEN "rank" ELSE "sample"
              /\ UNCHANGED <<end, loop, it, plen, decs, best, quiet, ret>>

-----------------------------------------------------------------------------
Failed(d) == d.status \in {"back", "failed", "repeats"}

\* A ranked decoder is cut to its accepted tokens.
Ranked(d) == IF Failed(d) THEN d ELSE [d EXCEPT !.toks = SubSeq(@, 1, d.len)]

\* Mutant: a decoder that failed is ranked too.
ScoredAll(D) == {j \in DOMAIN D : D[j].len > 0}

\* whisper_sequence_score gives a score only to what has tokens.
Scored(D) == {j \in DOMAIN D : ~Failed(D[j]) /\ D[j].len > 0}

\* The best of the decoders that did not fail, any of them here; none, and the
\* choice of the attempt before stays.  A lengthy result of low entropy fails.
\* A poor result is tried at the next temperature, unless it is silence.  What the
\* next attempt overwrites before it reads it is dropped here and in Emit.
Rank ==
    /\ phase = "rank" /\ kvUsed' = 0 /\ i' = 0
    /\ \E q \in BOOLEAN,
          dull \in SUBSET {j \in DOMAIN decs : ~Failed(decs[j]) /\ decs[j].len > Lengthy} :
       LET D == [j \in DOMAIN decs |->
                    LET d == Ranked(decs[j])
                    IN  IF j \in dull THEN [d EXCEPT !.status = "repeats"] ELSE d]
       IN  /\ IF Scored(D) = {} THEN best' = best ELSE best' \in Scored(D)
           /\ \/ /\ it < Temperatures
                 /\ Failed(D[best']) \/ ~q
                 /\ phase' = "attempt" /\ it' = it + 1 /\ decs' = <<>>
                 /\ quiet' = FALSE /\ plen' = 0
              \/ /\ it = Temperatures \/ ~Failed(D[best'])
                 /\ phase' = "emit" /\ decs' = D /\ quiet' = q
                 /\ UNCHANGED <<it, plen>>
    /\ UNCHANGED <<end, loop, kvSize, kvDec, ret, freed>>

\* A timestamp that counts; the one of the window's start does not.
Moves(t) == t > 0

\* Text of T is left when the loop comes to position n.
TextLeft(T, n) == \E p \in 1..n - 1 : T[p] = Text /\ \A q \in p..n - 1 : ~Moves(T[q])

\* That text starts at the last timestamp before it, or at the likeliest of the first token.
StartOf(T, n, first) ==
    LET stamps == {p \in 1..n - 1 : Moves(T[p])}
    IN  seek + 2 * (IF stamps = {} THEN first ELSE T[FSE!Max(stamps)])

\* Segments of tokens T, by the position of what ends them: a timestamp ends the text
\* before it, and what is left after the last token ends where the window does.
Segments(T, first, delta) ==
    [n \in {n \in 1..Len(T) + 1 : (n <= Len(T) => Moves(T[n])) /\ TextLeft(T, n)} |->
        <<StartOf(T, n, first), seek + (IF n <= Len(T) THEN 2 * T[n] ELSE delta)>>]

\* One lone timestamp ends the text: the rest of the window is skipped.
LoneStamp(T) == Len(T) > 1 /\ ~IsStamp(T[Len(T) - 1]) /\ T[Len(T)] > 0

\* Mutant: a window whose text begins with a timestamp ends at that one.
AdvanceShort(d) == IF Len(d.toks) > 0 /\ d.toks[1] > 0 THEN 2 * d.toks[1] ELSE d.delta

\* Ticks to the next window.
Advance(d) == IF LoneStamp(d.toks) THEN Less(end - seek, Chunk) ELSE d.delta

\* Output of the window: the segments, the text for the next prompt, and seek.
\* Silence of low probability yields nothing; an unranked result has the lowest.
Emit ==
    /\ phase = "emit"
    /\ \E silent \in {quiet} \cup (IF decs[best].status \in {"back", "failed"} THEN {} ELSE {FALSE}) :
       LET d    == decs[best]
           segs == IF silent \/ d.toks = <<>> THEN <<>> ELSE Segments(d.toks, d.tid, d.delta)
       IN  /\ past' = (IF plen > InitTokens THEN plen - 1 - InitTokens ELSE 0)
                      + (IF silent THEN 0 ELSE d.len)
           /\ out' = segs
           /\ seek' = seek + Advance(d)
    /\ phase' = "window" /\ decs' = <<>> /\ quiet' = FALSE /\ plen' = 0 /\ best' = 1 /\ it' = 1
    /\ UNCHANGED <<end, spoken, i, kv, ret, freed>>

\* The finally of transcribeFile: WhisperJNI.free, whisper_free, whisper_free_state.
Free ==
    /\ phase = "returned"
    /\ phase' = "over" /\ freed' = freed + 1
    /\ UNCHANGED <<end, loop, it, plen, i, decs, best, quiet, kv, ret>>

Next == Start \/ Window \/ Attempt \/ Sample \/ Batch \/ Rank \/ Emit \/ Free

\* One thread runs the loop to its end.
Spec == Init /\ [][Next]_vars /\ WF_vars(Next)

-----------------------------------------------------------------------------
\* Types.
TypeOK ==
    /\ phase \in {"start", "window", "attempt", "sample", "batch", "rank", "emit",
                  "returned", "over"}
    /\ seek \in Nat /\ past \in Nat /\ it \in 1..Temperatures /\ i \in 0..NMax
    /\ \A j \in DOMAIN decs :
          /\ decs[j].toks \in Seq(Tokens) /\ decs[j].len \in 0..Len(decs[j].toks)
          /\ decs[j].delta \in 0..Chunk
          /\ decs[j].status \in {"run", "done", "back", "failed", "repeats"}
    /\ kvUsed \in Nat /\ freed \in 0..2

\* No token is decoded at a position the model has no embedding for: the prompt's
\* budget and the window's leave room for each other (max_prompt_ctx, n_max).
PositionsFit == phase = "batch" => plen + i < TextCtx

\* The self-attention cache has a cell for every token of every decoder, so that
\* find_slot never fails (the factor the cache is created with).
KvFits == phase = "batch" => kvUsed + Cardinality(Running(decs)) <= kvSize

\* The decoders are never offered a timestamp that would fail them for going
\* back in time (the masks of whisper_process_logits against the token loop).
NeverBack == \A j \in DOMAIN decs : decs[j].status # "back"

\* If any decoder of the last attempt did not fail, a decoder that did not fail is
\* output, never the stale choice of an earlier attempt.
LiveDecoderWins ==
    phase = "emit" /\ (\E j \in DOMAIN decs : ~Failed(decs[j])) => ~Failed(decs[best])

\* Segments end in order, none before the ones of earlier windows and none after the
\* start of the next window (only the last window's may run past the end of the audio),
\* and all but a window's first start before they end.
SegmentsInOrder ==
    \A n \in DOMAIN out :
        /\ out[n][2] <= seek \/ seek >= end
        /\ spoken <= out[n][2]
        /\ \A m \in DOMAIN out : m < n => out[m][2] <= out[n][1] /\ out[n][1] <= out[n][2]

\* A recording is always transcribed to the end, or the call fails: each window
\* moves seek on (seek_delta, single_timestamp_ending).
Terminates == <>(phase = "over")
=============================================================================
