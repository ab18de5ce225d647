CONSTANTS
    Ends = {0, 3, 8}
    Chunk = 4
    DeltaMin = 1
    Short = 3
    Stamps = {0, 1, 2}
    MaxInitial = 2
    TextCtx = 12
    Pad = 4
    Reserve = 3
    InitTokens = 3
    Temperatures = 3
    Conditioned = {1, 2}
    BestOf = 2
    Lengthy = 1
SPECIFICATION Spec
INVARIANTS TypeOK PositionsFit KvFits NeverBack LiveDecoderWins SegmentsInOrder
PROPERTIES Terminates
CHECK_DEADLOCK FALSE
