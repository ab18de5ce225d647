SPECIFICATION Spec
CONSTANTS
    NThreads = 3
    Threads <- PoolThreads
    Graphs <- OneGraph
    Chunks = 8
    MaxGraphs = 2
INVARIANTS
    TypeOK
    EachItemOnce
    SourcesReady
    WholeNodes
PROPERTIES
    QuietReset
    InLockstep
    CallsReturn
