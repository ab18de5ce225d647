CONSTANTS
    Sizes = {1, 3}
    Alignment = 2
    MaxChunkSize = 6
    MaxChunks = 3
    Endless = 20
    NLeafs = 2
    NNodes = 3
    MaxSrc = 2
    Topologies <- MCTopologies
    Sizings <- MCSizings
    MaxCalls = 2
    Refusals = 1
SPECIFICATION Spec
INVARIANTS TypeOK NoOverlap RegionsOwned SourcesIntact OutputsKept InsideBuffer
PROPERTIES DynSpec
CHECK_DEADLOCK FALSE
