SPECIFICATION Spec
CONSTANTS
    Main = main
    IoCallers = {}
    IoCalls = {}
    Takes = {k1, k2, k3}
    Names = {n1}
    Jobs = {j1, j2}
    None = none
    MayCrash = TRUE
SYMMETRY Symmetry
INVARIANTS
    TypeOK
    StateMatchesRecorder
    MicHasOwner
    OneSampler
    AudioHasKeeper
PROPERTIES
    LivesOfTakes
