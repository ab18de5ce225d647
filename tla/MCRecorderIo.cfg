\* One background call of any kind against the UI: what no race can break.
SPECIFICATION Spec
CONSTANTS
    Main = main
    IoCallers = {io}
    IoCalls = {"start", "pause", "resume", "stop"}
    Takes = {k1, k2}
    Names = {n1, n2}
    Jobs = {j1, j2}
    None = none
    MayCrash = FALSE
SYMMETRY Symmetry
INVARIANTS
    SavedTakeKeepsFile
