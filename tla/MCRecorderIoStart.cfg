\* One headless start against the main thread.
SPECIFICATION Spec
CONSTANTS
    Main = main
    IoCallers = {io}
    IoCalls = {"start"}
    Takes = {k1, k2}
    Names = {n1, n2}
    Jobs = {j1, j2, j3}
    None = none
    MayCrash = FALSE
INVARIANT MicHasOwner
