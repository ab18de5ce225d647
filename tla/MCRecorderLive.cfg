\* Callers on the main thread, fair scheduling, no crash.
SPECIFICATION FairSpec
CONSTANTS
    Main = main
    IoCallers = {}
    IoCalls = {}
    Takes = {k1, k2}
    Names = {n1, n2}
    Jobs = {j1, j2}
    None = none
    MayCrash = FALSE
PROPERTIES
    StopSavesTake
