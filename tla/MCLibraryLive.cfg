SPECIFICATION FairSpec
INVARIANTS
    AudioKept
PROPERTIES
    TakeIndexed
CONSTANTS
    None = None
    Takes = {k1}
    Foreign = {}
    Titles = {a, b}
    Syncs = {s1}
    Editors = {}
    Movers = {}
    Erasers = {}
    UseTree = TRUE
    Serial = FALSE
    MaxRows = 6
    MaxRestarts = 1
