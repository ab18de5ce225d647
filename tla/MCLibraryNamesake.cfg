SPECIFICATION Spec
INVARIANTS
    AudioKept
CONSTANTS
    None = None
    Takes = {k1}
    Foreign = {f1}
    Titles = {a, b}
    Syncs = {s1}
    Editors = {e1}
    Movers = {e1}
    Erasers = {x1}
    UseTree = TRUE
    Serial = TRUE
    MaxRows = 3
    MaxRestarts = 0
CHECK_DEADLOCK FALSE
