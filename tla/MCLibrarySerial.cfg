SPECIFICATION Spec
SYMMETRY Symmetry
INVARIANTS
    TypeOK
    OneRowPerFile
    ActiveRowHasFile
    AudioKept
CONSTANTS
    None = None
    Takes = {k1}
    Foreign = {f1}
    Titles = {a, b}
    Syncs = {s1}
    Editors = {e1}
    Movers = {e1}
    Erasers = {x1}
    UseTree = FALSE
    Serial = TRUE
    MaxRows = 2
    MaxRestarts = 1
CHECK_DEADLOCK FALSE
