SPECIFICATION Spec
VIEW FilesAndRows
INVARIANTS
    AudioSurvivesMoves
PROPERTIES
    DeletedStaysDeleted
CONSTANTS
    None = None
    Takes = {k1}
    Foreign = {}
    Titles = {a}
    Syncs = {s1}
    Editors = {e1}
    Movers = {e1}
    Erasers = {}
    UseTree = FALSE
    Serial = FALSE
    MaxRows = 2
    MaxRestarts = 1
CHECK_DEADLOCK FALSE
