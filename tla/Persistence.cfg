SPECIFICATION KeepSpec
CONSTANTS
    Editors = {e1, e2}
    Fields = {a, b}
    Kinds = {"rename", "inPlace", "sharedTmp"}
    MaxChanges = 4
    Devices = {d1}
    Writers = {w1, w2}
    Cap = 1
    Faults = {"network", "crash", "forget"}
SYMMETRY Symm
INVARIANTS
    Converges
    AnnouncedCovers
    AlwaysStarts
    SavedStaysSaved
PROPERTY ImplementsDurableStore
CHECK_DEADLOCK FALSE
