SPECIFICATION Spec
CONSTANTS
    RefMod = 6
    None = None
    p1 = p1
    p2 = p2
    Files <- MCFiles
    ConfigDirs = {"top"}
    Yamls <- MCYamls
    Processes <- MCProcesses
    MaxRuns = 3
    MaxEdits = 2
SYMMETRY Symmetry
INVARIANTS
    UniqueUnlessMisused
    LocksAhead
    IInv
PROPERTY ReferencesStay
CHECK_DEADLOCK FALSE
