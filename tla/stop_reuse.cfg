SPECIFICATION Spec
CONSTANTS
    f1 = f1
    f2 = f2
    Files <- MCFiles
    NumSlots = 1
    RefMod = 9
    None = None
    Corrupt = Corrupt
    UseCache = TRUE
    Faults = {"stop"}
    ConcurrentEdits = FALSE
    WrittenKinds <- TextOnly
    InitRefs = {1}
    InitLocks = {2}
    MaxRuns = 2
    MaxEdits = 1
INVARIANT UniqueReferences
CHECK_DEADLOCK FALSE
