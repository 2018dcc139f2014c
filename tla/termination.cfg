SPECIFICATION FairCountedSpec
CONSTANTS
    f1 = f1
    f2 = f2
    Files <- MCFiles
    NumSlots = 2
    RefMod = 6
    None = None
    Corrupt = Corrupt
    UseCache = TRUE
    Faults <- AllFaults
    ConcurrentEdits = TRUE
    WrittenKinds <- TextOnly
    InitRefs = {1}
    InitLocks = {None, 2}
    MaxRuns = 1
    MaxEdits = 1
INVARIANT RunShort
PROPERTIES
    Terminates
    Progress
CHECK_DEADLOCK FALSE
