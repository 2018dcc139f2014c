SPECIFICATION Spec
CONSTANTS
    f1 = f1
    f2 = f2
    Files <- MCFiles
    NumSlots = 2
    RefMod = 12
    None = None
    Corrupt = Corrupt
    UseCache = FALSE
    Faults <- InsertFaults
    ConcurrentEdits = FALSE
    WrittenKinds <- AllKinds
    InitRefs = {1, 2}
    InitLocks = {None}
    MaxRuns = 2
    MaxEdits = 1
SYMMETRY FileSymmetry
INVARIANT UniqueReferences
PROPERTIES
    CheckVerdict
    CleanRunCompletes
CHECK_DEADLOCK FALSE
