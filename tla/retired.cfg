SPECIFICATION RetiredSpec
CONSTANTS
    f1 = f1
    f2 = f2
    Files <- MCFiles
    NumSlots = 2
    RefMod = 9
    None = None
    Corrupt = Corrupt
    UseCache = TRUE
    Faults <- OrderlyFaults
    ConcurrentEdits = FALSE
    WrittenKinds <- TextOnly
    InitRefs = {1, 2}
    InitLocks = {3}
    MaxRuns = 2
    MaxEdits = 2
SYMMETRY FileSymmetry
INVARIANTS
    IssuedKnown
    NoTempLeft
PROPERTIES
    RetiredNeverReissued
    InsertsOnly
    CheckTouchesNothing
CHECK_DEADLOCK FALSE
