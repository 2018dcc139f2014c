SPECIFICATION Spec
CONSTANTS
    f1 = f1
    f2 = f2
    Files <- MCFiles
    NumSlots = 2
    RefMod = 6
    None = None
    Corrupt = Corrupt
    UseCache = TRUE
    Faults <- AllFaults
    ConcurrentEdits = TRUE
    WrittenKinds <- TextOnly
    InitRefs = {1, 2}
    InitLocks = {None, 3}
    MaxRuns = 2
    MaxEdits = 1
SYMMETRY FileSymmetry
INVARIANTS
    TypeOK
    UniqueUnlessLapse
    LockAheadOfCode
    LedgerExact
    IInv
PROPERTY Implements
CHECK_DEADLOCK FALSE
