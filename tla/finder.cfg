SPECIFICATION Spec
CONSTANTS
    RefMod = 12
    None = None
    Keys = {"ref", "a", "b", "host", "os_code"}
    Text = Text
    Opaque = Opaque
    NumLines = 3
    InitFiles <- MCFiles
    Statements <- MCStatements
    MaxEdits = 2
INVARIANTS
    TypeOK
    LockAhead
    FinderUnitTests
    TextDistinct
    AcceptedWithoutTarget
PROPERTIES
    FoundAgain
    NumbersStay
CHECK_DEADLOCK FALSE
