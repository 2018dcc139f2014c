SPECIFICATION Spec
CONSTANTS
    RefMod = 12
    None = None
    Keys = {"ref", "a", "b", "host", "os_code"}
    Text = Text
    Opaque = Opaque
    NumLines = 2
    InitFiles <- MCFiles
    Statements <- MCStatements
    MaxEdits = 1
INVARIANT StatementsAccepted
CHECK_DEADLOCK FALSE
