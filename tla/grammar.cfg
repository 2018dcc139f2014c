SPECIFICATION Spec
CONSTANTS
    None = None
    InitTexts <- MCTexts
    Lexemes = {"call", "other", "word", "quote", "esc", "line", "open", "close", "newline"}
    MaxLexemes = 6
INVARIANTS
    ReadsAsRust
    GrammarUnitTests
PROPERTIES
    StillFound
    RunsCompleteText
CHECK_DEADLOCK FALSE
