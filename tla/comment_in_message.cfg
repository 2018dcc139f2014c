SPECIFICATION Spec
CONSTANTS
    None = None
    InitTexts <- MCEmptyText
    Lexemes = {"call", "quote", "line", "newline"}
    MaxLexemes = 7
INVARIANT ReferencesInMessages
CHECK_DEADLOCK FALSE
