SPECIFICATION PrepareSpec
CONSTANTS
    Char <- MCChar
    Newline = "newline"
    whitespace <- MCWhitespace
    delimiters <- MCDelimiters
    MaxInput = 16
    FileMax = 6
    MaxLines = 4
    Inputs <- MCInputs
INVARIANTS
    TypeOK
    PiecesInStep
    ParagraphsMarked
    ReadsBack
    HunkTotals
    TempFilesInHand
    InputInOrder
