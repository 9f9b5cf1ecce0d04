SPECIFICATION PrepareSpec
CONSTANTS
    Char <- MCChar
    Newline = "newline"
    whitespace <- MCWhitespace
    delimiters <- MCDelimiters
    MaxInput = 16
    FileMax = 1
    MaxLines = 4
    Inputs <- MCInputs
INVARIANT TotalsCoverDifferences
