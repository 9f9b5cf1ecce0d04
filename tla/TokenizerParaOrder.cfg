CONSTANTS
    Char <- MCChar
    Newline = "nl"
    whitespace <- MCWhitespace
    delimiters <- MCDelimiters
    MaxInput = 5
SPECIFICATION Spec
INVARIANTS Lossless
