SPECIFICATION FairSpec
CONSTANTS
    Spaces <- MCSpaces
    Punctuation <- MCPunctuation
    Commands <- PlainCalls
    Faults = {"read"}
INVARIANT
    FilterGetsBoth
