CONSTANTS
    a = a
    b = b
    c = c
    d = d
    e = e
    Word <- MCWord
    Bucket = {0, 1}
    Hash <- MCHash
    VALUE_MAX = 4
    MaxLines = 4
    MaxLong = 7
    Inputs <- MCInputs
    compareseq <- Pairs
    Many = 1
    InARow = 2
    FarIn = 3
SPECIFICATION FairSpec
INVARIANTS TypeOK KeepsDiffCorrect InStep ScriptIsCorrect DiscardsInsideRuns
    SameNumberSameWord NumbersBelowHashMax
PROPERTY Terminates
