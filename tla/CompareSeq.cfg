CONSTANTS
    Element = {a, b, c}
    Vector <- MCVector
    SNAKE_LIMIT = 1
    HeuristicCost = 0
    HeuristicFactor = 1
    too_expensive = 2
    OFFSET_MAX = 99
    MaxLength = 4
SYMMETRY ElementSymmetry
SPECIFICATION Spec
INVARIANTS TypeOK DiagonalsReady FindsMinimal CorrectDiff
PROPERTIES ImplementsAlignment RecursionDescends
