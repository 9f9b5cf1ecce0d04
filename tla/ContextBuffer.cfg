CONSTANTS
    ContextLines <- MCContextLines
    MaxUnits = 9
SPECIFICATION Spec
INVARIANTS ShowsContext KeepsContext
CHECK_DEADLOCK FALSE
