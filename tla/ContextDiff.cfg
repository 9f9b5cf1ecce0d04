CONSTANTS
    Value <- MCValue
    Inputs <- MCInputs
    MaxWords = 5
    Kinds = 2
    MatchContexts <- MCMatchContexts
    diff_2_files <- Scripts
SPECIFICATION Spec
INVARIANTS AssertionsHold EveryWordOnce StatisticsAddUp ExitStatus
PROPERTY RecursionDescends
