SPECIFICATION FairSpec
CONSTANTS
    Spaces <- MCSpaces
    Punctuation <- MCPunctuation
    Commands <- MCCommands
    Faults = {"mkstemp", "fork", "exec", "wait", "read", "write", "kill"}
INVARIANTS
    CommandLineWins
    SettingsConsistent
    PostProcessorSees
    TempFileThere
PROPERTY
    EventuallyDone
