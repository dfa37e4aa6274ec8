SPECIFICATION SceneSpec
CONSTANTS
    h1 = h1
    h2 = h2
    Hosts <- TwoHosts
    Modes <- BothModes
    MaxTokens = 3
    MaxAttempts = 2
    MaxTurns = 1
SYMMETRY Symmetry
INVARIANTS
    OneAuthorizedHost
    SingleFlight
    ToolRunsOnce
    SuccessNeedsModelStop
PROPERTY
    ImplementsRunLedger
CHECK_DEADLOCK FALSE
