SPECIFICATION SceneFairSpec
CONSTANTS
    h1 = h1
    h2 = h2
    Hosts <- OneHost
    Modes <- BothModes
    MaxTokens = 2
    MaxAttempts = 1
    MaxTurns = 1
PROPERTIES
    CancelEnds
    AbandonedRunEnds
    ParkedRunMovesOn
CHECK_DEADLOCK FALSE
