SPECIFICATION FairSpec
CONSTANTS
    u1 = u1
    w1 = w1
    w2 = w2
    MaxJobs = 1
    Users <- OneUser
    Workers <- TwoWorkers
    Kinds <- TreeOnly
    MaxAttempts = 3
    MaxPending = 2
    MaxRevision = 6
    MaxPlanRevision = 1
    MaxClaims = 6
    StatementErrors = FALSE
INVARIANTS
    OneHolder
PROPERTIES
    CancelIsHonoured
    EveryJobEnds
