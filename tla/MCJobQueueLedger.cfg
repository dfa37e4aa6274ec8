SPECIFICATION Spec
CONSTANTS
    u1 = u1
    w1 = w1
    w2 = w2
    MaxJobs = 2
    Users <- OneUser
    Workers <- OneWorker
    Kinds <- EveryKind
    MaxAttempts = 1
    MaxPending = 2
    MaxRevision = 2
    MaxPlanRevision = 2
    MaxClaims = 2
    StatementErrors = TRUE
INVARIANTS OneSupportPerPlanRevision
PROPERTIES ImplementsLedger
