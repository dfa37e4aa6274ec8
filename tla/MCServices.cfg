SPECIFICATION Spec
CONSTANTS
    a1 = a1
    u1 = u1
    l1 = l1
    i1 = i1
    i2 = i2
    t1 = t1
    t2 = t2
    r1 = r1
    r2 = r2
    q1 = q1
    q2 = q2
    q3 = q3
    q4 = q4
    k1 = k1
    k2 = k2
    b1 = b1
    b2 = b2
    Users = {a1, u1}
    FirstAdmin = a1
    Links = {l1}
    LinkUser <- LinkedUser
    CasSids = {1}
    NoLink = NoLink
    MaxSessions = 3
    MaxUpsets = 3
    Requests = {q1, q2, q3, q4}
    Keys = {k1, k2}
    Bodies = {b1, b2}
    KeyOf <- KeyOfRequest
    BodyOf <- BodyOfRequest
    CredentialKeys = {k2}
    NoRequest = NoRequest
    MaxFaults = 1
    ModelProviderIds = {1, 2, 3}
    MaxRevision = 3
    Images = {i1, i2}
    Threads = {t1, t2}
    Recordings = {r1, r2}
    NoThread = NoThread
    MaxRemovals = 2
    MaxStops = 1
    MaxParts = 2
    MaxDeltas = 1
    MaxStreams = 2
    MaxCalls = 2
    MaxNotices = 2
    MaxReturns = 1
    MaxDeaths = 1
INVARIANTS
    OneLiveTokenPerFamily
    RevokedLinkHasNoSessions
    SomeAdminRemains
    CommandRunsOnce
    OneUsableDefault
    RowKeepsItsBytes
    QueuedVoiceHasAudio
    SnapshotIsTheLog
    DoneShowsTheEnd
    ReloadShowsWhatWasStreamed
CHECK_DEADLOCK FALSE
