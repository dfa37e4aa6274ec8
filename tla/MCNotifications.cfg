SPECIFICATION NotifyFairSpec
CONSTANTS
    ch1 = ch1
    t1 = t1
    m1 = m1
    m2 = m2
    d1 = d1
    d2 = d2
    Channels = {ch1}
    Targets = {t1}
    Messages = {m1}
    Dispatchers = {d1, d2}
    Providers = {"telegram", "bark", "fcm", "apns"}
    ChannelOf <- OneChannel
    MaxAttempts = 2
    MaxEdits = 1
    MaxMishaps = 1
INVARIANTS
    RetiredForCause
    CredentialIsCurrent
PROPERTIES
    LateRecordIsDropped
    EveryMessageEnds
CHECK_DEADLOCK FALSE
