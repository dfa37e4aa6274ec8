SPECIFICATION PlanSpec
CONSTANTS
    None = None
    s1 = s1
    Sessions = {s1}
    Tasks = {1, 2}
    LastDay = 2
    Horizon = 2
    Slots = 1
    MaxLines = 2
    Target = 1
    MaxEdits = 3
INVARIANTS
    RoomIsKept
    TimeIsBacked
PROPERTIES
    ChangesReachToday
    EvidenceIsKept
    OnePlaceAtATime
CHECK_DEADLOCK FALSE
