SPECIFICATION SidecarFairSpec
CONSTANTS
    Threshold = 3
    MaxSpawns = 4
PROPERTIES
    StopEndsChild
CHECK_DEADLOCK FALSE
