SPECIFICATION SidecarSpec
CONSTANTS
    Threshold = 3
    MaxSpawns = 4
INVARIANTS
    GivesUpOnARow
CHECK_DEADLOCK FALSE
