\* Two runs at a time of three images on one database.
SPECIFICATION Spec
CONSTANTS
    Runners = {r1, r2}
    Images <- MCImages
    Structural <- MCStructural
    Legacies <- MCLegacies
    MaxRollback = 2
    MaxEvents = 7
    None = None
CHECK_DEADLOCK FALSE
INVARIANTS
    EventsTellHistory
PROPERTIES
    ImplementsRelease
