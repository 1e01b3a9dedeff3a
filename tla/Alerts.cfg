SPECIFICATION LiveSpec
CONSTANTS
    Alerts = {alert}
    Defaults <- NoDefaults
    Definitions <- OneDef
    Values <- TwoValues
    NoQuery = NoQuery
    Unborn = Unborn
    Gone = Gone
    Null = Null
    Broken = Broken
    Threads = {t1, t2, t3}
    Loop = Loop
    Keep = 1
    Budget <- OneEach
INVARIANTS
    ScheduledOverlap
PROPERTIES
    DeletedStaysDeleted
    StateCatchesUp
