SPECIFICATION LiveSpec
CONSTANTS
    a = a
    b = b
    NoPath = NoPath
    Paths = {a}
    Kinds = {"plain"}
    Policies = {"addNewColumns"}
    Mode = "append"
    MaxWrites = 4
    Budget <- LiveBudget
CHECK_DEADLOCK FALSE
PROPERTIES
    EventuallyLoaded
    CycleEnds
