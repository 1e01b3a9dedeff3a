SPECIFICATION Spec
CONSTANTS
    a = a
    b = b
    NoPath = NoPath
    Paths = {a}
    Kinds = {"plain"}
    Policies = {"addNewColumns"}
    Mode = "append"
    MaxWrites = 4
    Budget <- CrashBudget
CHECK_DEADLOCK FALSE
INVARIANT ExactlyOnce
