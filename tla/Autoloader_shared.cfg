SPECIFICATION Spec
CONSTANTS
    a = a
    b = b
    NoPath = NoPath
    Paths = {a}
    Kinds = {"plain", "corrupt"}
    Policies = {"addNewColumns"}
    Mode = "append"
    MaxWrites = 4
    Budget <- SharedBudget
CHECK_DEADLOCK FALSE
INVARIANTS
    NeverReloadKnown
