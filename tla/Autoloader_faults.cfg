SPECIFICATION Spec
CONSTANTS
    a = a
    b = b
    NoPath = NoPath
    Paths = {a, b}
    Kinds = {"plain", "wide"}
    Policies = {"failOnNewColumns"}
    Mode = "append"
    MaxWrites = 4
    Budget <- FaultBudget
CHECK_DEADLOCK FALSE
INVARIANTS
    SuccessMeansCommitted
    HistoryKept
PROPERTIES
    ImplementsContract
