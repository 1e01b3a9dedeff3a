SPECIFICATION LiveSpec
CONSTANTS
    None = None
    Requests = {q, r}
    Kids = {k}
    Sessions = {s1, s2}
    MaxKernels = 1
    Budget <- OneEach
INVARIANTS
    RunsAreExclusive
    OwnOutputs
    StraysExplained
PROPERTIES
    RunsUndisturbed
    RequestsEnd
