SPECIFICATION DashboardSpec
CONSTANTS
    Queries = {a}
    Users = {u1}
    Exporters = {}
    Viewer = loop
    MaxCacheSize = 1
    MaxCalls = 2
    MaxChanges = 1
INVARIANT SharedOnlyUnderEqualMasks
CHECK_DEADLOCK FALSE
