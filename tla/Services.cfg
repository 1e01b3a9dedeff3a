SPECIFICATION Spec
CONSTANTS
    Schedules = {a, b}
    Threads = {w1, w2}
    Studio = loop
    MaxStudioCalls = 3
    MaxExports = 1
    MaxExportFaults = 1
    Drawn = {h1, h2}
    MaxOperations = 4
    MaxCuts = 1
    Clicks = {w1, w2}
    Kinds <- StatementKinds
    Addresses = 2
    RayWorkers = TRUE
    MaxLost = 1
    Tasks = {w1, w2}
    Home <- OneThread
    Server = server
    MaxSpans = 3
    Demo = {demo}
    MaxAsked = 1
    MaxBusy = 1
    Names = {n, dev}
    Defaults = {dev}
    Offers <- AllOffers
    Loop = loop
    Workers = {w3}
    SessionExecutes = TRUE
    MaxChanges = 2
    MaxSyncs = 2
    MaxFailures = 1
    Editor = loop
    JobThreads = {w3}
    Layers = {marts}
    Marts = marts
    ModelNames = {w1, w2}
    SourceNames = {s1}
    Bodies <- ModelBodies
    KeepRuns = 2
    MaxDbtCalls = 3
    MaxDbtFaults = 1
SYMMETRY Symmetry
INVARIANTS
    SchedulesAsAsked
    OneDefault
    StatementsExplained
    TracesKept
    SyncRepairs
    DbtKept
CHECK_DEADLOCK FALSE
