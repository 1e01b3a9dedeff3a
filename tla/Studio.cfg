SPECIFICATION Spec
CONSTANTS
    Paths = {p, q}
    Runners = {w1, w2}
    Loop = loop
    Template <- TemplateCells
    MaxCells = 2
    MaxEdits = 2
    MaxExecs = 2
    MaxFaults = 1
    Queries = {p, q}
    Users = {u1}
    Exporters = {x1}
    Viewer = loop
    MaxCacheSize = 1
    MaxCalls = 4
    MaxChanges = 1
    Boards = {seed, d}
    Seed = seed
    Members = {ann, root}
    Admins = {root}
    Widgets = {w}
    Tokens = {t}
    Nobody = nobody
    MaxVersions = 1
    MaxRequests = 4
    MaxLosses = 1
    EventLoop = loop
    QueryThreads = {w1, w2}
    Houses = {h}
    DefaultHouse = d1
    WorkerCounts = {1, 2}
    Ceiling = 2
    MaxWorkers = 5
    MaxLists = 2
    MaxHandled = 3
    f1 = f1
    f2 = f2
    Files = {f1, f2}
    Holds <- PartsOf
    Slug <- SlugOf
    TakenNames <- Taken
    MaxPartitions = 2
    Delta = {dl}
    S3 = {s3}
    pg = pg
    pq = pq
    Postgres = {pg, pq}
    MaxIngests = 3
    MaxErrors = 2
    MailLoop = loop
    MailThreads = {x}
    KeepMails = 2
    MaxMails = 3
    MaxSettings = 2
    MaxMailFaults = 1
SYMMETRY Symmetry
INVARIANTS
    OutputsStayWithTheirCell
    EditsAccountedFor
    CacheKept
    RecordsFollowDashboards
    PoolsKept
    IngestsExplained
    MailKept
CHECK_DEADLOCK FALSE
