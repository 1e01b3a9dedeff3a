SPECIFICATION ModelsSpec
CONSTANTS
    Clients = {studio, kernel}
    OwnModels = {}
    Runs = {run1, run2}
    Mix <- MostCalls
    MaxVersion = 5
    MaxCalls = 4
    Threads = {studio, kernel}
    Processes = {run1, run2}
    ExpNames = {"churn"}
    CallsFail = TRUE
    MaxExps = 1
    MaxRuns = 3
    MaxNest = 2
    MaxEvents = 4
    Loop = loop
    Starter = starter
    Loaders = {loader}
    Kernels = {}
    raw = raw
    clean = clean
    cte = cte
    job = job
    panel = panel
    dbtModel = dbtModel
    gone = gone
    fit = fit
    pipe = pipe
    old = old
    volume = volume
    none = none
    Pipes = {pipe, old}
    Volumes = {volume}
    Tables = {raw, clean}
    Statements <- OneStatement
    TasksSeen <- OneTask
    Readers <- OneReader
    DbtModels <- OneDbtModel
    TrainedRuns <- OneRun
    Saved <- OnePipeline
    NoPlace = none
    MaxJobs = 2
    MaxFailures = 1
    Slack = slack
    Generic = generic
    HookNames = {n1, n2}
    MaxTime = 1
    MaxHookSteps = 4
    MaxHookFaults = 1
    KeepSends = 2
    Retries = 2
SYMMETRY Symmetry
INVARIANTS
    RegistryKept
    RunsAreAccountedFor
    BlocksKept
    GraphExplained
    HooksKept
PROPERTIES
    VersionsKeepTheirRun
CHECK_DEADLOCK FALSE
