SPECIFICATION LiveSpec
CONSTANTS
    seeded = seeded
    NoJob = NoJob
    Jobs = {seeded}
    TaskLists <- Lists
    DefaultJobs <- SeededChain
    MaxRuns = 2
    Budget <- AllBudget
CHECK_DEADLOCK FALSE
INVARIANTS
    TasksRespectDag
    CronRunsDontOverlap
    RowsKept
PROPERTY DueIsRun
