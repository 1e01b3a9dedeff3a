------------------------------- MODULE Workflow -------------------------------
(***************************************************************************)
(* Jobs & Pipelines (web/workflow.py): the job definitions in jobs.json,   *)
(* the cron loop on the event loop, the runs it hands to the thread pool   *)
(* and the runs by hand, which block the event loop.                       *)
(*                                                                         *)
(* A run is a slot <<job, n>>.  Of time only one thing is kept: whether a  *)
(* cron tick has passed since the loop last looked at the job.             *)
(***************************************************************************)
EXTENDS TaskOrder, FiniteSets

CONSTANTS
    Jobs,         \* job ids
    NoJob,        \* no such job in jobs.json
    TaskLists,    \* the task lists that jobs are saved with
    DefaultJobs,  \* DEFAULT_JOBS as the program starts with it
    MaxRuns,      \* bound: runs per job
    Budget        \* bound: how often each of Events may happen

Events  == {"save", "delete", "manual", "dbfail", "crash"}
JobRec  == [tasks : TaskLists, enabled : BOOLEAN]
Book    == [Jobs -> JobRec \cup {NoJob}]
Runs    == Jobs \X (1..MaxRuns)

ASSUME WorkflowAssumption == /\ IsFiniteSet(Jobs) /\ NoJob \notin JobRec
                             /\ \A tasks \in TaskLists : IsTaskList(tasks)
                             /\ DefaultJobs \in Book
                             /\ MaxRuns \in Nat /\ Budget \in [Events -> Nat]

VARIABLES
    \* jobs.json, and the event loop that writes it.
    jobs,      \* what it says,
    torn,      \* unless a write of it is under way or was cut off
    pending,   \* what is being written
    defaults,  \* DEFAULT_JOBS by now: a save over an unreadable file changes it
    loop,      \* "idle", or busy with a "save" or a "run" by hand
    \* The cron loop's memory.
    last,      \* _last_cron_check: "none", "fresh", or "tick" once a tick has passed
    running,   \* _running_jobs
    \* Run -> its row of job_runs and its local variables.
    trigger,   \* "CRON", "MANUAL" or "" while the slot is unused
    row,       \* its status in job_runs
    stage,     \* where run_pipeline is
    todo,      \* ordered_tasks still to come
    done,      \* task_runs
    left       \* what remains of Budget

file == <<jobs, torn, pending, defaults>>
cron == <<last, running>>
vars == <<file, loop, cron, trigger, row, stage, todo, done, left>>

Stages   == {"unused", "load", "insert", "tasks", "ended", "over", "dead"}
TypeOK ==
    /\ jobs \in Book /\ torn \in BOOLEAN /\ pending \in Book /\ defaults \in Book
    /\ loop \in {"idle", "save", "run"}
    /\ last \in [Jobs -> {"none", "fresh", "tick"}]
    /\ running \subseteq Jobs
    /\ trigger \in [Runs -> {"", "CRON", "MANUAL"}]
    /\ row \in [Runs -> {"none", "RUNNING", "SUCCESS", "FAILED"}]
    /\ stage \in [Runs -> Stages]
    /\ \A r \in Runs : \A i \in DOMAIN done[r] :
          done[r][i].status \in {"SUCCESS", "FAILED", "SKIPPED"}
    /\ left \in [Events -> Nat]

Init ==
    /\ jobs = DefaultJobs /\ torn = FALSE /\ pending = DefaultJobs
    /\ defaults = DefaultJobs
    /\ loop = "idle"
    /\ last = [j \in Jobs |-> "none"] /\ running = {}
    /\ trigger = [r \in Runs |-> ""]
    /\ row = [r \in Runs |-> "none"]
    /\ stage = [r \in Runs |-> "unused"]
    /\ todo = [r \in Runs |-> <<>>] /\ done = [r \in Runs |-> <<>>]
    /\ left = Budget

Spend(e) == left[e] > 0 /\ left' = [left EXCEPT ![e] = @ - 1]

\* load_jobs: an unreadable file reads as the default jobs.
LoadJobs == IF torn THEN defaults ELSE jobs

GoTo(r, s) == stage' = [stage EXCEPT ![r] = s]

-----------------------------------------------------------------------------
(* The job API.  save_jobs truncates the file first and then writes it. *)

SaveJobs(all) == torn' = TRUE /\ pending' = all /\ loop' = "save" /\ UNCHANGED jobs

\* The list that load_jobs returned is changed in place: for an unreadable file
\* that is DEFAULT_JOBS itself.
CreateOrUpdateJob(j) ==
    /\ loop = "idle"
    /\ Spend("save")
    /\ \E job \in JobRec :
          /\ SaveJobs([LoadJobs EXCEPT ![j] = job])
          /\ defaults' = IF torn THEN [defaults EXCEPT ![j] = job] ELSE defaults
    /\ UNCHANGED <<cron, trigger, row, stage, todo, done>>

DeleteJob(j) ==
    /\ loop = "idle"
    /\ LoadJobs[j] # NoJob
    /\ Spend("delete")
    /\ SaveJobs([LoadJobs EXCEPT ![j] = NoJob])
    /\ UNCHANGED <<defaults, cron, trigger, row, stage, todo, done>>

SaveDone ==
    /\ loop = "save"
    /\ jobs' = pending
    /\ torn' = FALSE
    /\ loop' = "idle"
    /\ UNCHANGED <<pending, defaults, cron, trigger, row, stage, todo, done, left>>

-----------------------------------------------------------------------------
(* The cron loop. *)

\* A tick of the job's cron expression passes.
Tick(j) ==
    /\ last[j] = "fresh"
    /\ last' = [last EXCEPT ![j] = "tick"]
    /\ UNCHANGED <<file, loop, running, trigger, row, stage, todo, done, left>>

FreeSlots(j) == {n \in 1..MaxRuns : stage[<<j, n>>] = "unused"}
NextRun(j)   == <<j, CHOOSE n \in FreeSlots(j) : TRUE>>

Watched(j) == LoadJobs[j] # NoJob /\ LoadJobs[j].enabled /\ j \notin running

\* Mutant: a job that is running already is triggered again.
DueWhileRunning == {j \in Jobs : /\ LoadJobs[j] # NoJob /\ LoadJobs[j].enabled
                                 /\ last[j] = "tick" /\ FreeSlots(j) # {}}

Due == {j \in Jobs : Watched(j) /\ last[j] = "tick" /\ FreeSlots(j) # {}}

\* One turn of cron_scheduler_loop over all jobs.  A job it sees for the first
\* time is only noted; a due one is handed to the thread pool.
CronTurn ==
    LET due == Due
        noted == {j \in Jobs : Watched(j) /\ last[j] = "none"}
        started == {NextRun(j) : j \in due}
    IN  /\ loop = "idle"
        /\ due \cup noted # {}
        /\ last' = [j \in Jobs |-> IF j \in due \cup noted THEN "fresh" ELSE last[j]]
        /\ running' = running \cup due
        /\ trigger' = [r \in Runs |-> IF r \in started THEN "CRON" ELSE trigger[r]]
        /\ stage' = [r \in Runs |-> IF r \in started THEN "load" ELSE stage[r]]
        /\ UNCHANGED <<file, loop, row, todo, done, left>>

RunNow(j) ==
    /\ loop = "idle"
    /\ FreeSlots(j) # {}
    /\ Spend("manual")
    /\ loop' = "run"
    /\ trigger' = [trigger EXCEPT ![NextRun(j)] = "MANUAL"]
    /\ GoTo(NextRun(j), "load")
    /\ UNCHANGED <<file, cron, row, todo, done>>

\* Mutant: the job is released after a successful run only.
DiscardAfterSuccess(r) ==
    /\ stage[r] = "ended" /\ trigger[r] = "CRON"
    /\ loop = "idle"
    /\ running' = IF row[r] = "SUCCESS" THEN running \ {r[1]} ELSE running
    /\ GoTo(r, "over")
    /\ UNCHANGED <<file, loop, last, trigger, row, todo, done, left>>

\* _run_job_async's finally, back on the event loop.
Discard(r) ==
    /\ stage[r] = "ended" /\ trigger[r] = "CRON"
    /\ loop = "idle"
    /\ running' = running \ {r[1]}
    /\ GoTo(r, "over")
    /\ UNCHANGED <<file, loop, last, trigger, row, todo, done, left>>

-----------------------------------------------------------------------------
(* run_pipeline: in the thread pool, or on the event loop for a run by hand. *)

\* topological_sort_tasks, tabulated.
Sorted == [tasks \in TaskLists |-> TopologicalSort(tasks)]

\* run_pipeline returns or raises.
Return(r) == /\ GoTo(r, IF trigger[r] = "CRON" THEN "ended" ELSE "over")
             /\ loop' = IF trigger[r] = "MANUAL" THEN "idle" ELSE loop

Load(r) ==
    /\ stage[r] = "load"
    /\ IF LoadJobs[r[1]] = NoJob
       THEN Return(r) /\ UNCHANGED todo
       ELSE /\ todo' = [todo EXCEPT ![r] = Sorted[LoadJobs[r[1]].tasks]]
            /\ GoTo(r, "insert")
            /\ UNCHANGED loop
    /\ UNCHANGED <<file, cron, trigger, row, done, left>>

InsertRow(r) ==
    /\ stage[r] = "insert"
    /\ row' = [row EXCEPT ![r] = "RUNNING"]
    /\ GoTo(r, "tasks")
    /\ UNCHANGED <<file, loop, cron, trigger, todo, done, left>>

Ids(r, statuses) ==
    {done[r][i].task.id : i \in {k \in DOMAIN done[r] : done[r][k].status \in statuses}}

\* Mutant: a skipped task does not count as failed.
FailedItself(r) == Ids(r, {"FAILED"})

\* failed_tasks
Failed(r) == Ids(r, {"FAILED", "SKIPPED"})

\* execute_task turns every exception into FAILED.  An optimize task always gets
\* there: it uses DeltaTable, which web/workflow.py does not import.
Outcomes(task) == IF task.type = "optimize" THEN {"FAILED"} ELSE {"SUCCESS", "FAILED"}

Record(r, task, status) ==
    /\ done' = [done EXCEPT ![r] = Append(@, [task |-> task, status |-> status])]
    /\ todo' = [todo EXCEPT ![r] = Tail(@)]
    /\ UNCHANGED <<file, loop, cron, trigger, row, stage, left>>

SkipTask(r) ==
    /\ stage[r] = "tasks" /\ todo[r] # <<>>
    /\ Head(todo[r]).deps \cap Failed(r) # {}
    /\ Record(r, Head(todo[r]), "SKIPPED")

ExecuteTask(r) ==
    /\ stage[r] = "tasks" /\ todo[r] # <<>>
    /\ Head(todo[r]).deps \cap Failed(r) = {}
    /\ \E status \in Outcomes(Head(todo[r])) : Record(r, Head(todo[r]), status)

\* Mutant: the last task decides.
StatusOfLast(r) ==
    IF done[r] # <<>> /\ Last(done[r]).status = "FAILED" THEN "FAILED" ELSE "SUCCESS"

OverallStatus(r) == IF Failed(r) = {} THEN "SUCCESS" ELSE "FAILED"

\* Mutant: a run by the cron loop that failed is not recorded.
UpdateSuccessOnly(r) ==
    /\ stage[r] = "tasks" /\ todo[r] = <<>>
    /\ row' = IF Failed(r) = {} THEN [row EXCEPT ![r] = "SUCCESS"] ELSE row
    /\ Return(r)
    /\ UNCHANGED <<file, cron, trigger, todo, done, left>>

UpdateRow(r) ==
    /\ stage[r] = "tasks" /\ todo[r] = <<>>
    /\ row' = [row EXCEPT ![r] = OverallStatus(r)]
    /\ Return(r)
    /\ UNCHANGED <<file, cron, trigger, todo, done, left>>

\* The database is locked for longer than sqlite3 waits.
RowFails(r) ==
    /\ \/ stage[r] = "insert"
       \/ stage[r] = "tasks" /\ todo[r] = <<>>
    /\ Spend("dbfail")
    /\ Return(r)
    /\ UNCHANGED <<file, cron, trigger, row, todo, done>>

-----------------------------------------------------------------------------
\* The studio dies and starts again: files and rows remain, runs do not.
Crash ==
    /\ Spend("crash")
    /\ defaults' = DefaultJobs
    /\ loop' = "idle"
    /\ last' = [j \in Jobs |-> "none"] /\ running' = {}
    /\ stage' = [r \in Runs |-> IF stage[r] \in {"unused", "over"} THEN stage[r] ELSE "dead"]
    /\ UNCHANGED <<jobs, torn, pending, trigger, row, todo, done>>

RunStep(r) == \/ Load(r) \/ InsertRow(r) \/ SkipTask(r) \/ ExecuteTask(r)
              \/ UpdateRow(r) \/ RowFails(r)

Next == \/ \E j \in Jobs : \/ CreateOrUpdateJob(j) \/ DeleteJob(j)
                           \/ Tick(j) \/ RunNow(j)
        \/ SaveDone \/ CronTurn \/ Crash
        \/ \E r \in Runs : RunStep(r) \/ Discard(r)

Spec == Init /\ [][Next]_vars

\* Time passes, the event loop goes round and the thread pool's threads run.
Fairness == /\ WF_vars(SaveDone) /\ WF_vars(CronTurn)
            /\ \A j \in Jobs : WF_vars(Tick(j))
            /\ \A r \in Runs : WF_vars(RunStep(r)) /\ WF_vars(Discard(r))

LiveSpec == Spec /\ Fairness

-----------------------------------------------------------------------------
(* Properties. *)

\* The tasks of a run: those it has come past, and those to come.
Plan(r) == [i \in DOMAIN done[r] |-> done[r][i].task] \o todo[r]

\* In a job whose tasks can be ordered, a task is executed only after all its
\* dependencies succeeded, and is skipped only because something upstream failed.
TasksRespectDag ==
    \A r \in Runs : WellFormed(Plan(r)) =>
        \A i \in DOMAIN done[r] :
            LET before == {done[r][k] : k \in 1..(i - 1)}
                deps   == {d \in before : d.task.id \in done[r][i].task.deps}
            IN  IF done[r][i].status = "SKIPPED"
                THEN \E d \in deps : d.status # "SUCCESS"
                ELSE /\ \A d \in deps : d.status = "SUCCESS"
                     /\ Cardinality(deps) = Cardinality(done[r][i].task.deps)

\* The row of a finished run sums its tasks up, whatever order they failed in.
RowTellsOutcome ==
    \A r \in Runs : row[r] \in {"SUCCESS", "FAILED"} =>
        /\ todo[r] = <<>>
        /\ row[r] = "SUCCESS" <=> \A i \in DOMAIN done[r] : done[r][i].status = "SUCCESS"

\* A job never has two runs of the cron loop at a time, although it is deleted,
\* saved again and run by hand meanwhile.
CronRunsDontOverlap ==
    \A q, r \in Runs :
        /\ q[1] = r[1] /\ trigger[q] = "CRON" /\ trigger[r] = "CRON"
        /\ {stage[q], stage[r]} \subseteq {"load", "insert", "tasks"}
        => q = r

\* Barring a crash, a row says RUNNING for a run that is gone only where the
\* database refused its final update.
Spent(e) == Budget[e] - left[e]
StaleRowsExplained ==
    Cardinality({r \in Runs : row[r] = "RUNNING" /\ stage[r] \in {"ended", "over"}})
        <= Spent("dbfail")

\* What the page of a job's runs says, of runs that ended and of runs that died.
RowsKept == RowTellsOutcome /\ StaleRowsExplained

\* An enabled job whose cron tick has passed is run, whatever became of its
\* earlier runs.
DueIsRun ==
    \A j \in Jobs :
        /\ last[j] = "tick" /\ LoadJobs[j] # NoJob /\ LoadJobs[j].enabled
        ~> \/ last[j] # "tick"
           \/ LoadJobs[j] = NoJob \/ ~LoadJobs[j].enabled
           \/ FreeSlots(j) = {}

=============================================================================
