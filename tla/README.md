# Data Kiln Works in TLA+

Data Kiln Works (`src/`) is a self-hosted imitation of a Databricks workspace: a
FastAPI process ("the studio", `web/app.py`) with its metadata in SQLite databases and
JSON files below `.metadata/`, tables in Delta Lake, and a second process ("the
sandbox worker", `sandbox/worker.py`) that runs notebook kernels.  This directory holds
TLA+ models of the parts of it that run concurrently or that can be cut off half-way,
what TLC checks about them, and what TLAPS proves.

`PROJECT.json` says which definition stands for which lines (`map`), what every run
checks (`runs`), which plausible bug each property would notice (`mutants`: operators
whose comment says so), where the code is exposed (`hazards`), where it disagrees with
its own documentation (`findings`), and what is proved (`theorems`).


## 1. The system

### How it runs

The studio is one process with one event loop.  An `async` endpoint runs on the loop and
keeps everything else on the loop waiting until it returns or awaits; plain endpoints and
`asyncio.to_thread` / `run_in_executor` calls run in a thread pool.  Three loops start with
the process: the Auto-Loader's daemon, the cron loop of the jobs and the alerts' scheduler;
each sleeps, looks for work and gives it to the pool.  APScheduler runs the scheduled
exports in threads of its own, a further thread reconciles governance tags, and the worker
has a thread that reaps idle kernels.  Notebook kernels are processes that open the
studio's databases themselves or call its gateway.  There is no shared lock discipline: SQLite gives
transactions, some modules hold a `threading.Lock`, the JSON stores hold nothing.  After a
crash the process starts again with empty memory and whatever the databases, files and
Delta tables say.

### Components

| Component | State | Operations | What makes it correct |
|---|---|---|---|
| Volume Auto-Loader (`autoloader.py`, `volumes.py`) | pipelines and the checkpoint of processed files (SQLite), the target Delta table, the volume's files | daemon cycle, cycle by hand, upload, delete, reset, pipeline update / delete / create | every complete file loaded, none marked loaded that is not, none loaded twice without cause |
| Jobs & Pipelines (`workflow.py`) | `jobs.json`, run rows (SQLite), cron memory, overlap guard | cron turn, run, run by hand, save, delete | dependencies respected, rows tell what happened, due jobs run, no overlap |
| Governance metadata (`governance/`) | `governance.db`, its version counter, four caches | definitions, tags, policies, filters, attributes, lookups, reconcile | a lookup answers with what the tables held during the call; deleted policies stay away |
| Sandbox kernels (`sandbox/worker.py`, `KernelSession` of `notebook_runner.py`) | the registry of kernels, one lock, process and channel per session | execute, restart, delete, reaper | one cell at a time, outputs belong to their cell, no stray processes |
| SQL alerts (`alerts.py`) | alerts and evaluations (SQLite), the guard, the pool | scheduler turn, check, check by hand, create, edit, switch, delete | checks do not pile up, the state catches up with the data, deletion is final |
| Model registry and serving (`serving.py`) | models, versions, aliases, endpoints (SQLite), reseeded defaults | register, promote, alias, delete, score | nothing outlives its model; a stage, an alias and an endpoint name the version somebody gave them |
| MLflow shim and experiments (`mlflow_shim.py`, `experiments.py`) | a process's stack of runs and of spans; experiments, runs, traces (SQLite) | start, log, end, autolog, edits in the studio, spans, feedback | a metric goes to the run of its block; no run stays open behind everybody's back; traces are trees |
| Lineage (`lineage.py`, `delta_lineage.py`) | nodes and edges (SQLite) | upserts of queries, pipelines and scans, deletions, walks | edges have ends; a pipeline's edge stays |
| Notebook files (`notebook_runner.py`, `workspace.py`) | `.ipynb` files | edit, add, delete, rename, execute a cell or all of them | outputs stand under their cell; edits are not lost |
| Dashboards (`dashboards.py` and its permissions, versions, shares) | four JSON files, a cache of query results | create, change, share, restore, delete, widget queries | the files agree; a result is shared only under equal masks |
| Ray pools (`ray_engine.py`) | lists of actors per warehouse | start, scale, delete, query, scan, stop | no actor is forgotten |
| Upload wizard (`app.py`, `mounts.py`) | uploaded files, tables, partitions | preview, commit | rows are in once |
| E-mail reports (`email_reports.py`) | settings and history, in a file and in a global each | settings, send, list | settings as asked, mails recorded |
| Webhooks (`slack_integration.py`, `webhook_alerts.py`) | a JSON file each, a history | add, change, remove, send with retries | ids tell webhooks apart; counts match |
| Scheduled exports (`scheduled_exports.py`) | a dictionary and its JSON file, APScheduler | schedule, run, edit, delete | the file and the jobs are what was asked for |
| SQL warehouses (`warehouses.py`) | `sql_warehouses.json` | create, update, start, stop, delete, choose | one default |
| Queries (`app.py`, `compute_worker.py`) | active queries in studio and worker, the history | execute, cancel | the history says what became of a statement |
| Catalogs and mounts (`warehouses.py`, `mounts.py`) | two JSON files, the databases attached to the session | register, remove, synchronise | the session has what the files say |
| dbt (`dbt_service.py`) | model files, `schema.yml`, the manifest, the history of runs | save, delete, tests, compile, run | the editor shows what the files hold |
| Incremental refresh, OneLake, query enforcement, authentication and administration, sandbox transport, catalog search, assistants, saved queries, front end | | | section 7 |

### How they interact

The daemon, the cron loop and the alerts all execute SQL on the same Delta tables, and the
Auto-Loader reads a volume that upload endpoints write in place.  A query is rewritten with
what the governance caches answer; the writers of those tables may be other processes (a
notebook kernel's gateway calls), which the version counter in `governance.db` is for.  A
dashboard's cache keys its results by a fingerprint of what governance decided.  An export
runs a dashboard's queries and sends a mail.  A query goes to its warehouse's worker, to the
warehouse's Ray pool, or to the studio's own session; before it does, the session is brought in
line with catalogs and mounts, and afterwards the statement's lineage is recorded, as the Auto-Loader's
is.  A notebook cell executed in the studio becomes a request to the worker, and what it logs
goes to the registry and the experiments.  Where such a contact matters to a property it is part of the
module (the pipelines' edges in `Lineage`, the exports' threads in `Dashboards` and `Mail`, the
kernels' processes in `Registry` and `Tracking`); otherwise the components
touch each other only through content no property is about, so each has a module of its own.

### What is hard about it

* work handed to a thread keeps what it read before (a job, an alert, a session, a
  notebook, a fingerprint) while endpoints change it;
* two stores that should agree are changed one after the other (Delta and checkpoint,
  registry and process, database and cache, dashboard and permissions);
* globals are replaced by every load of their file, under those who still use them;
* guards against overlap live in memory, beside rows that outlive a crash;
* a failing step of several is handled by a broad `except`, and often tried again elsewhere;
* files are truncated before they are written, and an unreadable file counts as the defaults.

`PROJECT.json` lists 40 such places, each at its line.


## 2. The modules

| Module | Models | Runs in |
|---|---|---|
| `IngestContract` | what an ingest pipeline promises: append, acknowledge what is appended, never append an acknowledged item, clear | through `Autoloader` |
| `Autoloader` | one pipeline of the Auto-Loader; implements `IngestContract` | `MCAutoloader` |
| `TaskOrder` | `topological_sort_tasks` as a function, and what a sort should be | through `Workflow` |
| `Workflow` | jobs, cron loop, runs | `MCWorkflow` |
| `Governance` | `governance.db`, its writers, the caches, reconcile | `MCGovernance` |
| `Kernels` | the worker's registry, sessions, reaper, kernel processes | `MCKernels` |
| `Alerts` | alerts, scheduler, pool, checks | `MCAlerts` |
| `Registry`, `Tracking`, `Lineage`, `Webhooks` | the registry and serving; runs and experiments; the lineage graph; the two webhook stores | `MCModels` |
| `Notebooks`, `Dashboards`, `Documents`, `RayPools`, `Ingestion`, `Mail` | notebook files; the cache of results; dashboards with permissions, versions and links; Ray pools; the upload wizard; e-mail reports | `MCStudio` (`Dashboards` also in `MCDashboards`) |
| `Exports`, `Warehouses`, `Queries`, `Tracing`, `Catalogs`, `DbtProject` | scheduled exports; the list of warehouses; execution and cancellation; spans and traces; catalogs, mounts and the session; the dbt project | `MCServices` |
| `Lists` | lists without some of their elements | through `Lineage` and `Webhooks` |
| `AutoloaderProofs`, `WorkflowProofs`, `GovernanceProofs`, `KernelsProofs`, `AlertsProofs`, `ModelsProofs`, `StudioProofs`, `ServicesProofs` | theorems | |

### Conventions

An action is what the code does between two points at which somebody else can act: an
`await`, a database transaction, taking or giving back a lock, a file operation another
thread can see.  `pc`, `stage`, `status`, `…At` or `…Step` is the place in the code, and the
other functions on a runner, a worker, a request or a thread are the local variables.  A
handler that runs on the event loop without awaiting is one action; one that blocks the loop
for long (running a pipeline, a job or an alert by hand) is a sequence of steps during which
no other handler acts, while threads go on.

Modules that are explored together share no state.  Their variables have a prefix each, and `part`, a variable of the MC
module, says whose turn a behaviour is: all the behaviours of each part are explored while
the other parts stay in an initial state, so the run checks each part as if it were alone, and the theorems
are about each part's own specification (`NotebookSpec`, `RaySpec`, …).

A JSON store is three things: whether its file is absent, whole or cut off (`…Text`),
what is in it, and the global it is loaded into.  Faults, user actions and retries are
bounded by a `Budget`, a function on the events of the module, or by `Max…` constants;
nothing else is bounded.  History variables are named as such where they are declared.  They
record what the code does not keep: what was asked for, what a fault may have cost.  Logs,
messages, durations and layouts are left out.

### Autoloader

`file`, `mtime` and `kind` are the volume; every write takes a fresh `stamp`, which stands
for both the modification time and the fingerprint (size, mtime, first 64 KB).  `rows`
is `autoloader_file_history`, `delta` the commits of the target table, and the functions
on `Runners` are the local variables of `run_pipeline_cycle` in the daemon's thread and in
a run by hand.  A cycle goes through `off → start → scan → sort → pick → stat → load →
checkpoint` for every file, with `move` (quarantine), `fail` and `audit` on the error
paths.  The fingerprint is taken twice, as in the code (`fhash`, then `fp`).  The
Delta commit and the checkpoint are two steps; a crash falls between any two steps.  The
empty commit with which merge mode evolves the schema is part of the merge's commit.
`epoch` counts clearings of the checkpoint and is a history variable.  Left out: a missing
source directory, lineage sync, the governance tag of the rescue policy, `last_error`.

A reset between the commit and the checkpoint is undone for the file at hand: it is recorded
after the reset and never loaded again, although the answer says that all files will be.

### Workflow

`jobs`, `torn` and `pending` are `jobs.json`: `save_jobs` truncates it first, so a reader in
a thread may find nothing and fall back on the defaults.  `last` keeps of time only
whether a cron tick has passed since the loop looked.  A run is a slot of `Runs`, its
row in `job_runs` is `row`.  What a task does is a choice between success and failure;
one of type `optimize` always fails, since the code uses a name it never imports.
`depends_on` is a set, since its order is never used.

### Governance

`db` holds the tables, `version` the counter every transaction increments.  A request is
what it reads before its transaction and then the transaction, with other sessions in
between; a foreign key may refuse it (deleting a tag definition with `force` fails if a row
policy names the tag).  `cver`, `cdata` and `lock` are the caches, checked against the
version without the lock and loaded under it, as in the code.  Policy ids are never used
twice.  Left out: values and inheritance of tags, priorities, mask types, audit rows, and
`rename_table`, which nothing calls.

### Kernels

`kernels` is `KERNELS`; a member of `Sessions` is a `SandboxKernel` object, and one that
nothing refers to stands for a new one.  `lock`, `kernel`, `status` and `fresh` are its
fields (`fresh`: `last_active` is recent enough for the reaper).  `cells` and `iopub`
are the process: what it still works on, and the messages it has sent.  The registry's
lock is held for single steps, the session's lock through a boot and through a cell.
`execute_code` lets it go between `start` and the cell, and `shutdown` waits for it, so a
session may be taken out of the registry, shut down and started again by
a request that still has it; such a kernel does not count towards `SANDBOX_MAX_KERNELS` and
is never reaped.  `raced` is a history variable: the sessions that were taken
out while a request had them.  `orphans` counts the processes that not even a session refers to: one
that was started and not ready in time, and one whose `shutdown_kernel` raised, which the code
swallows.  Boots and shutdowns that fail like that spend a "fault".

### Alerts

`def`, `on`, `state` and `seen` are an alert's row, `kept` its evaluation rows,
`running` is `_running_alert_checks`, `of`, `by`, `mine`, `found` and `stage` the checks
in the pool's threads and on the loop.  The condition is modelled with its mixture of
numeric and textual comparison.  `created` is a history variable: alerts whose first check
(which `create_alert` starts outside the guard) has come back.  One evaluation row that is
kept (`Keep = 1`) stands for the code's hundred.

### Registry, Tracking, Lineage, Webhooks

* `Registry`: the tables of models, versions, aliases and endpoints, and a call as a sequence of
  SQLite steps (`pc`), since every kernel and every worker opens the database itself.
  `Mix` chooses the calls of an instance.  `resolve_model_and_version` is followed read by read.
* `Tracking`: the shim's stack of active runs, current experiment and depth of
  autologged fits, one of each per process, which the process's threads share; `_call_api` in both ways,
  with its failures.  Setting an experiment whose name belongs to a deleted one makes the Default one current.
  `mlflow_create_run` is three transactions: it looks at the experiment, inserts the run and reads it again.  A run
  deleted before it is read makes `start_run` raise, and a reading that raises makes `_call_api` create a second run
  by HTTP; the first one stays RUNNING, and nobody has it.  A `KeyboardInterrupt` inside a fit is left out.
* `Lineage`: a job (a query's lineage, a pipeline's sync, a scan, a kernel's sync) is the
  sequence `lnTodo` of upserts it has still to make, each a transaction, in sections that
  swallow their first error.  A pipeline's deletion counts what else feeds the volume and
  removes in a second transaction.  A scan forgets the edges of past queries and of the
  Auto-Loader; two pipelines of one place share an edge; a dbt ref may have no node.
* `Webhooks`: the defaults are copied shallowly, so a webhook that could not be saved stays
  in the process, and ids, which are made of the time in seconds and the number of webhooks, repeat
  within a second after a removal.  A send is a sequence of calls, an entry of the history after each that
  was answered, and the save of its count; the event loop does nothing else meanwhile, but the process may die
  between any two of these steps.  Three refused calls leave four entries in the history.

### Notebooks, Dashboards, Documents, RayPools, Ingestion, Mail

* `Notebooks`: every call reads a whole file and writes it back; the editor on the loop, an
  execution in a thread around a cell of unknown length.  A cell is its number and the
  number its output came from.
* `Dashboards`: lookup, expiry, query, eviction and store of the cached results, by the loop and
  by exporting threads, without a lock.  What governance decides is a `rule`.
* `Documents`: the four files, each request one step, and a save that is cut off or a crash
  between two saves.  A transfer of ownership does not change the author whom the dashboard's own record
  names: the request answers success and never takes effect there, and `RecordsFollowDashboards` (the owner
  in the permissions is the author) holds partly because of that.  Restoring a version of a deleted dashboard answers
  success and does nothing; dashboards made from templates get no permissions; links and versions survive a deletion.
* `RayPools`: the list in a scaling's hands and the dictionary it is put back into.  Two first scalings of
  a warehouse at once leave one list stranded; the deletion scales to 0 before it refuses the default warehouse.
* `Ingestion`: preview, and the commit in the steps its table's home needs; a step may fail and
  the commit be tried again.  Overwriting drops before it inserts.  `CREATE TABLE IF NOT EXISTS` does nothing when
  another table has the name of a partition, and the default partition is made in the same way: such an overwrite
  may be answered with success although the table has no catch-all (`mounts.py:1049` says "Always").
* `Mail`: globals replaced by every load, that of the history by its listing too.  Reading the file and binding the
  global are two steps; a list that is being saved may be the global itself or the one that was bound before.
  A save that overlaps an export's load can store the defaults, and success is answered; a thread whose mail the
  loop's listing drops between append and save saves a history without it.

### Exports, Warehouses, Queries, Tracing, Catalogs, DbtProject

* `Exports`: the dictionary `exMem`, the file, the scheduler's jobs, and per actor the step
  of its load or save.  `exClash` remembers that two were in there at once, `exLost` that somebody has loaded
  what a failing write had left: that error is swallowed, and success is answered.
* `Warehouses`: the list as a set; a save may be cut off, and the defaults take its place.
  Auto-stop, which the repository's README promises, is not implemented.
* `Queries`: the worker under each of its addresses, Ray, the studio's engine; the worker's
  requests go on when the studio gives them up.  A statement on a Delta table runs on the connection all
  such statements of a process share, so a cancellation may interrupt another's; a cancellation that
  is accepted does not keep the next place from being tried.
* `Tracing`: a thread's one context, which its tasks' blocks enter and leave in any order,
  and traces stored in their process or by a request; storing twice loses the feedback.
* `Catalogs`: the two files, and the synchronisation statement by statement.  A sync that meets a
  truncated `catalogs.json` detaches a catalog, and it is attached again only after a restart;
  SQLite mounts are never attached (`existing_dbs` is undefined), S3 mounts every time.
* `DbtProject`: model files, schema files, the manifest and the history, with dbt running in
  threads.  A failing write of `schema.yml` is taken to lose the layer's tests; one of the history leaves it cut
  (`btCut`) and is only logged.  The loop's load of the history is three steps, and puts what the file has in the
  place of a list that a job's thread has put its run into meanwhile.


## 3. What is checked

All runs finish within five minutes with two workers.

| Run | Instance | Properties |
|---|---|---|
| `autoloader_faults` | two files, one runner, one crash, one failing transaction, one reset, four writes | `SuccessMeansCommitted`, `HistoryKept`, `ImplementsContract` |
| `autoloader_shared` | one file that may be corrupt, two runners, a run by hand, an update, a removal, the pipeline deleted and created again | `NeverReloadKnown` |
| `autoloader_live` | one file, a crash, failing writes and transactions, a removal | `EventuallyLoaded`, `CycleEnds` |
| `workflow` | one job, two runs, lists with a chain and with an unknown dependency, one of each event | `TasksRespectDag`, `CronRunsDontOverlap`, `RowsKept`, `DueIsRun` |
| `governance` | a tag key, an object, a mask, two loops, a background thread, two readers of one cache | `AnswersAreCurrent`, `DeletedStaysDeleted`, `TagsComeBack` |
| `kernels` | two requests, one id, two sessions, a timeout, a print, a fault, a race | `RunsAreExclusive`, `OwnOutputs`, `StraysExplained`, `RunsUndisturbed`, `RequestsEnd` |
| `alerts` | one alert, three threads, a crash and a refused write, changing data | `ScheduledOverlap`, `DeletedStaysDeleted`, `StateCatchesUp` |
| `models` | two clients and four calls on one model; two threads in one process or two, three runs; three writers of lineage and two jobs; two stores and four operations | `RegistryKept`, `VersionsKeepTheirRun`, `RunsAreAccountedFor`, `BlocksKept`, `GraphExplained`, `HooksKept` |
| `studio` | two notebooks, two executing threads, two edits; a cache of one entry, the loop and an exporting thread; two dashboards, two users; a warehouse with two query threads and the loop; two files and three kinds of table; the loop and an exporting thread that mails | `OutputsStayWithTheirCell`, `EditsAccountedFor`, `CacheKept`, `RecordsFollowDashboards`, `PoolsKept`, `IngestsExplained`, `MailKept` |
| `services` | two schedules, two exporting threads; four operations on warehouses; two statements, two addresses, Ray; two tasks of one thread, three spans; two names, two users of the session; two models of one layer | `SchedulesAsAsked`, `OneDefault`, `StatementsExplained`, `TracesKept`, `SyncRepairs`, `DbtKept` |

What the less obvious properties say:

* `HistoryKept`: a file is loaded twice only if a crash, a failing transaction or a run by hand
  paid for it, and the pipeline's counter is the number of its checkpoints.
  `ImplementsContract` is the same from outside: without runs by hand the loader is an
  at-least-once writer that never repeats what it acknowledged.
* `RowsKept`: the row of a run sums its tasks up, and, barring crashes, a row that says RUNNING
  for ever is the database's refusal, never an error path of the run.
* `AnswersAreCurrent`: the caches are linearizable with respect to the tables: an answer is
  what the tables held at some moment of the call.  The label of an entry is read before the
  lock and the data after it, so an entry may be newer than its label but never older.
* `ScheduledOverlap`: the exact amount of overlap that the unguarded first check allows: two, and never three.
* `StraysExplained`: there are two ways to a kernel that runs outside the registry for good: a request that
  found its session before it was taken out, and a boot or a shutdown that fails and loses its process.  The model
  bounds the second by the failures; the code has no bound, since every execution of the cell tries again.
* `RegistryKept`: nothing outlives its model, a promotion that archives leaves one Production
  version and the endpoint on it, and a score is explained by moments within its call.
* Properties named `…Explained`, `…Kept` or `…AccountedFor` say what the code loses and when, since
  most stores here lose something: whatever goes wrong is the work of the named race or fault, and
  without it nothing does.  Their excuses are history variables that only that race or fault sets.
* `SyncRepairs`: a synchronisation that nothing interferes with repairs whatever came before it.
* `PoolsKept`: an actor that runs is in its warehouse's list or will be, unless two first
  scalings stranded a list; what runs for a deleted warehouse was started after the deletion counted.

TLC evaluates six statements about functions before a run: `SortIsTopological` compares the
sort with its definition on all 110592 lists of three tasks; `ConditionsAreExclusive` says
that complementary conditions never agree; `WalksAreRight` and `ShownWithEnds` compare the
walks over the lineage graph with paths, on every graph of three nodes; `SlicesPartition`
says that the slices of a distributed scan share no file and leave none out; `SlicesAreMonths`
compares the loop over months that makes RANGE partitions with the months there are.  Section 4
has the sort, the walks and the slices for every input.

### Findings

Two runs end in a counterexample; each checks one sentence of the documentation or the code.

* `autoloader_exactly_once`: the README's "exactly-once" does not survive a crash between
  the Delta commit and the checkpoint.
* `dashboards_masks`: results are said to be shared only between equal masks, but the
  expression of a custom mask is not part of the fingerprint.

Other disagreements met on the way are described with their modules in section 2.

### Bounds

The instances have the smallest sets in which two actors can meet over one thing: two runners over one
file, two runs of one job, two readers of one cache, two requests and the reaper over one
session, three threads over one alert (the first check, a scheduled one and one
more, which is what the three-way overlap would need), two clients over one model, two threads over one stack
of runs or spans, two executions and the editor over one notebook, the loop and a thread over each
JSON file that a thread uses.  Every kind of fault happens at most
once per behaviour but falls anywhere, which is enough to separate any two steps of a
protocol.  `Governance` allows three requests or other events (`MaxSteps`) and two lookups
(`MaxCalls`): a lookup that loads, a commit in between, and a lookup that finds the cache; it has
no row policy, whose operations are those of a mask.
`Studio` allows two changes of the mail settings (`MaxSettings`), so that both of them can be set and a mail is sent at
all; `Services` allows one fault, a failing write or a restart, in the exports and one in the dbt project.
Four writes (`MaxWrites`) let a file be replaced while it is
fingerprinted, read and recorded.  Caches, histories and lists that the code cuts at 50, 100 or 1000
entries are cut at one or two, so that the cut happens.  The calls of `MCModels` (`MostCalls`) are those about one
model, with versions chosen so that promotions, archiving and deletion meet.  Symmetry is over threads, clients,
processes, paths and other values that nothing tells apart.

### Fairness

* Threads run: a step of a started cycle, run, check, lookup or request is taken in the end
  (`WF`), since nothing in the model can hold a thread for ever but a lock or the loop.
* The daemon, the cron loop, the scheduler and the reconcile loop come round: `while True`
  with a sleep, and an `except` around the turn.
* `SF` for what waits for the event loop or a lock others take again and again
  (`SchedulerTurn`, `Discard`, `Works`): asyncio serves ready callbacks in order, and a
  waiting thread gets a `threading.Lock` that is let go again and again.
* Uploads are closed, cells end.  The last one is an assumption about users' code: the
  timeout of a cell is per message, so a cell that prints for ever holds the session's
  lock, and `RequestsEnd` does not hold without it.
* No user action, fault or crash is fair.  The combined runs check no liveness.

`CHECK_DEADLOCK FALSE` stands where the system may really come to rest in the instance:
with the budget spent and the bounded number of writes, runs or calls used up there
is nothing left to do.


## 4. What is proved

For every value of the constants, by TLAPS:

| Module | Theorem | States |
|---|---|---|
| `AutoloaderProofs` | `TypeCorrect` | `TypeOK` |
| | `NoEmptyCheckpoint` | `SuccessMeansCommitted` |
| | `KnownIsNotReloaded` | `NeverReloadKnown` |
| | `LoaderKeepsContract` | without runs by hand, `ImplementsContract` |
| | `FaultsBoundRepeats` | without runs by hand, each repeated or unacknowledged commit has a fault of its own |
| | `HistoryIsKept` | without runs by hand and recreation, `HistoryKept` |
| `WorkflowProofs` | `TypeCorrect` | `TypeOK` |
| | `CronNeverOverlaps` | `CronRunsDontOverlap` |
| | `RowsAreKept` | `RowsKept` |
| | `SortIsCorrect` | `SortsWell(tasks)` for every finite task list |
| | `TasksRespectTheDag` | `TasksRespectDag` |
| `GovernanceProofs` | `LookupsAreCurrent` | `AnswersAreCurrent` |
| | `TablesAreSound` | the tables' type and foreign keys |
| | `DeletedPoliciesStay` | `DeletedStaysDeleted` |
| `KernelsProofs` | `TypeCorrect` | `TypeOK` |
| | `OneCellAtATime` | `RunsAreExclusive` |
| | `NoOtherStrays` | `StraysExplained` |
| | `CellsAreUndisturbed` | `RunsUndisturbed` |
| | `OutputsAreOwn` | `OwnOutputs` |
| `AlertsProofs` | `TypeCorrect` | `TypeOK` |
| | `ChecksDontPileUp` | `ScheduledOverlap` |
| | `DeletedAlertsStay` | `DeletedStaysDeleted` |
| `ModelsProofs` | `RegistryTypeCorrect` | `Registry`'s `TypeOK` |
| | `RegistryIsKept` | `RegistryKept` |
| | `VersionsAreNotOverwritten` | `VersionsKeepTheirRun` |
| | `TrackingTypeCorrect` | `TrackingTypeOK` |
| | `RunsAccounted` | `RunsAreAccountedFor` |
| | `BlocksAreKept` | `BlocksKept` |
| | `HooksAreKept` | `HooksKept` |
| | `GraphIsExplained` | `GraphExplained` |
| | `WalksFindPaths` | `Impact` and `Near` find what paths lead to, for every graph |
| `StudioProofs` | `OutputsStay` | `OutputsStayWithTheirCell` |
| | `EditsStay` | `EditsAccountedFor` |
| | `CacheIsKept` | `CacheKept` |
| | `PoolsAreKept` | `PoolsKept` |
| | `MailIsKept` | `MailKept` |
| | `RecordsFollow` | `RecordsFollowDashboards` |
| | `IngestsAreExplained` | `IngestsExplained` |
| | `FilesAreShared` | `Slice` shares a scan's files among the workers, for all numbers of them |
| | `MonthsAreSliced` | `Slices` makes the months of `MonthlySlices`, for all dates and caps |
| `ServicesProofs` | `DefaultIsUnique` | `OneDefault` |
| | `ExportsAsAsked` | `SchedulesAsAsked` |
| | `StatementsAreExplained` | `StatementsExplained` |
| | `TracesAreKept` | `TracesKept` |
| | `DbtIsKept` | `DbtKept` |
| | `RepairsHold` | `SyncRepairs` |

### From which assumptions

The proofs assume what the modules' `ASSUME`s say (finite sets, distinct model values, natural
bounds, an event loop that is none of the threads; for the lineage graph also that the lists and the statements a scan reads are
finite and that a volume's id, which begins with `volume:`, is no table's), which TLC evaluates in every run that uses the module.
Each theorem is about the specification of its own part, and holds for any number of threads, users, files,
requests, faults and restarts.  Three theorems about the Auto-Loader assume more, in their
statements: `Budget["manual"] = 0`, since a run by hand beside the daemon repeats commits without any
fault, and for `HistoryIsKept` also `Budget["recreate"] = 0`, since a pipeline that is deleted
and created again under the feet of a cycle gets a counter that starts behind the history.  The run with such
events, `autoloader_shared`, checks `NeverReloadKnown` only.

### Along which arguments

Every safety property is strengthened to an inductive invariant, which TLC checked on a small
instance before it was proved.  What each of them adds:

**Auto-Loader.** `TypeInv` adds to `TypeOK` that a runner at work on a file has that file
and its fingerprints at hand, and that stamps in use have been given.  `CommitInv`: a runner at
`checkpoint` has committed the fingerprint it is about to record.  `KnownInv`: what a runner's copy of
the checkpoint holds cannot be the fingerprint it is about to load.
`LoaderInv` is for the refinement.  The step to justify is the Delta commit: its fingerprint must not be
acknowledged, although the cycle checked another one, some steps ago, against a copy of the
acknowledged ones.  It is safe because files have different stamps, because the copy
misses at most what this cycle acknowledged itself, and because each file is taken once.
`BooksInv` counts: commits that repeat another and commits that nobody acknowledged are together at most
as many as the faults so far, less the commit that is about to be acknowledged.  `CounterInv` says by how much
the counter may be ahead of the history within a cycle.

**Workflow.** `CronInv`: a run of the cron loop that is not over has its job in `_running_jobs`, whatever
becomes of the job; so the loop does not start another.  `RowInv` ties a row to the
place of its run.  The stale rows are counted: each that is added takes a database failure of its own.
`PlanInv` says that the tasks of a run, recorded and to come, are the sorted tasks of one saved list, and that
a task is skipped just when something it depends on failed or was skipped before it.

**The sort.** `TaskOrder` writes Kahn's loops as recursive functions.  The library's induction theorems
cannot be used here (their parameter is an operator), but the well-founded order of the naturals can:
`SetInduction` (a set that holds 0 and is closed under successor is `Nat`) and `Recursion` (the function a
recursion describes exists) are proved from it and carry the rest.  `Apart`: an id that was queued has no dependencies left to count,
so it is not queued twice, whatever the list looks like.  `Sound`, for unique ids: in-degrees count the dependencies that
are not sorted yet, an id with none has been queued, and what is sorted comes after its dependencies.
If a ranking exists and the queue is empty, an unsorted id of least rank would have been queued; conversely an order of
full length has every id once, and its positions are a ranking.

**Governance.** The proofs do not use the locks.  Every commit brings a new version, a call reads the version before
the tables, and it labels what it read with that version.  `CurrentInv` says that a cache with
the present label holds what the tables hold, that a call may only answer with what was shown while it
ran (`since`), and that what one call is about to store may be the answer of another
of the same version.  `TablesInv` is the type and the foreign keys; a transaction that read before
another's commit either finds its rows or changes nothing, which is also why an update cannot bring a policy back.

**Kernels.** `LockInv`: who boots a kernel or runs a cell has the session's lock, and who
runs one has set it to busy; since `shutdown` and `start` wait for that lock, cells are exclusive and
undisturbed.  `OutsideInv`: a session that was taken out of the registry while no request had it is
only in the hands of whoever took it out, so nobody can start it again; `StraysExplained` is not
inductive without that.  `BootInv`: a session whose kernel boots has no live one, or the boot would lose a
process without any failure.  All of them need `MyInv` (a request has a session from its first step to
its answer).  `MarksInv`: messages of a cell carry its mark, and no two cells of a process have the same.

**Alerts.** `GuardInv` counts: an alert in the guard is worth one scheduled check, and
the first check of an alert, which takes the alert out of the guard when it comes back, one more.
`CreationInv` says that there is one first check in an alert's life, and
`PoolInv` that the pool's threads never run checks by hand, so that only their ends change
the guard.  A deleted alert stays deleted because what a check writes back goes to rows that still exist.

**Registry.** `RegistryInv` consists of the type, `OpsInv` (where a call is, and what it holds
by then), `RowsHaveModel`, `ProductionIsServed` (the state between the two transactions of a promotion
belongs to the call that is between them) and `SeenInv` (what a scoring call has read was designated during the call).

**Tracking.** `TrackingInv` adds which calls a thread has still to make and in which order, that a process
has at most one fit under way that autologging marks, that a run the database holds as RUNNING
is on a stack, in a call's hands or lost (`RunningInv`; a creation has its run in hand from the insertion to the push), and where on its process's
stack the blocks of a thread stand that nobody comes between (`BlocksInv`).

**Webhooks.** `WebhookInv`: while a store loses no webhook in a second, what it holds of that second was made
when the list was shorter (`FreshIds`), so a repeated id names a second of a removal.  A removal keeps a part of a
list, and `Lists!Sublist`, which numbers the kept places, has to be known as a function that grows: `Rank` counts
the kept places up to a place, `RankStep`, `RankGrows` and `RankExists` show that it takes every value once, and
`SublistFacts` is what follows for any list.  `SendInv` and `CountInv` follow a send: its webhook is still there, no call
of it has got through before the last, and the count is behind by that one until it is saved.

**Lineage.** `LineageInv` looks at what is still to be written: in each section of each job, the ends of an edge are put
before it, or have been put by the job, or the edge is a dbt ref (`Supported`).  So when an edge arrives whose node is
missing, the node was removed in between, and the edge is loose.  A step takes the first write of a section, whose node
is put from then on, and a failure takes the rest of the section, so `Supported` is kept by both.  That the sections of a query, a scan or a sync have this form
(`FeedsSound`, `TaskSound`, `ScanSound`, ...) needs what `FlattenSeq` returns on a list of any length, whose recursion is
handled like the sort's, by its partial results (`Partials`, `Listing`).

**Walks and slices.** The walks are recursive functions over levels (`Iterates` shows that they exist).  Impact analysis
has no limit and skips what it has found: a level that is not empty has found something new, and there are no more targets
than edges, so the last level is empty and what was found is closed under edges.  Table lineage takes each level whole, so a level is
what paths of its length lead to.  A slice is long enough for the workers to have them all (`SliceSizeIsEnough`), and
the number of a month grows by one with `NextMonth`, across year ends too.

**Upload wizard.** `IngestInv` says at which step of a commit the table is whole, and that an upload that can still be
committed has come to the tables at most as often as its commits ended in an error after that (`LandingsBound`, a count over a finite set);
the request at hand has landed once more only between the rows and its answer.

**Notebooks.** `NotebookInv`: a copy of a notebook, in a file or in a thread, is a sequence of cells each
of which holds its own output or none; what the editor holds contains the edits that were
answered before it began, or an execution has written over them.

**Dashboards.** An entry carries the fingerprint of the rule it was computed under.  Only callers between the check
of the size and the store can exceed the limit, and at most one of them is not an exporting thread.

**Documents.** An author never changes, because an id is drawn once and the versions that can be restored name the
author the dashboard has; the permissions follow the list in the same request.  Once a file that matters was
cut off or a request ended between two saves (`Spoiled`), nothing is claimed, and nothing can be.

**Ray pools.** `RayInv` adds where a request may be (`RequestInv`), that a list of actors belongs to one
warehouse and to one scaling at a time unless two first scalings met (`ListsInv`), that requests of the
loop and of the threads touch different lists (`ApartInv`), where an actor that runs is
accounted for (`WorkersAccountedFor`), and how many can come after a deletion (`CountInv`, a count over finite sets).

**E-mail reports.** Senders whose recordings overlap are excused, both of them, and those a listing overlaps; so whoever
writes holds a list, the global or an older one, with its own mail and all the mails that were recorded before, but for
the excused ones.

**Warehouses and exports.** A list that is loaded has one default, since every operation that moves the mark moves it
within one save, and the defaults that replace a broken file have one.  `ExportInv` says what an export's actor holds between load
and save as long as nobody else came in and nobody has loaded a cut file: the dictionary is the file, or the file with the actor's own change.

**Queries.** `PlacesInv`: the requests a run has sent to the worker are a set as large as the number
it gave up, and at most the one whose answer it waits for or has taken.  So a change made outside that
one, or outside the studio's own engine when no answer was taken, is counted among those given up.
`AskedInv`: whatever is interrupted, flagged or answered with "cancelled" belongs to a run that was
cancelled, or shares the connection with one.

**Traces.** `StacksInv`: the spans on a thread's stack are distinct spans of the trace the thread has, the
root at the bottom, and those that have ended ended below others, so a parent taken from the top belongs to the same
trace.  `BlocksOpen` keeps a block that began a trace from outliving it.  `RowsInv`: what is to be stored is the whole
of a closed trace, and unless its storing was repeated only one caller can still store it, which is why it is neither
stored, deleted nor rated before.

**dbt.** `ManifestInv`: whoever runs dbt and has not read old files has read what the files hold now, since every
request that changes one makes the readings of the others old.  `SchemaInv`: an entry without a model's
file is one a test was asked for, or belongs to the deletion that is under way.  `HistoryInv` follows a recorded run
from the list through the copy to the file, as long as nobody else is recording or puts another list in its place.

**Catalogs.** `Repaired` says of each stage of an undisturbed synchronisation what it has put right so far: first the
session has no name that is not a catalog, then every catalog is attached or was lost before, then nothing else
but enabled mounts is, and the mounts it has gone through are served.  It needs that meanwhile every other caller
has yet to touch a file or a database (`CalmInv`), and that a file is cut only while its writer is at work (`CutInv`).


## 5. What is only model-checked

* Liveness (`EventuallyLoaded`, `CycleEnds`, `DueIsRun`, `TagsComeBack`, `RequestsEnd`, `StateCatchesUp`)
  rests on fairness and on `ENABLED`, which the prover does not handle.
* The `ASSUME`s that only TLC evaluates are about finite data of the instances: conditions of alerts that exclude each other, and
  that no edge is shown without its ends.

Every other property of the passing runs is stated by a theorem: all invariants, the action properties and the
refinement; `HistoryKept` and the refinement for the budgets section 4 names.  So are the recursive algorithms that TLC compares with their
references on small inputs: the sort, the walks and the slices.


## 6. Plan

The model is complete as far as section 7 does not exclude a part, and every invariant it checks is proved.  What is left
is the Auto-Loader's history with runs by hand, for which a bound that counts them would have to be found first; the run
with runs by hand checks `NeverReloadKnown` and nothing about the history.


## 7. What is not modelled

* **Query enforcement** (`governance/enforce.py`): what it computes depends on a SQL parser's
  trees, which a model of this size cannot hold.  Its lookups are those of `Governance`, the fingerprint it
  hands to the cache is the `rule` of `Dashboards`.
* **Incremental refresh**: `execute_incremental_query`, which advances watermarks, is never called.
* **Assistants and SQL functions**: prompts and the formatting of answers.
* **OneLake**: reads of remote storage; no state of its own.
* **Studio process**: the endpoints a model needs are part of its module; the rest forwards.
* **Authentication and administration**: single statements on SQLite tables or a file.  Two things stand out
  in reading: `update_user` lets the primary administrator be deactivated or demoted, which
  `delete_user` refuses for deletion; and an administrator's deactivation of an LDAP account is undone by its
  next login or synchronisation.
* **Sandbox transport**: HTTP calls, signed tokens, the start of a kernel's process; requests of `Kernels` stand
  for the calls.
* **Catalog search, profiling, time travel**: reads; a restore is one Delta commit.
* **Saved queries**: one file, written through a temporary one, each operation one step of the loop.
* **Front end**: one page and its vendored assets.

Of the modelled parts, `PROJECT.json` says in each `note` what is left out.  In dbt that
includes custom SQL tests, which always fail: `add_dbt_test` uses `re` and `time` without importing them.
